----------------------- MODULE CollectionQueueRefinement ----------------------
(***************************************************************************)
(* CollectionQueue with one process implements UniqueQueue: the job of a   *)
(* dedupe key is its pending or claimed row of queue_jobs, and a batch     *)
(* item is where its row is.                                               *)
(***************************************************************************)
EXTENDS CollectionQueue

ActiveJobs(s) == {j \in JobId : jobs[j].key = s /\ jobs[j].status \in ActiveStatus}

SlotOf(s) ==
  IF ActiveJobs(s) = {}
  THEN [phase |-> "idle", tries |-> 0]
  ELSE LET rec == jobs[CHOOSE j \in ActiveJobs(s) : TRUE]
       IN  [phase |-> IF rec.status = "PENDING" THEN "queued" ELSE "running",
            tries |-> rec.attempts]

InboxOf(r) == CASE items[r].status = "NONE"      -> "unseen"
                [] items[r].status = "PENDING"   -> "pending"
                [] items[r].status = "CLAIMED"   -> "reserved"
                [] items[r].status = "COMPLETED" -> "done"

Promise == INSTANCE UniqueQueue
             WITH Key <- Schedule, BuildKey <- Build,
                  slot <- [s \in Schedule |-> SlotOf(s)],
                  inbox <- [r \in Row |-> InboxOf(r)]

\* The queue tables of one process behave as the unique queue: one job per
\* dedupe key with bounded attempts, rows reserved only while the build runs
\* and never left reserved when it ends, every job eventually begun and ended.
ImplementsUniqueQueue == Promise!FairSpec
==============================================================================
