----------------------------- MODULE UniqueQueue -----------------------------
(***************************************************************************)
(* What one scheduler process promises of the collection queue, without    *)
(* the queue tables: every dedupe key has at most one job, which is run at *)
(* most MaxAttempts times, and a row registered for the clue build is      *)
(* reserved only while the build runs and handed back or completed before  *)
(* the build ends.  CollectionQueue implements this specification when a   *)
(* single process runs and no statement of a job raises; when it is not    *)
(* killed either, with its fairness (see CollectionQueueRefinement).       *)
(***************************************************************************)
EXTENDS Naturals

CONSTANTS Key,         \* the dedupe keys
          BuildKey,    \* the key of the clue build
          Row,         \* rows to build clues from
          MaxAttempts

VARIABLES slot,  \* the job of each key: its phase and the attempts made
          inbox  \* where each row is

vars == <<slot, inbox>>

Idle == [phase |-> "idle", tries |-> 0]

Init == /\ slot = [k \in Key |-> Idle]
        /\ inbox = [r \in Row |-> "unseen"]

Reserved == {r \in Row : inbox[r] = "reserved"}

Enqueue(k) == /\ slot[k] = Idle
              /\ slot' = [slot EXCEPT ![k].phase = "queued"]
              /\ UNCHANGED inbox

\* An attempt starts.
Begin(k) == /\ slot[k].phase = "queued"
            /\ slot[k].tries < MaxAttempts
            /\ slot' = [slot EXCEPT ![k] = [phase |-> "running", tries |-> @.tries + 1]]
            /\ UNCHANGED inbox

\* An attempt ends: the job is over, or is queued again if attempts are left.
\* The build never ends with rows reserved.
End(k) == /\ slot[k].phase = "running"
          /\ k = BuildKey => Reserved = {}
          /\ \/ slot' = [slot EXCEPT ![k] = Idle]
             \/ /\ slot[k].tries < MaxAttempts
                /\ slot' = [slot EXCEPT ![k].phase = "queued"]
          /\ UNCHANGED inbox

Move(r, from, to) == /\ inbox[r] = from
                     /\ inbox' = [inbox EXCEPT ![r] = to]
                     /\ UNCHANGED slot

\* Rows are registered by a running collection, and taken, completed and
\* released by a running build.
Register(r) == Move(r, "unseen", "pending") /\ \E k \in Key \ {BuildKey} : slot[k].phase = "running"
BuildRow(r) == /\ slot[BuildKey].phase = "running"
               /\ \/ Move(r, "pending", "reserved")
                  \/ Move(r, "reserved", "done")
                  \/ Move(r, "reserved", "pending")

Next == \/ \E k \in Key : Enqueue(k) \/ Begin(k) \/ End(k)
        \/ \E r \in Row : Register(r) \/ BuildRow(r)

\* A queued job is eventually begun, a running one eventually ends.
Fairness == \A k \in Key : WF_vars(Begin(k)) /\ WF_vars(End(k))

Spec     == Init /\ [][Next]_vars
FairSpec == Spec /\ Fairness
==============================================================================
