--------------------------- MODULE CollectionQueue ---------------------------
(***************************************************************************)
(* The collection queue: CollectionQueueScheduler (scheduling/cron_queue)  *)
(* over the queue tables of SQLBackend (storage/sql_backend).              *)
(*                                                                         *)
(* Each process p \in Proc is one run of scripts/run_collection_scheduler: *)
(* it synchronises the schedule definitions, then repeats cycles of one    *)
(* tick and one run_workers pass.  A process is sequential; its "workers"  *)
(* are names used one after the other.  Several processes may share the    *)
(* SQLite file.  The backend commits every statement on its own, so one    *)
(* step of this module is at most one SQL statement that another process   *)
(* can observe: a SELECT and the UPSERT that acts on it are two steps.     *)
(*                                                                         *)
(* Time is abstracted to the two comparisons the code makes: a schedule is *)
(* "due" or "waiting" (next_run_at <= now), and a pending job is ready or  *)
(* not (available_at <= now).  The lease columns are written and never     *)
(* read by the code, so they are left out.                                 *)
(***************************************************************************)
EXTENDS Integers, FiniteSets

CONSTANTS
  Proc,             \* scheduler processes sharing the database
  JobId,            \* queue_jobs keys (uuid4): a pool, see Fresh
  Row,              \* hash_ids of the raw rows the collectors can store
  Collector,        \* schedules whose task is a collection subprocess
  Build,            \* the schedule (and dedupe key) of the clue build
  Priority,         \* [Schedule -> Int], the claim order
  MaxAttempts,      \* scheduler.max_attempts
  ClaimLimit,       \* scheduler.claim_limit_per_worker
  Workers,          \* scheduler.worker_count
  MaxRounds,        \* scheduler.max_claim_rounds
  BatchLimit,       \* scheduler.clue_batch_limit
  StartImmediately, \* scheduler.start_immediately
  Faults            \* which of "runner", "build", "db", "crash" may happen

Schedule == Collector \cup {Build}

\* The identifiers that stand for "no value" in a column or a local variable.
NoJob == "no job"
NoRow == "no row"

ASSUME ParamsAssumption ==
  /\ Build \notin Collector
  /\ Priority \in [Schedule -> Int]
  /\ MaxAttempts \in Nat \ {0}
  /\ ClaimLimit \in Nat \ {0}
  /\ Workers \in Nat \ {0}
  /\ MaxRounds \in Nat \ {0}
  /\ BatchLimit \in Nat \ {0}
  /\ StartImmediately \in BOOLEAN
  /\ Faults \subseteq {"runner", "build", "db", "crash"}
  /\ NoJob \notin JobId
  /\ NoRow \notin Row

VARIABLES
  \* the database
  sched,     \* scheduled_jobs: next_run_at of each schedule, if the row exists
  jobs,      \* queue_jobs
  history,   \* task_runs: the status saved for each job
  raw,       \* raw rows stored by the collection subprocesses
  items,     \* clue_batch_items
  clued,     \* rows whose clues were saved by a clue build
  \* the processes
  pc,        \* what each process does next
  agenda,    \* schedules left to synchronise or to tick
  focus,     \* the schedule being handled
  readSched, \* the schedule row last read
  pass,      \* loop counters of run_workers
  cand,      \* payloads selected by claim_queue_jobs, not yet written
  claimed,   \* jobs claimed, not yet executed
  job,       \* the job being executed
  readJob,   \* the job row last read by complete or fail
  before,    \* raw rows seen before the subprocess ran
  batch,     \* rows reserved by the clue build being executed
  rest,      \* rows left in the loop being executed
  row,       \* the row about to be written
  added      \* whether this collection added a batch item

dbVars   == <<sched, jobs, history, raw, items, clued>>
planVars == <<agenda, focus, readSched>>
passVars == <<pass, cand, claimed>>
execVars == <<job, readJob, before, batch, rest, row, added>>
vars     == <<dbVars, pc, planVars, passVars, execVars>>

------------------------------------------------------------------------------
(* Types.                                                                  *)

ActiveStatus   == {"PENDING", "CLAIMED"}
TerminalStatus == {"SUCCEEDED", "FAILED"}

\* A row of queue_jobs; "NONE" is an id not in use.
JobRec == [status   : ActiveStatus \cup TerminalStatus \cup {"NONE"},
           key      : Schedule,
           attempts : 0..MaxAttempts,
           ready    : BOOLEAN]

\* A row of clue_batch_items; "NONE" is a row that is not registered.
ItemRec == [status : {"NONE", "PENDING", "CLAIMED", "COMPLETED"},
            by     : JobId \cup {NoJob}]

\* A payload held in memory between the SELECT and the UPSERT of a claim,
\* and the claimed payload a worker then executes.
Candidate == [id : JobId, rec : JobRec]
Claim     == [id : JobId, key : Schedule, attempts : 1..MaxAttempts]

Unused     == [status |-> "NONE", key |-> Build, attempts |-> 0, ready |-> FALSE]
NoItem     == [status |-> "NONE", by |-> NoJob]
NoClaim    == [id |-> NoJob, key |-> Build, attempts |-> 0]
NoPass     == [round |-> 0, worker |-> 0, got |-> FALSE]

\* Steps inside the try block of run_workers: an exception fails the job.
JobSteps == {"collect", "adding", "addput", "unique", "uniqput", "reserve",
             "reserving", "load", "release", "releaseput", "complete",
             "completeput", "history"}
\* Steps inside the inner try block of the clue build: an exception first
\* releases the reserved items.
BuildSteps == {"build", "finish", "finishput"}
FailSteps  == {"failing", "failput", "failhist"}
PlanSteps  == {"down", "sync", "syncput", "tick", "ticking", "enqueue",
               "advance", "claim", "claiming", "execute", "cycle"}

TypeOK ==
  /\ sched \in [Schedule -> {"absent", "waiting", "due"}]
  /\ jobs \in [JobId -> JobRec]
  /\ history \in [JobId -> {"NONE", "SUCCEEDED", "FAILED", "RETRY_PENDING"}]
  /\ raw \subseteq Row
  /\ items \in [Row -> ItemRec]
  /\ clued \subseteq Row
  /\ pc \in [Proc -> JobSteps \cup BuildSteps \cup FailSteps \cup PlanSteps]
  /\ agenda \in [Proc -> SUBSET Schedule]
  /\ focus \in [Proc -> Schedule]
  /\ readSched \in [Proc -> {"absent", "waiting", "due"}]
  /\ pass \in [Proc -> [round : 0..MaxRounds, worker : 0..Workers, got : BOOLEAN]]
  /\ cand \in [Proc -> SUBSET Candidate]
  /\ claimed \in [Proc -> SUBSET Claim]
  /\ job \in [Proc -> Claim \cup {NoClaim}]
  /\ readJob \in [Proc -> JobRec]
  /\ before \in [Proc -> SUBSET Row]
  /\ batch \in [Proc -> SUBSET Row]
  /\ rest \in [Proc -> SUBSET Row]
  /\ row \in [Proc -> Row \cup {NoRow}]
  /\ added \in [Proc -> BOOLEAN]

Init ==
  /\ sched = [s \in Schedule |-> "absent"]
  /\ jobs = [j \in JobId |-> Unused]
  /\ history = [j \in JobId |-> "NONE"]
  /\ raw = {}
  /\ items = [r \in Row |-> NoItem]
  /\ clued = {}
  /\ pc = [p \in Proc |-> "down"]
  /\ agenda = [p \in Proc |-> {}]
  /\ focus = [p \in Proc |-> Build]
  /\ readSched = [p \in Proc |-> "absent"]
  /\ pass = [p \in Proc |-> NoPass]
  /\ cand = [p \in Proc |-> {}]
  /\ claimed = [p \in Proc |-> {}]
  /\ job = [p \in Proc |-> NoClaim]
  /\ readJob = [p \in Proc |-> Unused]
  /\ before = [p \in Proc |-> {}]
  /\ batch = [p \in Proc |-> {}]
  /\ rest = [p \in Proc |-> {}]
  /\ row = [p \in Proc |-> NoRow]
  /\ added = [p \in Proc |-> FALSE]

------------------------------------------------------------------------------
(* Queue statements.                                                       *)

\* Mutation: claimed jobs are not seen.
ActivePendingOnly(key) == \E j \in JobId : jobs[j].key = key /\ jobs[j].status = "PENDING"

\* has_active_queue_job(key)
Active(key) == \E j \in JobId : jobs[j].key = key /\ jobs[j].status \in ActiveStatus

\* Nothing in memory or in the database refers to job j any more.
Forgotten(j) ==
  /\ \A p \in Proc : /\ \A c \in cand[p] : c.id # j
                     /\ \A c \in claimed[p] : c.id # j
                     /\ job[p].id # j
  /\ \A r \in Row : items[r].by # j

\* A new uuid4.  The pool JobId is finite in TLC: the id of a finished job
\* that nothing refers to stands for an id never seen before.
Fresh(j) ==
  \/ jobs[j].status = "NONE"
  \/ jobs[j].status \in TerminalStatus /\ Forgotten(j)

\* save_queue_job of a new PENDING payload
SaveNewJob(key) ==
  \E j \in {i \in JobId : Fresh(i)} :
    /\ jobs' = [jobs EXCEPT ![j] = [status |-> "PENDING", key |-> key,
                                    attempts |-> 0, ready |-> TRUE]]
    /\ history' = [history EXCEPT ![j] = "NONE"]

\* Mutation: the status filter of the SELECT is too weak.
ReadyAny == {j \in JobId : jobs[j].status # "CLAIMED" /\ jobs[j].ready}

Ready        == {j \in JobId : jobs[j].status = "PENDING" /\ jobs[j].ready}
PendingItems == {r \in Row : items[r].status = "PENDING"}

\* The subsets of S a SELECT ... LIMIT n may return, whatever the order is.
UpTo(n, S) == {T \in SUBSET S : Cardinality(T) <= n /\ (T = S \/ Cardinality(T) = n)}

Prio(j) == Priority[jobs[j].key]

Goto(p, from, to) == pc[p] = from /\ pc' = [pc EXCEPT ![p] = to]

------------------------------------------------------------------------------
(* sync_schedules: one get_schedule and one save_schedule per definition.  *)
(* An existing row keeps the next_run_at that was read.                    *)

Start(p) ==
  /\ Goto(p, "down", "sync")
  /\ agenda' = [agenda EXCEPT ![p] = Schedule]
  /\ UNCHANGED <<dbVars, focus, readSched, passVars, execVars>>

SyncRead(p) ==
  /\ Goto(p, "sync", "syncput")
  /\ \E s \in agenda[p] : /\ focus' = [focus EXCEPT ![p] = s]
                          /\ readSched' = [readSched EXCEPT ![p] = sched[s]]
  /\ UNCHANGED <<dbVars, agenda, passVars, execVars>>

SyncWrite(p) ==
  /\ Goto(p, "syncput", "sync")
  /\ sched' = [sched EXCEPT ![focus[p]] =
                 IF readSched[p] # "absent" THEN readSched[p]
                 ELSE IF StartImmediately THEN "due" ELSE "waiting"]
  /\ agenda' = [agenda EXCEPT ![p] = @ \ {focus[p]}]
  /\ readSched' = [readSched EXCEPT ![p] = "absent"]
  /\ focus' = [focus EXCEPT ![p] = Build]
  /\ UNCHANGED <<jobs, history, raw, items, clued, passVars, execVars>>

\* main() goes on to the cycles.
SyncDone(p) ==
  /\ agenda[p] = {}
  /\ Goto(p, "sync", "tick")
  /\ UNCHANGED <<dbVars, planVars, passVars, execVars>>

\* --status-only or --bootstrap-only: the process exits after the sync.
SyncOnly(p) ==
  /\ agenda[p] = {}
  /\ Goto(p, "sync", "down")
  /\ UNCHANGED <<dbVars, planVars, passVars, execVars>>

------------------------------------------------------------------------------
(* tick: the due schedules are listed once; each is then skipped when its  *)
(* dedupe key has an active job, enqueued otherwise, and in both cases     *)
(* saved back with its next run in the future.                             *)

TickList(p) ==
  /\ Goto(p, "tick", "ticking")
  /\ agenda' = [agenda EXCEPT ![p] = {s \in Schedule : sched[s] = "due"}]
  /\ UNCHANGED <<dbVars, focus, readSched, passVars, execVars>>

TickCheck(p) ==
  \E s \in agenda[p] :
    /\ Goto(p, "ticking", IF Active(s) THEN "advance" ELSE "enqueue")
    /\ focus' = [focus EXCEPT ![p] = s]
    /\ UNCHANGED <<dbVars, agenda, readSched, passVars, execVars>>

TickEnqueue(p) ==
  /\ Goto(p, "enqueue", "advance")
  /\ SaveNewJob(focus[p])
  /\ UNCHANGED <<sched, raw, items, clued, planVars, passVars, execVars>>

TickAdvance(p) ==
  /\ Goto(p, "advance", "ticking")
  /\ sched' = [sched EXCEPT ![focus[p]] = "waiting"]
  /\ agenda' = [agenda EXCEPT ![p] = @ \ {focus[p]}]
  /\ focus' = [focus EXCEPT ![p] = Build]
  /\ UNCHANGED <<jobs, history, raw, items, clued, readSched, passVars, execVars>>

TickDone(p) ==
  /\ agenda[p] = {}
  /\ Goto(p, "ticking", "claim")
  /\ pass' = [pass EXCEPT ![p] = [round |-> 1, worker |-> 1, got |-> FALSE]]
  /\ UNCHANGED <<dbVars, planVars, cand, claimed, execVars>>

------------------------------------------------------------------------------
(* run_workers: MaxRounds rounds of Workers claims; a round in which no    *)
(* worker claimed anything ends the pass.  A claim selects the ready jobs  *)
(* of highest priority and writes each payload back, as it was read, with  *)
(* status CLAIMED and one more attempt.                                    *)

\* Mutations: one round too many, one too few.
NextWorkerLate(p) ==
  LET w == pass[p] IN
  /\ pc' = [pc EXCEPT ![p] = IF w.worker = Workers /\ ~w.got THEN "cycle" ELSE "claim"]
  /\ pass' = [pass EXCEPT ![p] = CASE w.worker < Workers -> [@ EXCEPT !.worker = @ + 1]
                                   [] w.worker = Workers /\ w.got ->
                                        [round |-> w.round + 1, worker |-> 1, got |-> FALSE]
                                   [] OTHER -> NoPass]

NextWorkerEarly(p) ==
  LET w == pass[p]
      last == w.round = MaxRounds - 1 \/ ~w.got
  IN  /\ pc' = [pc EXCEPT ![p] = IF w.worker = Workers /\ last THEN "cycle" ELSE "claim"]
      /\ pass' = [pass EXCEPT ![p] = CASE w.worker < Workers -> [@ EXCEPT !.worker = @ + 1]
                                       [] w.worker = Workers /\ ~last ->
                                            [round |-> w.round + 1, worker |-> 1, got |-> FALSE]
                                       [] OTHER -> NoPass]

NextWorker(p) ==
  LET w == pass[p]
      lastRound == w.round = MaxRounds \/ ~w.got
  IN  IF w.worker < Workers
      THEN /\ pc' = [pc EXCEPT ![p] = "claim"]
           /\ pass' = [pass EXCEPT ![p].worker = @ + 1]
      ELSE IF lastRound
           THEN /\ pc' = [pc EXCEPT ![p] = "cycle"]
                /\ pass' = [pass EXCEPT ![p] = NoPass]
           ELSE /\ pc' = [pc EXCEPT ![p] = "claim"]
                /\ pass' = [pass EXCEPT ![p] =
                              [round |-> @.round + 1, worker |-> 1, got |-> FALSE]]

ClaimSelect(p) ==
  /\ Ready # {}
  /\ Goto(p, "claim", "claiming")
  /\ \E top \in UpTo(ClaimLimit, Ready) :
       /\ \A j \in top, k \in Ready \ top : Prio(j) >= Prio(k)
       /\ cand' = [cand EXCEPT ![p] = {[id |-> j, rec |-> jobs[j]] : j \in top}]
  /\ UNCHANGED <<dbVars, planVars, pass, claimed, execVars>>

ClaimNone(p) ==
  /\ pc[p] = "claim"
  /\ Ready = {}
  /\ NextWorker(p)
  /\ UNCHANGED <<dbVars, planVars, cand, claimed, execVars>>

ClaimWrite(p) ==
  \E c \in cand[p] :
    /\ \A d \in cand[p] : Priority[c.rec.key] >= Priority[d.rec.key]
    /\ Goto(p, "claiming", IF cand[p] = {c} THEN "execute" ELSE "claiming")
    /\ jobs' = [jobs EXCEPT ![c.id] =
                  [c.rec EXCEPT !.status = "CLAIMED", !.attempts = @ + 1]]
    /\ cand' = [cand EXCEPT ![p] = @ \ {c}]
    /\ claimed' = [claimed EXCEPT ![p] = @ \cup
                     {[id |-> c.id, key |-> c.rec.key, attempts |-> c.rec.attempts + 1]}]
    /\ pass' = [pass EXCEPT ![p].got = TRUE]
    /\ UNCHANGED <<sched, history, raw, items, clued, planVars, execVars>>

\* The next claimed job is dispatched on its task type; a collection first
\* reads the raw rows that exist.
Dispatch(p) ==
  \E c \in claimed[p] :
    /\ \A d \in claimed[p] : Priority[c.key] >= Priority[d.key]
    /\ Goto(p, "execute", IF c.key = Build THEN "reserve" ELSE "collect")
    /\ claimed' = [claimed EXCEPT ![p] = @ \ {c}]
    /\ job' = [job EXCEPT ![p] = c]
    /\ before' = [before EXCEPT ![p] = IF c.key = Build THEN {} ELSE raw]
    /\ UNCHANGED <<dbVars, planVars, pass, cand, readJob, batch, rest, row, added>>

WorkerDone(p) ==
  /\ pc[p] = "execute"
  /\ claimed[p] = {}
  /\ NextWorker(p)
  /\ UNCHANGED <<dbVars, planVars, cand, claimed, execVars>>

\* main() runs another cycle, or all --cycles were run and the process exits.
EndCycle(p) ==
  /\ Goto(p, "cycle", "tick") \/ Goto(p, "cycle", "down")
  /\ UNCHANGED <<dbVars, planVars, passVars, execVars>>

------------------------------------------------------------------------------
(* _execute_collection_job: run the subprocess, register the raw rows that *)
(* appeared meanwhile, and enqueue a clue build if none is active.         *)

\* The collector subprocess stores one new raw row (external program).
RunnerWrites(p) ==
  /\ pc[p] = "collect"
  /\ \E r \in Row \ raw : raw' = raw \cup {r}
  /\ UNCHANGED <<sched, jobs, history, items, clued, pc, planVars, passVars, execVars>>

\* Mutation: at most one new row is looked at.
RunnerExitsFirst(p) ==
  /\ Goto(p, "collect", "adding")
  /\ \E S \in UpTo(1, raw \ before[p]) : rest' = [rest EXCEPT ![p] = S]
  /\ before' = [before EXCEPT ![p] = {}]
  /\ UNCHANGED <<dbVars, planVars, passVars, job, readJob, batch, row, added>>

RunnerExits(p) ==
  /\ Goto(p, "collect", "adding")
  /\ rest' = [rest EXCEPT ![p] = raw \ before[p]]
  /\ before' = [before EXCEPT ![p] = {}]
  /\ UNCHANGED <<dbVars, planVars, passVars, job, readJob, batch, row, added>>

\* A non-zero return code raises.
RunnerFails(p) ==
  /\ "runner" \in Faults
  /\ Goto(p, "collect", "failing")
  /\ before' = [before EXCEPT ![p] = {}]
  /\ UNCHANGED <<dbVars, planVars, passVars, job, readJob, batch, rest, row, added>>

\* add_clue_batch_items: a registered row is skipped, any other is upserted.
AddRead(p) ==
  /\ \E r \in rest[p] :
       \/ /\ items[r].status # "NONE"
          /\ Goto(p, "adding", "adding")
          /\ rest' = [rest EXCEPT ![p] = @ \ {r}]
          /\ UNCHANGED row
       \/ /\ items[r].status = "NONE"
          /\ Goto(p, "adding", "addput")
          /\ row' = [row EXCEPT ![p] = r]
          /\ UNCHANGED rest
  /\ UNCHANGED <<dbVars, planVars, passVars, job, readJob, before, batch, added>>

AddWrite(p) ==
  /\ Goto(p, "addput", "adding")
  /\ items' = [items EXCEPT ![row[p]] = [status |-> "PENDING", by |-> NoJob]]
  /\ rest' = [rest EXCEPT ![p] = @ \ {row[p]}]
  /\ row' = [row EXCEPT ![p] = NoRow]
  /\ added' = [added EXCEPT ![p] = TRUE]
  /\ UNCHANGED <<sched, jobs, history, raw, clued, planVars, passVars,
                 job, readJob, before, batch>>

\* Mutation: the loop returns before its end.
AddDoneEarly(p) ==
  /\ Goto(p, "adding", IF added[p] THEN "unique" ELSE "complete")
  /\ added' = [added EXCEPT ![p] = FALSE]
  /\ rest' = [rest EXCEPT ![p] = {}]
  /\ UNCHANGED <<dbVars, planVars, passVars, job, readJob, before, batch, row>>

AddDone(p) ==
  /\ rest[p] = {}
  /\ Goto(p, "adding", IF added[p] THEN "unique" ELSE "complete")
  /\ added' = [added EXCEPT ![p] = FALSE]
  /\ UNCHANGED <<dbVars, planVars, passVars, job, readJob, before, batch, rest, row>>

\* enqueue_unique_job(ACTIVE_CLUE_BUILD_DEDUPE_KEY), from either kind of job
UniqueCheck(p) ==
  /\ Goto(p, "unique", IF Active(Build) THEN "complete" ELSE "uniqput")
  /\ UNCHANGED <<dbVars, planVars, passVars, execVars>>

UniqueWrite(p) ==
  /\ Goto(p, "uniqput", "complete")
  /\ SaveNewJob(Build)
  /\ UNCHANGED <<sched, raw, items, clued, planVars, passVars, execVars>>

------------------------------------------------------------------------------
(* _execute_clue_build_job: reserve pending items, build and save clues    *)
(* from their rows, complete the items; release them if that raises.       *)

ReserveNone(p) ==
  /\ PendingItems = {}
  /\ Goto(p, "reserve", "complete")
  /\ UNCHANGED <<dbVars, planVars, passVars, execVars>>

ReserveSelect(p) ==
  /\ PendingItems # {}
  /\ Goto(p, "reserve", "reserving")
  /\ \E S \in UpTo(BatchLimit, PendingItems) :
       /\ batch' = [batch EXCEPT ![p] = S]
       /\ rest' = [rest EXCEPT ![p] = S]
  /\ UNCHANGED <<dbVars, planVars, passVars, job, readJob, before, row, added>>

ReserveWrite(p) ==
  \E r \in rest[p] :
    /\ Goto(p, "reserving", IF rest[p] = {r} THEN "load" ELSE "reserving")
    /\ items' = [items EXCEPT ![r] = [status |-> "CLAIMED", by |-> job[p].id]]
    /\ rest' = [rest EXCEPT ![p] = @ \ {r}]
    /\ UNCHANGED <<sched, jobs, history, raw, clued, planVars, passVars,
                   job, readJob, before, batch, row, added>>

\* list_raw_by_hash_ids, before the inner try block
LoadRows(p) ==
  /\ Goto(p, "load", "build")
  /\ UNCHANGED <<dbVars, planVars, passVars, execVars>>

BuildClues(p) ==
  /\ Goto(p, "build", "finish")
  /\ clued' = clued \cup batch[p]
  /\ rest' = [rest EXCEPT ![p] = batch[p]]
  /\ UNCHANGED <<sched, jobs, history, raw, items, planVars, passVars,
                 job, readJob, before, batch, row, added>>

\* Mutation: the handler does not release the items.
BuildFailsKeeping(p) ==
  /\ "build" \in Faults
  /\ Goto(p, "build", "failing")
  /\ batch' = [batch EXCEPT ![p] = {}]
  /\ UNCHANGED <<dbVars, planVars, passVars, job, readJob, before, rest, row, added>>

\* The pipeline raises, after the clues of some of the rows were saved.
BuildFails(p) ==
  /\ "build" \in Faults
  /\ Goto(p, "build", "release")
  /\ \E S \in SUBSET batch[p] : clued' = clued \cup S
  /\ rest' = [rest EXCEPT ![p] = batch[p]]
  /\ UNCHANGED <<sched, jobs, history, raw, items, planVars, passVars,
                 job, readJob, before, batch, row, added>>

\* complete_clue_batch_items and release_clue_batch_items differ in the
\* status written; both skip an item that another job holds.
ItemRead(p, from, to) ==
  /\ \E r \in rest[p] :
       \/ /\ items[r].by # job[p].id
          /\ Goto(p, from, from)
          /\ rest' = [rest EXCEPT ![p] = @ \ {r}]
          /\ UNCHANGED row
       \/ /\ items[r].by = job[p].id
          /\ Goto(p, from, to)
          /\ row' = [row EXCEPT ![p] = r]
          /\ UNCHANGED rest
  /\ UNCHANGED <<dbVars, planVars, passVars, job, readJob, before, batch, added>>

ItemWrite(p, from, to, status) ==
  /\ Goto(p, from, to)
  /\ items' = [items EXCEPT ![row[p]] = [status |-> status, by |-> NoJob]]
  /\ rest' = [rest EXCEPT ![p] = @ \ {row[p]}]
  /\ row' = [row EXCEPT ![p] = NoRow]
  /\ UNCHANGED <<sched, jobs, history, raw, clued, planVars, passVars,
                 job, readJob, before, batch, added>>

FinishRead(p)   == ItemRead(p, "finish", "finishput")
FinishWrite(p)  == ItemWrite(p, "finishput", "finish", "COMPLETED")
ReleaseRead(p)  == ItemRead(p, "release", "releaseput")
ReleaseWrite(p) == ItemWrite(p, "releaseput", "release", "PENDING")

\* Items left over are meant for a follow-up build.
FinishDone(p) ==
  /\ rest[p] = {}
  /\ Goto(p, "finish", IF PendingItems # {} THEN "unique" ELSE "complete")
  /\ batch' = [batch EXCEPT ![p] = {}]
  /\ UNCHANGED <<dbVars, planVars, passVars, job, readJob, before, rest, row, added>>

ReleaseDone(p) ==
  /\ rest[p] = {}
  /\ Goto(p, "release", "failing")
  /\ batch' = [batch EXCEPT ![p] = {}]
  /\ UNCHANGED <<dbVars, planVars, passVars, job, readJob, before, rest, row, added>>

------------------------------------------------------------------------------
(* The end of a job: complete_queue_job or fail_queue_job reads the whole  *)
(* payload and writes it back without looking at its status or owner, and  *)
(* _persist_task_history records the outcome in task_runs.                 *)

JobRead(p, from, to) ==
  /\ Goto(p, from, to)
  /\ readJob' = [readJob EXCEPT ![p] = jobs[job[p].id]]
  /\ UNCHANGED <<dbVars, planVars, passVars, job, before, batch, rest, row, added>>

JobWrite(p, from, to, rec) ==
  /\ Goto(p, from, to)
  /\ jobs' = [jobs EXCEPT ![job[p].id] = rec]
  /\ readJob' = [readJob EXCEPT ![p] = Unused]
  /\ UNCHANGED <<sched, history, raw, items, clued, planVars, passVars,
                 job, before, batch, rest, row, added>>

SaveHistory(p, from, outcome) ==
  /\ Goto(p, from, "execute")
  /\ history' = [history EXCEPT ![job[p].id] = outcome]
  /\ job' = [job EXCEPT ![p] = NoClaim]
  /\ UNCHANGED <<sched, jobs, raw, items, clued, planVars, passVars,
                 readJob, before, batch, rest, row, added>>

Succeeded(rec) == [rec EXCEPT !.status = "SUCCEEDED"]
\* Mutations: one retry too many, or the attempts forgotten.
FailedLate(rec)   == IF rec.attempts <= MaxAttempts
                     THEN [rec EXCEPT !.status = "PENDING", !.ready = FALSE]
                     ELSE [rec EXCEPT !.status = "FAILED", !.ready = TRUE]
FailedResets(rec) == IF rec.attempts < MaxAttempts
                     THEN [rec EXCEPT !.status = "PENDING", !.ready = FALSE, !.attempts = 0]
                     ELSE [rec EXCEPT !.status = "FAILED", !.ready = TRUE]
Failed(rec)    == IF rec.attempts < MaxAttempts
                  THEN [rec EXCEPT !.status = "PENDING", !.ready = FALSE]
                  ELSE [rec EXCEPT !.status = "FAILED", !.ready = TRUE]

CompleteRead(p)  == JobRead(p, "complete", "completeput")
CompleteWrite(p) == JobWrite(p, "completeput", "history", Succeeded(readJob[p]))
HistoryOk(p)     == SaveHistory(p, "history", "SUCCEEDED")
FailRead(p)      == JobRead(p, "failing", "failput")
FailWrite(p)     == JobWrite(p, "failput", "failhist", Failed(readJob[p]))
\* Mutation: the last attempt is still recorded as to be retried.
HistoryFailLate(p) == SaveHistory(p, "failhist",
                        IF job[p].attempts > MaxAttempts THEN "FAILED" ELSE "RETRY_PENDING")
HistoryFail(p)   == SaveHistory(p, "failhist",
                      IF job[p].attempts >= MaxAttempts THEN "FAILED" ELSE "RETRY_PENDING")

------------------------------------------------------------------------------
(* Faults.                                                                 *)

\* Mutation: the inner handler completes the items instead of releasing them.
RaiseCompleting(p) ==
  /\ "db" \in Faults
  /\ pc[p] = "build"
  /\ pc' = [pc EXCEPT ![p] = "finish"]
  /\ rest' = [rest EXCEPT ![p] = batch[p]]
  /\ UNCHANGED <<dbVars, planVars, passVars, job, readJob, before, batch, row, added>>

\* Any statement of the job raises, for one "database is locked".
Raise(p) ==
  /\ "db" \in Faults
  /\ pc[p] \in JobSteps \cup BuildSteps
  /\ pc' = [pc EXCEPT ![p] = IF @ \in BuildSteps THEN "release" ELSE "failing"]
  /\ rest' = [rest EXCEPT ![p] = IF pc[p] \in BuildSteps THEN batch[p] ELSE {}]
  /\ batch' = [batch EXCEPT ![p] = IF pc[p] \in BuildSteps THEN @ ELSE {}]
  /\ before' = [before EXCEPT ![p] = {}]
  /\ row' = [row EXCEPT ![p] = NoRow]
  /\ added' = [added EXCEPT ![p] = FALSE]
  /\ readJob' = [readJob EXCEPT ![p] = Unused]
  /\ UNCHANGED <<dbVars, planVars, passVars, job>>

\* The process dies, or an exception escapes run_workers; nothing in memory
\* survives and nothing in the database is undone.
Crash(p) ==
  /\ "crash" \in Faults
  /\ pc[p] # "down"
  /\ pc' = [pc EXCEPT ![p] = "down"]
  /\ agenda' = [agenda EXCEPT ![p] = {}]
  /\ focus' = [focus EXCEPT ![p] = Build]
  /\ readSched' = [readSched EXCEPT ![p] = "absent"]
  /\ pass' = [pass EXCEPT ![p] = NoPass]
  /\ cand' = [cand EXCEPT ![p] = {}]
  /\ claimed' = [claimed EXCEPT ![p] = {}]
  /\ job' = [job EXCEPT ![p] = NoClaim]
  /\ readJob' = [readJob EXCEPT ![p] = Unused]
  /\ before' = [before EXCEPT ![p] = {}]
  /\ batch' = [batch EXCEPT ![p] = {}]
  /\ rest' = [rest EXCEPT ![p] = {}]
  /\ row' = [row EXCEPT ![p] = NoRow]
  /\ added' = [added EXCEPT ![p] = FALSE]
  /\ UNCHANGED dbVars

------------------------------------------------------------------------------
(* The clock.                                                              *)

\* next_run_at passes, in the table and in a copy read from it.
ScheduleDue(s) ==
  /\ sched[s] = "waiting"
  /\ sched' = [sched EXCEPT ![s] = "due"]
  /\ readSched' = [p \in Proc |-> IF pc[p] = "syncput" /\ focus[p] = s
                                     /\ readSched[p] = "waiting"
                                  THEN "due" ELSE readSched[p]]
  /\ UNCHANGED <<jobs, history, raw, items, clued, pc, agenda, focus, passVars, execVars>>

\* available_at of a job that was put back with a backoff passes.
BackoffOver(j) ==
  /\ jobs[j].status = "PENDING"
  /\ ~jobs[j].ready
  /\ jobs' = [jobs EXCEPT ![j].ready = TRUE]
  /\ UNCHANGED <<sched, history, raw, items, clued, pc, planVars, passVars, execVars>>

------------------------------------------------------------------------------
(* The specification.                                                      *)

PlanStep(p) == \/ Start(p) \/ SyncRead(p) \/ SyncWrite(p)
               \/ SyncDone(p) \/ SyncOnly(p)
               \/ TickList(p) \/ TickCheck(p) \/ TickEnqueue(p)
               \/ TickAdvance(p) \/ TickDone(p)

WorkerStep(p) == \/ ClaimSelect(p) \/ ClaimNone(p) \/ ClaimWrite(p)
                 \/ Dispatch(p) \/ WorkerDone(p) \/ EndCycle(p)

CollectStep(p) == \/ RunnerExits(p) \/ AddRead(p) \/ AddWrite(p) \/ AddDone(p)
                  \/ UniqueCheck(p) \/ UniqueWrite(p)

BuildStep(p) == \/ ReserveNone(p) \/ ReserveSelect(p) \/ ReserveWrite(p)
                \/ LoadRows(p) \/ BuildClues(p)
                \/ FinishRead(p) \/ FinishWrite(p) \/ FinishDone(p)
                \/ ReleaseRead(p) \/ ReleaseWrite(p) \/ ReleaseDone(p)

EndStep(p) == \/ CompleteRead(p) \/ CompleteWrite(p) \/ HistoryOk(p)
              \/ FailRead(p) \/ FailWrite(p) \/ HistoryFail(p)

\* What a process does of itself; the rest is done to it.
Step(p) == PlanStep(p) \/ WorkerStep(p) \/ CollectStep(p) \/ BuildStep(p) \/ EndStep(p)

Fault(p) == RunnerFails(p) \/ BuildFails(p) \/ Raise(p) \/ Crash(p)

Clock == \/ \E s \in Schedule : ScheduleDue(s)
         \/ \E j \in JobId : BackoffOver(j)

Next == \/ \E p \in Proc : Step(p) \/ RunnerWrites(p) \/ Fault(p)
        \/ Clock

Spec == Init /\ [][Next]_vars

\* Processes are started again and again (a cron entry or --cycles), a
\* subprocess and a pipeline return, time passes.  A build that is tried
\* again and again does not fail every time, and not every process is
\* started with --bootstrap-only.
Fairness ==
  /\ \A p \in Proc : /\ WF_vars(Step(p))
                     /\ SF_vars(BuildClues(p))
                     /\ SF_vars(SyncDone(p))
  /\ \A s \in Schedule : WF_vars(ScheduleDue(s))
  /\ \A j \in JobId : WF_vars(BackoffOver(j))

FairSpec == Spec /\ Fairness

------------------------------------------------------------------------------
(* Safety.                                                                 *)

\* has_active_queue_job guards every enqueue (tick and enqueue_unique_job),
\* but the guard and the insert are two statements: for one process, at most
\* one job per dedupe key is ever pending or claimed.
OneActivePerKey ==
  \A j, k \in JobId :
    /\ j # k
    /\ jobs[j].status \in ActiveStatus
    /\ jobs[k].status \in ActiveStatus
    => jobs[j].key # jobs[k].key

\* claim and fail write back payloads read earlier; whatever was overwritten
\* in between, a job offered for claiming has an attempt left, a job given up
\* has none, and a job is finished only after an attempt.
RetryDiscipline ==
  \A j \in JobId :
    /\ jobs[j].status = "PENDING" => jobs[j].attempts < MaxAttempts
    /\ jobs[j].status = "FAILED" => jobs[j].attempts = MaxAttempts
    /\ jobs[j].status \in {"CLAIMED", "SUCCEEDED"} => jobs[j].attempts > 0

\* An item is marked COMPLETED only after the clues of its row were saved:
\* no crash, failed build or concurrent build loses a row that way.
CompletedHasClues ==
  \A r \in Row : items[r].status = "COMPLETED" => r \in clued

\* Every reserved batch item is being worked on: its job is claimed and some
\* process executes it with the row in its batch.  An item that escapes this
\* is never selected again, since only PENDING items are.
ReservationHeld ==
  \A r \in Row : items[r].status = "CLAIMED" =>
    \E p \in Proc : /\ job[p].id = items[r].by
                    /\ r \in batch[p]
                    /\ jobs[job[p].id].status = "CLAIMED"

\* Every raw row a collection stored is registered for the clue build, unless
\* the collection that stored it is still under way.
RowsRegistered ==
  \A r \in raw : items[r].status = "NONE" =>
    \E p \in Proc : \/ pc[p] = "collect" /\ r \notin before[p]
                    \/ pc[p] \in {"adding", "addput"} /\ r \in rest[p]

\* task_runs and queue_jobs are written by separate statements; for a job no
\* process is executing they tell the same story.
HistoryAgrees ==
  \A j \in JobId : (\A p \in Proc : job[p].id # j) =>
    /\ jobs[j].status = "SUCCEEDED" <=> history[j] = "SUCCEEDED"
    /\ jobs[j].status = "FAILED" <=> history[j] = "FAILED"
    /\ jobs[j].status = "PENDING" /\ jobs[j].attempts > 0 => history[j] = "RETRY_PENDING"

\* A succeeded job is never queued or claimed again (a recycled id starts
\* over with no attempts), and a completed item is never reopened.
FinishedStaysFinished ==
  [][/\ \A j \in JobId : jobs[j].status = "SUCCEEDED" =>
          jobs'[j].status = "SUCCEEDED" \/ jobs'[j].attempts = 0
     /\ \A r \in Row : items[r].status = "COMPLETED" => items'[r].status = "COMPLETED"]_vars

------------------------------------------------------------------------------
(* Liveness, under Fairness.                                               *)

\* No job stays pending or claimed for ever: retries are bounded, and the
\* passes offer room to every dedupe key.
JobsEnd == \A j \in JobId : jobs[j].status \in ActiveStatus ~> jobs[j].status \notin ActiveStatus

\* Every raw row a collection stores is eventually processed.
RowsBuilt == \A r \in Row : r \in raw ~> items[r].status = "COMPLETED"

------------------------------------------------------------------------------
(* What the docstrings and tests say of claims and of a pass.              *)

\* "Claim due queue jobs for one logical worker": a claimed job is in the
\* hands of one process.
ExclusiveClaim ==
  \A p, q \in Proc : p # q =>
    \A c \in claimed[p] \cup {job[p]}, d \in claimed[q] \cup {job[q]} :
      c.id = d.id => c.id = NoJob

\* A pass that stops because a whole round found no ready job, and in which
\* nothing failed, leaves no batch item waiting: a build that leaves items
\* behind enqueues a follow-up build.
BatchDrained ==
  \A p \in Proc :
    /\ pc[p] = "claim" /\ Ready = {}
    /\ pass[p].worker = Workers /\ ~pass[p].got
    => PendingItems = {}

==============================================================================
