------------------------ MODULE CollectionQueueProofs ------------------------
(***************************************************************************)
(* Theorems about CollectionQueue, for every value of its constants: any   *)
(* number of processes, jobs, schedules and rows, and every fault.         *)
(***************************************************************************)
EXTENDS CollectionQueue, TLAPS

JobPc == JobSteps \cup BuildSteps \cup FailSteps

\* A payload about to be written back by a claim was read PENDING, with an
\* attempt left.
CandOK == \A p \in Proc : \A c \in cand[p] :
            /\ c.rec.status = "PENDING"
            /\ c.rec.attempts < MaxAttempts

\* A process that executes a job has one.
JobAt == \A p \in Proc : pc[p] \in JobPc => job[p] \in Claim

\* A job in the hands of a process exists and has been attempted.
HeldOK == \A p \in Proc :
            /\ \A c \in claimed[p] : /\ jobs[c.id].status # "NONE"
                                     /\ jobs[c.id].attempts > 0
            /\ job[p].id # NoJob => /\ jobs[job[p].id].status # "NONE"
                                    /\ jobs[job[p].id].attempts > 0

\* The payload about to be written back by complete or fail was read from it.
ReadOK == \A p \in Proc : pc[p] \in {"completeput", "failput"} =>
            readJob[p].status # "NONE" /\ readJob[p].attempts > 0

\* The rows a build is marking completed are rows it saved the clues of.
BatchOK == \A p \in Proc : pc[p] \in {"finish", "finishput"} =>
             /\ batch[p] \subseteq clued
             /\ rest[p] \subseteq batch[p]
             /\ pc[p] = "finishput" => row[p] \in batch[p]

QueueInv == TypeOK /\ CandOK /\ JobAt /\ HeldOK /\ ReadOK /\ BatchOK
            /\ RetryDiscipline /\ CompletedHasClues

------------------------------------------------------------------------------
(* What a step can do to one variable.                                     *)

\* A step of process p, or done to it.
Act(p) == Step(p) \/ RunnerWrites(p) \/ Fault(p)

\* The writers of queue_jobs.
LEMMA JobsWriters ==
  ASSUME [Next]_vars
  PROVE  \/ jobs' = jobs
         \/ \E p \in Proc : \/ TickEnqueue(p) \/ UniqueWrite(p) \/ ClaimWrite(p)
                            \/ CompleteWrite(p) \/ FailWrite(p)
         \/ \E j \in JobId : BackoffOver(j)
<1> USE DEF dbVars
<1>1. ASSUME NEW p \in Proc, PlanStep(p) PROVE jobs' = jobs \/ TickEnqueue(p)
  BY <1>1 DEF PlanStep, Start, SyncRead, SyncWrite, SyncDone, SyncOnly, TickList,
     TickCheck, TickAdvance, TickDone
<1>2. ASSUME NEW p \in Proc, WorkerStep(p) PROVE jobs' = jobs \/ ClaimWrite(p)
  BY <1>2 DEF WorkerStep, ClaimSelect, ClaimNone, Dispatch, WorkerDone, EndCycle
<1>3. ASSUME NEW p \in Proc, CollectStep(p) PROVE jobs' = jobs \/ UniqueWrite(p)
  BY <1>3 DEF CollectStep, RunnerExits, AddRead, AddWrite, AddDone, UniqueCheck
<1>4. ASSUME NEW p \in Proc, BuildStep(p) PROVE jobs' = jobs
  BY <1>4 DEF BuildStep, ReserveNone, ReserveSelect, ReserveWrite, LoadRows,
     BuildClues, FinishRead, FinishWrite, FinishDone, ReleaseRead, ReleaseWrite,
     ReleaseDone, ItemRead, ItemWrite
<1>5. ASSUME NEW p \in Proc, EndStep(p)
      PROVE  jobs' = jobs \/ CompleteWrite(p) \/ FailWrite(p)
  BY <1>5 DEF EndStep, CompleteRead, FailRead, HistoryOk, HistoryFail, JobRead,
     SaveHistory
<1>6. ASSUME NEW p \in Proc, RunnerWrites(p) \/ Fault(p) PROVE jobs' = jobs
  BY <1>6 DEF RunnerWrites, Fault, RunnerFails, BuildFails, Raise, Crash
<1>7. CASE Clock
  BY <1>7 DEF Clock, ScheduleDue
<1>8. CASE UNCHANGED vars
  BY <1>8 DEF vars
<1> QED
  BY <1>1, <1>2, <1>3, <1>4, <1>5, <1>6, <1>7, <1>8 DEF Next, Step

\* The writers of clue_batch_items, and the growth of the clue table.
LEMMA ItemsWriters ==
  ASSUME [Next]_vars
  PROVE  /\ clued \subseteq clued'
         /\ \/ items' = items
            \/ \E p \in Proc : AddWrite(p) \/ ReserveWrite(p) \/ FinishWrite(p) \/ ReleaseWrite(p)
<1> USE DEF dbVars
<1>1. ASSUME NEW p \in Proc, PlanStep(p) PROVE UNCHANGED <<items, clued>>
  BY <1>1 DEF PlanStep, Start, SyncRead, SyncWrite, SyncDone, SyncOnly, TickList,
     TickCheck, TickEnqueue, TickAdvance, TickDone
<1>2. ASSUME NEW p \in Proc, WorkerStep(p) PROVE UNCHANGED <<items, clued>>
  BY <1>2 DEF WorkerStep, ClaimSelect, ClaimNone, ClaimWrite, Dispatch, WorkerDone,
     EndCycle
<1>3. ASSUME NEW p \in Proc, CollectStep(p)
      PROVE  clued' = clued /\ (items' = items \/ AddWrite(p))
  BY <1>3 DEF CollectStep, RunnerExits, AddRead, AddWrite, AddDone, UniqueCheck,
     UniqueWrite
<1>4. ASSUME NEW p \in Proc, BuildStep(p)
      PROVE  /\ clued \subseteq clued'
             /\ items' = items \/ ReserveWrite(p) \/ FinishWrite(p) \/ ReleaseWrite(p)
  BY <1>4 DEF BuildStep, ReserveNone, ReserveSelect, ReserveWrite, LoadRows,
     BuildClues, FinishRead, FinishWrite, FinishDone, ReleaseRead, ReleaseWrite,
     ReleaseDone, ItemRead, ItemWrite
<1>5. ASSUME NEW p \in Proc, EndStep(p) PROVE UNCHANGED <<items, clued>>
  BY <1>5 DEF EndStep, CompleteRead, CompleteWrite, FailRead, FailWrite, HistoryOk,
     HistoryFail, JobRead, JobWrite, SaveHistory
<1>6. ASSUME NEW p \in Proc, RunnerWrites(p) \/ Fault(p)
      PROVE  items' = items /\ clued \subseteq clued'
  BY <1>6 DEF RunnerWrites, Fault, RunnerFails, BuildFails, Raise, Crash
<1>7. CASE Clock
  BY <1>7 DEF Clock, ScheduleDue, BackoffOver
<1>8. CASE UNCHANGED vars
  BY <1>8 DEF vars
<1> QED
  BY <1>1, <1>2, <1>3, <1>4, <1>5, <1>6, <1>7, <1>8 DEF Next, Step

\* The writers of what a process holds of the queue: selected payloads,
\* claimed jobs, and the job being executed.
LEMMA HandWriters ==
  ASSUME NEW p \in Proc, Act(p)
  PROVE  \/ UNCHANGED <<cand, claimed, job>>
         \/ ClaimSelect(p) \/ ClaimWrite(p) \/ Dispatch(p)
         \/ HistoryOk(p) \/ HistoryFail(p) \/ Crash(p)
<1> USE DEF passVars, execVars
<1>1. ASSUME PlanStep(p) PROVE UNCHANGED <<cand, claimed, job>>
  BY <1>1 DEF PlanStep, Start, SyncRead, SyncWrite, SyncDone, SyncOnly, TickList,
     TickCheck, TickEnqueue, TickAdvance, TickDone
<1>2. ASSUME WorkerStep(p)
      PROVE  UNCHANGED <<cand, claimed, job>> \/ ClaimSelect(p) \/ ClaimWrite(p) \/ Dispatch(p)
  BY <1>2 DEF WorkerStep, ClaimNone, WorkerDone, EndCycle
<1>3. ASSUME CollectStep(p) PROVE UNCHANGED <<cand, claimed, job>>
  BY <1>3 DEF CollectStep, RunnerExits, AddRead, AddWrite, AddDone, UniqueCheck,
     UniqueWrite
<1>4. ASSUME BuildStep(p) PROVE UNCHANGED <<cand, claimed, job>>
  BY <1>4 DEF BuildStep, ReserveNone, ReserveSelect, ReserveWrite, LoadRows,
     BuildClues, FinishRead, FinishWrite, FinishDone, ReleaseRead, ReleaseWrite,
     ReleaseDone, ItemRead, ItemWrite
<1>5. ASSUME EndStep(p)
      PROVE  UNCHANGED <<cand, claimed, job>> \/ HistoryOk(p) \/ HistoryFail(p)
  BY <1>5 DEF EndStep, CompleteRead, CompleteWrite, FailRead, FailWrite, JobRead, JobWrite
<1>6. ASSUME RunnerWrites(p) \/ Fault(p)
      PROVE  UNCHANGED <<cand, claimed, job>> \/ Crash(p)
  BY <1>6 DEF RunnerWrites, Fault, RunnerFails, BuildFails, Raise
<1> QED
  BY <1>1, <1>2, <1>3, <1>4, <1>5, <1>6 DEF Act, Step

\* The clock and stuttering touch no process.
LEMMA ClockMemory ==
  ASSUME Clock \/ UNCHANGED vars
  PROVE  UNCHANGED <<pc, cand, claimed, job, readJob, batch, rest, row, clued>>
BY DEF Clock, ScheduleDue, BackoffOver, vars, dbVars, passVars, execVars

\* Every step is of a process, of the clock, or a stutter.
LEMMA NextCases == [Next]_vars => (\E p \in Proc : Act(p)) \/ Clock \/ UNCHANGED vars
BY DEF Next, Act

------------------------------------------------------------------------------
(* How a process comes to a point of its program.                          *)

Steps == JobSteps \cup BuildSteps \cup FailSteps \cup PlanSteps

\* A step of one process leaves the memory of the others alone.
LEMMA Others ==
  ASSUME TypeOK, NEW p \in Proc, Act(p), NEW q \in Proc, q # p
  PROVE  /\ pc'[q] = pc[q]
         /\ readJob'[q] = readJob[q]
         /\ batch'[q] = batch[q]
         /\ rest'[q] = rest[q]
         /\ row'[q] = row[q]
<1>1. /\ pc \in [Proc -> Steps]
      /\ readJob \in [Proc -> JobRec]
      /\ batch \in [Proc -> SUBSET Row]
      /\ rest \in [Proc -> SUBSET Row]
      /\ row \in [Proc -> Row \cup {NoRow}]
  BY DEF TypeOK, Steps
<1> USE <1>1 DEF Goto, execVars
<1>2. CASE PlanStep(p)
  BY <1>2 DEF PlanStep, Start, SyncRead, SyncWrite, SyncDone, SyncOnly, TickList,
     TickCheck, TickEnqueue, TickAdvance, TickDone
<1>3. CASE WorkerStep(p)
  BY <1>3 DEF WorkerStep, ClaimSelect, ClaimNone, ClaimWrite, Dispatch, WorkerDone,
     EndCycle, NextWorker
<1>4. CASE CollectStep(p)
  BY <1>4 DEF CollectStep, RunnerExits, AddRead, AddWrite, AddDone, UniqueCheck,
     UniqueWrite
<1>5. CASE BuildStep(p)
  BY <1>5 DEF BuildStep, ReserveNone, ReserveSelect, ReserveWrite, LoadRows,
     BuildClues, FinishRead, FinishWrite, FinishDone, ReleaseRead, ReleaseWrite,
     ReleaseDone, ItemRead, ItemWrite
<1>6. CASE EndStep(p)
  BY <1>6 DEF EndStep, CompleteRead, CompleteWrite, FailRead, FailWrite, HistoryOk,
     HistoryFail, JobRead, JobWrite, SaveHistory
<1>7. CASE RunnerWrites(p) \/ Fault(p)
  BY <1>7 DEF RunnerWrites, Fault, RunnerFails, BuildFails, Raise, Crash
<1> QED
  BY <1>2, <1>3, <1>4, <1>5, <1>6, <1>7 DEF Act, Step

\* The steps that lead a process to the points the invariants speak of.
LEMMA PcEntry ==
  ASSUME TypeOK, NEW p \in Proc, Act(p)
  PROVE  /\ pc'[p] \in JobPc => pc[p] \in JobPc \/ Dispatch(p)
         /\ pc'[p] = "completeput" => CompleteRead(p)
         /\ pc'[p] = "failput" => FailRead(p)
         /\ pc'[p] \in {"finish", "finishput"} =>
              BuildClues(p) \/ FinishRead(p) \/ FinishWrite(p)
         /\ pc'[p] = "enqueue" => TickCheck(p)
         /\ pc'[p] = "uniqput" => UniqueCheck(p)
         /\ HistoryOk(p) \/ HistoryFail(p) \/ Crash(p) => pc'[p] \notin JobPc
<1>1. pc \in [Proc -> Steps]
  BY DEF TypeOK, Steps
<1> USE <1>1 DEF Goto, JobPc, JobSteps, BuildSteps, FailSteps
<1>2. CASE PlanStep(p)
  <2>1. CASE Start(p) \/ SyncRead(p) \/ SyncWrite(p) \/ SyncDone(p) \/ SyncOnly(p)
    BY <2>1 DEF Start, SyncRead, SyncWrite, SyncDone, SyncOnly, HistoryOk, HistoryFail,
       Crash, SaveHistory
  <2>2. CASE TickList(p) \/ TickCheck(p)
    BY <2>2 DEF TickList, TickCheck, HistoryOk, HistoryFail, Crash, SaveHistory
  <2>3. CASE TickEnqueue(p) \/ TickAdvance(p) \/ TickDone(p)
    BY <2>3 DEF TickEnqueue, TickAdvance, TickDone, HistoryOk, HistoryFail, Crash,
       SaveHistory
  <2> QED
    BY <1>2, <2>1, <2>2, <2>3, Zenon DEF PlanStep
<1>3. CASE WorkerStep(p)
  <2>1. CASE Dispatch(p)
    <3>1. pc[p] = "execute" /\ pc'[p] \in {"reserve", "collect"}
      BY <2>1 DEF Dispatch
    <3>2. ~HistoryOk(p) /\ ~HistoryFail(p)
      BY <3>1 DEF HistoryOk, HistoryFail, SaveHistory
    <3>3. ~Crash(p)
      BY <3>1 DEF Crash
    <3> QED
      BY <2>1, <3>1, <3>2, <3>3
  <2>2. CASE ClaimNone(p) \/ WorkerDone(p)
    <3>1. pc'[p] \in {"claim", "cycle"}
      BY <1>1, <2>2 DEF ClaimNone, WorkerDone, NextWorker
    <3> QED
      BY <3>1
  <2>3. CASE ClaimSelect(p) \/ ClaimWrite(p) \/ EndCycle(p)
    <3>1. pc'[p] \in {"claiming", "execute", "tick", "down"}
      BY <1>1, <2>3 DEF ClaimSelect, ClaimWrite, EndCycle
    <3> QED
      BY <3>1
  <2> QED
    BY <1>3, <2>1, <2>2, <2>3 DEF WorkerStep
<1>4. CASE CollectStep(p)
  BY <1>4 DEF CollectStep, RunnerExits, AddRead, AddWrite, AddDone, UniqueCheck,
     UniqueWrite, HistoryOk, HistoryFail, Crash, SaveHistory
<1>5. CASE BuildStep(p)
  BY <1>5 DEF BuildStep, ReserveNone, ReserveSelect, ReserveWrite, LoadRows,
     BuildClues, FinishRead, FinishWrite, FinishDone, ReleaseRead, ReleaseWrite,
     ReleaseDone, ItemRead, ItemWrite, HistoryOk, HistoryFail, Crash, SaveHistory
<1>6. CASE EndStep(p)
  BY <1>6 DEF EndStep, CompleteRead, CompleteWrite, FailRead, FailWrite, HistoryOk,
     HistoryFail, JobRead, JobWrite, SaveHistory, Crash
<1>7. CASE RunnerWrites(p) \/ Fault(p)
  BY <1>7 DEF RunnerWrites, Fault, RunnerFails, BuildFails, Raise, Crash, HistoryOk,
     HistoryFail, SaveHistory
<1> QED
  BY <1>2, <1>3, <1>4, <1>5, <1>6, <1>7 DEF Act, Step

------------------------------------------------------------------------------
(* Each part of the invariant is preserved.                                *)

\* Only a claim selects payloads, and it selects them PENDING.
LEMMA CandStep == ASSUME QueueInv, [Next]_vars PROVE CandOK'
<1> USE DEF QueueInv
<1>1. ASSUME NEW p \in Proc, ClaimSelect(p) PROVE CandOK'
  <2>1. PICK top \in SUBSET Ready :
          cand' = [cand EXCEPT ![p] = {[id |-> j, rec |-> jobs[j]] : j \in top}]
    BY <1>1 DEF ClaimSelect, UpTo
  <2>2. \A j \in top : jobs[j].status = "PENDING" /\ jobs[j].attempts < MaxAttempts
    BY <2>1 DEF RetryDiscipline, Ready
  <2>3. cand \in [Proc -> SUBSET Candidate]
    BY DEF TypeOK
  <2> QED
    <3> SUFFICES ASSUME NEW q \in Proc, NEW c \in cand'[q]
                 PROVE  c.rec.status = "PENDING" /\ c.rec.attempts < MaxAttempts
      BY DEF CandOK
    <3>1. CASE q = p
      <4>1. PICK j \in top : c = [id |-> j, rec |-> jobs[j]]
        BY <2>1, <2>3, <3>1
      <4> QED
        BY <2>2, <4>1
    <3>2. CASE q # p
      BY <2>1, <2>3, <3>2 DEF CandOK
    <3> QED
      BY <3>1, <3>2
<1>2. ASSUME NEW p \in Proc, Act(p), ~ClaimSelect(p) PROVE CandOK'
  <2>1. ASSUME NEW q \in Proc PROVE cand'[q] \subseteq cand[q]
    <3>1. cand \in [Proc -> SUBSET Candidate]
      BY DEF TypeOK
    <3>2. CASE ClaimWrite(p)
      BY <3>1, <3>2 DEF ClaimWrite
    <3>3. CASE Crash(p)
      BY <3>1, <3>3 DEF Crash
    <3>4. CASE UNCHANGED cand
      BY <3>4
    <3> QED
      BY <1>2, <3>2, <3>3, <3>4, HandWriters DEF Dispatch, HistoryOk, HistoryFail,
         SaveHistory, passVars
  <2> QED
    BY <2>1 DEF CandOK
<1> QED
  BY <1>1, <1>2, NextCases, ClockMemory DEF CandOK

\* A job is in hand from Dispatch until its outcome is recorded.
LEMMA JobAtStep == ASSUME QueueInv, [Next]_vars PROVE JobAt'
<1> USE DEF QueueInv
<1>1. ASSUME NEW p \in Proc, Act(p), NEW q \in Proc, pc'[q] \in JobPc PROVE job'[q] \in Claim
  <2>1. job \in [Proc -> Claim \cup {NoClaim}] /\ claimed \in [Proc -> SUBSET Claim]
    BY DEF TypeOK
  <2>2. CASE Dispatch(p)
    BY <1>1, <2>1, <2>2, Others DEF Dispatch, JobAt
  <2>3. CASE ~Dispatch(p) /\ q = p
    BY <1>1, <2>1, <2>3, PcEntry, HandWriters DEF JobAt, ClaimSelect, ClaimWrite, execVars
  <2>4. CASE ~Dispatch(p) /\ q # p
    <3>1. job'[q] = job[q]
      BY <1>1, <2>1, <2>4, HandWriters DEF ClaimSelect, ClaimWrite, execVars, HistoryOk,
         HistoryFail, SaveHistory, Crash
    <3> QED
      BY <1>1, <2>4, <3>1, Others DEF JobAt
  <2> QED
    BY <2>2, <2>3, <2>4
<1> QED
  BY <1>1, NextCases, ClockMemory DEF JobAt

\* A job in the hands of a process keeps existing, and keeps its attempts.
LEMMA HeldKept ==
  ASSUME QueueInv, [Next]_vars, NEW j \in JobId, ~Forgotten(j),
         jobs[j].status # "NONE", jobs[j].attempts > 0
  PROVE  jobs'[j].status # "NONE" /\ jobs'[j].attempts > 0
<1> USE DEF QueueInv
<1>1. /\ jobs \in [JobId -> JobRec]
      /\ cand \in [Proc -> SUBSET Candidate]
      /\ readJob \in [Proc -> JobRec]
      /\ pc \in [Proc -> Steps]
  BY DEF TypeOK, Steps
<1>2. ASSUME NEW key \in Schedule, SaveNewJob(key) PROVE jobs'[j] = jobs[j]
  BY <1>1, <1>2 DEF SaveNewJob, Fresh
<1>3. ASSUME NEW p \in Proc, ClaimWrite(p) PROVE jobs'[j].status # "NONE" /\ jobs'[j].attempts > 0
  <2>1. PICK c \in cand[p] :
          jobs' = [jobs EXCEPT ![c.id] = [c.rec EXCEPT !.status = "CLAIMED", !.attempts = @ + 1]]
    BY <1>3 DEF ClaimWrite
  <2>2. c.rec \in JobRec
    BY <1>1 DEF Candidate
  <2>3. c.rec.attempts \in Nat
    BY <2>2 DEF JobRec
  <2> QED
    BY <1>1, <2>1, <2>2, <2>3 DEF JobRec
<1>4. ASSUME NEW p \in Proc, CompleteWrite(p) \/ FailWrite(p)
      PROVE  jobs'[j].status # "NONE" /\ jobs'[j].attempts > 0
  <2>1. readJob[p] \in JobRec /\ readJob[p].attempts > 0
    BY <1>1, <1>4 DEF ReadOK, CompleteWrite, FailWrite, JobWrite, Goto
  <2>2. CASE CompleteWrite(p)
    BY <1>1, <2>1, <2>2 DEF CompleteWrite, JobWrite, Succeeded, JobRec
  <2>3. CASE FailWrite(p)
    BY <1>1, <2>1, <2>3 DEF FailWrite, JobWrite, Failed, JobRec
  <2> QED
    BY <1>4, <2>2, <2>3
<1>5. ASSUME NEW i \in JobId, BackoffOver(i)
      PROVE  jobs'[j].status # "NONE" /\ jobs'[j].attempts > 0
  BY <1>1, <1>5 DEF BackoffOver, JobRec
<1>6. ASSUME NEW p \in Proc, TickEnqueue(p) \/ UniqueWrite(p) PROVE jobs'[j] = jobs[j]
  BY <1>2, <1>6 DEF TickEnqueue, UniqueWrite, TypeOK, Schedule
<1> QED
  BY <1>3, <1>4, <1>5, <1>6, JobsWriters

\* Held jobs: old ones are kept, new ones have just been claimed.
LEMMA HeldStep == ASSUME QueueInv, [Next]_vars PROVE HeldOK'
<1> USE DEF QueueInv
<1>1. /\ claimed \in [Proc -> SUBSET Claim]
      /\ job \in [Proc -> Claim \cup {NoClaim}]
      /\ cand \in [Proc -> SUBSET Candidate]
      /\ jobs \in [JobId -> JobRec]
  BY DEF TypeOK
<1>2. ASSUME NEW q \in Proc, NEW c \in claimed[q] \cup {job[q]}, c.id # NoJob
      PROVE  jobs'[c.id].status # "NONE" /\ jobs'[c.id].attempts > 0
  <2>1. c.id \in JobId
    BY <1>1, <1>2 DEF Claim, NoClaim
  <2>2. ~Forgotten(c.id) /\ jobs[c.id].status # "NONE" /\ jobs[c.id].attempts > 0
    BY <1>1, <1>2, ParamsAssumption DEF HeldOK, Forgotten, Claim
  <2> QED
    BY <2>1, <2>2, HeldKept
<1>3. ASSUME NEW q \in Proc, NEW c \in claimed[q] PROVE c.id # NoJob
  BY <1>1, ParamsAssumption DEF Claim
<1>4. ASSUME NEW p \in Proc, Act(p), NEW q \in Proc
      PROVE  /\ \A c \in claimed'[q] : jobs'[c.id].status # "NONE" /\ jobs'[c.id].attempts > 0
             /\ job'[q].id # NoJob => jobs'[job'[q].id].status # "NONE" /\ jobs'[job'[q].id].attempts > 0
  <2>1. CASE ClaimWrite(p)
    <3>1. PICK b \in cand[p] :
            /\ jobs' = [jobs EXCEPT ![b.id] = [b.rec EXCEPT !.status = "CLAIMED", !.attempts = @ + 1]]
            /\ claimed' = [claimed EXCEPT ![p] = @ \cup
                 {[id |-> b.id, key |-> b.rec.key, attempts |-> b.rec.attempts + 1]}]
            /\ job' = job
      BY <2>1 DEF ClaimWrite, execVars
    <3>2. b.id \in JobId /\ b.rec \in JobRec /\ b.rec.attempts \in Nat
      BY <1>1 DEF Candidate, JobRec
    <3>3. jobs'[b.id].status # "NONE" /\ jobs'[b.id].attempts > 0
      BY <1>1, <3>1, <3>2 DEF JobRec
    <3>4. ASSUME NEW c \in claimed'[q] PROVE c \in claimed[q] \/ c.id = b.id
      BY <1>1, <3>1
    <3> QED
      BY <1>2, <1>3, <3>1, <3>3, <3>4
  <2>2. CASE Dispatch(p)
    <3>1. PICK c \in claimed[p] : /\ claimed' = [claimed EXCEPT ![p] = @ \ {c}]
                                  /\ job' = [job EXCEPT ![p] = c]
      BY <2>2 DEF Dispatch
    <3>2. claimed'[q] \subseteq claimed[q] /\ job'[q] \in claimed[q] \cup {job[q]}
      BY <1>1, <3>1
    <3> QED
      BY <1>2, <1>3, <3>2
  <2>3. CASE ClaimSelect(p) \/ UNCHANGED <<cand, claimed, job>>
    <3>1. claimed' = claimed /\ job' = job
      BY <2>3 DEF ClaimSelect, execVars
    <3> QED
      BY <1>2, <1>3, <3>1
  <2>4. CASE HistoryOk(p) \/ HistoryFail(p) \/ Crash(p)
    <3>1. /\ claimed' = claimed \/ claimed' = [claimed EXCEPT ![p] = {}]
          /\ job' = [job EXCEPT ![p] = NoClaim]
      BY <2>4 DEF HistoryOk, HistoryFail, SaveHistory, Crash, passVars
    <3>2. claimed'[q] \subseteq claimed[q] /\ (job'[q].id = NoJob \/ job'[q] = job[q])
      BY <1>1, <3>1 DEF NoClaim
    <3> QED
      BY <1>2, <1>3, <3>2
  <2> QED
    BY <1>4, <2>1, <2>2, <2>3, <2>4, HandWriters
<1>5. ASSUME Clock \/ UNCHANGED vars PROVE HeldOK'
  <2>1. claimed' = claimed /\ job' = job
    BY <1>5, ClockMemory
  <2> QED
    BY <1>2, <1>3, <2>1 DEF HeldOK
<1> QED
  BY <1>4, <1>5, NextCases DEF HeldOK

\* What complete and fail read is the row of the job in hand.
LEMMA ReadStep == ASSUME QueueInv, [Next]_vars PROVE ReadOK'
<1> USE DEF QueueInv
<1>1. /\ job \in [Proc -> Claim \cup {NoClaim}]
      /\ readJob \in [Proc -> JobRec]
      /\ pc \in [Proc -> Steps]
  BY DEF TypeOK, Steps
<1>2. ASSUME NEW p \in Proc, Act(p), NEW q \in Proc, pc'[q] \in {"completeput", "failput"}
      PROVE  readJob'[q].status # "NONE" /\ readJob'[q].attempts > 0
  <2>1. CASE q = p
    <3>1. readJob'[p] = jobs[job[p].id] /\ pc[p] \in {"complete", "failing"}
      BY <1>1, <1>2, <2>1, PcEntry DEF CompleteRead, FailRead, JobRead, Goto
    <3>2. job[p].id # NoJob
      BY <3>1, ParamsAssumption DEF JobAt, JobPc, JobSteps, FailSteps, Claim
    <3> QED
      BY <2>1, <3>1, <3>2 DEF HeldOK
  <2>2. CASE q # p
    BY <1>2, <2>2, Others DEF ReadOK
  <2> QED
    BY <2>1, <2>2
<1> QED
  BY <1>2, NextCases, ClockMemory DEF ReadOK

\* The rows to complete are those of the batch whose clues were saved.
LEMMA BatchStep == ASSUME QueueInv, [Next]_vars PROVE BatchOK'
<1> USE DEF QueueInv
<1>1. /\ batch \in [Proc -> SUBSET Row]
      /\ rest \in [Proc -> SUBSET Row]
      /\ row \in [Proc -> Row \cup {NoRow}]
      /\ pc \in [Proc -> Steps]
  BY DEF TypeOK, Steps
<1>2. clued \subseteq clued'
  BY ItemsWriters
<1>3. ASSUME NEW p \in Proc, Act(p), NEW q \in Proc, pc'[q] \in {"finish", "finishput"}
      PROVE  /\ batch'[q] \subseteq clued'
             /\ rest'[q] \subseteq batch'[q]
             /\ pc'[q] = "finishput" => row'[q] \in batch'[q]
  <2>1. CASE q = p /\ BuildClues(p)
    BY <1>1, <2>1 DEF BuildClues, Goto
  <2>2. CASE q = p /\ FinishRead(p)
    <3>1. pc[p] = "finish" /\ batch' = batch /\ clued' = clued
      BY <2>2 DEF FinishRead, ItemRead, Goto, dbVars
    <3>2. PICK r \in rest[p] :
            \/ pc'[p] = "finish" /\ rest' = [rest EXCEPT ![p] = @ \ {r}]
            \/ rest' = rest /\ row' = [row EXCEPT ![p] = r]
      BY <1>1, <2>2 DEF FinishRead, ItemRead, Goto
    <3> QED
      BY <1>1, <2>2, <3>1, <3>2 DEF BatchOK
  <2>3. CASE q = p /\ FinishWrite(p)
    BY <1>1, <2>3 DEF FinishWrite, ItemWrite, Goto, BatchOK
  <2>4. CASE q # p
    BY <1>2, <1>3, <2>4, Others DEF BatchOK
  <2> QED
    BY <1>3, <2>1, <2>2, <2>3, <2>4, PcEntry
<1> QED
  BY <1>3, NextCases, ClockMemory DEF BatchOK

\* Retry discipline of one row of queue_jobs.
Disciplined(rec) ==
  /\ rec.status = "PENDING" => rec.attempts < MaxAttempts
  /\ rec.status = "FAILED" => rec.attempts = MaxAttempts
  /\ rec.status \in {"CLAIMED", "SUCCEEDED"} => rec.attempts > 0

\* Every write to queue_jobs keeps the retry discipline.
LEMMA RetryStep == ASSUME QueueInv, [Next]_vars PROVE RetryDiscipline'
<1> USE DEF QueueInv
<1> SUFFICES ASSUME NEW j \in JobId PROVE Disciplined(jobs'[j])
  BY DEF RetryDiscipline, Disciplined
<1>1. /\ jobs \in [JobId -> JobRec]
      /\ cand \in [Proc -> SUBSET Candidate]
      /\ readJob \in [Proc -> JobRec]
      /\ pc \in [Proc -> Steps]
  BY DEF TypeOK, Steps
<1>2. MaxAttempts \in Nat \ {0}
  BY ParamsAssumption
<1>3. Disciplined(jobs[j])
  BY DEF RetryDiscipline, Disciplined
<1>4. ASSUME NEW key, SaveNewJob(key) PROVE Disciplined(jobs'[j])
  BY <1>1, <1>2, <1>3, <1>4 DEF SaveNewJob, Disciplined
<1>5. ASSUME NEW p \in Proc, TickEnqueue(p) \/ UniqueWrite(p) PROVE Disciplined(jobs'[j])
  BY <1>4, <1>5 DEF TickEnqueue, UniqueWrite
<1>6. ASSUME NEW p \in Proc, ClaimWrite(p) PROVE Disciplined(jobs'[j])
  <2>1. PICK c \in cand[p] :
          jobs' = [jobs EXCEPT ![c.id] = [c.rec EXCEPT !.status = "CLAIMED", !.attempts = @ + 1]]
    BY <1>6 DEF ClaimWrite
  <2>2. c.rec \in JobRec
    BY <1>1 DEF Candidate
  <2>3. c.rec.attempts \in Nat
    BY <2>2 DEF JobRec
  <2> QED
    BY <1>1, <1>3, <2>1, <2>2, <2>3 DEF JobRec, Disciplined
<1>7. ASSUME NEW p \in Proc, CompleteWrite(p) PROVE Disciplined(jobs'[j])
  <2>1. readJob[p] \in JobRec /\ readJob[p].attempts > 0
    BY <1>1, <1>7 DEF ReadOK, CompleteWrite, JobWrite, Goto
  <2> QED
    BY <1>1, <1>3, <1>7, <2>1 DEF CompleteWrite, JobWrite, Succeeded, JobRec, Disciplined
<1>8. ASSUME NEW p \in Proc, FailWrite(p) PROVE Disciplined(jobs'[j])
  <2>1. readJob[p] \in JobRec
    BY <1>1
  <2>2. readJob[p].attempts \in 0..MaxAttempts
    BY <2>1 DEF JobRec
  <2>3. Disciplined(Failed(readJob[p]))
    BY <1>2, <2>1, <2>2 DEF Failed, JobRec, Disciplined
  <2> QED
    BY <1>1, <1>3, <1>8, <2>3 DEF FailWrite, JobWrite
<1>9. ASSUME NEW i \in JobId, BackoffOver(i) PROVE Disciplined(jobs'[j])
  BY <1>1, <1>3, <1>9 DEF BackoffOver, JobRec, Disciplined
<1> QED
  BY <1>3, <1>5, <1>6, <1>7, <1>8, <1>9, JobsWriters

\* Only FinishWrite completes an item.
LEMMA CluesStep == ASSUME QueueInv, [Next]_vars PROVE CompletedHasClues'
<1> USE DEF QueueInv
<1> SUFFICES ASSUME NEW r \in Row, items'[r].status = "COMPLETED" PROVE r \in clued'
  BY DEF CompletedHasClues
<1>1. items \in [Row -> ItemRec] /\ pc \in [Proc -> Steps]
  BY DEF TypeOK, Steps
<1>2. clued \subseteq clued'
  BY ItemsWriters
<1>3. CASE items'[r] = items[r]
  BY <1>2, <1>3 DEF CompletedHasClues
<1>4. ASSUME NEW p \in Proc, FinishWrite(p) PROVE r \in clued'
  <2>1. row[p] \in clued
    BY <1>4 DEF FinishWrite, ItemWrite, Goto, BatchOK
  <2> QED
    BY <1>1, <1>2, <1>3, <1>4, <2>1 DEF FinishWrite, ItemWrite
<1>5. ASSUME NEW p \in Proc, AddWrite(p) \/ ReserveWrite(p) \/ ReleaseWrite(p)
      PROVE  r \in clued'
  BY <1>1, <1>3, <1>5 DEF AddWrite, ReserveWrite, ReleaseWrite, ItemWrite
<1> QED
  BY <1>3, <1>4, <1>5, ItemsWriters

------------------------------------------------------------------------------
(* Types.                                                                  *)

\* The records written back by claim, complete, fail and the clock are rows.
LEMMA JobRecUpdates ==
  ASSUME NEW rec \in JobRec
  PROVE  /\ Succeeded(rec) \in JobRec
         /\ Failed(rec) \in JobRec
         /\ [rec EXCEPT !.ready = TRUE] \in JobRec
         /\ rec.attempts < MaxAttempts =>
              [rec EXCEPT !.status = "CLAIMED", !.attempts = @ + 1] \in JobRec
<1> USE ParamsAssumption DEF JobRec, ActiveStatus, TerminalStatus
<1>1. Succeeded(rec) \in JobRec
  BY DEF Succeeded
<1>2. [rec EXCEPT !.status = "PENDING", !.ready = FALSE] \in JobRec
  OBVIOUS
<1>3. [rec EXCEPT !.status = "FAILED", !.ready = TRUE] \in JobRec
  OBVIOUS
<1>4. [rec EXCEPT !.ready = TRUE] \in JobRec
  OBVIOUS
<1>5. ASSUME rec.attempts < MaxAttempts
      PROVE  [rec EXCEPT !.status = "CLAIMED", !.attempts = @ + 1] \in JobRec
  <2>1. rec.attempts + 1 \in 0..MaxAttempts
    BY <1>5
  <2> QED
    BY <2>1
<1>6. Failed(rec) \in JobRec
  BY <1>2, <1>3 DEF Failed
<1> QED
  BY <1>1, <1>4, <1>5, <1>6

\* The loop counters of run_workers stay within their bounds.
LEMMA NextWorkerType ==
  ASSUME TypeOK, NEW p \in Proc, NextWorker(p), pc[p] \in Steps
  PROVE  /\ pc' \in [Proc -> JobSteps \cup BuildSteps \cup FailSteps \cup PlanSteps]
         /\ pass' \in [Proc -> [round : 0..MaxRounds, worker : 0..Workers, got : BOOLEAN]]
<1>1. pc \in [Proc -> Steps]
  BY DEF TypeOK, Steps
<1>2. pass \in [Proc -> [round : 0..MaxRounds, worker : 0..Workers, got : BOOLEAN]]
  BY DEF TypeOK
<1>3. MaxRounds \in Nat \ {0} /\ Workers \in Nat \ {0}
  BY ParamsAssumption
<1> DEFINE P == [round : 0..MaxRounds, worker : 0..Workers, got : BOOLEAN]
<1>4. PICK w \in P : w = pass[p]
  BY <1>2
<1>5. \/ pass' = [pass EXCEPT ![p].worker = @ + 1] /\ w.worker < Workers
      \/ pass' = [pass EXCEPT ![p] = NoPass]
      \/ /\ pass' = [pass EXCEPT ![p] = [round |-> @.round + 1, worker |-> 1, got |-> FALSE]]
         /\ w.round # MaxRounds
  BY <1>4 DEF NextWorker
<1>6. pc' \in [Proc -> Steps]
  BY <1>1 DEF NextWorker, Steps, PlanSteps
<1>7. ASSUME pass' = [pass EXCEPT ![p].worker = @ + 1], w.worker < Workers
      PROVE  pass' \in [Proc -> P]
  <2>1. [w EXCEPT !.worker = @ + 1] \in P
    BY <1>3, <1>7
  <2> QED
    BY <1>2, <1>4, <1>7, <2>1
<1>8. NoPass \in P
  BY <1>3 DEF NoPass
<1>9. ASSUME w.round # MaxRounds PROVE [round |-> w.round + 1, worker |-> 1, got |-> FALSE] \in P
  BY <1>3, <1>9
<1> QED
  BY <1>2, <1>4, <1>5, <1>6, <1>7, <1>8, <1>9 DEF Steps

\* A loop over rest either drops a row or looks at one.
LEMMA RestRowType ==
  ASSUME rest \in [Proc -> SUBSET Row], row \in [Proc -> Row \cup {NoRow}],
         NEW p \in Proc, NEW r \in rest[p],
         \/ rest' = [rest EXCEPT ![p] = @ \ {r}] /\ row' = row
         \/ rest' = rest /\ row' = [row EXCEPT ![p] = r]
  PROVE  rest' \in [Proc -> SUBSET Row] /\ row' \in [Proc -> Row \cup {NoRow}]
OBVIOUS

\* The planning steps keep every variable within its type.
LEMMA TypePlanStep == ASSUME QueueInv, NEW p \in Proc, PlanStep(p) PROVE TypeOK'
<1> USE ParamsAssumption DEF QueueInv, TypeOK, dbVars, planVars, passVars,
      execVars, Goto, Schedule, NoClaim, NoPass, Unused, NoItem, JobSteps,
      BuildSteps, FailSteps, PlanSteps, ActiveStatus, TerminalStatus
<1>1. CASE Start(p)
  BY <1>1 DEF Start
<1>2. CASE SyncRead(p)
  BY <1>2 DEF SyncRead
<1>3. CASE SyncWrite(p)
  BY <1>3 DEF SyncWrite
<1>4. CASE SyncDone(p)
  BY <1>4 DEF SyncDone
<1>5. CASE SyncOnly(p)
  BY <1>5 DEF SyncOnly
<1>6. CASE TickList(p)
  BY <1>6 DEF TickList
<1>7. CASE TickCheck(p)
  BY <1>7 DEF TickCheck
<1>8. CASE TickEnqueue(p)
  BY <1>8 DEF TickEnqueue, SaveNewJob, JobRec
<1>9. CASE TickAdvance(p)
  BY <1>9 DEF TickAdvance
<1>10. CASE TickDone(p)
  BY <1>10 DEF TickDone
<1> QED
  BY <1>1, <1>2, <1>3, <1>4, <1>5, <1>6, <1>7, <1>8, <1>9, <1>10 DEF
     PlanStep

\* The steps of run_workers keep every variable within its type.
LEMMA TypeWorkerStep == ASSUME QueueInv, NEW p \in Proc, WorkerStep(p) PROVE TypeOK'
<1> USE ParamsAssumption DEF QueueInv, TypeOK, dbVars, planVars, passVars,
      execVars, Goto, Schedule, NoClaim, NoPass, Unused, NoItem, JobSteps,
      BuildSteps, FailSteps, PlanSteps, ActiveStatus, TerminalStatus
<1>1. CASE ClaimSelect(p)
  <2>1. PICK top \in SUBSET Ready :
          cand' = [cand EXCEPT ![p] = {[id |-> j, rec |-> jobs[j]] : j \in top}]
    BY <1>1 DEF ClaimSelect, UpTo
  <2>2. {[id |-> j, rec |-> jobs[j]] : j \in top} \subseteq Candidate
    BY DEF Candidate, Ready
  <2>3. cand' \in [Proc -> SUBSET Candidate]
    BY <2>1, <2>2
  <2> QED
    BY <1>1, <2>3 DEF ClaimSelect
<1>2. CASE ClaimNone(p)
  <2>1. NextWorker(p) /\ pc[p] \in Steps
    BY <1>2 DEF ClaimNone, Steps
  <2>2. UNCHANGED <<dbVars, planVars, cand, claimed, execVars>>
    BY <1>2 DEF ClaimNone
  <2>3. /\ pc' \in [Proc -> JobSteps \cup BuildSteps \cup FailSteps \cup PlanSteps]
        /\ pass' \in [Proc -> [round : 0..MaxRounds, worker : 0..Workers, got : BOOLEAN]]
    <3> HIDE DEF TypeOK, QueueInv, JobSteps, BuildSteps, FailSteps, PlanSteps
    <3> QED
      BY <2>1, NextWorkerType DEF QueueInv
  <2> QED
    BY <2>2, <2>3
<1>3. CASE ClaimWrite(p)
  <2>1. PICK c \in cand[p] :
          /\ pc' = [pc EXCEPT ![p] = IF cand[p] = {c} THEN "execute" ELSE "claiming"]
          /\ jobs' = [jobs EXCEPT ![c.id] =
                        [c.rec EXCEPT !.status = "CLAIMED", !.attempts = @ + 1]]
          /\ cand' = [cand EXCEPT ![p] = @ \ {c}]
          /\ claimed' = [claimed EXCEPT ![p] = @ \cup
               {[id |-> c.id, key |-> c.rec.key, attempts |-> c.rec.attempts + 1]}]
          /\ pass' = [pass EXCEPT ![p].got = TRUE]
          /\ UNCHANGED <<sched, history, raw, items, clued, planVars, execVars>>
    BY <1>3 DEF ClaimWrite
  <2>2. c.id \in JobId /\ c.rec \in JobRec /\ c.rec.attempts < MaxAttempts
    BY DEF Candidate, CandOK
  <2>3. /\ c.rec.attempts + 1 \in 1..MaxAttempts
        /\ c.rec.key \in Schedule
        /\ [c.rec EXCEPT !.status = "CLAIMED", !.attempts = @ + 1] \in JobRec
    <3> HIDE DEF TypeOK, QueueInv
    <3>1. c.rec.attempts \in 0..MaxAttempts
      BY <2>2 DEF JobRec
    <3>2. c.rec.attempts + 1 \in 1..MaxAttempts
      BY <2>2, <3>1
    <3>3. c.rec.key \in Schedule
      BY <2>2 DEF JobRec
    <3>4. [c.rec EXCEPT !.status = "CLAIMED", !.attempts = @ + 1] \in JobRec
      BY <2>2, JobRecUpdates
    <3> QED
      BY <3>2, <3>3, <3>4
  <2>4. jobs' \in [JobId -> JobRec]
    BY <2>1, <2>3
  <2>5. claimed' \in [Proc -> SUBSET Claim]
    BY <2>1, <2>2, <2>3 DEF Claim
  <2>6. pass' \in [Proc -> [round : 0..MaxRounds, worker : 0..Workers, got : BOOLEAN]]
    <3>1. pass[p] \in [round : 0..MaxRounds, worker : 0..Workers, got : BOOLEAN]
      OBVIOUS
    <3> HIDE DEF TypeOK, QueueInv
    <3>2. [pass[p] EXCEPT !.got = TRUE] \in [round : 0..MaxRounds, worker : 0..Workers, got : BOOLEAN]
      BY <3>1
    <3> QED
      BY <2>1, <3>2 DEF TypeOK, QueueInv
  <2>7. cand' \in [Proc -> SUBSET Candidate] /\ pc' \in [Proc -> JobSteps \cup BuildSteps \cup FailSteps \cup PlanSteps]
    BY <2>1
  <2> QED
    BY <2>1, <2>4, <2>5, <2>6, <2>7
<1>4. CASE Dispatch(p)
  BY <1>4 DEF Dispatch
<1>5. CASE WorkerDone(p)
  <2>1. NextWorker(p) /\ pc[p] \in Steps
    BY <1>5 DEF WorkerDone, Steps
  <2>2. UNCHANGED <<dbVars, planVars, cand, claimed, execVars>>
    BY <1>5 DEF WorkerDone
  <2>3. /\ pc' \in [Proc -> JobSteps \cup BuildSteps \cup FailSteps \cup PlanSteps]
        /\ pass' \in [Proc -> [round : 0..MaxRounds, worker : 0..Workers, got : BOOLEAN]]
    <3> HIDE DEF TypeOK, QueueInv, JobSteps, BuildSteps, FailSteps, PlanSteps
    <3> QED
      BY <2>1, NextWorkerType DEF QueueInv
  <2> QED
    BY <2>2, <2>3
<1>6. CASE EndCycle(p)
  <2>1. /\ pc' = [pc EXCEPT ![p] = "tick"] \/ pc' = [pc EXCEPT ![p] = "down"]
        /\ UNCHANGED <<dbVars, planVars, passVars, execVars>>
    BY <1>6 DEF EndCycle
  <2>2. pc' \in [Proc -> JobSteps \cup BuildSteps \cup FailSteps \cup PlanSteps]
    BY <2>1
  <2> QED
    BY <2>1, <2>2
<1> QED
  BY <1>1, <1>2, <1>3, <1>4, <1>5, <1>6 DEF WorkerStep

\* The steps of a collection job keep every variable within its type.
LEMMA TypeCollectStep == ASSUME QueueInv, NEW p \in Proc, CollectStep(p) PROVE TypeOK'
<1> USE ParamsAssumption DEF QueueInv, TypeOK, dbVars, planVars, passVars,
      execVars, Goto, Schedule, NoClaim, NoPass, Unused, NoItem, JobSteps,
      BuildSteps, FailSteps, PlanSteps, ActiveStatus, TerminalStatus
<1>1. CASE RunnerExits(p)
  BY <1>1 DEF RunnerExits
<1>2. CASE AddRead(p)
  <2>1. PICK r \in rest[p] :
          \/ pc' = [pc EXCEPT ![p] = "adding"] /\ rest' = [rest EXCEPT ![p] = @ \ {r}] /\ row' = row
          \/ pc' = [pc EXCEPT ![p] = "addput"] /\ rest' = rest /\ row' = [row EXCEPT ![p] = r]
    BY <1>2 DEF AddRead
  <2>2. pc' \in [Proc -> JobSteps \cup BuildSteps \cup FailSteps \cup PlanSteps]
    BY <2>1
  <2>3. rest' \in [Proc -> SUBSET Row] /\ row' \in [Proc -> Row \cup {NoRow}]
    BY <2>1, RestRowType DEF TypeOK
  <2>4. UNCHANGED <<dbVars, planVars, passVars, job, readJob, before, batch, added>>
    BY <1>2 DEF AddRead
  <2> QED
    BY <2>2, <2>3, <2>4
<1>3. CASE AddWrite(p)
  BY <1>3 DEF AddWrite, ItemRec
<1>4. CASE AddDone(p)
  BY <1>4 DEF AddDone
<1>5. CASE UniqueCheck(p)
  BY <1>5 DEF UniqueCheck
<1>6. CASE UniqueWrite(p)
  BY <1>6 DEF UniqueWrite, SaveNewJob, JobRec
<1> QED
  BY <1>1, <1>2, <1>3, <1>4, <1>5, <1>6 DEF CollectStep

\* The steps of a clue build keep every variable within its type.
LEMMA TypeBuildStep == ASSUME QueueInv, NEW p \in Proc, BuildStep(p) PROVE TypeOK'
<1> USE ParamsAssumption DEF QueueInv, TypeOK, dbVars, planVars, passVars,
      execVars, Goto, Schedule, NoClaim, NoPass, Unused, NoItem, JobSteps,
      BuildSteps, FailSteps, PlanSteps, ActiveStatus, TerminalStatus
<1>1. CASE ReserveNone(p)
  BY <1>1 DEF ReserveNone
<1>2. CASE ReserveSelect(p)
  BY <1>2 DEF ReserveSelect, UpTo, PendingItems
<1>3. CASE ReserveWrite(p)
  BY <1>3 DEF ReserveWrite, ItemRec, Claim
<1>4. CASE LoadRows(p)
  BY <1>4 DEF LoadRows
<1>5. CASE BuildClues(p)
  BY <1>5 DEF BuildClues
<1>6. CASE FinishRead(p)
  <2>1. PICK r \in rest[p] :
          \/ pc' = [pc EXCEPT ![p] = "finish"] /\ rest' = [rest EXCEPT ![p] = @ \ {r}] /\ row' = row
          \/ pc' = [pc EXCEPT ![p] = "finishput"] /\ rest' = rest /\ row' = [row EXCEPT ![p] = r]
    BY <1>6 DEF FinishRead, ItemRead
  <2>2. pc' \in [Proc -> JobSteps \cup BuildSteps \cup FailSteps \cup PlanSteps]
    BY <2>1
  <2>3. rest' \in [Proc -> SUBSET Row] /\ row' \in [Proc -> Row \cup {NoRow}]
    BY <2>1, RestRowType DEF TypeOK
  <2>4. UNCHANGED <<dbVars, planVars, passVars, job, readJob, before, batch, added>>
    BY <1>6 DEF FinishRead, ItemRead
  <2> QED
    BY <2>2, <2>3, <2>4
<1>7. CASE FinishWrite(p)
  BY <1>7 DEF FinishWrite, ItemWrite, ItemRec
<1>8. CASE FinishDone(p)
  BY <1>8 DEF FinishDone
<1>9. CASE ReleaseRead(p)
  <2>1. PICK r \in rest[p] :
          \/ pc' = [pc EXCEPT ![p] = "release"] /\ rest' = [rest EXCEPT ![p] = @ \ {r}] /\ row' = row
          \/ pc' = [pc EXCEPT ![p] = "releaseput"] /\ rest' = rest /\ row' = [row EXCEPT ![p] = r]
    BY <1>9 DEF ReleaseRead, ItemRead
  <2>2. pc' \in [Proc -> JobSteps \cup BuildSteps \cup FailSteps \cup PlanSteps]
    BY <2>1
  <2>3. rest' \in [Proc -> SUBSET Row] /\ row' \in [Proc -> Row \cup {NoRow}]
    BY <2>1, RestRowType DEF TypeOK
  <2>4. UNCHANGED <<dbVars, planVars, passVars, job, readJob, before, batch, added>>
    BY <1>9 DEF ReleaseRead, ItemRead
  <2> QED
    BY <2>2, <2>3, <2>4
<1>10. CASE ReleaseWrite(p)
  BY <1>10 DEF ReleaseWrite, ItemWrite, ItemRec
<1>11. CASE ReleaseDone(p)
  BY <1>11 DEF ReleaseDone
<1> QED
  BY <1>1, <1>2, <1>3, <1>4, <1>5, <1>6, <1>7, <1>8, <1>9, <1>10, <1>11
     DEF BuildStep

\* The steps that end a job keep every variable within its type.
LEMMA TypeEndStep == ASSUME QueueInv, NEW p \in Proc, EndStep(p) PROVE TypeOK'
<1> USE ParamsAssumption DEF QueueInv, TypeOK, dbVars, planVars, passVars,
      execVars, Goto, Schedule, NoClaim, NoPass, Unused, NoItem, JobSteps,
      BuildSteps, FailSteps, PlanSteps, ActiveStatus, TerminalStatus
<1>1. CASE CompleteRead(p)
  <2>1. job[p].id \in JobId
    BY <1>1 DEF CompleteRead, JobRead, JobAt, JobPc, Claim
  <2> QED
    BY <1>1, <2>1 DEF CompleteRead, JobRead
<1>2. CASE CompleteWrite(p)
  <2>1. Succeeded(readJob[p]) \in JobRec
    BY JobRecUpdates
  <2>2. jobs' = [jobs EXCEPT ![job[p].id] = Succeeded(readJob[p])]
    BY <1>2 DEF CompleteWrite, JobWrite
  <2>3. jobs' \in [JobId -> JobRec]
    BY <2>1, <2>2
  <2>4. readJob' \in [Proc -> JobRec]
    BY <1>2 DEF CompleteWrite, JobWrite, JobRec
  <2> QED
    BY <1>2, <2>3, <2>4 DEF CompleteWrite, JobWrite
<1>3. CASE HistoryOk(p)
  BY <1>3 DEF HistoryOk, SaveHistory
<1>4. CASE FailRead(p)
  <2>1. job[p].id \in JobId
    BY <1>4 DEF FailRead, JobRead, JobAt, JobPc, Claim
  <2> QED
    BY <1>4, <2>1 DEF FailRead, JobRead
<1>5. CASE FailWrite(p)
  <2>1. Failed(readJob[p]) \in JobRec
    BY JobRecUpdates
  <2>2. jobs' = [jobs EXCEPT ![job[p].id] = Failed(readJob[p])]
    BY <1>5 DEF FailWrite, JobWrite
  <2>3. jobs' \in [JobId -> JobRec]
    BY <2>1, <2>2
  <2>4. readJob' \in [Proc -> JobRec]
    BY <1>5 DEF FailWrite, JobWrite, JobRec
  <2> QED
    BY <1>5, <2>3, <2>4 DEF FailWrite, JobWrite
<1>6. CASE HistoryFail(p)
  BY <1>6 DEF HistoryFail, SaveHistory
<1> QED
  BY <1>1, <1>2, <1>3, <1>4, <1>5, <1>6 DEF EndStep

\* The faults keep every variable within its type.
LEMMA TypeFault == ASSUME QueueInv, NEW p \in Proc, Fault(p) PROVE TypeOK'
<1> USE ParamsAssumption DEF QueueInv, TypeOK, dbVars, planVars, passVars,
      execVars, Goto, Schedule, NoClaim, NoPass, Unused, NoItem, JobSteps,
      BuildSteps, FailSteps, PlanSteps, ActiveStatus, TerminalStatus
<1>1. CASE RunnerFails(p)
  BY <1>1 DEF RunnerFails
<1>2. CASE BuildFails(p)
  BY <1>2 DEF BuildFails
<1>3. CASE Raise(p)
  BY <1>3 DEF Raise, JobRec
<1>4. CASE Crash(p)
  BY <1>4 DEF Crash, JobRec
<1> QED
  BY <1>1, <1>2, <1>3, <1>4 DEF Fault

\* Every step keeps every variable within its type.
LEMMA TypeStep == ASSUME QueueInv, [Next]_vars PROVE TypeOK'
<1> USE DEF QueueInv
<1>1. ASSUME NEW p \in Proc, RunnerWrites(p) PROVE TypeOK'
  BY <1>1 DEF RunnerWrites, TypeOK, planVars, passVars, execVars
<1>2. ASSUME NEW s \in Schedule, ScheduleDue(s) PROVE TypeOK'
  BY <1>2 DEF ScheduleDue, TypeOK, passVars, execVars
<1>3. ASSUME NEW j \in JobId, BackoffOver(j) PROVE TypeOK'
  <2>1. [jobs[j] EXCEPT !.ready = TRUE] \in JobRec
    BY JobRecUpdates DEF TypeOK
  <2>2. jobs' \in [JobId -> JobRec]
    BY <1>3, <2>1 DEF TypeOK, BackoffOver
  <2> QED
    BY <1>3, <2>2 DEF BackoffOver, TypeOK, planVars, passVars, execVars
<1>4. CASE UNCHANGED vars
  BY <1>4 DEF TypeOK, vars, dbVars, planVars, passVars, execVars
<1>5. ASSUME NEW p \in Proc, Step(p) \/ Fault(p) PROVE TypeOK'
  BY <1>5, TypePlanStep, TypeWorkerStep, TypeCollectStep, TypeBuildStep, TypeEndStep,
     TypeFault DEF Step
<1> QED
  BY <1>1, <1>2, <1>3, <1>4, <1>5 DEF Next, Clock

------------------------------------------------------------------------------
(* The theorems for any number of processes.                               *)

\* The database and every process start empty.
LEMMA QueueInit == Init => QueueInv
<1> SUFFICES ASSUME Init PROVE QueueInv
  OBVIOUS
<1> USE ParamsAssumption DEF Init
<1>1. TypeOK
  BY DEF TypeOK, JobRec, ItemRec, Unused, NoItem, NoPass, NoClaim, PlanSteps, Schedule
<1>2. CandOK /\ JobAt /\ ReadOK /\ BatchOK
  BY DEF CandOK, JobAt, ReadOK, BatchOK, JobPc, JobSteps, BuildSteps, FailSteps
<1>3. HeldOK
  BY DEF HeldOK, NoClaim
<1>4. RetryDiscipline /\ CompletedHasClues
  BY DEF RetryDiscipline, CompletedHasClues, Unused, NoItem
<1> QED
  BY <1>1, <1>2, <1>3, <1>4 DEF QueueInv

\* The inductive invariant of the queue: types, what the payloads held in
\* memory between two statements still guarantee, and the two properties.
THEOREM QueueInvariant == Spec => []QueueInv
<1>1. ASSUME QueueInv, [Next]_vars PROVE QueueInv'
  BY <1>1, TypeStep, CandStep, JobAtStep, HeldStep, ReadStep, BatchStep, RetryStep,
     CluesStep DEF QueueInv
<1> QED
  BY QueueInit, <1>1, PTL DEF Spec

\* Type correctness of the scheduler and its queue tables.
THEOREM TypeCorrect == Spec => []TypeOK
<1>1. QueueInv => TypeOK
  BY DEF QueueInv
<1> QED
  BY QueueInvariant, <1>1, PTL

\* However many processes overwrite each other's payloads, crash or raise: a
\* pending job has an attempt left, a job given up has none, and nothing is
\* claimed or finished without an attempt.
THEOREM RetriesBounded == Spec => []RetryDiscipline
<1>1. QueueInv => RetryDiscipline
  BY DEF QueueInv
<1> QED
  BY QueueInvariant, <1>1, PTL

\* However many processes build the same rows, crash or raise: an item is
\* marked COMPLETED only after the clues of its row were saved.
THEOREM CompletionSound == Spec => []CompletedHasClues
<1>1. QueueInv => CompletedHasClues
  BY DEF QueueInv
<1> QED
  BY QueueInvariant, <1>1, PTL

==============================================================================
