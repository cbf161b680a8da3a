-------------------------- MODULE SingleProcessProofs --------------------------
(***************************************************************************)
(* One scheduler process alone keeps at most one active job per dedupe     *)
(* key, whatever fails and whenever it is killed and started again.  (With *)
(* two processes the guard of an enqueue and the insert can interleave.)   *)
(* Where some faults are excluded, each theorem says which, it also keeps  *)
(* every reservation, history and raw row accounted for, and implements    *)
(* UniqueQueue.                                                            *)
(***************************************************************************)
EXTENDS CollectionQueueProofs, CollectionQueueRefinement

\* The steps at which the job in hand is still CLAIMED.
Working == (JobSteps \cup BuildSteps) \ {"history"}

\* Payloads are held only while claiming, a job only while executing it.
IdleOK(p) ==
  /\ pc[p] # "claiming" => cand[p] = {}
  /\ pc[p] \notin JobPc => job[p] = NoClaim

\* Selected payloads still equal their rows; claimed jobs are distinct rows,
\* CLAIMED, none of them the job being executed.
HandOK(p) ==
  /\ \A c \in cand[p] : jobs[c.id] = c.rec /\ c.rec.ready
  /\ \A c \in claimed[p] : jobs[c.id].status = "CLAIMED" /\ c.id # job[p].id
  /\ \A c, d \in claimed[p] : c.id = d.id => c = d

\* What has_active_queue_job returned is still true when the job is inserted.
CheckOK(p) ==
  /\ pc[p] = "enqueue" => ~Active(focus[p])
  /\ pc[p] = "uniqput" => ~Active(Build)

\* The job in hand is CLAIMED until its outcome is written, the payload to
\* write back has its key, and no other active job has that key.
CurrentOK(p) ==
  /\ pc[p] \in Working => jobs[job[p].id].status = "CLAIMED"
  /\ pc[p] \in {"completeput", "failput"} => readJob[p].key = jobs[job[p].id].key
  /\ pc[p] \in JobPc \ {"failhist"} =>
       \A k \in JobId : k # job[p].id /\ jobs[k].status \in ActiveStatus
                          => jobs[k].key # jobs[job[p].id].key

\* A step of p that matters to none of this.
Quiet(p) ==
  /\ UNCHANGED <<jobs, cand, claimed, job>>
  /\ pc[p] # "claiming"
  /\ pc'[p] \notin {"claiming", "enqueue", "uniqput", "completeput", "failput"}
  /\ pc'[p] \in Working => pc[p] \in Working
  /\ pc'[p] \in JobPc \ {"failhist"} => pc[p] \in JobPc \ {"failhist"}
  /\ pc[p] \in JobPc => pc'[p] \in JobPc

\* Every step is one of those the invariant has to be checked for, or quiet.
LEMMA QuietOrNot ==
  ASSUME TypeOK, NEW p \in Proc, Act(p)
  PROVE  \/ Quiet(p)
         \/ TickCheck(p) \/ TickEnqueue(p) \/ ClaimSelect(p) \/ ClaimWrite(p)
         \/ Dispatch(p) \/ UniqueCheck(p) \/ UniqueWrite(p)
         \/ CompleteRead(p) \/ CompleteWrite(p) \/ HistoryOk(p)
         \/ FailRead(p) \/ FailWrite(p) \/ HistoryFail(p) \/ Crash(p)
<1>1. pc \in [Proc -> Steps]
  BY DEF TypeOK, Steps
<1> USE <1>1 DEF Goto, Quiet, Working, JobPc, JobSteps, BuildSteps, FailSteps, dbVars,
                 passVars, execVars
<1>2. CASE PlanStep(p)
  BY <1>2 DEF PlanStep, Start, SyncRead, SyncWrite, SyncDone, SyncOnly, TickList,
     TickAdvance, TickDone
<1>3. CASE WorkerStep(p)
  <2>1. CASE ClaimNone(p) \/ WorkerDone(p)
    <3>1. /\ pc'[p] \in {"claim", "cycle"}
          /\ pc[p] \in {"claim", "execute"}
          /\ UNCHANGED <<jobs, cand, claimed, job>>
      BY <2>1 DEF ClaimNone, WorkerDone, NextWorker
    <3> QED
      BY <3>1
  <2>2. CASE EndCycle(p)
    BY <2>2 DEF EndCycle
  <2> QED
    BY <1>3, <2>1, <2>2 DEF WorkerStep
<1>4. CASE CollectStep(p)
  BY <1>4 DEF CollectStep, RunnerExits, AddRead, AddWrite, AddDone
<1>5. CASE BuildStep(p)
  <2>1. CASE \/ ReserveNone(p) \/ ReserveSelect(p) \/ ReserveWrite(p) \/ LoadRows(p)
             \/ BuildClues(p) \/ FinishDone(p) \/ ReleaseDone(p)
    BY <2>1 DEF ReserveNone, ReserveSelect, ReserveWrite, LoadRows, BuildClues,
       FinishDone, ReleaseDone
  <2>2. CASE FinishRead(p) \/ FinishWrite(p) \/ ReleaseRead(p) \/ ReleaseWrite(p)
    BY <2>2 DEF FinishRead, FinishWrite, ReleaseRead, ReleaseWrite, ItemRead, ItemWrite
  <2> QED
    BY <1>5, <2>1, <2>2 DEF BuildStep
<1>6. CASE EndStep(p)
  BY <1>6 DEF EndStep
<1>7. CASE RunnerWrites(p) \/ Fault(p)
  BY <1>7 DEF RunnerWrites, Fault, RunnerFails, BuildFails, Raise
<1> QED
  BY <1>2, <1>3, <1>4, <1>5, <1>6, <1>7 DEF Act, Step

------------------------------------------------------------------------------
(* Each step preserves the invariant.                                      *)

\* What the invariant says of the only process.
Single(p) == OneActivePerKey /\ IdleOK(p) /\ HandOK(p) /\ CheckOK(p) /\ CurrentOK(p)

\* The types the steps below depend on.
Typing ==
  /\ jobs \in [JobId -> JobRec]
  /\ pc \in [Proc -> Steps]
  /\ cand \in [Proc -> SUBSET Candidate]
  /\ claimed \in [Proc -> SUBSET Claim]
  /\ job \in [Proc -> Claim \cup {NoClaim}]
  /\ readJob \in [Proc -> JobRec]
  /\ focus \in [Proc -> Schedule]

\* A quiet step.
LEMMA QuietKeeps ==
  ASSUME Typing, NEW p \in Proc, Single(p), Quiet(p)
  PROVE  Single(p)'
<1> USE DEF Single, Quiet
<1>1. OneActivePerKey'
  BY DEF OneActivePerKey
<1>2. IdleOK(p)' /\ HandOK(p)' /\ CheckOK(p)'
  BY DEF IdleOK, HandOK, CheckOK
<1>3. CurrentOK(p)'
  BY DEF CurrentOK
<1> QED
  BY <1>1, <1>2, <1>3

\* A new job, for a key that has no active job.
LEMMA NewJobKeeps ==
  ASSUME Typing, NEW p \in Proc, Proc = {p}, Single(p), JobAt, NEW key \in Schedule,
         ~Active(key), SaveNewJob(key), UNCHANGED <<cand, claimed, job>>,
         pc[p] \in {"enqueue", "uniqput"},
         pc[p] = "enqueue" => pc'[p] = "advance",
         pc[p] = "uniqput" => pc'[p] = "complete"
  PROVE  Single(p)'
<1> USE DEF Single
<1>1. PICK j \in JobId : /\ Fresh(j)
                         /\ jobs' = [jobs EXCEPT ![j] = [status |-> "PENDING", key |-> key,
                                                         attempts |-> 0, ready |-> TRUE]]
  BY DEF SaveNewJob
<1>2. jobs[j].status \notin ActiveStatus /\ jobs[j].status # "CLAIMED"
  BY <1>1 DEF Fresh, ActiveStatus, TerminalStatus
<1>3. \A k \in JobId \ {j} : jobs'[k] = jobs[k]
  BY <1>1 DEF Typing
<1>4. jobs'[j].key = key /\ jobs'[j].status = "PENDING"
  BY <1>1 DEF Typing
<1>5. \A k \in JobId : jobs[k].status \in ActiveStatus => jobs[k].key # key
  BY DEF Active
<1>6. OneActivePerKey'
  BY <1>2, <1>3, <1>4, <1>5 DEF OneActivePerKey
<1>7. IdleOK(p)' /\ CheckOK(p)'
  BY DEF IdleOK, CheckOK, JobPc, JobSteps, BuildSteps, FailSteps
<1>8. HandOK(p)'
  <2>1. cand[p] = {}
    BY DEF IdleOK
  <2>2. \A c \in claimed[p] : c.id \in JobId /\ c.id # j
    BY <1>2 DEF HandOK, Typing, Claim
  <2> QED
    BY <1>3, <2>1, <2>2 DEF HandOK
<1>9. CurrentOK(p)'
  <2>1. CASE pc[p] = "enqueue"
    BY <2>1 DEF CurrentOK, JobPc, JobSteps, BuildSteps, FailSteps, Working
  <2>2. CASE pc[p] = "uniqput"
    <3>1. job[p].id # j /\ jobs'[job[p].id] = jobs[job[p].id]
      BY <1>1, <1>2, <2>2 DEF CurrentOK, Working, JobSteps, Typing
    <3>2. jobs[job[p].id].key # key
      BY <1>5, <2>2 DEF CurrentOK, Working, JobAt, JobPc, JobSteps, Claim, ActiveStatus
    <3> QED
      BY <1>3, <1>4, <2>2, <3>1, <3>2 DEF CurrentOK, Working, JobPc, JobSteps
  <2> QED
    BY <2>1, <2>2
<1> QED
  BY <1>6, <1>7, <1>8, <1>9

\* The two statements of claim_queue_jobs.
LEMMA ClaimKeeps ==
  ASSUME Typing, NEW p \in Proc, Single(p), CandOK, ClaimSelect(p) \/ ClaimWrite(p)
  PROVE  Single(p)'
<1> USE DEF Single
<1>1. CASE ClaimSelect(p)
  <2>1. PICK top \in SUBSET Ready :
          cand' = [cand EXCEPT ![p] = {[id |-> j, rec |-> jobs[j]] : j \in top}]
    BY <1>1 DEF ClaimSelect, UpTo
  <2>2. /\ pc[p] = "claim" /\ pc'[p] = "claiming"
        /\ UNCHANGED <<jobs, claimed, job>>
    BY <1>1 DEF ClaimSelect, Goto, Typing, dbVars, execVars
  <2>3. HandOK(p)'
    <3>1. ASSUME NEW c \in cand'[p] PROVE jobs[c.id] = c.rec /\ c.rec.ready
      <4>1. PICK j \in top : c = [id |-> j, rec |-> jobs[j]]
        BY <2>1 DEF Typing
      <4> QED
        BY <4>1 DEF Ready
    <3> QED
      BY <2>2, <3>1 DEF HandOK
  <2> QED
    BY <2>2, <2>3 DEF OneActivePerKey, IdleOK, CheckOK, CurrentOK, JobPc, JobSteps,
       BuildSteps, FailSteps, Working
<1>2. CASE ClaimWrite(p)
  <2>1. PICK c \in cand[p] :
          /\ jobs' = [jobs EXCEPT ![c.id] =
                        [c.rec EXCEPT !.status = "CLAIMED", !.attempts = @ + 1]]
          /\ cand' = [cand EXCEPT ![p] = @ \ {c}]
          /\ claimed' = [claimed EXCEPT ![p] = @ \cup
               {[id |-> c.id, key |-> c.rec.key, attempts |-> c.rec.attempts + 1]}]
          /\ pc[p] = "claiming"
          /\ pc'[p] = IF cand[p] = {c} THEN "execute" ELSE "claiming"
          /\ job' = job
    BY <1>2 DEF ClaimWrite, Goto, Typing, execVars
  <2>2. c.id \in JobId /\ c.rec \in JobRec /\ jobs[c.id] = c.rec /\ c.rec.status = "PENDING"
    BY DEF Typing, Candidate, HandOK, CandOK
  <2>3. /\ \A k \in JobId \ {c.id} : jobs'[k] = jobs[k]
        /\ jobs'[c.id].status = "CLAIMED" /\ jobs'[c.id].key = jobs[c.id].key
    BY <2>1, <2>2 DEF Typing, JobRec
  <2>4. \A k \in JobId : /\ jobs'[k].key = jobs[k].key
                         /\ jobs'[k].status \in ActiveStatus <=> jobs[k].status \in ActiveStatus
    BY <2>2, <2>3 DEF ActiveStatus
  <2>5. OneActivePerKey'
    BY <2>4 DEF OneActivePerKey
  <2>6. job[p] = NoClaim
    BY <2>1 DEF IdleOK, JobPc, JobSteps, BuildSteps, FailSteps
  <2>7. IdleOK(p)' /\ CheckOK(p)' /\ CurrentOK(p)'
    BY <2>1, <2>6 DEF Typing, IdleOK, CheckOK, CurrentOK, JobPc, JobSteps, BuildSteps,
       FailSteps, Working
  <2>8. HandOK(p)'
    <3>1. ASSUME NEW d \in cand'[p] PROVE jobs'[d.id] = d.rec /\ d.rec.ready
      <4>1. d \in cand[p] /\ d # c
        BY <2>1 DEF Typing
      <4>2. d.id \in JobId /\ jobs[d.id] = d.rec /\ d.rec.ready
        BY <4>1 DEF HandOK, Typing, Candidate
      <4>3. d.id # c.id
        BY <2>2, <4>1, <4>2 DEF Typing, Candidate
      <4> QED
        BY <2>3, <4>2, <4>3
    <3>2. ASSUME NEW d \in claimed[p]
          PROVE  d.id \in JobId /\ d.id # c.id /\ jobs'[d.id].status = "CLAIMED"
      BY <2>2, <2>3 DEF HandOK, Typing, Claim
    <3>3. c.id # NoJob
      BY <2>2, ParamsAssumption
    <3>4. ASSUME NEW d \in claimed'[p]
          PROVE  d \in claimed[p] \/ d = [id |-> c.id, key |-> c.rec.key,
                                          attempts |-> c.rec.attempts + 1]
      BY <2>1 DEF Typing
    <3>5. ASSUME NEW d \in claimed'[p]
          PROVE  jobs'[d.id].status = "CLAIMED" /\ d.id # job'[p].id
      BY <2>1, <2>3, <2>6, <3>2, <3>3, <3>4 DEF HandOK, NoClaim
    <3>6. ASSUME NEW d \in claimed'[p], NEW e \in claimed'[p], d.id = e.id PROVE d = e
      BY <3>2, <3>4, <3>6 DEF HandOK
    <3> QED
      BY <3>1, <3>5, <3>6 DEF HandOK
  <2> QED
    BY <2>5, <2>7, <2>8
<1> QED
  BY <1>1, <1>2

\* A claimed job becomes the job in hand.
LEMMA DispatchKeeps ==
  ASSUME Typing, NEW p \in Proc, Single(p), Dispatch(p)
  PROVE  Single(p)'
<1> USE DEF Single
<1>1. PICK c \in claimed[p] : /\ claimed' = [claimed EXCEPT ![p] = @ \ {c}]
                              /\ job' = [job EXCEPT ![p] = c]
                              /\ pc'[p] \in {"reserve", "collect"}
                              /\ pc[p] = "execute"
                              /\ UNCHANGED <<jobs, cand>>
  BY DEF Dispatch, Goto, Typing, dbVars
<1>2. c.id \in JobId /\ jobs[c.id].status = "CLAIMED" /\ job'[p] = c
  BY <1>1 DEF Typing, Claim, HandOK
<1>3. claimed'[p] = claimed[p] \ {c}
  BY <1>1 DEF Typing
<1>4. OneActivePerKey'
  BY <1>1 DEF OneActivePerKey
<1>5. IdleOK(p)' /\ CheckOK(p)'
  BY <1>1 DEF IdleOK, CheckOK, JobPc, JobSteps
<1>6. HandOK(p)'
  BY <1>1, <1>2, <1>3 DEF HandOK
<1>7. CurrentOK(p)'
  BY <1>1, <1>2 DEF CurrentOK, OneActivePerKey, ActiveStatus, JobPc, JobSteps, Working
<1> QED
  BY <1>4, <1>5, <1>6, <1>7

\* The checks: what they see, the insert will find.
LEMMA CheckKeeps ==
  ASSUME Typing, NEW p \in Proc, Single(p), TickCheck(p) \/ UniqueCheck(p)
  PROVE  Single(p)'
<1> USE DEF Single
<1>1. /\ UNCHANGED <<jobs, cand, claimed, job>>
      /\ \/ pc[p] = "ticking" /\ pc'[p] = "advance"
         \/ pc[p] = "ticking" /\ pc'[p] = "enqueue" /\ ~Active(focus'[p])
         \/ pc[p] = "unique" /\ pc'[p] = "complete"
         \/ pc[p] = "unique" /\ pc'[p] = "uniqput" /\ ~Active(Build)
  BY DEF TickCheck, UniqueCheck, Goto, Typing, dbVars, passVars, execVars
<1>2. OneActivePerKey' /\ HandOK(p)'
  BY <1>1 DEF OneActivePerKey, HandOK
<1>3. CheckOK(p)'
  BY <1>1 DEF CheckOK, Active
<1>4. IdleOK(p)' /\ CurrentOK(p)'
  BY <1>1 DEF IdleOK, CurrentOK, JobPc, JobSteps, BuildSteps, FailSteps, Working
<1> QED
  BY <1>2, <1>3, <1>4

\* The reads of complete_queue_job and fail_queue_job.
LEMMA EndReadKeeps ==
  ASSUME Typing, NEW p \in Proc, Single(p), CompleteRead(p) \/ FailRead(p)
  PROVE  Single(p)'
<1> USE DEF Single
<1>1. /\ UNCHANGED <<jobs, cand, claimed, job>>
      /\ readJob'[p] = jobs[job[p].id]
      /\ \/ pc[p] = "complete" /\ pc'[p] = "completeput"
         \/ pc[p] = "failing" /\ pc'[p] = "failput"
  BY DEF CompleteRead, FailRead, JobRead, Goto, Typing, dbVars, passVars
<1>2. OneActivePerKey' /\ HandOK(p)'
  BY <1>1 DEF OneActivePerKey, HandOK
<1>3. IdleOK(p)' /\ CheckOK(p)'
  BY <1>1 DEF IdleOK, CheckOK, JobPc, JobSteps, BuildSteps, FailSteps
<1>4. CurrentOK(p)'
  BY <1>1 DEF CurrentOK, JobPc, JobSteps, BuildSteps, FailSteps, Working
<1> QED
  BY <1>2, <1>3, <1>4

\* The writes of complete_queue_job and fail_queue_job.
LEMMA EndWriteKeeps ==
  ASSUME Typing, NEW p \in Proc, Single(p), JobAt, CompleteWrite(p) \/ FailWrite(p)
  PROVE  Single(p)'
<1> USE DEF Single
<1>1. /\ UNCHANGED <<cand, claimed, job>>
      /\ \/ /\ pc[p] = "completeput" /\ pc'[p] = "history"
            /\ jobs' = [jobs EXCEPT ![job[p].id] = Succeeded(readJob[p])]
         \/ /\ pc[p] = "failput" /\ pc'[p] = "failhist"
            /\ jobs' = [jobs EXCEPT ![job[p].id] = Failed(readJob[p])]
  BY DEF CompleteWrite, FailWrite, JobWrite, Goto, Typing, passVars
<1>2. job[p].id \in JobId
  BY <1>1 DEF JobAt, JobPc, JobSteps, FailSteps, Claim
<1>3. /\ \A k \in JobId \ {job[p].id} : jobs'[k] = jobs[k]
      /\ jobs'[job[p].id].key = jobs[job[p].id].key
      /\ pc'[p] = "history" => jobs'[job[p].id].status = "SUCCEEDED"
  <2>1. readJob[p] \in JobRec
    BY DEF Typing
  <2>2. readJob[p].key = jobs[job[p].id].key
    BY <1>1 DEF CurrentOK
  <2>3. /\ Succeeded(readJob[p]).key = readJob[p].key
        /\ Failed(readJob[p]).key = readJob[p].key
        /\ Succeeded(readJob[p]).status = "SUCCEEDED"
    BY <2>1 DEF Succeeded, Failed, JobRec
  <2> QED
    BY <1>1, <1>2, <2>2, <2>3 DEF Typing
<1>4. \A k \in JobId : k # job[p].id /\ jobs[k].status \in ActiveStatus
                         => jobs[k].key # jobs[job[p].id].key
  BY <1>1 DEF CurrentOK, JobPc, JobSteps, FailSteps
<1>5. OneActivePerKey'
  BY <1>2, <1>3, <1>4 DEF OneActivePerKey
<1>6. IdleOK(p)' /\ CheckOK(p)'
  BY <1>1 DEF IdleOK, CheckOK, JobPc, JobSteps, BuildSteps, FailSteps
<1>7. HandOK(p)'
  <2>1. cand[p] = {}
    BY <1>1 DEF IdleOK
  <2>2. \A c \in claimed[p] : c.id \in JobId /\ c.id # job[p].id
    BY DEF HandOK, Typing, Claim
  <2> QED
    BY <1>1, <1>3, <2>1, <2>2 DEF HandOK
<1>8. CurrentOK(p)'
  BY <1>1, <1>3, <1>4 DEF CurrentOK, JobPc, JobSteps, BuildSteps, FailSteps, Working
<1> QED
  BY <1>5, <1>6, <1>7, <1>8

\* The job in hand is let go.
LEMMA PutDownKeeps ==
  ASSUME Typing, NEW p \in Proc, Single(p), HistoryOk(p) \/ HistoryFail(p) \/ Crash(p)
  PROVE  Single(p)'
<1> USE DEF Single
<1>1. /\ jobs' = jobs
      /\ job'[p] = NoClaim
      /\ \/ pc[p] \in {"history", "failhist"} /\ pc'[p] = "execute" /\ UNCHANGED <<cand, claimed>>
         \/ pc'[p] = "down" /\ cand'[p] = {} /\ claimed'[p] = {}
  BY DEF HistoryOk, HistoryFail, SaveHistory, Crash, Goto, Typing, dbVars, passVars
<1>2. OneActivePerKey'
  BY <1>1 DEF OneActivePerKey
<1>3. IdleOK(p)' /\ CheckOK(p)' /\ CurrentOK(p)'
  BY <1>1 DEF IdleOK, CheckOK, CurrentOK, JobPc, JobSteps, BuildSteps, FailSteps, Working
<1>4. HandOK(p)'
  <2>1. \A c \in claimed[p] : c.id # NoJob
    BY ParamsAssumption DEF Typing, Claim
  <2> QED
    BY <1>1, <2>1 DEF HandOK, NoClaim
<1> QED
  BY <1>2, <1>3, <1>4

\* Time passes, or nothing happens.
LEMMA ClockKeeps ==
  ASSUME Typing, NEW p \in Proc, Single(p), JobAt, Clock \/ UNCHANGED vars
  PROVE  Single(p)'
<1> USE DEF Single
<1>1. UNCHANGED <<pc, cand, claimed, job>> /\ readJob' = readJob /\ focus' = focus
  BY DEF Clock, ScheduleDue, BackoffOver, vars, planVars, passVars, execVars
<1>2. CASE jobs' = jobs
  BY <1>1, <1>2 DEF OneActivePerKey, IdleOK, HandOK, CheckOK, CurrentOK, Active
<1>3. ASSUME NEW j \in JobId, BackoffOver(j) PROVE Single(p)'
  <2>1. /\ jobs[j].status = "PENDING" /\ ~jobs[j].ready
        /\ jobs' = [jobs EXCEPT ![j].ready = TRUE]
    BY <1>3 DEF BackoffOver
  <2>2. /\ \A k \in JobId \ {j} : jobs'[k] = jobs[k]
        /\ jobs'[j].key = jobs[j].key /\ jobs'[j].status = jobs[j].status
    BY <2>1 DEF Typing, JobRec
  <2>3. \A k \in JobId : jobs'[k].key = jobs[k].key /\ jobs'[k].status = jobs[k].status
    BY <2>2
  <2>4. OneActivePerKey' /\ IdleOK(p)' /\ CheckOK(p)'
    BY <1>1, <2>3 DEF OneActivePerKey, IdleOK, CheckOK, Active
  <2>5. HandOK(p)'
    <3>1. \A c \in cand[p] : c.id \in JobId /\ c.id # j
      BY <2>1 DEF HandOK, Typing, Candidate
    <3>2. \A c \in claimed[p] : c.id \in JobId
      BY DEF Typing, Claim
    <3> QED
      BY <1>1, <2>2, <2>3, <3>1, <3>2 DEF HandOK
  <2>6. CurrentOK(p)'
    <3>1. pc[p] \in JobPc => job[p].id \in JobId
      BY DEF JobAt, Claim
    <3> QED
      BY <1>1, <2>3, <3>1 DEF CurrentOK, Working, JobPc, JobSteps, BuildSteps, FailSteps
  <2> QED
    BY <2>4, <2>5, <2>6
<1> QED
  BY <1>2, <1>3 DEF Clock, ScheduleDue, vars, dbVars

\* Every step of the only process, and the clock.
LEMMA SingleStep ==
  ASSUME NEW p \in Proc, Proc = {p}, QueueInv, Single(p), [Next]_vars
  PROVE  Single(p)'
<1>1. Typing /\ JobAt /\ CandOK /\ TypeOK
  BY DEF QueueInv, TypeOK, Typing, Steps
<1>2. CASE Clock \/ UNCHANGED vars
  BY <1>1, <1>2, ClockKeeps
<1>3. CASE Act(p)
  <2>1. CASE Quiet(p)
    BY <1>1, <2>1, QuietKeeps
  <2>2. CASE TickEnqueue(p) \/ UniqueWrite(p)
    <3>1. PICK key \in Schedule :
            /\ ~Active(key) /\ SaveNewJob(key)
            /\ UNCHANGED <<cand, claimed, job>>
            /\ pc[p] \in {"enqueue", "uniqput"}
            /\ pc[p] = "enqueue" => pc'[p] = "advance"
            /\ pc[p] = "uniqput" => pc'[p] = "complete"
      BY <1>1, <2>2 DEF TickEnqueue, UniqueWrite, Goto, Typing, Single, CheckOK, passVars,
         execVars, Schedule
    <3> QED
      BY <1>1, <3>1, NewJobKeeps
  <2>3. CASE ClaimSelect(p) \/ ClaimWrite(p)
    BY <1>1, <2>3, ClaimKeeps
  <2>4. CASE Dispatch(p)
    BY <1>1, <2>4, DispatchKeeps
  <2>5. CASE TickCheck(p) \/ UniqueCheck(p)
    BY <1>1, <2>5, CheckKeeps
  <2>6. CASE CompleteRead(p) \/ FailRead(p)
    BY <1>1, <2>6, EndReadKeeps
  <2>7. CASE CompleteWrite(p) \/ FailWrite(p)
    BY <1>1, <2>7, EndWriteKeeps
  <2>8. CASE HistoryOk(p) \/ HistoryFail(p) \/ Crash(p)
    BY <1>1, <2>8, PutDownKeeps
  <2> QED
    BY <1>1, <1>3, <2>1, <2>2, <2>3, <2>4, <2>5, <2>6, <2>7, <2>8, QuietOrNot
<1> QED
  BY <1>2, <1>3, NextCases

------------------------------------------------------------------------------
(* The job in hand and its row.                                            *)

\* The steps of a collection, and of a clue build.
CollectPc == {"collect", "adding", "addput"}
BuildPc   == BuildSteps \cup {"reserve", "reserving", "load", "release", "releaseput"}

\* What the claimed payloads say of key and attempts is what their rows say;
\* the step shows the kind of the job.
PayloadOK(p) ==
  /\ \A c \in claimed[p] : jobs[c.id].key = c.key /\ jobs[c.id].attempts = c.attempts
  /\ pc[p] \in JobPc => /\ jobs[job[p].id].key = job[p].key
                        /\ jobs[job[p].id].attempts = job[p].attempts
  /\ pc[p] \in {"completeput", "failput"} => readJob[p].attempts = job[p].attempts
  /\ pc[p] \in CollectPc => job[p].key # Build
  /\ pc[p] \in BuildPc => job[p].key = Build

\* A collection and a build are entered by dispatching such a job.
LEMMA KindEntry ==
  ASSUME TypeOK, NEW p \in Proc, Act(p)
  PROVE  /\ pc'[p] \in CollectPc => pc[p] \in CollectPc \/ (Dispatch(p) /\ pc'[p] = "collect")
         /\ pc'[p] \in BuildPc => pc[p] \in BuildPc \/ (Dispatch(p) /\ pc'[p] = "reserve")
<1>1. pc \in [Proc -> Steps]
  BY DEF TypeOK, Steps
<1> USE <1>1 DEF Goto, CollectPc, BuildPc, BuildSteps
<1>2. CASE PlanStep(p)
  BY <1>2 DEF PlanStep, Start, SyncRead, SyncWrite, SyncDone, SyncOnly, TickList,
     TickCheck, TickEnqueue, TickAdvance, TickDone
<1>3. CASE WorkerStep(p)
  <2>1. CASE Dispatch(p)
    BY <2>1 DEF Dispatch
  <2>2. CASE ClaimNone(p) \/ WorkerDone(p)
    <3>1. pc'[p] \in {"claim", "cycle"}
      BY <2>2 DEF ClaimNone, WorkerDone, NextWorker
    <3> QED
      BY <3>1
  <2>3. CASE ClaimSelect(p) \/ ClaimWrite(p) \/ EndCycle(p)
    <3>1. pc'[p] \in {"claiming", "execute", "tick", "down"}
      BY <2>3 DEF ClaimSelect, ClaimWrite, EndCycle
    <3> QED
      BY <3>1
  <2> QED
    BY <1>3, <2>1, <2>2, <2>3 DEF WorkerStep
<1>4. CASE CollectStep(p)
  BY <1>4 DEF CollectStep, RunnerExits, AddRead, AddWrite, AddDone, UniqueCheck,
     UniqueWrite
<1>5. CASE BuildStep(p)
  BY <1>5 DEF BuildStep, ReserveNone, ReserveSelect, ReserveWrite, LoadRows,
     BuildClues, FinishRead, FinishWrite, FinishDone, ReleaseRead, ReleaseWrite,
     ReleaseDone, ItemRead, ItemWrite
<1>6. CASE EndStep(p)
  BY <1>6 DEF EndStep, CompleteRead, CompleteWrite, FailRead, FailWrite, HistoryOk,
     HistoryFail, JobRead, JobWrite, SaveHistory
<1>7. CASE RunnerWrites(p) \/ Fault(p)
  BY <1>7 DEF RunnerWrites, Fault, RunnerFails, BuildFails, Raise, Crash
<1> QED
  BY <1>2, <1>3, <1>4, <1>5, <1>6, <1>7 DEF Act, Step

\* Every step keeps the payloads equal to their rows.
LEMMA PayloadStep ==
  ASSUME NEW p \in Proc, Proc = {p}, QueueInv, Single(p), PayloadOK(p), [Next]_vars
  PROVE  PayloadOK(p)'
<1>1. Typing /\ JobAt /\ CandOK /\ TypeOK
  BY DEF QueueInv, TypeOK, Typing, Steps
<1>2. /\ claimed[p] \subseteq Claim
      /\ \A c \in claimed[p] : c.id \in JobId /\ jobs[c.id].status = "CLAIMED"
      /\ pc[p] \in JobPc => job[p].id \in JobId
  BY <1>1 DEF Typing, Claim, Single, HandOK, JobAt
<1>3. ASSUME Act(p),
             pc'[p] \in CollectPc => pc[p] \in CollectPc,
             pc'[p] \in BuildPc => pc[p] \in BuildPc,
             job'[p] = job[p] \/ pc'[p] \notin JobPc
      PROVE  /\ pc'[p] \in CollectPc => job'[p].key # Build
             /\ pc'[p] \in BuildPc => job'[p].key = Build
  BY <1>3 DEF PayloadOK, CollectPc, BuildPc, JobPc, JobSteps, BuildSteps, FailSteps
<1>4. CASE Clock \/ UNCHANGED vars
  <2>1. UNCHANGED <<pc, claimed, job>> /\ readJob' = readJob
    BY <1>4, ClockMemory
  <2>2. \A j \in JobId : jobs'[j].key = jobs[j].key /\ jobs'[j].attempts = jobs[j].attempts
    BY <1>1, <1>4 DEF Clock, ScheduleDue, BackoffOver, vars, dbVars, Typing, JobRec
  <2> QED
    BY <1>2, <2>1, <2>2 DEF PayloadOK
<1>5. CASE Act(p) /\ Dispatch(p)
  <2>1. PICK c \in claimed[p] : /\ claimed' = [claimed EXCEPT ![p] = @ \ {c}]
                                /\ job' = [job EXCEPT ![p] = c]
                                /\ pc'[p] = IF c.key = Build THEN "reserve" ELSE "collect"
                                /\ jobs' = jobs
    BY <1>1, <1>5 DEF Dispatch, Goto, Typing, dbVars
  <2> QED
    BY <1>1, <2>1 DEF PayloadOK, Typing, CollectPc, BuildPc, BuildSteps
<1>6. CASE Act(p) /\ Quiet(p)
  <2>1. pc'[p] \in JobPc => pc[p] \in JobPc
    BY <1>1, <1>6, PcEntry DEF Quiet, Dispatch, Goto, Typing, JobPc, JobSteps, BuildSteps,
       FailSteps
  <2>2. /\ pc'[p] \in CollectPc => pc[p] \in CollectPc
        /\ pc'[p] \in BuildPc => pc[p] \in BuildPc
    BY <1>1, <1>6, KindEntry, <2>1 DEF Dispatch, Goto, Typing, JobPc, JobSteps, BuildSteps,
       FailSteps
  <2> QED
    BY <1>6, <2>1, <2>2, <1>3 DEF Quiet, PayloadOK
<1>7. CASE Act(p) /\ (TickCheck(p) \/ UniqueCheck(p))
  <2>1. /\ UNCHANGED <<jobs, claimed, job>>
        /\ \/ pc'[p] \in {"advance", "enqueue"}
           \/ pc[p] = "unique" /\ pc'[p] \in {"complete", "uniqput"}
    BY <1>1, <1>7 DEF TickCheck, UniqueCheck, Goto, Typing, dbVars, passVars, execVars
  <2> QED
    BY <2>1 DEF PayloadOK, CollectPc, BuildPc, JobPc, JobSteps, BuildSteps, FailSteps
<1>8. CASE Act(p) /\ (TickEnqueue(p) \/ UniqueWrite(p))
  <2>1. /\ UNCHANGED <<claimed, job>>
        /\ \/ pc[p] = "enqueue" /\ pc'[p] = "advance"
           \/ pc[p] = "uniqput" /\ pc'[p] = "complete"
    BY <1>1, <1>8 DEF TickEnqueue, UniqueWrite, Goto, Typing, passVars, execVars
  <2>2. PICK j \in JobId : /\ Fresh(j)
                           /\ \A k \in JobId \ {j} : jobs'[k] = jobs[k]
    BY <1>1, <1>8 DEF TickEnqueue, UniqueWrite, SaveNewJob, Typing
  <2>3. jobs[j].status # "CLAIMED"
    BY <2>2 DEF Fresh, TerminalStatus
  <2>4. pc[p] = "uniqput" => job[p].id \in JobId /\ job[p].id # j
    BY <1>2, <2>3 DEF Single, CurrentOK, Working, JobPc, JobSteps
  <2> QED
    BY <1>2, <2>1, <2>2, <2>3, <2>4 DEF PayloadOK, CollectPc, BuildPc, JobPc, JobSteps,
       BuildSteps, FailSteps
<1>9. CASE Act(p) /\ ClaimSelect(p)
  <2>1. /\ UNCHANGED <<jobs, claimed, job>>
        /\ pc'[p] = "claiming"
    BY <1>1, <1>9 DEF ClaimSelect, Goto, Typing, dbVars, execVars
  <2> QED
    BY <2>1 DEF PayloadOK, CollectPc, BuildPc, JobPc, JobSteps, BuildSteps, FailSteps
<1>10. CASE Act(p) /\ ClaimWrite(p)
  <2>1. PICK c \in cand[p] :
          /\ jobs' = [jobs EXCEPT ![c.id] =
                        [c.rec EXCEPT !.status = "CLAIMED", !.attempts = @ + 1]]
          /\ claimed' = [claimed EXCEPT ![p] = @ \cup
               {[id |-> c.id, key |-> c.rec.key, attempts |-> c.rec.attempts + 1]}]
          /\ pc'[p] \in {"execute", "claiming"}
    BY <1>1, <1>10 DEF ClaimWrite, Goto, Typing
  <2>2. c.id \in JobId /\ c.rec \in JobRec /\ jobs[c.id].status = "PENDING"
    BY <1>1 DEF Typing, Candidate, Single, HandOK, CandOK
  <2>3. /\ jobs'[c.id].key = c.rec.key
        /\ jobs'[c.id].attempts = c.rec.attempts + 1
        /\ \A k \in JobId \ {c.id} : jobs'[k] = jobs[k]
    BY <1>1, <2>1, <2>2 DEF Typing, JobRec
  <2>4. ASSUME NEW d \in claimed'[p]
        PROVE  jobs'[d.id].key = d.key /\ jobs'[d.id].attempts = d.attempts
    <3>1. CASE d \in claimed[p]
      BY <1>2, <2>2, <2>3, <3>1 DEF PayloadOK
    <3>2. CASE d = [id |-> c.id, key |-> c.rec.key, attempts |-> c.rec.attempts + 1]
      BY <2>3, <3>2
    <3> QED
      BY <1>1, <2>1, <3>1, <3>2 DEF Typing
  <2> QED
    BY <2>1, <2>4 DEF PayloadOK, CollectPc, BuildPc, JobPc, JobSteps, BuildSteps, FailSteps
<1>11. CASE Act(p) /\ (CompleteRead(p) \/ FailRead(p))
  <2>1. /\ UNCHANGED <<jobs, claimed, job>>
        /\ readJob'[p] = jobs[job[p].id]
        /\ pc[p] \in {"complete", "failing"}
        /\ pc'[p] \in {"completeput", "failput"}
    BY <1>1, <1>11 DEF CompleteRead, FailRead, JobRead, Goto, Typing, dbVars, passVars
  <2> QED
    BY <2>1 DEF PayloadOK, CollectPc, BuildPc, JobPc, JobSteps, BuildSteps, FailSteps
<1>12. CASE Act(p) /\ (CompleteWrite(p) \/ FailWrite(p))
  <2>1. /\ UNCHANGED <<claimed, job>>
        /\ pc[p] \in {"completeput", "failput"}
        /\ pc'[p] \in {"history", "failhist"}
        /\ \/ jobs' = [jobs EXCEPT ![job[p].id] = Succeeded(readJob[p])]
           \/ jobs' = [jobs EXCEPT ![job[p].id] = Failed(readJob[p])]
    BY <1>1, <1>12 DEF CompleteWrite, FailWrite, JobWrite, Goto, Typing, passVars
  <2>2. /\ Succeeded(readJob[p]).key = readJob[p].key
        /\ Failed(readJob[p]).key = readJob[p].key
        /\ Succeeded(readJob[p]).attempts = readJob[p].attempts
        /\ Failed(readJob[p]).attempts = readJob[p].attempts
    BY <1>1 DEF Typing, Succeeded, Failed, JobRec
  <2>3. /\ readJob[p].key = jobs[job[p].id].key
        /\ jobs[job[p].id].key = job[p].key
        /\ readJob[p].attempts = job[p].attempts
        /\ job[p].id \in JobId
    BY <1>2, <2>1 DEF Single, CurrentOK, PayloadOK, JobPc, JobSteps, FailSteps
  <2>4. /\ jobs'[job[p].id].key = job[p].key
        /\ jobs'[job[p].id].attempts = job[p].attempts
        /\ \A k \in JobId \ {job[p].id} : jobs'[k] = jobs[k]
    BY <1>1, <2>1, <2>2, <2>3 DEF Typing
  <2>5. \A c \in claimed[p] : c.id # job[p].id
    BY DEF Single, HandOK
  <2> QED
    BY <1>2, <2>1, <2>4, <2>5 DEF PayloadOK, CollectPc, BuildPc, BuildSteps
<1>13. CASE Act(p) /\ (HistoryOk(p) \/ HistoryFail(p) \/ Crash(p))
  <2>1. /\ jobs' = jobs
        /\ pc'[p] \in {"execute", "down"}
        /\ claimed' = claimed \/ claimed'[p] = {}
    BY <1>1, <1>13 DEF HistoryOk, HistoryFail, SaveHistory, Crash, Goto, Typing, dbVars, passVars
  <2> QED
    BY <2>1 DEF PayloadOK, CollectPc, BuildPc, JobPc, JobSteps, BuildSteps, FailSteps
<1> QED
  BY <1>1, <1>4, <1>5, <1>6, <1>7, <1>8, <1>9, <1>10, <1>11, <1>12, <1>13, NextCases, QuietOrNot

------------------------------------------------------------------------------
(* The rows in hand.                                                       *)

\* The steps at which a job has rows in hand.
RowPc == {"collect", "adding", "addput", "reserving", "load", "build", "finish",
          "finishput", "release", "releaseput"}

\* The rows in hand are still as they were read, and only a reserved item
\* names a job.
RowAt(p) ==
  /\ \A r \in Row : items[r].status # "CLAIMED" => items[r].by = NoJob
  /\ pc[p] = "addput" => row[p] \in Row /\ items[row[p]].status = "NONE"
  /\ pc[p] = "collect" => before[p] \subseteq raw
  /\ pc[p] = "reserving" => \A r \in rest[p] : r \in batch[p] /\ items[r].status = "PENDING"
  /\ pc[p] \in {"finishput", "releaseput"} =>
       row[p] \in rest[p] /\ items[row[p]].by = job[p].id

\* The build in hand has yet to finish row r of its batch.
InHand(p, r) ==
  /\ r \in batch[p]
  /\ \/ pc[p] = "reserving" /\ r \notin rest[p]
     \/ pc[p] \in {"load", "build"}
     \/ pc[p] \in {"finish", "finishput", "release", "releaseput"} /\ r \in rest[p]

\* A reserved item belongs to the build in hand, which has yet to finish it.
ReservedOK(p) ==
  \A r \in Row : items[r].status = "CLAIMED" => items[r].by = job[p].id /\ InHand(p, r)

\* When processes are killed, a reserved item belongs to a claimed build: the one
\* in hand, which has yet to finish it, or one that nobody executes any more.
OwnedOK(p) ==
  \A r \in Row : items[r].status = "CLAIMED" =>
    /\ items[r].by \in JobId
    /\ jobs[items[r].by].key = Build /\ jobs[items[r].by].status = "CLAIMED"
    /\ \A c \in claimed[p] : c.id # items[r].by
    /\ items[r].by = job[p].id => InHand(p, r)

\* The types the steps below depend on.
RowTyping ==
  /\ pc \in [Proc -> Steps]
  /\ raw \subseteq Row
  /\ items \in [Row -> ItemRec]
  /\ job \in [Proc -> Claim \cup {NoClaim}]
  /\ before \in [Proc -> SUBSET Row]
  /\ batch \in [Proc -> SUBSET Row]
  /\ rest \in [Proc -> SUBSET Row]
  /\ row \in [Proc -> Row \cup {NoRow}]

\* The steps of a process that has rows in hand, or takes them.
HandlesRows(p) ==
  \/ Dispatch(p) \/ RunnerExits(p) \/ RunnerFails(p) \/ AddRead(p) \/ AddWrite(p)
  \/ AddDone(p) \/ ReserveSelect(p) \/ ReserveWrite(p) \/ LoadRows(p) \/ BuildClues(p)
  \/ BuildFails(p) \/ FinishRead(p) \/ FinishWrite(p) \/ FinishDone(p)
  \/ ReleaseRead(p) \/ ReleaseWrite(p) \/ ReleaseDone(p)

\* Any other step of it touches neither rows nor items.
LEMMA RowsQuiet ==
  ASSUME RowTyping, NEW p \in Proc, Act(p), ~HandlesRows(p), ~RunnerWrites(p), ~Raise(p),
         ~Crash(p)
  PROVE  UNCHANGED <<items, raw>> /\ pc[p] \notin RowPc /\ pc'[p] \notin RowPc
<1>1. pc \in [Proc -> Steps]
  BY DEF RowTyping
<1> USE <1>1 DEF Goto, RowPc, dbVars
<1>2. CASE PlanStep(p)
  BY <1>2 DEF PlanStep, Start, SyncRead, SyncWrite, SyncDone, SyncOnly, TickList,
     TickCheck, TickEnqueue, TickAdvance, TickDone
<1>3. CASE WorkerStep(p)
  <2>1. CASE ClaimNone(p) \/ WorkerDone(p)
    <3>1. /\ pc[p] \in {"claim", "execute"} /\ pc'[p] \in {"claim", "cycle"}
          /\ UNCHANGED <<items, raw>>
      BY <2>1 DEF ClaimNone, WorkerDone, NextWorker
    <3> QED
      BY <3>1
  <2>2. CASE ClaimSelect(p) \/ ClaimWrite(p) \/ EndCycle(p)
    <3>1. /\ pc[p] \in {"claim", "claiming", "cycle"}
          /\ pc'[p] \in {"claiming", "execute", "tick", "down"}
          /\ UNCHANGED <<items, raw>>
      BY <2>2 DEF ClaimSelect, ClaimWrite, EndCycle
    <3> QED
      BY <3>1
  <2> QED
    BY <1>3, <2>1, <2>2 DEF WorkerStep, HandlesRows
<1>4. CASE CollectStep(p)
  BY <1>4 DEF CollectStep, UniqueCheck, UniqueWrite, HandlesRows
<1>5. CASE BuildStep(p)
  BY <1>5 DEF BuildStep, ReserveNone, HandlesRows
<1>6. CASE EndStep(p)
  BY <1>6 DEF EndStep, CompleteRead, CompleteWrite, FailRead, FailWrite, HistoryOk,
     HistoryFail, JobRead, JobWrite, SaveHistory
<1>7. CASE RunnerWrites(p) \/ Fault(p)
  BY <1>7 DEF Fault, HandlesRows
<1> QED
  BY <1>2, <1>3, <1>4, <1>5, <1>6, <1>7 DEF Act, Step

\* The clock and stuttering touch no row.
LEMMA ClockRows ==
  ASSUME Clock \/ UNCHANGED vars
  PROVE  UNCHANGED <<items, raw, pc, job, before, batch, rest, row>>
BY DEF Clock, ScheduleDue, BackoffOver, vars, dbVars, execVars

\* Every step keeps the row in hand as it was read.
LEMMA RowAtStep ==
  ASSUME NEW p \in Proc, Proc = {p}, QueueInv, RowAt(p), [Next]_vars
  PROVE  RowAt(p)'
<1>1. RowTyping /\ JobAt /\ NoRow \notin Row
  BY ParamsAssumption DEF QueueInv, TypeOK, RowTyping, Steps
<1>2. CASE Clock \/ UNCHANGED vars
  BY <1>2, ClockRows DEF RowAt
<1>3. CASE Act(p)
  <2> USE <1>1 DEF RowTyping, Goto, dbVars, execVars, RowAt
  <2>1. CASE ~HandlesRows(p) /\ ~RunnerWrites(p) /\ ~Raise(p) /\ ~Crash(p)
    BY <1>3, <2>1, RowsQuiet DEF RowPc
  <2>2. CASE RunnerWrites(p) \/ Raise(p) \/ Crash(p)
    BY <2>2 DEF RunnerWrites, Raise, Crash, JobSteps, BuildSteps
  <2>3. CASE Dispatch(p) \/ RunnerExits(p) \/ RunnerFails(p) \/ AddDone(p)
             \/ LoadRows(p) \/ BuildClues(p) \/ BuildFails(p) \/ FinishDone(p) \/ ReleaseDone(p)
    BY <2>3 DEF Dispatch, RunnerExits, RunnerFails, AddDone, LoadRows, BuildClues,
       BuildFails, FinishDone, ReleaseDone
  <2>4. CASE AddRead(p)
    BY <2>4 DEF AddRead
  <2>5. CASE ReserveSelect(p)
    BY <2>5 DEF ReserveSelect, UpTo, PendingItems
  <2>6. CASE FinishRead(p) \/ ReleaseRead(p)
    BY <2>6 DEF FinishRead, ReleaseRead, ItemRead
  <2>7. CASE AddWrite(p) \/ FinishWrite(p) \/ ReleaseWrite(p)
    BY <2>7 DEF AddWrite, FinishWrite, ReleaseWrite, ItemWrite
  <2>8. CASE ReserveWrite(p)
    BY <2>8 DEF ReserveWrite
  <2> QED
    BY <2>1, <2>2, <2>3, <2>4, <2>5, <2>6, <2>7, <2>8 DEF HandlesRows
<1> QED
  BY <1>2, <1>3, NextCases

\* Unless a statement raises or the process dies, every reserved item stays
\* with its build until it is finished or released.
LEMMA ReservedStep ==
  ASSUME NEW p \in Proc, Proc = {p}, "db" \notin Faults, "crash" \notin Faults,
         QueueInv, RowAt(p), ReservedOK(p), [Next]_vars
  PROVE  ReservedOK(p)'
<1>1. RowTyping /\ JobAt /\ NoRow \notin Row
  BY ParamsAssumption DEF QueueInv, TypeOK, RowTyping, Steps
<1>2. CASE Clock \/ UNCHANGED vars
  BY <1>2, ClockRows DEF ReservedOK, InHand
<1>3. CASE Act(p)
  <2> USE <1>1 DEF RowTyping, Goto, dbVars, execVars, ReservedOK, InHand
  <2>1. CASE ~HandlesRows(p) /\ ~RunnerWrites(p) /\ ~Raise(p) /\ ~Crash(p)
    BY <1>3, <2>1, RowsQuiet DEF RowPc
  <2>2. CASE RunnerWrites(p) \/ Raise(p) \/ Crash(p)
    BY <2>2 DEF RunnerWrites, Raise, Crash
  <2>3. CASE Dispatch(p) \/ RunnerExits(p) \/ RunnerFails(p) \/ AddRead(p) \/ AddDone(p)
             \/ FinishDone(p) \/ ReleaseDone(p)
    BY <2>3 DEF Dispatch, RunnerExits, RunnerFails, AddRead, AddDone, FinishDone, ReleaseDone
  <2>4. CASE LoadRows(p) \/ BuildClues(p) \/ BuildFails(p)
    BY <2>4 DEF LoadRows, BuildClues, BuildFails
  <2>5. CASE ReserveSelect(p)
    BY <2>5 DEF ReserveSelect
  <2>6. CASE FinishRead(p) \/ ReleaseRead(p)
    BY <2>6 DEF FinishRead, ReleaseRead, ItemRead
  <2>7. CASE AddWrite(p) \/ FinishWrite(p) \/ ReleaseWrite(p)
    BY <2>7 DEF AddWrite, FinishWrite, ReleaseWrite, ItemWrite
  <2>8. CASE ReserveWrite(p)
    BY <2>8 DEF ReserveWrite, RowAt
  <2> QED
    BY <2>1, <2>2, <2>3, <2>4, <2>5, <2>6, <2>7, <2>8 DEF HandlesRows
<1> QED
  BY <1>2, <1>3, NextCases

\* Unless the collector fails, a statement raises or the process dies, every
\* new raw row stays with the collection until it is registered.
LEMMA RegisteredStep ==
  ASSUME NEW p \in Proc, Proc = {p}, {"runner", "db", "crash"} \cap Faults = {},
         QueueInv, RowAt(p), RowsRegistered, [Next]_vars
  PROVE  RowsRegistered'
<1>1. RowTyping /\ JobAt /\ NoRow \notin Row
  BY ParamsAssumption DEF QueueInv, TypeOK, RowTyping, Steps
<1>2. CASE Clock \/ UNCHANGED vars
  BY <1>2, ClockRows DEF RowsRegistered
<1>3. CASE Act(p)
  <2> USE <1>1 DEF RowTyping, Goto, dbVars, execVars, RowsRegistered
  <2>1. CASE ~HandlesRows(p) /\ ~RunnerWrites(p) /\ ~Raise(p) /\ ~Crash(p)
    BY <1>3, <2>1, RowsQuiet DEF RowPc
  <2>2. CASE RunnerFails(p) \/ Raise(p) \/ Crash(p)
    BY <2>2 DEF RunnerFails, Raise, Crash
  <2>3. CASE RunnerWrites(p) \/ RunnerExits(p)
    BY <2>3 DEF RunnerWrites, RunnerExits, RowAt
  <2>4. CASE Dispatch(p)
    BY <2>4 DEF Dispatch
  <2>5. CASE AddRead(p)
    BY <2>5 DEF AddRead
  <2>6. CASE AddWrite(p)
    BY <2>6 DEF AddWrite
  <2>7. CASE AddDone(p) \/ ReserveSelect(p) \/ LoadRows(p) \/ BuildClues(p) \/ BuildFails(p)
             \/ FinishDone(p) \/ ReleaseDone(p)
    BY <2>7 DEF AddDone, ReserveSelect, LoadRows, BuildClues, BuildFails, FinishDone,
       ReleaseDone
  <2>8. CASE FinishRead(p) \/ FinishWrite(p) \/ ReleaseRead(p) \/ ReleaseWrite(p)
    BY <2>8 DEF FinishRead, FinishWrite, ReleaseRead, ReleaseWrite, ItemRead, ItemWrite
  <2>9. CASE ReserveWrite(p)
    BY <2>9 DEF ReserveWrite
  <2> QED
    BY <2>1, <2>2, <2>3, <2>4, <2>5, <2>6, <2>7, <2>8, <2>9 DEF HandlesRows
<1> QED
  BY <1>2, <1>3, NextCases

------------------------------------------------------------------------------
(* The outcome of the job in hand.                                         *)

\* The three statements of HistoryAgrees about one job.
SameStory(j) ==
  /\ jobs[j].status = "SUCCEEDED" <=> history[j] = "SUCCEEDED"
  /\ jobs[j].status = "FAILED" <=> history[j] = "FAILED"
  /\ jobs[j].status = "PENDING" /\ jobs[j].attempts > 0 => history[j] = "RETRY_PENDING"

\* A job that fails is still CLAIMED until the failure is written.
FailOK(p) == pc[p] \in {"failing", "failput"} => jobs[job[p].id].status = "CLAIMED"

\* Every job but the one in hand agrees with its history, and between the two
\* writes that end a job the row already says what the history will.
HistOK(p) ==
  /\ \A j \in JobId : j # job[p].id => SameStory(j)
  /\ pc[p] = "history" => jobs[job[p].id].status = "SUCCEEDED"
  /\ pc[p] = "failhist" =>
       jobs[job[p].id].status = IF job[p].attempts >= MaxAttempts THEN "FAILED" ELSE "PENDING"

\* The steps that lead to the end of a job.
LEMMA EndEntry ==
  ASSUME TypeOK, NEW p \in Proc, Act(p)
  PROVE  /\ pc'[p] = "history" => CompleteWrite(p)
         /\ pc'[p] = "failhist" => FailWrite(p)
         /\ pc'[p] = "failing" => RunnerFails(p) \/ ReleaseDone(p) \/ Raise(p)
<1>1. pc \in [Proc -> Steps]
  BY DEF TypeOK, Steps
<1> USE <1>1 DEF Goto
<1>2. CASE PlanStep(p)
  BY <1>2 DEF PlanStep, Start, SyncRead, SyncWrite, SyncDone, SyncOnly, TickList,
     TickCheck, TickEnqueue, TickAdvance, TickDone
<1>3. CASE WorkerStep(p)
  <2>1. CASE ClaimNone(p) \/ WorkerDone(p)
    <3>1. pc'[p] \in {"claim", "cycle"}
      BY <2>1 DEF ClaimNone, WorkerDone, NextWorker
    <3> QED
      BY <3>1
  <2>2. CASE ClaimSelect(p) \/ ClaimWrite(p) \/ Dispatch(p) \/ EndCycle(p)
    <3>1. pc'[p] \in {"claiming", "execute", "reserve", "collect", "tick", "down"}
      BY <2>2 DEF ClaimSelect, ClaimWrite, Dispatch, EndCycle
    <3> QED
      BY <3>1
  <2> QED
    BY <1>3, <2>1, <2>2 DEF WorkerStep
<1>4. CASE CollectStep(p)
  BY <1>4 DEF CollectStep, RunnerExits, AddRead, AddWrite, AddDone, UniqueCheck, UniqueWrite
<1>5. CASE BuildStep(p)
  BY <1>5 DEF BuildStep, ReserveNone, ReserveSelect, ReserveWrite, LoadRows, BuildClues,
     FinishRead, FinishWrite, FinishDone, ReleaseRead, ReleaseWrite, ReleaseDone, ItemRead,
     ItemWrite
<1>6. CASE EndStep(p)
  BY <1>6 DEF EndStep, CompleteRead, FailRead, HistoryOk, HistoryFail, JobRead, JobWrite,
     SaveHistory, CompleteWrite, FailWrite
<1>7. CASE RunnerWrites(p) \/ Fault(p)
  BY <1>7 DEF RunnerWrites, Fault, RunnerFails, BuildFails, Raise, Crash
<1> QED
  BY <1>2, <1>3, <1>4, <1>5, <1>6, <1>7 DEF Act, Step

\* The writers of task_runs.
LEMMA HistoryWriters ==
  ASSUME NEW p \in Proc, Act(p)
  PROVE  \/ history' = history
         \/ TickEnqueue(p) \/ UniqueWrite(p) \/ HistoryOk(p) \/ HistoryFail(p)
<1> USE DEF dbVars
<1>1. CASE PlanStep(p)
  BY <1>1 DEF PlanStep, Start, SyncRead, SyncWrite, SyncDone, SyncOnly, TickList,
     TickCheck, TickAdvance, TickDone
<1>2. CASE WorkerStep(p)
  BY <1>2 DEF WorkerStep, ClaimSelect, ClaimNone, ClaimWrite, Dispatch, WorkerDone, EndCycle
<1>3. CASE CollectStep(p)
  BY <1>3 DEF CollectStep, RunnerExits, AddRead, AddWrite, AddDone, UniqueCheck
<1>4. CASE BuildStep(p)
  BY <1>4 DEF BuildStep, ReserveNone, ReserveSelect, ReserveWrite, LoadRows, BuildClues,
     FinishRead, FinishWrite, FinishDone, ReleaseRead, ReleaseWrite, ReleaseDone,
     ItemRead, ItemWrite
<1>5. CASE EndStep(p)
  BY <1>5 DEF EndStep, CompleteRead, CompleteWrite, FailRead, FailWrite, JobRead, JobWrite
<1>6. CASE RunnerWrites(p) \/ Fault(p)
  BY <1>6 DEF RunnerWrites, Fault, RunnerFails, BuildFails, Raise, Crash
<1> QED
  BY <1>1, <1>2, <1>3, <1>4, <1>5, <1>6 DEF Act, Step

\* Unless a statement raises, a job that fails has not been finished.
LEMMA FailStep ==
  ASSUME NEW p \in Proc, Proc = {p}, "db" \notin Faults, QueueInv, Single(p), FailOK(p),
         [Next]_vars
  PROVE  FailOK(p)'
<1>1. Typing /\ JobAt /\ TypeOK
  BY DEF QueueInv, TypeOK, Typing, Steps
<1>2. pc[p] \in JobPc => job[p].id \in JobId
  BY <1>1 DEF JobAt, Claim
<1>3. CASE Clock \/ UNCHANGED vars
  <2>1. UNCHANGED <<pc, job>>
    BY <1>3, ClockMemory
  <2>2. \A j \in JobId : jobs'[j].status = jobs[j].status
    BY <1>1, <1>3 DEF Clock, ScheduleDue, BackoffOver, vars, dbVars, Typing, JobRec
  <2> QED
    BY <1>2, <2>1, <2>2 DEF FailOK, JobPc, FailSteps
<1>4. ASSUME Act(p), pc'[p] \in {"failing", "failput"} PROVE jobs'[job'[p].id].status = "CLAIMED"
  <2>1. RunnerFails(p) \/ ReleaseDone(p) \/ FailRead(p)
    BY <1>1, <1>4, EndEntry, PcEntry DEF Raise
  <2>2. /\ UNCHANGED <<jobs, job>>
        /\ pc[p] \in {"collect", "release", "failing"}
    BY <2>1 DEF RunnerFails, ReleaseDone, FailRead, JobRead, Goto, dbVars
  <2> QED
    BY <2>2 DEF FailOK, Single, CurrentOK, Working, JobSteps
<1> QED
  BY <1>3, <1>4, NextCases DEF FailOK

\* Unless the process dies between the two writes, the history of every job
\* but the one in hand follows its row.
LEMMA HistStep ==
  ASSUME NEW p \in Proc, Proc = {p}, "crash" \notin Faults, QueueInv, Single(p),
         PayloadOK(p), HistOK(p), [Next]_vars
  PROVE  HistOK(p)'
<1>1. Typing /\ JobAt /\ CandOK /\ TypeOK /\ history \in [JobId -> {"NONE", "SUCCEEDED", "FAILED", "RETRY_PENDING"}]
  BY DEF QueueInv, TypeOK, Typing, Steps
<1>2. /\ pc[p] \in JobPc => job[p].id \in JobId
      /\ NoJob \notin JobId
  BY <1>1, ParamsAssumption DEF JobAt, Claim
<1>3. CASE Clock \/ UNCHANGED vars
  <2>1. UNCHANGED <<pc, job>> /\ history' = history
    BY <1>3 DEF Clock, ScheduleDue, BackoffOver, vars, dbVars, execVars
  <2>2. \A j \in JobId : jobs'[j].status = jobs[j].status /\ jobs'[j].attempts = jobs[j].attempts
    BY <1>1, <1>3 DEF Clock, ScheduleDue, BackoffOver, vars, dbVars, Typing, JobRec
  <2> QED
    BY <1>2, <2>1, <2>2 DEF HistOK, SameStory, JobPc, JobSteps, FailSteps
<1>4. CASE Act(p) /\ (CompleteWrite(p) \/ FailWrite(p))
  <2>1. /\ UNCHANGED <<history, job>>
        /\ \/ /\ pc[p] = "completeput" /\ pc'[p] = "history"
              /\ jobs' = [jobs EXCEPT ![job[p].id] = Succeeded(readJob[p])]
           \/ /\ pc[p] = "failput" /\ pc'[p] = "failhist"
              /\ jobs' = [jobs EXCEPT ![job[p].id] = Failed(readJob[p])]
    BY <1>1, <1>4 DEF CompleteWrite, FailWrite, JobWrite, Goto, Typing, passVars
  <2>2. job[p].id \in JobId /\ readJob[p].attempts = job[p].attempts
    BY <1>2, <2>1 DEF PayloadOK, JobPc, JobSteps, FailSteps
  <2>3. /\ Succeeded(readJob[p]).status = "SUCCEEDED"
        /\ Failed(readJob[p]).status =
             IF readJob[p].attempts < MaxAttempts THEN "PENDING" ELSE "FAILED"
    BY <1>1 DEF Typing, Succeeded, Failed, JobRec
  <2>4. job[p].attempts \in Int /\ MaxAttempts \in Int
    BY <1>1, <2>1, ParamsAssumption DEF JobAt, Claim, JobPc, JobSteps, FailSteps
  <2>5. /\ pc'[p] = "history" => jobs'[job'[p].id].status = "SUCCEEDED"
        /\ pc'[p] = "failhist" => jobs'[job'[p].id].status =
             IF job[p].attempts >= MaxAttempts THEN "FAILED" ELSE "PENDING"
    BY <1>1, <2>1, <2>2, <2>3, <2>4 DEF Typing
  <2>6. \A k \in JobId \ {job[p].id} : jobs'[k] = jobs[k]
    BY <1>1, <2>1 DEF Typing
  <2> QED
    BY <2>1, <2>5, <2>6 DEF HistOK, SameStory
<1>5. CASE Act(p) /\ ~CompleteWrite(p) /\ ~FailWrite(p)
  <2>1. pc'[p] # "history" /\ pc'[p] # "failhist"
    BY <1>1, <1>5, EndEntry
  <2>2. CASE TickEnqueue(p) \/ UniqueWrite(p)
    <3>1. PICK j \in JobId, key \in Schedule :
            /\ jobs' = [jobs EXCEPT ![j] = [status |-> "PENDING", key |-> key,
                                            attempts |-> 0, ready |-> TRUE]]
            /\ history' = [history EXCEPT ![j] = "NONE"]
            /\ job' = job
      BY <1>1, <2>2 DEF TickEnqueue, UniqueWrite, SaveNewJob, Typing, execVars, Schedule
    <3> QED
      BY <1>1, <2>1, <3>1 DEF HistOK, SameStory, Typing
  <2>3. CASE ClaimWrite(p)
    <3>1. PICK c \in cand[p] :
            /\ jobs' = [jobs EXCEPT ![c.id] =
                          [c.rec EXCEPT !.status = "CLAIMED", !.attempts = @ + 1]]
            /\ UNCHANGED <<history, job>>
      BY <2>3 DEF ClaimWrite, execVars
    <3>2. c.id \in JobId /\ c.rec \in JobRec /\ jobs[c.id].status = "PENDING"
      BY <1>1 DEF Typing, Candidate, Single, HandOK, CandOK
    <3>3. jobs'[c.id].status = "CLAIMED" /\ \A k \in JobId \ {c.id} : jobs'[k] = jobs[k]
      BY <1>1, <3>1, <3>2 DEF Typing, JobRec
    <3> QED
      BY <2>1, <3>1, <3>2, <3>3 DEF HistOK, SameStory
  <2>4. CASE Dispatch(p)
    <3>1. UNCHANGED <<jobs, history>> /\ job[p] = NoClaim
      BY <1>1, <2>4 DEF Dispatch, dbVars, Goto, Single, IdleOK, JobPc, JobSteps, BuildSteps,
         FailSteps
    <3> QED
      BY <1>2, <2>1, <3>1 DEF HistOK, SameStory, NoClaim
  <2>5. CASE HistoryOk(p) \/ HistoryFail(p)
    <3>1. /\ jobs' = jobs /\ job'[p] = NoClaim
          /\ \/ /\ pc[p] = "history"
                /\ history' = [history EXCEPT ![job[p].id] = "SUCCEEDED"]
             \/ /\ pc[p] = "failhist"
                /\ history' = [history EXCEPT ![job[p].id] =
                     IF job[p].attempts >= MaxAttempts THEN "FAILED" ELSE "RETRY_PENDING"]
      BY <1>1, <2>5 DEF HistoryOk, HistoryFail, SaveHistory, Goto, Typing
    <3>2. PICK k \in JobId : k = job[p].id
      BY <1>2, <3>1 DEF JobPc, JobSteps, FailSteps
    <3>3. /\ \A j \in JobId \ {k} : history'[j] = history[j]
          /\ pc[p] = "history" => history'[k] = "SUCCEEDED"
          /\ pc[p] = "failhist" => history'[k] =
               IF job[p].attempts >= MaxAttempts THEN "FAILED" ELSE "RETRY_PENDING"
      BY <1>1, <3>1, <3>2
    <3>4. SameStory(k)'
      BY <3>1, <3>2, <3>3 DEF HistOK, SameStory
    <3> QED
      BY <2>1, <3>1, <3>2, <3>3, <3>4 DEF HistOK, SameStory
  <2>6. CASE UNCHANGED <<jobs, history, job>>
    BY <2>1, <2>6 DEF HistOK, SameStory
  <2>7. ~Crash(p)
    BY DEF Crash
  <2> QED
    <3>1. ASSUME ~TickEnqueue(p), ~UniqueWrite(p), ~HistoryOk(p), ~HistoryFail(p)
          PROVE  history' = history
      BY <1>5, <3>1, HistoryWriters
    <3>2. ASSUME ~ClaimSelect(p), ~ClaimWrite(p), ~Dispatch(p), ~HistoryOk(p), ~HistoryFail(p)
          PROVE  job' = job
      BY <1>5, <2>7, <3>2, HandWriters
    <3>3. ClaimSelect(p) => UNCHANGED <<jobs, history, job>>
      BY DEF ClaimSelect, dbVars, execVars
    <3>4. ASSUME ~TickEnqueue(p), ~UniqueWrite(p), ~ClaimWrite(p) PROVE jobs' = jobs \/ Clock
      BY <1>5, <3>4, JobsWriters DEF Clock
    <3> QED
      BY <1>3, <2>2, <2>3, <2>4, <2>5, <2>6, <3>1, <3>2, <3>3, <3>4
<1> QED
  BY <1>3, <1>4, <1>5, NextCases

------------------------------------------------------------------------------
(* The theorems about one process.                                         *)

\* What holds of the only process under every fault.
SingleInv(p) == QueueInv /\ Single(p) /\ PayloadOK(p) /\ RowAt(p)

\* The invariant of the only process holds in every state.
LEMMA SingleInvariant ==
  ASSUME NEW p, Proc = {p}
  PROVE  Spec => []SingleInv(p)
<1>1. p \in Proc
  OBVIOUS
<1>2. Init => SingleInv(p)
  <2>1. ASSUME Init PROVE Single(p)
    BY <1>1, <2>1 DEF Init, Single, OneActivePerKey, IdleOK, HandOK, CheckOK, CurrentOK,
       Unused, ActiveStatus, JobPc, JobSteps, BuildSteps, FailSteps, Working
  <2>2. ASSUME Init PROVE PayloadOK(p) /\ RowAt(p)
    BY <1>1, <2>2 DEF Init, PayloadOK, RowAt, NoItem, JobPc, JobSteps, BuildSteps,
       FailSteps, CollectPc, BuildPc
  <2> QED
    BY <2>1, <2>2, QueueInit DEF SingleInv
<1>3. ASSUME QueueInv, [Next]_vars PROVE QueueInv'
  BY <1>3, TypeStep, CandStep, JobAtStep, HeldStep, ReadStep, BatchStep, RetryStep,
     CluesStep DEF QueueInv
<1>4. SingleInv(p) /\ [Next]_vars => SingleInv(p)'
  BY <1>1, <1>3, SingleStep, PayloadStep, RowAtStep DEF SingleInv
<1> QED
  BY <1>2, <1>4, PTL DEF Spec

\* A single scheduler process never has two active jobs with one dedupe key,
\* for every number of jobs, schedules and rows, and under every fault.
THEOREM OneProcessOneActiveJob ==
  ASSUME NEW p, Proc = {p}
  PROVE  Spec => []OneActivePerKey
<1>1. SingleInv(p) => OneActivePerKey
  BY DEF SingleInv, Single
<1> QED
  BY <1>1, SingleInvariant, PTL

\* Where no statement of a job raises and the process is not killed, every
\* reserved item is in the batch of the build that reserved it, and that build
\* is CLAIMED, whatever subprocesses and pipelines do.
THEOREM OneProcessHoldsReservations ==
  ASSUME NEW p, Proc = {p}, "db" \notin Faults, "crash" \notin Faults
  PROVE  Spec => []ReservationHeld
<1>1. Init => ReservedOK(p)
  BY DEF Init, ReservedOK, NoItem
<1>2. SingleInv(p) /\ ReservedOK(p) /\ [Next]_vars => ReservedOK(p)'
  BY ReservedStep DEF SingleInv
<1>3. SingleInv(p) /\ ReservedOK(p) => ReservationHeld
  BY DEF SingleInv, Single, CurrentOK, ReservedOK, InHand, ReservationHeld, Working, JobSteps,
     BuildSteps
<1> QED
  BY <1>1, <1>2, <1>3, SingleInvariant, PTL DEF Spec

\* Where the process is not killed, the row of a job no process executes and
\* its history tell the same story, even when statements raise.
THEOREM OneProcessHistory ==
  ASSUME NEW p, Proc = {p}, "crash" \notin Faults
  PROVE  Spec => []HistoryAgrees
<1>1. Init => HistOK(p)
  BY DEF Init, HistOK, SameStory, Unused
<1>2. SingleInv(p) /\ HistOK(p) /\ [Next]_vars => HistOK(p)'
  BY HistStep DEF SingleInv
<1>3. HistOK(p) => HistoryAgrees
  BY DEF HistOK, SameStory, HistoryAgrees
<1> QED
  BY <1>1, <1>2, <1>3, SingleInvariant, PTL DEF Spec

\* Where collectors return zero, no statement raises and the process is not
\* killed, every raw row is registered for the clue build, or about to be.
THEOREM OneProcessRegistersRows ==
  ASSUME NEW p, Proc = {p}, {"runner", "db", "crash"} \cap Faults = {}
  PROVE  Spec => []RowsRegistered
<1>1. Init => RowsRegistered
  BY DEF Init, RowsRegistered
<1>2. SingleInv(p) /\ RowsRegistered /\ [Next]_vars => RowsRegistered'
  BY RegisteredStep DEF SingleInv
<1> QED
  BY <1>1, <1>2, SingleInvariant, PTL DEF Spec

\* A succeeded job is neither queued nor claimed again, and a completed item
\* is not reopened, when the process is killed and restarted included; only a
\* statement that raises between the two writes of an end could undo one.
THEOREM OneProcessFinishesOnce ==
  ASSUME NEW p, Proc = {p}, "db" \notin Faults
  PROVE  Spec => FinishedStaysFinished
<1>1. Init => FailOK(p)
  BY DEF Init, FailOK
<1>2. SingleInv(p) /\ FailOK(p) /\ [Next]_vars => FailOK(p)'
  BY FailStep DEF SingleInv
<1>3. ASSUME SingleInv(p), FailOK(p), [Next]_vars, NEW j \in JobId, jobs[j].status = "SUCCEEDED"
      PROVE  jobs'[j].status = "SUCCEEDED" \/ jobs'[j].attempts = 0
  <2>1. Typing /\ JobAt /\ CandOK
    BY <1>3 DEF SingleInv, QueueInv, TypeOK, Typing, Steps
  <2>2. CASE TickEnqueue(p) \/ UniqueWrite(p)
    BY <1>3, <2>1, <2>2 DEF TickEnqueue, UniqueWrite, SaveNewJob, Typing
  <2>3. CASE ClaimWrite(p)
    <3>1. PICK c \in cand[p] :
            jobs' = [jobs EXCEPT ![c.id] = [c.rec EXCEPT !.status = "CLAIMED", !.attempts = @ + 1]]
      BY <2>3 DEF ClaimWrite
    <3>2. jobs[c.id].status = "PENDING"
      BY <1>3, <2>1 DEF SingleInv, Single, HandOK, CandOK
    <3> QED
      BY <1>3, <2>1, <3>1, <3>2 DEF Typing
  <2>4. CASE CompleteWrite(p)
    BY <1>3, <2>1, <2>4 DEF CompleteWrite, JobWrite, Succeeded, Typing, JobRec
  <2>5. CASE FailWrite(p)
    <3>1. jobs' = [jobs EXCEPT ![job[p].id] = Failed(readJob[p])] /\ pc[p] = "failput"
      BY <2>5 DEF FailWrite, JobWrite, Goto
    <3>2. jobs[job[p].id].status = "CLAIMED"
      BY <1>3, <3>1 DEF FailOK
    <3> QED
      BY <1>3, <2>1, <3>1, <3>2 DEF Typing
  <2>6. ASSUME NEW k \in JobId, BackoffOver(k) PROVE jobs'[j].status = "SUCCEEDED"
    BY <1>3, <2>1, <2>6 DEF BackoffOver, Typing, JobRec
  <2> QED
    BY <1>3, <2>2, <2>3, <2>4, <2>5, <2>6, JobsWriters
<1>4. ASSUME SingleInv(p), [Next]_vars, NEW r \in Row, items[r].status = "COMPLETED"
      PROVE  items'[r].status = "COMPLETED"
  <2>1. RowTyping /\ JobAt /\ NoJob \notin JobId
    BY <1>4, ParamsAssumption DEF SingleInv, QueueInv, TypeOK, RowTyping, Steps
  <2>2. CASE AddWrite(p) \/ ReserveWrite(p)
    BY <1>4, <2>1, <2>2 DEF AddWrite, ReserveWrite, Goto, SingleInv, RowAt, RowTyping
  <2>3. CASE FinishWrite(p) \/ ReleaseWrite(p)
    <3>1. /\ pc[p] \in {"finishput", "releaseput"}
          /\ \A k \in Row : k # row[p] => items'[k] = items[k]
      BY <2>1, <2>3 DEF FinishWrite, ReleaseWrite, ItemWrite, Goto, RowTyping
    <3>2. items[row[p]].by = job[p].id /\ job[p].id # NoJob
      BY <1>4, <2>1, <3>1 DEF SingleInv, RowAt, JobAt, JobPc, JobSteps, BuildSteps, Claim
    <3>3. r # row[p]
      BY <1>4, <3>2 DEF SingleInv, RowAt
    <3> QED
      BY <1>4, <3>1, <3>3
  <2> QED
    BY <1>4, <2>2, <2>3, ItemsWriters
<1>5. SingleInv(p) /\ FailOK(p) /\ [Next]_vars =>
        [/\ \A j \in JobId : jobs[j].status = "SUCCEEDED" =>
              jobs'[j].status = "SUCCEEDED" \/ jobs'[j].attempts = 0
         /\ \A r \in Row : items[r].status = "COMPLETED" => items'[r].status = "COMPLETED"]_vars
  BY <1>3, <1>4
<1> QED
  BY <1>1, <1>2, <1>5, SingleInvariant, PTL DEF Spec, FinishedStaysFinished

------------------------------------------------------------------------------
(* One process implements the unique queue.                                *)

\* The slot of dedupe key s in the queue table f.
ActiveIn(f, s) == {j \in JobId : f[j].key = s /\ f[j].status \in ActiveStatus}
SlotIn(f, s) ==
  IF ActiveIn(f, s) = {}
  THEN [phase |-> "idle", tries |-> 0]
  ELSE LET rec == f[CHOOSE j \in ActiveIn(f, s) : TRUE]
       IN  [phase |-> IF rec.status = "PENDING" THEN "queued" ELSE "running",
            tries |-> rec.attempts]

\* The refinement mapping reads its slots from the queue table.
Slots(f) == [s \in Schedule |-> SlotIn(f, s)]

LEMMA SlotTable ==
  /\ [s \in Schedule |-> SlotOf(s)] = Slots(jobs)
  /\ [s \in Schedule |-> SlotOf(s)]' = Slots(jobs')
BY DEF SlotOf, SlotIn, ActiveJobs, ActiveIn, Slots

\* And where a row is from the batch items.
InboxIn(f, r) == CASE f[r].status = "NONE"      -> "unseen"
                   [] f[r].status = "PENDING"   -> "pending"
                   [] f[r].status = "CLAIMED"   -> "reserved"
                   [] f[r].status = "COMPLETED" -> "done"
Inboxes(f) == [r \in Row |-> InboxIn(f, r)]

LEMMA InboxTable ==
  /\ [r \in Row |-> InboxOf(r)] = Inboxes(items)
  /\ [r \in Row |-> InboxOf(r)]' = Inboxes(items')
BY DEF InboxOf, InboxIn, Inboxes

\* One item written.
LEMMA InboxExcept ==
  ASSUME NEW f, NEW g, NEW r \in Row, \A x \in Row \ {r} : g[x] = f[x]
  PROVE  Inboxes(g) = [Inboxes(f) EXCEPT ![r] = InboxIn(g, r)]
<1>1. \A x \in Row \ {r} : InboxIn(g, x) = InboxIn(f, x)
  BY DEF InboxIn
<1> QED
  BY <1>1 DEF Inboxes

\* The only active job of a key is its slot.
LEMMA SlotBusy ==
  ASSUME NEW f, NEW j \in JobId, f[j].status \in ActiveStatus,
         \A k \in JobId : k # j /\ f[k].status \in ActiveStatus => f[k].key # f[j].key
  PROVE  SlotIn(f, f[j].key) = [phase |-> IF f[j].status = "PENDING" THEN "queued" ELSE "running",
                                tries |-> f[j].attempts]
<1>1. ActiveIn(f, f[j].key) = {j}
  BY DEF ActiveIn
<1>2. (CHOOSE k \in {j} : TRUE) = j
  OBVIOUS
<1> QED
  BY <1>1, <1>2 DEF SlotIn

\* A key without an active job is idle.
LEMMA SlotIdle ==
  ASSUME NEW f, NEW s, \A k \in JobId : f[k].status \in ActiveStatus => f[k].key # s
  PROVE  SlotIn(f, s) = [phase |-> "idle", tries |-> 0]
BY DEF SlotIn, ActiveIn

\* Writing a job of one key leaves the slots of the others alone.
LEMMA OtherSlots ==
  ASSUME NEW f, NEW g, NEW k \in JobId, \A j \in JobId \ {k} : g[j] = f[j], NEW s,
         f[k].status \in ActiveStatus => f[k].key # s,
         g[k].status \in ActiveStatus => g[k].key # s
  PROVE  SlotIn(g, s) = SlotIn(f, s)
<1>1. ActiveIn(g, s) = ActiveIn(f, s) /\ k \notin ActiveIn(f, s)
  BY DEF ActiveIn
<1>2. ActiveIn(f, s) # {} => (CHOOSE j \in ActiveIn(f, s) : TRUE) \in JobId \ {k}
  BY <1>1 DEF ActiveIn
<1> QED
  BY <1>1, <1>2 DEF SlotIn

\* One slot written.
LEMMA SlotsExcept ==
  ASSUME NEW f, NEW g, NEW key \in Schedule,
         \A s \in Schedule \ {key} : SlotIn(g, s) = SlotIn(f, s)
  PROVE  /\ Slots(g) = [Slots(f) EXCEPT ![key] = SlotIn(g, key)]
         /\ \A t, u : /\ SlotIn(f, key) = [phase |-> u, tries |-> t]
                      /\ SlotIn(g, key) = [phase |-> "queued", tries |-> t]
                      => Slots(g) = [Slots(f) EXCEPT ![key].phase = "queued"]
<1>1. Slots(g) = [Slots(f) EXCEPT ![key] = SlotIn(g, key)]
  BY DEF Slots
<1>2. ASSUME NEW t, NEW u, SlotIn(f, key) = [phase |-> u, tries |-> t],
             SlotIn(g, key) = [phase |-> "queued", tries |-> t]
      PROVE  Slots(g) = [Slots(f) EXCEPT ![key].phase = "queued"]
  <2>1. [SlotIn(f, key) EXCEPT !.phase = "queued"] = SlotIn(g, key)
    BY <1>2
  <2>2. Slots(f)[key] = SlotIn(f, key)
    BY DEF Slots
  <2> QED
    BY <1>1, <2>1, <2>2
<1> QED
  BY <1>1, <1>2

\* What a slot shows of a job does not include whether it is ready.
LEMMA SameSlots ==
  ASSUME NEW f, NEW g, NEW s,
         \A j \in JobId : /\ g[j].key = f[j].key
                          /\ g[j].status = f[j].status
                          /\ g[j].attempts = f[j].attempts
  PROVE  SlotIn(g, s) = SlotIn(f, s)
<1>1. ActiveIn(g, s) = ActiveIn(f, s)
  BY DEF ActiveIn
<1>2. ActiveIn(f, s) # {} => (CHOOSE j \in ActiveIn(f, s) : TRUE) \in JobId
  BY DEF ActiveIn
<1> QED
  BY <1>1, <1>2 DEF SlotIn

\* An insert fills an idle slot.
LEMMA EnqueueStep ==
  ASSUME Typing, NEW key \in Schedule, ~Active(key), SaveNewJob(key), items' = items
  PROVE  Promise!Enqueue(key)
<1>1. PICK j \in JobId : /\ Fresh(j)
                         /\ jobs' = [jobs EXCEPT ![j] = [status |-> "PENDING", key |-> key,
                                                         attempts |-> 0, ready |-> TRUE]]
  BY DEF SaveNewJob
<1>2. /\ jobs[j].status \notin ActiveStatus
      /\ jobs'[j].status = "PENDING" /\ jobs'[j].key = key /\ jobs'[j].attempts = 0
      /\ \A k \in JobId \ {j} : jobs'[k] = jobs[k]
  BY <1>1 DEF Fresh, ActiveStatus, TerminalStatus, Typing
<1>3. SlotIn(jobs, key) = [phase |-> "idle", tries |-> 0]
  BY SlotIdle DEF Active
<1>4. SlotIn(jobs', key) = [phase |-> "queued", tries |-> 0]
  <2>1. \A k \in JobId : k # j /\ jobs'[k].status \in ActiveStatus => jobs'[k].key # jobs'[j].key
    BY <1>2 DEF Active
  <2> QED
    BY <1>2, <2>1, SlotBusy DEF ActiveStatus
<1>5. \A s \in Schedule \ {key} : SlotIn(jobs', s) = SlotIn(jobs, s)
  <2>1. SUFFICES ASSUME NEW s \in Schedule \ {key}
                 PROVE  SlotIn(jobs', s) = SlotIn(jobs, s)
    OBVIOUS
  <2>2. /\ jobs[j].status \in ActiveStatus => jobs[j].key # s
        /\ jobs'[j].status \in ActiveStatus => jobs'[j].key # s
    BY <1>2
  <2>3. \A k \in JobId \ {j} : jobs'[k] = jobs[k]
    BY <1>2
  <2> QED
    BY <2>2, <2>3, OtherSlots
<1>6. Slots(jobs') = [Slots(jobs) EXCEPT ![key].phase = "queued"]
  BY <1>3, <1>4, <1>5, SlotsExcept
<1>7. Slots(jobs)[key] = [phase |-> "idle", tries |-> 0]
  BY <1>3 DEF Slots
<1>8. UNCHANGED [r \in Row |-> InboxOf(r)]
  BY DEF InboxOf
<1> QED
  BY <1>6, <1>7, <1>8, SlotTable DEF Promise!Enqueue, Promise!Idle

\* A claim begins an attempt.
LEMMA BeginStep ==
  ASSUME NEW p \in Proc, SingleInv(p), ClaimWrite(p)
  PROVE  \E key \in Schedule : Promise!Begin(key)
<1>1. Typing /\ CandOK /\ OneActivePerKey
  BY DEF SingleInv, QueueInv, TypeOK, Typing, Steps, Single
<1>2. PICK c \in cand[p] :
        /\ jobs' = [jobs EXCEPT ![c.id] =
                      [c.rec EXCEPT !.status = "CLAIMED", !.attempts = @ + 1]]
        /\ items' = items
  BY DEF ClaimWrite
<1>3. /\ c.id \in JobId /\ c.rec \in JobRec /\ jobs[c.id] = c.rec
      /\ c.rec.status = "PENDING" /\ c.rec.attempts < MaxAttempts /\ c.rec.key \in Schedule
  BY <1>1 DEF Typing, Candidate, SingleInv, Single, HandOK, CandOK, JobRec
<1>4. /\ jobs'[c.id].status = "CLAIMED" /\ jobs'[c.id].key = c.rec.key
      /\ jobs'[c.id].attempts = c.rec.attempts + 1
      /\ \A k \in JobId \ {c.id} : jobs'[k] = jobs[k]
  BY <1>1, <1>2, <1>3 DEF Typing, JobRec
<1>5. \A k \in JobId : k # c.id /\ jobs[k].status \in ActiveStatus => jobs[k].key # c.rec.key
  BY <1>1, <1>3 DEF OneActivePerKey, ActiveStatus
<1>6. PICK key \in Schedule : key = c.rec.key
  BY <1>3
<1>7. SlotIn(jobs, key) = [phase |-> "queued", tries |-> c.rec.attempts]
  BY <1>3, <1>5, <1>6, SlotBusy DEF ActiveStatus
<1>8. SlotIn(jobs', key) = [phase |-> "running", tries |-> c.rec.attempts + 1]
  <2>1. \A k \in JobId : k # c.id /\ jobs'[k].status \in ActiveStatus
                           => jobs'[k].key # jobs'[c.id].key
    BY <1>4, <1>5
  <2> QED
    BY <1>3, <1>4, <1>6, <2>1, SlotBusy DEF ActiveStatus
<1>9. \A s \in Schedule \ {key} : SlotIn(jobs', s) = SlotIn(jobs, s)
  <2>1. PICK k \in JobId : k = c.id
    BY <1>3
  <2>2. jobs[k].key = key /\ jobs'[k].key = key /\ \A j \in JobId \ {k} : jobs'[j] = jobs[j]
    BY <1>3, <1>4, <1>6, <2>1
  <2> QED
    BY <2>2, OtherSlots
<1>10. Slots(jobs') = [Slots(jobs) EXCEPT ![key] =
                         [phase |-> "running", tries |-> c.rec.attempts + 1]]
  BY <1>8, <1>9, SlotsExcept
<1>11. Slots(jobs)[key] = [phase |-> "queued", tries |-> c.rec.attempts]
  BY <1>7 DEF Slots
<1>12. UNCHANGED [r \in Row |-> InboxOf(r)]
  BY <1>2 DEF InboxOf
<1>13. Promise!Begin(key)
  BY <1>3, <1>10, <1>11, <1>12, SlotTable DEF Promise!Begin
<1> QED
  BY <1>13

\* The slot of the job in hand.
LEMMA HandSlot ==
  ASSUME NEW p \in Proc, SingleInv(p), FailOK(p), pc[p] \in Working \cup {"failput"}
  PROVE  /\ job[p].id \in JobId /\ job[p].key \in Schedule
         /\ jobs[job[p].id].key = job[p].key
         /\ jobs[job[p].id].status = "CLAIMED"
         /\ \A k \in JobId : k # job[p].id /\ jobs[k].status \in ActiveStatus
                               => jobs[k].key # job[p].key
         /\ SlotIn(jobs, job[p].key) = [phase |-> "running", tries |-> job[p].attempts]
<1>1. pc[p] \in JobPc /\ pc[p] # "failhist"
  BY DEF Working, JobPc, JobSteps, BuildSteps, FailSteps
<1>2. job[p].id \in JobId /\ job[p].key \in Schedule
  BY <1>1 DEF SingleInv, QueueInv, JobAt, Claim
<1>3. jobs[job[p].id].key = job[p].key /\ jobs[job[p].id].attempts = job[p].attempts
  BY <1>1 DEF SingleInv, PayloadOK
<1>4. jobs[job[p].id].status = "CLAIMED"
  BY DEF SingleInv, Single, CurrentOK, FailOK
<1>5. \A k \in JobId : k # job[p].id /\ jobs[k].status \in ActiveStatus => jobs[k].key # job[p].key
  BY <1>1, <1>3 DEF SingleInv, Single, CurrentOK
<1>6. SlotIn(jobs, job[p].key) = [phase |-> "running", tries |-> job[p].attempts]
  BY <1>2, <1>3, <1>4, <1>5, SlotBusy DEF ActiveStatus
<1> QED
  BY <1>2, <1>3, <1>4, <1>5, <1>6

\* Killed or not, the process leaves no item reserved but for a claimed build.
LEMMA OwnedStep ==
  ASSUME NEW p \in Proc, Proc = {p}, "db" \notin Faults,
         SingleInv(p), FailOK(p), OwnedOK(p), [Next]_vars
  PROVE  OwnedOK(p)'
<1>1. RowTyping /\ Typing /\ JobAt /\ CandOK /\ NoRow \notin Row /\ NoJob \notin JobId
  BY ParamsAssumption DEF SingleInv, QueueInv, TypeOK, RowTyping, Typing, Steps
<1>2. ASSUME NEW r \in Row, items[r].status = "CLAIMED"
      PROVE  /\ jobs'[items[r].by].key = Build
             /\ jobs'[items[r].by].status = "CLAIMED"
  <2>1. PICK k \in JobId : k = items[r].by /\ jobs[k].key = Build /\ jobs[k].status = "CLAIMED"
    BY <1>2 DEF OwnedOK
  <2> SUFFICES jobs'[k].key = Build /\ jobs'[k].status = "CLAIMED"
    BY <2>1
  <2>2. CASE TickEnqueue(p) \/ UniqueWrite(p)
    BY <1>1, <2>1, <2>2 DEF TickEnqueue, UniqueWrite, SaveNewJob, Fresh, TerminalStatus, Typing
  <2>3. CASE ClaimWrite(p)
    <3>1. PICK c \in cand[p] :
            jobs' = [jobs EXCEPT ![c.id] = [c.rec EXCEPT !.status = "CLAIMED", !.attempts = @ + 1]]
      BY <2>3 DEF ClaimWrite
    <3>2. jobs[c.id].status = "PENDING"
      BY <1>1 DEF SingleInv, Single, HandOK, CandOK
    <3> QED
      BY <1>1, <2>1, <3>1, <3>2 DEF Typing
  <2>4. CASE CompleteWrite(p) \/ FailWrite(p)
    <3>1. pc[p] \in {"completeput", "failput"}
      BY <2>4 DEF CompleteWrite, FailWrite, JobWrite, Goto
    <3>2. k # job[p].id
      BY <1>2, <2>1, <3>1 DEF OwnedOK, InHand
    <3> QED
      BY <1>1, <2>1, <2>4, <3>2 DEF CompleteWrite, FailWrite, JobWrite, Typing
  <2>5. ASSUME NEW j \in JobId, BackoffOver(j)
        PROVE  jobs'[k].key = Build /\ jobs'[k].status = "CLAIMED"
    BY <1>1, <2>1, <2>5 DEF BackoffOver, Typing, JobRec
  <2> QED
    BY <2>1, <2>2, <2>3, <2>4, <2>5, JobsWriters
<1>3. CASE Clock \/ UNCHANGED vars
  <2>1. UNCHANGED <<items, pc, job, batch, rest, claimed>>
    BY <1>3 DEF Clock, ScheduleDue, BackoffOver, vars, dbVars, execVars, passVars
  <2> QED
    BY <1>2, <2>1 DEF OwnedOK, InHand
<1>4. ASSUME Act(p), NEW r \in Row, items[r].status = "CLAIMED"
      PROVE  /\ \A c \in claimed'[p] : c.id # items[r].by
             /\ items[r].by = job'[p].id => job'[p].id = job[p].id
  <2> USE <1>1 DEF Typing
  <2>1. CASE UNCHANGED <<cand, claimed, job>>
    BY <1>4, <2>1 DEF OwnedOK
  <2>2. CASE ClaimSelect(p)
    BY <1>4, <2>2 DEF ClaimSelect, OwnedOK, execVars
  <2>3. CASE ClaimWrite(p)
    <3>1. PICK c \in cand[p] : claimed' = [claimed EXCEPT ![p] = @ \cup
                     {[id |-> c.id, key |-> c.rec.key, attempts |-> c.rec.attempts + 1]}]
      BY <2>3 DEF ClaimWrite
    <3>2. jobs[c.id].status = "PENDING" /\ job' = job
      BY <2>3 DEF SingleInv, Single, HandOK, CandOK, ClaimWrite, execVars
    <3>3. c.id # items[r].by
      BY <1>4, <3>2 DEF OwnedOK
    <3> QED
      BY <1>4, <3>1, <3>2, <3>3 DEF OwnedOK
  <2>4. CASE Dispatch(p)
    BY <1>4, <2>4 DEF Dispatch, OwnedOK
  <2>5. CASE HistoryOk(p) \/ HistoryFail(p) \/ Crash(p)
    <3>1. job' = [job EXCEPT ![p] = NoClaim] /\ (claimed' = claimed \/ claimed'[p] = {})
      BY <2>5 DEF HistoryOk, HistoryFail, Crash, SaveHistory, passVars
    <3>2. items[r].by # NoJob
      BY <1>4 DEF OwnedOK
    <3> QED
      BY <1>4, <3>1, <3>2 DEF OwnedOK, NoClaim
  <2> QED
    BY <1>4, <2>1, <2>2, <2>3, <2>4, <2>5, HandWriters
<1>5. ASSUME Act(p), NEW r \in Row, items'[r].status = "CLAIMED"
      PROVE  \/ items'[r] = items[r]
             \/ /\ ReserveWrite(p) /\ r \in rest[p]
                /\ items'[r].by = job[p].id
  <2>1. CASE AddWrite(p) \/ FinishWrite(p) \/ ReleaseWrite(p)
    BY <1>1, <1>5, <2>1 DEF AddWrite, FinishWrite, ReleaseWrite, ItemWrite, RowTyping
  <2>2. CASE ReserveWrite(p)
    <3>1. PICK x \in rest[p] : items' = [items EXCEPT ![x] = [status |-> "CLAIMED", by |-> job[p].id]]
      BY <2>2 DEF ReserveWrite
    <3>2. CASE x = r
      BY <1>1, <2>2, <3>1, <3>2 DEF RowTyping
    <3>3. CASE x # r
      BY <1>1, <3>1, <3>3 DEF RowTyping
    <3> QED
      BY <3>2, <3>3
  <2> QED
    BY <2>1, <2>2, ItemsWriters
<1>6. ASSUME Act(p), NEW r \in Row, items[r].status = "CLAIMED", items'[r] = items[r],
             items[r].by = job'[p].id
      PROVE  InHand(p, r)'
  <2>1. InHand(p, r) /\ items[r].by = job[p].id
    BY <1>4, <1>6 DEF OwnedOK
  <2> USE <1>1, <2>1 DEF RowTyping, Goto, dbVars, execVars, InHand
  <2>2. CASE ~HandlesRows(p) /\ ~RunnerWrites(p) /\ ~Raise(p) /\ ~Crash(p)
    BY <1>6, <2>2, RowsQuiet DEF RowPc
  <2>3. CASE RunnerWrites(p) \/ Raise(p)
    BY <2>3 DEF RunnerWrites, Raise
  <2>4. CASE Crash(p)
    <3>1. job'[p].id = NoJob
      BY <2>4 DEF Crash, NoClaim
    <3> QED
      BY <1>6, <3>1 DEF OwnedOK
  <2>5. CASE Dispatch(p) \/ RunnerExits(p) \/ RunnerFails(p) \/ AddRead(p) \/ AddWrite(p)
             \/ AddDone(p) \/ FinishDone(p) \/ ReleaseDone(p) \/ ReserveSelect(p)
    BY <2>5 DEF Dispatch, RunnerExits, RunnerFails, AddRead, AddWrite, AddDone, FinishDone,
       ReleaseDone, ReserveSelect
  <2>6. CASE LoadRows(p) \/ BuildClues(p) \/ BuildFails(p)
    BY <2>6 DEF LoadRows, BuildClues, BuildFails
  <2>7. CASE FinishRead(p) \/ ReleaseRead(p)
    BY <2>7 DEF FinishRead, ReleaseRead, ItemRead
  <2>8. CASE FinishWrite(p) \/ ReleaseWrite(p)
    BY <1>6, <2>8 DEF FinishWrite, ReleaseWrite, ItemWrite, SingleInv, RowAt
  <2>9. CASE ReserveWrite(p)
    BY <1>6, <2>9 DEF ReserveWrite
  <2> QED
    BY <2>2, <2>3, <2>4, <2>5, <2>6, <2>7, <2>8, <2>9 DEF HandlesRows
<1>7. ASSUME NEW r \in Row, ReserveWrite(p), r \in rest[p], items'[r].status = "CLAIMED",
             items'[r].by = job[p].id
      PROVE  /\ job[p].id \in JobId /\ jobs'[job[p].id].key = Build
             /\ jobs'[job[p].id].status = "CLAIMED"
             /\ \A c \in claimed'[p] : c.id # job[p].id
             /\ items'[r] # items[r] => InHand(p, r)'
  <2>1. pc[p] = "reserving" /\ UNCHANGED <<jobs, claimed, job>>
    BY <1>7 DEF ReserveWrite, Goto, passVars
  <2>2. /\ job[p].id \in JobId /\ jobs[job[p].id].key = job[p].key
        /\ jobs[job[p].id].status = "CLAIMED"
    BY <2>1, HandSlot DEF Working, JobSteps, BuildSteps
  <2>3. job[p].key = Build
    BY <2>1 DEF SingleInv, PayloadOK, BuildPc, BuildSteps
  <2>4. \A c \in claimed[p] : c.id # job[p].id
    BY DEF SingleInv, Single, HandOK
  <2>5. items'[r] # items[r] => InHand(p, r)'
    <3>1. r \in batch[p] /\ batch' = batch
      BY <1>7, <2>1 DEF SingleInv, RowAt, ReserveWrite
    <3>2. PICK x \in rest[p] : /\ items' = [items EXCEPT ![x] = [status |-> "CLAIMED", by |-> job[p].id]]
                               /\ rest' = [rest EXCEPT ![p] = @ \ {x}]
                               /\ pc' = [pc EXCEPT ![p] = IF rest[p] = {x} THEN "load" ELSE "reserving"]
      BY <1>7 DEF ReserveWrite, Goto
    <3> QED
      BY <1>1, <3>1, <3>2 DEF RowTyping, InHand
  <2> QED
    BY <2>1, <2>2, <2>3, <2>4, <2>5
<1>8. CASE Act(p)
  <2> SUFFICES ASSUME NEW r \in Row, items'[r].status = "CLAIMED"
               PROVE  /\ items'[r].by \in JobId
                      /\ jobs'[items'[r].by].key = Build /\ jobs'[items'[r].by].status = "CLAIMED"
                      /\ \A c \in claimed'[p] : c.id # items'[r].by
                      /\ items'[r].by = job'[p].id => InHand(p, r)'
    BY DEF OwnedOK
  <2>1. CASE items'[r] = items[r]
    BY <1>2, <1>4, <1>6, <1>8, <2>1 DEF OwnedOK
  <2>2. CASE items'[r] # items[r]
    BY <1>5, <1>7, <1>8, <2>2
  <2> QED
    BY <2>1, <2>2
<1> QED
  BY <1>3, <1>8, NextCases

\* The write of an outcome ends the attempt; a build has no row reserved then.
LEMMA EndJobStep ==
  ASSUME NEW p \in Proc, SingleInv(p), OwnedOK(p), FailOK(p),
         CompleteWrite(p) \/ FailWrite(p)
  PROVE  \E key \in Schedule : Promise!End(key)
<1>1. Typing
  BY DEF SingleInv, QueueInv, TypeOK, Typing, Steps
<1>2. /\ items' = items
      /\ pc[p] \in {"completeput", "failput"}
      /\ \/ jobs' = [jobs EXCEPT ![job[p].id] = Succeeded(readJob[p])]
         \/ jobs' = [jobs EXCEPT ![job[p].id] = Failed(readJob[p])]
  BY DEF CompleteWrite, FailWrite, JobWrite, Goto
<1>3. /\ job[p].id \in JobId /\ job[p].key \in Schedule
      /\ jobs[job[p].id].key = job[p].key
      /\ \A k \in JobId : k # job[p].id /\ jobs[k].status \in ActiveStatus
                            => jobs[k].key # job[p].key
      /\ SlotIn(jobs, job[p].key) = [phase |-> "running", tries |-> job[p].attempts]
  BY <1>2, HandSlot DEF Working, JobSteps
<1>4. readJob[p] \in JobRec /\ readJob[p].key = job[p].key /\ readJob[p].attempts = job[p].attempts
  BY <1>1, <1>2, <1>3 DEF Typing, SingleInv, Single, CurrentOK, PayloadOK
<1>5. PICK i \in JobId : i = job[p].id
  BY <1>3
<1>6. \A k \in JobId \ {i} : jobs'[k] = jobs[k]
  BY <1>1, <1>2, <1>5 DEF Typing
<1>7. /\ jobs'[i].key = job[p].key
      /\ \/ jobs'[i].status \in TerminalStatus
         \/ /\ jobs'[i].status = "PENDING"
            /\ jobs'[i].attempts = job[p].attempts
            /\ job[p].attempts < MaxAttempts
  <2>1. CASE jobs' = [jobs EXCEPT ![job[p].id] = Succeeded(readJob[p])]
    BY <1>1, <1>4, <1>5, <2>1 DEF Succeeded, JobRec, TerminalStatus, Typing
  <2>2. CASE jobs' = [jobs EXCEPT ![job[p].id] = Failed(readJob[p])]
    BY <1>1, <1>4, <1>5, <2>2 DEF Failed, JobRec, TerminalStatus, Typing
  <2> QED
    BY <1>2, <2>1, <2>2
<1>8. \A k \in JobId : k # i /\ jobs'[k].status \in ActiveStatus => jobs'[k].key # job[p].key
  BY <1>3, <1>5, <1>6
<1>9. \/ SlotIn(jobs', job[p].key) = [phase |-> "idle", tries |-> 0]
      \/ /\ SlotIn(jobs', job[p].key) = [phase |-> "queued", tries |-> job[p].attempts]
         /\ job[p].attempts < MaxAttempts
  <2>1. CASE jobs'[i].status \in TerminalStatus
    BY <1>8, <2>1, SlotIdle DEF ActiveStatus, TerminalStatus
  <2>2. CASE jobs'[i].status = "PENDING"
    BY <1>7, <1>8, <2>2, SlotBusy DEF ActiveStatus, TerminalStatus
  <2> QED
    BY <1>7, <2>1, <2>2
<1>10. PICK key \in Schedule : key = job[p].key
  BY <1>3
<1>11. \A s \in Schedule \ {key} : SlotIn(jobs', s) = SlotIn(jobs, s)
  <2>1. jobs[i].key = key /\ jobs'[i].key = key
    BY <1>3, <1>5, <1>7, <1>10
  <2> QED
    BY <1>6, <2>1, OtherSlots
<1>12. /\ SlotIn(jobs, key) = [phase |-> "running", tries |-> job[p].attempts]
       /\ \/ SlotIn(jobs', key) = [phase |-> "idle", tries |-> 0]
          \/ /\ SlotIn(jobs', key) = [phase |-> "queued", tries |-> job[p].attempts]
             /\ job[p].attempts < MaxAttempts
  BY <1>3, <1>9, <1>10
<1>13. Slots(jobs)[key] = [phase |-> "running", tries |-> job[p].attempts]
  BY <1>12 DEF Slots
<1>14. \/ Slots(jobs') = [Slots(jobs) EXCEPT ![key] = [phase |-> "idle", tries |-> 0]]
       \/ /\ Slots(jobs') = [Slots(jobs) EXCEPT ![key].phase = "queued"]
          /\ job[p].attempts < MaxAttempts
  BY <1>11, <1>12, SlotsExcept
<1>15. key = Build => Promise!Reserved = {}
  <2> SUFFICES ASSUME key = Build PROVE Promise!Reserved = {}
    OBVIOUS
  <2>1. items \in [Row -> ItemRec]
    BY DEF SingleInv, QueueInv, TypeOK
  <2>2. ASSUME NEW r \in Row, items[r].status = "CLAIMED" PROVE FALSE
    <3>1. PICK k \in JobId : /\ k = items[r].by /\ jobs[k].key = Build /\ jobs[k].status = "CLAIMED"
                             /\ k = job[p].id => InHand(p, r)
      BY <2>2 DEF OwnedOK
    <3>2. k = job[p].id
      BY <1>3, <1>10, <3>1 DEF ActiveStatus
    <3> QED
      BY <1>2, <3>1, <3>2 DEF InHand
  <2>3. \A r \in Row : items[r].status \in {"NONE", "PENDING", "COMPLETED"}
    BY <2>1, <2>2 DEF ItemRec
  <2>4. \A r \in Row : InboxOf(r) # "reserved"
    BY <2>3 DEF InboxOf
  <2> QED
    BY <2>4 DEF Promise!Reserved
<1>16. UNCHANGED [r \in Row |-> InboxOf(r)]
  BY <1>2 DEF InboxOf
<1>17. Slots(jobs)[key].phase = "running" /\ Slots(jobs)[key].tries = job[p].attempts
  BY <1>13
<1>18. Promise!End(key)
  BY <1>14, <1>15, <1>16, <1>17, SlotTable, Zenon DEF Promise!End, Promise!Idle
<1> QED
  BY <1>18

\* A collection registers a row while its job runs.
LEMMA RegisterStep ==
  ASSUME NEW p \in Proc, SingleInv(p), FailOK(p), AddWrite(p)
  PROVE  \E r \in Row : Promise!Register(r)
<1>1. RowTyping
  BY DEF SingleInv, QueueInv, TypeOK, RowTyping, Steps
<1>2. /\ pc[p] = "addput" /\ jobs' = jobs
      /\ items' = [items EXCEPT ![row[p]] = [status |-> "PENDING", by |-> NoJob]]
  BY DEF AddWrite, Goto
<1>3. PICK r \in Row : r = row[p] /\ items[r].status = "NONE"
  BY <1>2 DEF SingleInv, RowAt
<1>4. PICK key \in Schedule \ {Build} : Slots(jobs)[key].phase = "running"
  <2>1. /\ job[p].key \in Schedule /\ job[p].key # Build
        /\ SlotIn(jobs, job[p].key) = [phase |-> "running", tries |-> job[p].attempts]
    BY <1>2, HandSlot DEF Working, JobSteps, SingleInv, PayloadOK, CollectPc
  <2> QED
    BY <2>1 DEF Slots
<1>5. Inboxes(items)[r] = "unseen"
  BY <1>3 DEF Inboxes, InboxIn
<1>6. Inboxes(items') = [Inboxes(items) EXCEPT ![r] = "pending"]
  <2>1. items'[r].status = "PENDING" /\ \A x \in Row \ {r} : items'[x] = items[x]
    BY <1>1, <1>2, <1>3 DEF RowTyping
  <2>2. InboxIn(items', r) = "pending"
    BY <2>1 DEF InboxIn
  <2> QED
    BY <2>1, <2>2, InboxExcept
<1>7. Slots(jobs') = Slots(jobs)
  BY <1>2
<1>8. Promise!Register(r)
  BY <1>4, <1>5, <1>6, <1>7, SlotTable, InboxTable DEF Promise!Register, Promise!Move
<1> QED
  BY <1>8

\* A build reserves, completes and releases rows while its job runs.
LEMMA BuildRowStep ==
  ASSUME NEW p \in Proc, SingleInv(p), FailOK(p),
         ReserveWrite(p) \/ FinishWrite(p) \/ ReleaseWrite(p)
  PROVE  \E r \in Row : Promise!BuildRow(r)
<1>1. RowTyping /\ JobAt
  BY DEF SingleInv, QueueInv, TypeOK, RowTyping, Steps
<1>2. /\ pc[p] \in {"reserving", "finishput", "releaseput"} /\ jobs' = jobs
  BY DEF ReserveWrite, FinishWrite, ReleaseWrite, ItemWrite, Goto
<1>3. PICK r \in Row :
        /\ \A x \in Row \ {r} : items'[x] = items[x]
        /\ \/ items[r].status = "PENDING" /\ items'[r].status = "CLAIMED"
           \/ items[r].status = "CLAIMED" /\ items'[r].status \in {"COMPLETED", "PENDING"}
  <2>1. CASE ReserveWrite(p)
    BY <1>1, <2>1 DEF ReserveWrite, Goto, SingleInv, RowAt, RowTyping
  <2>2. CASE FinishWrite(p) \/ ReleaseWrite(p)
    <3>1. /\ pc[p] \in {"finishput", "releaseput"}
          /\ \E s \in {"COMPLETED", "PENDING"} :
               items' = [items EXCEPT ![row[p]] = [status |-> s, by |-> NoJob]]
      BY <2>2 DEF FinishWrite, ReleaseWrite, ItemWrite, Goto
    <3>2. row[p] \in Row /\ items[row[p]].by = job[p].id /\ job[p].id \in JobId
      BY <1>1, <3>1 DEF SingleInv, RowAt, RowTyping, JobAt, JobPc, JobSteps, BuildSteps, Claim
    <3>3. items[row[p]].status = "CLAIMED"
      BY <3>2, ParamsAssumption DEF SingleInv, RowAt
    <3> QED
      BY <1>1, <3>1, <3>2, <3>3 DEF RowTyping
  <2> QED
    BY <2>1, <2>2
<1>4. Slots(jobs)[Build].phase = "running" /\ Build \in Schedule
  <2>1. job[p].key = Build
    BY <1>2 DEF SingleInv, PayloadOK, BuildPc, BuildSteps
  <2>2. SlotIn(jobs, Build) = [phase |-> "running", tries |-> job[p].attempts]
    BY <1>2, <2>1, HandSlot DEF Working, JobSteps, BuildSteps
  <2> QED
    BY <2>2 DEF Slots, Schedule
<1>5. \/ /\ Inboxes(items)[r] = "pending"
         /\ Inboxes(items') = [Inboxes(items) EXCEPT ![r] = "reserved"]
      \/ /\ Inboxes(items)[r] = "reserved"
         /\ \/ Inboxes(items') = [Inboxes(items) EXCEPT ![r] = "done"]
            \/ Inboxes(items') = [Inboxes(items) EXCEPT ![r] = "pending"]
  <2>1. Inboxes(items') = [Inboxes(items) EXCEPT ![r] = InboxIn(items', r)]
    BY <1>3, InboxExcept
  <2>2. \/ Inboxes(items)[r] = "pending" /\ InboxIn(items', r) = "reserved"
        \/ Inboxes(items)[r] = "reserved" /\ InboxIn(items', r) \in {"done", "pending"}
    BY <1>3 DEF Inboxes, InboxIn
  <2> QED
    BY <2>1, <2>2
<1>6. Slots(jobs') = Slots(jobs)
  BY <1>2
<1>7. Promise!BuildRow(r)
  BY <1>4, <1>5, <1>6, SlotTable, InboxTable DEF Promise!BuildRow, Promise!Move
<1> QED
  BY <1>7

\* A step that writes neither table is a stutter, and so is the end of a
\* backoff.
LEMMA StutterStep ==
  ASSUME Typing, items' = items, jobs' = jobs \/ \E j \in JobId : BackoffOver(j)
  PROVE  UNCHANGED Promise!vars
<1>1. \A j \in JobId : /\ jobs'[j].key = jobs[j].key
                       /\ jobs'[j].status = jobs[j].status
                       /\ jobs'[j].attempts = jobs[j].attempts
  BY DEF BackoffOver, Typing, JobRec
<1>2. Slots(jobs') = Slots(jobs)
  BY <1>1, SameSlots DEF Slots
<1>3. UNCHANGED [r \in Row |-> InboxOf(r)]
  BY DEF InboxOf
<1> QED
  BY <1>2, <1>3, SlotTable DEF Promise!vars

\* What a kill leaves of a build: its items stay reserved for it, and it stays
\* claimed, so that no other build is ever enqueued beside it.
LEMMA OwnedInvariant ==
  ASSUME NEW p, Proc = {p}, "db" \notin Faults
  PROVE  Spec => [](SingleInv(p) /\ FailOK(p) /\ OwnedOK(p))
<1>1. Init => FailOK(p) /\ OwnedOK(p)
  BY DEF Init, OwnedOK, FailOK, NoItem
<1>2. SingleInv(p) /\ FailOK(p) /\ OwnedOK(p) /\ [Next]_vars => FailOK(p)' /\ OwnedOK(p)'
  BY OwnedStep, FailStep DEF SingleInv
<1> QED
  BY <1>1, <1>2, SingleInvariant, PTL DEF Spec

\* Every reserved item belongs to a clue build that is claimed.
ReservationOwned ==
  \A r \in Row : items[r].status = "CLAIMED" =>
    /\ items[r].by \in JobId
    /\ jobs[items[r].by].key = Build
    /\ jobs[items[r].by].status = "CLAIMED"

\* Where no statement of a job raises, an item is reserved only for a build that
\* is claimed, whenever the process is killed and however often it is restarted.
THEOREM OneProcessOwnsReservations ==
  ASSUME NEW p, Proc = {p}, "db" \notin Faults
  PROVE  Spec => []ReservationOwned
<1>1. OwnedOK(p) => ReservationOwned
  BY DEF OwnedOK, ReservationOwned
<1> QED
  BY <1>1, OwnedInvariant, PTL

\* Where no statement of a job raises, the queue tables of one process, which may
\* be killed and restarted at any point, implement the unique queue: one job per
\* dedupe key, begun at most MaxAttempts times, rows registered while a
\* collection runs, reserved and completed while the build runs, and none left
\* reserved when it ends.  (A job whose process was killed never ends: the
\* fairness of Promise!FairSpec is checked by TLC without kills.)
THEOREM OneProcessImplementsUniqueQueue ==
  ASSUME NEW p, Proc = {p}, "db" \notin Faults
  PROVE  Spec => Promise!Spec
<1> DEFINE I == SingleInv(p) /\ FailOK(p) /\ OwnedOK(p)
<1>1. Init => Promise!Init
  <2> SUFFICES ASSUME Init PROVE Promise!Init
    OBVIOUS
  <2>1. Slots(jobs) = [s \in Schedule |-> [phase |-> "idle", tries |-> 0]]
    BY SlotIdle DEF Init, Slots, Unused, ActiveStatus
  <2>2. [r \in Row |-> InboxOf(r)] = [r \in Row |-> "unseen"]
    BY DEF Init, InboxOf, NoItem
  <2> QED
    BY <2>1, <2>2, SlotTable DEF Promise!Init, Promise!Idle
<1>2. I /\ [Next]_vars => [Promise!Next]_(Promise!vars)
  <2> SUFFICES ASSUME I, [Next]_vars PROVE [Promise!Next]_(Promise!vars)
    OBVIOUS
  <2>1. Typing
    BY DEF SingleInv, QueueInv, TypeOK, Typing, Steps
  <2>2. CASE TickEnqueue(p) \/ UniqueWrite(p)
    <3>1. PICK key \in Schedule : ~Active(key) /\ SaveNewJob(key) /\ items' = items
      BY <2>1, <2>2 DEF TickEnqueue, UniqueWrite, Goto, Typing, SingleInv, Single, CheckOK,
         Schedule
    <3> QED
      BY <2>1, <3>1, EnqueueStep DEF Promise!Next
  <2>3. CASE ClaimWrite(p)
    BY <2>3, BeginStep DEF Promise!Next
  <2>4. CASE CompleteWrite(p) \/ FailWrite(p)
    BY <2>4, EndJobStep DEF Promise!Next
  <2>5. CASE AddWrite(p)
    BY <2>5, RegisterStep DEF Promise!Next
  <2>6. CASE ReserveWrite(p) \/ FinishWrite(p) \/ ReleaseWrite(p)
    BY <2>6, BuildRowStep DEF Promise!Next
  <2>7. CASE items' = items /\ (jobs' = jobs \/ \E j \in JobId : BackoffOver(j))
    BY <2>1, <2>7, StutterStep
  <2>8. (\E j \in JobId : BackoffOver(j)) => items' = items
    BY DEF BackoffOver
  <2> QED
    BY <2>2, <2>3, <2>4, <2>5, <2>6, <2>7, <2>8, JobsWriters, ItemsWriters
<1> QED
  BY <1>1, <1>2, OwnedInvariant, PTL DEF Spec, Promise!Spec

==============================================================================
