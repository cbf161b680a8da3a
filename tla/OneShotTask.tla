----------------------------- MODULE OneShotTask -----------------------------
(***************************************************************************)
(* What the task backend promises of a task, without threads, lists and    *)
(* snapshots: it is submitted, started and ended once each, and the public *)
(* table shows of it nothing or a state it has been in, if not always the  *)
(* last one.  TaskBackend implements this specification.                   *)
(***************************************************************************)
CONSTANT Task

VARIABLES task,   \* the state each task is in
          shown   \* the one the table shows

vars == <<task, shown>>

Outcome == {"SUCCEEDED", "FAILED"}

\* The states a task has been in when it is in state s, from its submission on.
Been(s) == CASE s = "NONE"    -> {}
             [] s = "PENDING" -> {"PENDING"}
             [] s = "RUNNING" -> {"PENDING", "RUNNING"}
             [] s \in Outcome -> {"PENDING", "RUNNING", s}

Init == /\ task = [t \in Task |-> "NONE"]
        /\ shown = [t \in Task |-> "NONE"]

Move(t, from, to) == /\ task[t] = from
                     /\ task' = [task EXCEPT ![t] = to]
                     /\ UNCHANGED shown

Submit(t) == Move(t, "NONE", "PENDING")
Start(t)  == Move(t, "PENDING", "RUNNING")
End(t)    == \E outcome \in Outcome : Move(t, "RUNNING", outcome)

Show(t) == /\ \E s \in Been(task[t]) : shown' = [shown EXCEPT ![t] = s]
           /\ UNCHANGED task

Next == \E t \in Task : Submit(t) \/ Start(t) \/ End(t) \/ Show(t)

Spec == Init /\ [][Next]_vars
==============================================================================
