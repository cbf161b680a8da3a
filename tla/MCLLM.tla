------------------------------- MODULE MCLLM -------------------------------
(* A small investigation for LLMBudget: one planning call, one source, two  *)
(* records, two clues, and budgets that run out on calls, on tokens or on   *)
(* the limit of a stage.                                                    *)
EXTENDS LLMBudget, TLC

CONSTANTS p1, s1, d1, d2, c1, c2

MCPlans   == {p1}
MCSources == {s1}
MCRecords == {d1, d2}
MCClues   == {c1, c2}
\* The second record and clue cost more than the first.
MCCost    == (p1 :> 1) @@ (s1 :> 1) @@ (d1 :> 1) @@ (d2 :> 2) @@ (c1 :> 1) @@ (c2 :> 2)
MCProfile == [calls |-> 4, tokens |-> 7, clue_refine |-> 2, llm_classify |-> 1]
MCPlanBudgets == {[r \in {} |-> 0], [calls |-> 1], [tokens |-> 5]}
MCOverrides   == {[r \in {} |-> 0], [clue_refine |-> 1]}
=============================================================================
