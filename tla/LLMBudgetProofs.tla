--------------------------- MODULE LLMBudgetProofs ---------------------------
(***************************************************************************)
(* What LLMBudget proves of every set of items, every cost, every budget   *)
(* and every number of investigations: the ledger adds up, every request   *)
(* is charged, and no charge goes over the limit in force.                 *)
(***************************************************************************)
EXTENDS LLMBudget, TLAPS

\* A reserved call still fits: nothing is charged between the two.
Reserved == pc = "sent" => Fits(call.stage, call.tokens, call.items)

\* An enrichment call that nobody has charged still fits, as when it was asked
\* for, with the clock and the cache left out of account.
Asked == pc # "idle" /\ call.stage = "llm_classify" =>
           call.items = 1 /\ (Charged \/ Fits("llm_classify", call.tokens, 1))

\* Counters only grow during a call, a failed investigation makes none, and the
\* batch is counted.
InCall == /\ pc # "idle" => call.before["calls"] <= used["calls"]
          /\ pc = "settle" => call.stage = "llm_classify"
          /\ phase = "aborted" => pc = "idle"
          /\ pending.clues # {} => pending.count > 0

Inv == /\ TypeOK
       /\ LedgerBalanced
       /\ RequestsCharged
       /\ Reserved
       /\ Asked
       /\ InCall

USE CostAssumption, BudgetAssumption, RunsAssumption
    DEF CostAssumption, BudgetAssumption, RunsAssumption

-----------------------------------------------------------------------------
(* Helpers *)

\* A call's need is a vector of natural numbers, with exactly one call in it.
LEMMA NeedType ==
  ASSUME NEW stage \in Stages, NEW tokens \in Nat \ {0}, NEW items \in Nat \ {0}
  PROVE  /\ Need(stage, tokens, items) \in [Resource -> Nat]
         /\ Need(stage, tokens, items)["calls"] = 1
<1>1. ASSUME NEW r \in Resource
      PROVE  (CASE r = "calls"  -> 1
                [] r = "tokens" -> tokens
                [] r = stage    -> items
                [] OTHER        -> 0) \in Nat
  BY <1>1 DEF Resource, Stages
<1>2. Need(stage, tokens, items) \in [Resource -> Nat]
  BY <1>1 DEF Need
<1>3. Need(stage, tokens, items)["calls"] = 1
  BY DEF Need, Resource, Stages
<1> QED
  BY <1>2, <1>3

\* Charging a call keeps the counters natural, adds one call, and takes none over
\* the limit when the call fits.
LEMMA ChargeFacts ==
  ASSUME NEW stage \in Stages, NEW tokens \in Nat \ {0}, NEW items \in Nat \ {0},
         used \in [Resource -> Nat], budget \in [Resource -> Nat],
         Charge(stage, tokens, items)
  PROVE  /\ used' \in [Resource -> Nat]
         /\ used'["calls"] = used["calls"] + 1
         /\ Fits(stage, tokens, items) =>
              \A r \in Resource : used'[r] > used[r] => used'[r] <= budget[r]
<1> DEFINE need == Need(stage, tokens, items)
<1>1. need \in [Resource -> Nat] /\ need["calls"] = 1
  BY NeedType
<1> HIDE DEF need
<1>2. used' = [r \in Resource |-> used[r] + need[r]]
  BY DEF Charge, need
<1>3. "calls" \in Resource
  BY DEF Resource
<1>4. Fits(stage, tokens, items) => \A r \in Resource : need[r] > 0 => used[r] + need[r] <= budget[r]
  BY DEF Fits, need
<1> QED
  BY <1>1, <1>2, <1>3, <1>4

\* Recording counts keeps the ledger's type and bumps exactly those counts.
LEMMA RecordFacts ==
  ASSUME NEW counts \in SUBSET Counts, ledger \in [Counts -> Nat], Record(counts)
  PROVE  /\ ledger' \in [Counts -> Nat]
         /\ \A c \in Counts : ledger'[c] = IF c \in counts THEN ledger[c] + 1 ELSE ledger[c]
BY DEF Record

-----------------------------------------------------------------------------
(* The invariant *)

LEMMA InvInit == Init => Inv
<1> SUFFICES ASSUME Init PROVE Inv
  OBVIOUS
<1>0. Nothing \in [Resource -> Nat]
  BY DEF Nothing
<1>1. TypeOK
  <2>1. budget \in [Resource -> Nat] /\ used \in [Resource -> Nat] /\ ledger \in [Counts -> Nat]
    BY <1>0 DEF Init
  <2>2. call \in [stage : Stages, key : SUBSET Items, tokens : Nat \ {0},
                  items : Nat \ {0}, before : [Resource -> Nat]]
    BY <1>0 DEF Init, NoCall, Stages
  <2>3. pending \in [clues : SUBSET Clues, count : Nat, tokens : Nat]
    BY DEF Init, NoBatch
  <2> QED
    <3>1. runs \in 1..MaxRuns
      BY DEF Init
    <3>2. late \in BOOLEAN /\ cache \subseteq SUBSET Items /\ stats \in Nat /\ requests \in Nat
      BY DEF Init
    <3>3. /\ phase \in {"plan", "work", "refine", "done", "aborted"} /\ todo \subseteq Items
          /\ pc \in {"idle", "chat", "sent", "settle"}
      BY DEF Init
    <3> QED
      BY <2>1, <2>2, <2>3, <3>1, <3>2, <3>3 DEF TypeOK
<1>2. LedgerBalanced /\ RequestsCharged
  BY DEF Init, LedgerBalanced, RequestsCharged, Open, Nothing, Resource, Counts
<1>3. Reserved /\ Asked /\ InCall
  BY DEF Init, Reserved, Asked, InCall, NoBatch
<1> QED
  BY <1>1, <1>2, <1>3 DEF Inv

\* Every step preserves the invariant, and no step overspends.
LEMMA InvStep ==
  ASSUME Inv, [Next]_vars
  PROVE  Inv' /\ (\A r \in Resource : used'[r] > used[r] => used'[r] <= budget[r])
<1> DEFINE Within == \A r \in Resource : used'[r] > used[r] => used'[r] <= budget[r]
<1> USE DEF Inv
<1> SUFFICES Inv' /\ Within
  OBVIOUS
<1>s. /\ call.stage \in Stages /\ call.tokens \in Nat \ {0} /\ call.items \in Nat \ {0}
      /\ call.before \in [Resource -> Nat]
      /\ "calls" \in Resource /\ "llm_classify" \in Resource /\ "llm_classify" \in Stages
  BY DEF TypeOK, Resource, Stages
<1>n. used' = used => Within
  BY DEF TypeOK
\* The clock and the phase move, the call in progress does not.
<1>1. CASE Tick \/ UNCHANGED vars
  <2>1. /\ UNCHANGED <<budget, used, ledger, cache, stats, requests, phase, todo, pending, runs, pc, call>>
        /\ late' \in BOOLEAN
    BY <1>1 DEF Tick, run, vars, controller, TypeOK
  <2> QED
    BY <2>1, <1>n DEF TypeOK, LedgerBalanced, RequestsCharged, Open, Reserved, Asked, InCall, Fits, Charged
\* The gateway answers without a charge.
<1>2. CASE ChatCached \/ Denied
  <2>1. /\ UNCHANGED <<budget, used, late, cache, requests, phase, todo, pending, runs, call>>
        /\ pc = "chat" /\ pc' = (IF call.stage = "llm_classify" THEN "settle" ELSE "idle")
        /\ stats' = stats + 1
    BY <1>2 DEF ChatCached, Denied, Return, run
  <2>2. /\ ledger' \in [Counts -> Nat]
        /\ ledger'["attempted"] = ledger["attempted"] + 1
        /\ ledger'["allowed"] = ledger["allowed"]
        /\ ledger'["failed"] = ledger["failed"]
        /\ ledger'["denied"] + ledger'["cached"] = ledger["denied"] + ledger["cached"] + 1
        /\ ledger'["ok"] - ledger'["cached"] = ledger["ok"] - ledger["cached"]
    <3>1. CASE ChatCached
      BY <3>1, RecordFacts DEF ChatCached, Counts, TypeOK
    <3>2. CASE Denied
      BY <3>2, RecordFacts DEF Denied, Counts, TypeOK
    <3> QED
      BY <1>2, <3>1, <3>2
  <2>3. phase # "aborted"
    BY <2>1 DEF InCall
  <2>4. TypeOK'
    BY <2>1, <2>2 DEF TypeOK
  <2>5. LedgerBalanced' /\ RequestsCharged'
    BY <2>1, <2>2, <2>3 DEF LedgerBalanced, RequestsCharged, Open, TypeOK, Counts, Resource
  <2>6. Reserved' /\ Asked' /\ InCall'
    BY <2>1, <2>3 DEF Reserved, Asked, InCall, Fits, Charged
  <2> QED
    BY <2>1, <2>4, <2>5, <2>6, <1>n
<1>3. CASE Reserve
  <2>1. /\ UNCHANGED <<budget, used, late, cache, stats, phase, todo, pending, runs, call>>
        /\ pc = "chat" /\ pc' = "sent"
        /\ requests' \in {requests, requests + 1}
        /\ Fits(call.stage, call.tokens, call.items)
    BY <1>3 DEF Reserve, run, Peek
  <2>2. /\ ledger' \in [Counts -> Nat]
        /\ ledger'["attempted"] = ledger["attempted"] + 1
        /\ ledger'["allowed"] = ledger["allowed"] + 1
        /\ \A c \in {"failed", "denied", "cached", "ok"} : ledger'[c] = ledger[c]
    BY <1>3, RecordFacts DEF Reserve, Counts, TypeOK
  <2>3. phase # "aborted"
    BY <2>1 DEF InCall
  <2>4. TypeOK'
    BY <2>1, <2>2 DEF TypeOK
  <2>5. LedgerBalanced' /\ RequestsCharged'
    BY <2>1, <2>2, <2>3 DEF LedgerBalanced, RequestsCharged, Open, TypeOK, Counts, Resource
  <2>6. Reserved' /\ Asked' /\ InCall'
    BY <2>1, <2>3 DEF Reserved, Asked, InCall, Fits, Charged
  <2> QED
    BY <2>1, <2>4, <2>5, <2>6, <1>n
\* The reserved call is charged, whatever came back.
<1>4. CASE AnswerOk \/ AnswerFails
  <2>1. /\ UNCHANGED <<budget, late, requests, phase, todo, pending, runs, call>>
        /\ pc = "sent" /\ pc' = (IF call.stage = "llm_classify" THEN "settle" ELSE "idle")
        /\ stats' = stats + 1
        /\ cache' \subseteq cache \cup {call.key}
        /\ Charge(call.stage, call.tokens, call.items)
    BY <1>4 DEF AnswerOk, AnswerFails, Return, run
  <2>2. /\ ledger' \in [Counts -> Nat]
        /\ \A c \in {"attempted", "allowed", "denied", "cached"} : ledger'[c] = ledger[c]
        /\ ledger'["ok"] + ledger'["failed"] = ledger["ok"] + ledger["failed"] + 1
    <3>1. CASE AnswerOk
      BY <3>1, RecordFacts DEF AnswerOk, Counts, TypeOK, Sent
    <3>2. CASE AnswerFails
      BY <3>2, RecordFacts DEF AnswerFails, Counts, TypeOK, Sent
    <3> QED
      BY <1>4, <3>1, <3>2
  <2>3. phase # "aborted"
    BY <2>1 DEF InCall
  <2>4. used' \in [Resource -> Nat] /\ used'["calls"] = used["calls"] + 1 /\ Within
    BY <2>1, <1>s, ChargeFacts DEF TypeOK, Reserved
  <2>5. TypeOK'
    BY <2>1, <2>2, <2>4, <1>s DEF TypeOK
  <2>6. LedgerBalanced' /\ RequestsCharged'
    BY <2>1, <2>2, <2>3, <2>4 DEF LedgerBalanced, RequestsCharged, Open, TypeOK, Counts, Resource
  <2>7. used'["calls"] > call.before["calls"]
    BY <2>1, <2>4, <1>s DEF InCall, TypeOK
  <2>8. Reserved' /\ Asked' /\ InCall'
    <3>1. Asked'
      BY <2>1, <2>7 DEF Asked, Charged
    <3>2. call.before["calls"] <= used'["calls"]
      BY <2>4, <2>7, <1>s
    <3> QED
      BY <2>1, <2>3, <3>1, <3>2 DEF Reserved, InCall
  <2> QED
    BY <2>4, <2>5, <2>6, <2>8
<1>5. CASE AnswerRaises
  <2>1. /\ UNCHANGED <<budget, used, late, ledger, cache, stats, requests, todo, pending, runs, call>>
        /\ pc = "sent" /\ pc' = "idle" /\ phase' = "aborted"
    BY <1>5 DEF AnswerRaises, controller
  <2> QED
    BY <2>1, <1>n DEF TypeOK, LedgerBalanced, RequestsCharged, Open, Reserved, Asked, InCall
\* A caller starts a call: enrichment has just asked the budget.
<1>6. ASSUME NEW stage \in Stages, NEW key \in SUBSET Items, NEW tokens \in Nat \ {0},
             NEW items \in Nat \ {0},
             Call(stage, key, tokens, items),
             pc = "idle", phase # "aborted", phase' \in {phase, "done"},
             todo' \subseteq todo, pending' = pending,
             stage = "llm_classify" => items = 1 /\ Fits(stage, tokens, 1)
      PROVE  Inv' /\ Within
  <2>1. /\ UNCHANGED <<budget, used, late, ledger, cache, stats, requests, runs, pending>>
        /\ pc' = "chat"
        /\ call' = [stage |-> stage, key |-> key, tokens |-> tokens, items |-> items, before |-> used]
    BY <1>6 DEF Call, controller
  <2>2. TypeOK'
    <3>1. call' \in [stage : Stages, key : SUBSET Items, tokens : Nat \ {0},
                     items : Nat \ {0}, before : [Resource -> Nat]]
      BY <2>1, <1>6 DEF TypeOK
    <3> QED
      BY <3>1, <2>1, <1>6 DEF TypeOK
  <2>3. LedgerBalanced' /\ RequestsCharged'
    BY <2>1, <1>6 DEF LedgerBalanced, RequestsCharged, Open
  <2>4. /\ call'.stage = stage /\ call'.tokens = tokens /\ call'.items = items /\ call'.before = used
    BY <2>1
  <2>5. Reserved' /\ Asked'
    BY <2>1, <2>4, <1>6 DEF Reserved, Asked, Fits
  <2>6. InCall'
    BY <2>1, <2>4, <1>6, <1>s DEF InCall, TypeOK
  <2> QED
    BY <2>1, <2>2, <2>3, <2>5, <2>6, <1>n
<1>7. ASSUME NEW p \in Plans, Plan(p) PROVE Inv' /\ Within
  BY <1>7, <1>6 DEF Plan, Idle, Stages, Items
<1>8. ASSUME NEW s \in Sources, Rewrite(s) PROVE Inv' /\ Within
  BY <1>8, <1>6 DEF Rewrite, Idle, Stages, Items
<1>9. ASSUME NEW d \in Records, Enrich(d) PROVE Inv' /\ Within
  BY <1>9, <1>6 DEF Enrich, Idle, Stages, Items, Peek
<1>10. CASE RefineBatch
  <2>1. /\ pending.clues \subseteq Items /\ Prompt + pending.tokens \in Nat \ {0}
        /\ pending.count \in Nat \ {0}
    BY <1>10 DEF RefineBatch, TypeOK, Items, InCall
  <2> QED
    BY <1>10, <1>6, <2>1 DEF RefineBatch, Idle, Stages
\* Steps between two calls.
<1>11. ASSUME pc = "idle", UNCHANGED <<used, ledger, requests, pc, call, runs, cache, stats>>,
              phase # "aborted", phase' \in {"work", "refine", "done"},
              todo' \subseteq todo, late' \in BOOLEAN, budget' \in [Resource -> Nat],
              pending' \in [clues : SUBSET Clues, count : Nat, tokens : Nat],
              pending'.clues # {} => pending'.count > 0
       PROVE  Inv' /\ Within
  BY <1>11, <1>n DEF TypeOK, LedgerBalanced, RequestsCharged, Open, Reserved, Asked, InCall
<1>12. CASE Resolve
  <2>1. budget' \in [Resource -> Nat]
    <3>1. PICK plan \in PlanBudgets, over \in Overrides : budget' = Resolved(plan, over)
      BY <1>12 DEF Resolve
    <3>2. ASSUME NEW r \in Resource
          PROVE  (IF r \in DOMAIN over THEN over[r]
                  ELSE IF r \in DOMAIN plan /\ plan[r] \in 1..Profile[r] THEN plan[r]
                  ELSE Profile[r]) \in Nat
      BY <3>2
    <3> QED
      BY <3>1, <3>2 DEF Resolved
  <2> QED
    BY <1>12, <1>11, <2>1 DEF Resolve, Idle, TypeOK, InCall
<1>13. ASSUME NEW d \in Records, EnrichSkipped(d) PROVE Inv' /\ Within
  BY <1>13, <1>11 DEF EnrichSkipped, Idle, TypeOK, InCall, controller
<1>14. CASE StartRefine \/ RefineNone
  BY <1>14, <1>11 DEF StartRefine, RefineNone, Idle, TypeOK, InCall, controller
<1>15. ASSUME NEW c \in Clues, RefineSelect(c) PROVE Inv' /\ Within
  <2>1. /\ pending' \in [clues : SUBSET Clues, count : Nat, tokens : Nat]
        /\ pending'.count > 0
    BY <1>15 DEF RefineSelect, TypeOK, Items
  <2> QED
    BY <1>15, <1>11, <2>1 DEF RefineSelect, Idle, TypeOK, controller
<1>16. ASSUME NEW c \in Clues, RefineSkip(c) PROVE Inv' /\ Within
  BY <1>16, <1>11 DEF RefineSkip, Idle, TypeOK, InCall, controller
\* The fallback charge of enrichment.
<1>17. CASE Settle /\ Charged
  <2>1. /\ UNCHANGED <<budget, used, late, ledger, cache, stats, requests, phase, todo, pending, runs, call>>
        /\ pc = "settle" /\ pc' = "idle"
    BY <1>17 DEF Settle, run
  <2> QED
    BY <2>1, <1>n DEF TypeOK, LedgerBalanced, RequestsCharged, Open, Reserved, Asked, InCall
<1>18. CASE Settle /\ ~Charged
  <2>1. /\ UNCHANGED <<budget, late, cache, stats, requests, phase, todo, pending, runs, call>>
        /\ pc = "settle" /\ pc' = "idle"
        /\ Charge("llm_classify", call.tokens, 1)
    BY <1>18 DEF Settle, run
  <2>2. /\ ledger' \in [Counts -> Nat]
        /\ \A c \in {"attempted", "allowed", "ok"} : ledger'[c] = ledger[c] + 1
        /\ \A c \in {"failed", "denied", "cached"} : ledger'[c] = ledger[c]
    BY <1>18, RecordFacts DEF Settle, Counts, TypeOK
  <2>3. phase # "aborted" /\ Fits("llm_classify", call.tokens, 1)
    BY <2>1, <1>18 DEF InCall, Asked
  <2>4. used' \in [Resource -> Nat] /\ used'["calls"] = used["calls"] + 1 /\ Within
    BY <2>1, <2>3, <1>s, ChargeFacts DEF TypeOK
  <2>5. TypeOK'
    BY <2>1, <2>2, <2>4 DEF TypeOK
  <2>6. LedgerBalanced' /\ RequestsCharged'
    BY <2>1, <2>2, <2>3, <2>4 DEF LedgerBalanced, RequestsCharged, Open, TypeOK, Counts, Resource
  <2> QED
    BY <2>1, <2>3, <2>4, <2>5, <2>6 DEF Reserved, Asked, InCall
<1>19. CASE NewRun
  <2>1. /\ budget' = Profile /\ used' = Nothing /\ late' = FALSE
        /\ ledger' = [c \in Counts |-> 0] /\ stats' = 0 /\ requests' = 0
        /\ phase' = "plan" /\ todo' = Items /\ pending' = NoBatch
        /\ runs' = runs + 1 /\ runs < MaxRuns
        /\ UNCHANGED <<cache, pc, call>> /\ pc = "idle"
    BY <1>19 DEF NewRun, Idle
  <2>2. Nothing \in [Resource -> Nat] /\ \A r \in Resource : Nothing[r] = 0
    BY DEF Nothing
  <2>3. NoBatch \in [clues : SUBSET Clues, count : Nat, tokens : Nat] /\ NoBatch.clues = {}
    BY DEF NoBatch
  <2>4. TypeOK'
    <3>1. runs' \in 1..MaxRuns
      BY <2>1 DEF TypeOK
    <3>2. budget' \in [Resource -> Nat] /\ used' \in [Resource -> Nat] /\ ledger' \in [Counts -> Nat]
      BY <2>1, <2>2
    <3> QED
      BY <2>1, <2>3, <3>1, <3>2 DEF TypeOK
  <2>5. LedgerBalanced' /\ RequestsCharged'
    BY <2>1, <2>2, <1>s DEF LedgerBalanced, RequestsCharged, Open, Counts
  <2>6. Reserved' /\ Asked' /\ InCall'
    BY <2>1, <2>3 DEF Reserved, Asked, InCall
  <2>7. Within
    BY <2>1, <2>2 DEF TypeOK
  <2> QED
    BY <2>4, <2>5, <2>6, <2>7
<1>20. CASE Next
  BY <1>20, <1>1, <1>2, <1>3, <1>4, <1>5, <1>7, <1>8, <1>9, <1>10, <1>12, <1>13, <1>14,
     <1>15, <1>16, <1>17, <1>18, <1>19 DEF Next
<1> QED
  BY <1>1, <1>20

-----------------------------------------------------------------------------
(* Theorems *)

\* Every reachable state has its type.
THEOREM LLMTypeCorrect == Spec => []TypeOK
<1>1. Inv => TypeOK
  BY DEF Inv
<1> QED
  BY <1>1, InvInit, InvStep, PTL DEF Spec

\* Whatever fails, is denied, is served from the cache or raises, the ledger
\* adds up and every request sent is charged.
THEOREM LedgerSound == Spec => [](LedgerBalanced /\ RequestsCharged)
<1>1. Inv => LedgerBalanced /\ RequestsCharged
  BY DEF Inv
<1> QED
  BY <1>1, InvInit, InvStep, PTL DEF Spec

\* Every request that reached the provider is charged, but for the one under way
\* or the one whose charge ended the investigation: none escapes the budget when a
\* call fails, is retried or raises.
THEOREM RequestsAreCharged == Spec => []RequestsCharged
<1>1. Inv => RequestsCharged
  BY DEF Inv
<1> QED
  BY <1>1, InvInit, InvStep, PTL DEF Spec

\* The budget is hard: no step takes a counter over the limit in force.
THEOREM BudgetIsHard == Spec => SpendWithinBudget
<1>1. Inv /\ [Next]_vars => [\A r \in Resource : used'[r] > used[r] => used'[r] <= budget[r]]_vars
  BY InvStep
<1> QED
  BY <1>1, InvInit, InvStep, PTL DEF Spec, SpendWithinBudget
=============================================================================
