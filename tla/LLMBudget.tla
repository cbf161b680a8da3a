----------------------------- MODULE LLMBudget -----------------------------
(***************************************************************************)
(* The LLM calls of an investigation: the shared gateway with its answer   *)
(* cache (src/src/backend/llm_gateway.py), the budget controller with its  *)
(* ledger (src/src/agent/budget_controller.py), and the stages that call   *)
(* them: intent parsing and planning, source query rewriting, record       *)
(* enrichment and batched clue refinement.                                 *)
(*                                                                         *)
(* An investigation runs in one thread, so its calls follow each other;    *)
(* what can change between two steps of one call is the clock.  Every      *)
(* investigation has a new controller, the cache outlives them all.        *)
(***************************************************************************)
EXTENDS Integers

CONSTANTS
  Plans,        \* the planning calls: intent parsing, investigation plan
  Sources,      \* sources whose query may be rewritten
  Records,      \* records routed to LLM classification
  Clues,        \* candidate clues, refined in one batch
  Cost,         \* estimated tokens of an item's call
  Prompt,       \* estimated prompt tokens of the refinement batch
  Profile,      \* the budget of the routing profile
  PlanBudgets,  \* budgets the LLM plan may ask for (partial functions)
  Overrides,    \* budgets a policy override may impose (partial functions; of
                \* the limits modelled it may only name clue_refine)
  Endpoint,     \* "real", "mock" (or dry run), "keyless"
  MaxRuns       \* bound: investigations

Items    == Plans \cup Sources \cup Records \cup Clues
\* What a call uses up: the stages with a limit of their own stand for it.
Resource == {"calls", "tokens", "clue_refine", "llm_classify"}
Stages   == {"plan", "rewrite", "llm_classify", "clue_refine"}

ASSUME CostAssumption ==
  /\ Cost \in [Items -> Nat \ {0}]
  /\ Prompt \in Nat \ {0}
ASSUME BudgetAssumption ==
  /\ Profile \in [Resource -> Nat]
  /\ \A b \in PlanBudgets : DOMAIN b \subseteq Resource /\ \A r \in DOMAIN b : b[r] \in Nat
  /\ \A b \in Overrides   : DOMAIN b \subseteq {"clue_refine"} /\ \A r \in DOMAIN b : b[r] \in Nat
ASSUME EndpointAssumption == Endpoint \in {"real", "mock", "keyless"}
ASSUME RunsAssumption == MaxRuns \in Nat \ {0}

VARIABLES
  budget,   \* the limits in force
  used,     \* llm_calls, estimated_tokens, refined_clues, classified_by_llm
  late,     \* elapsed_seconds() is over max_elapsed_seconds
  ledger,   \* the counts of BudgetLedger
  cache,    \* keys (sets of items) with a cached answer
  stats,    \* statistics the gateway recorded since the run started
  requests, \* HTTP requests the run really sent
  phase,    \* where the investigation is
  todo,     \* items no stage has handled in this run
  pending,  \* the refinement batch being selected
  pc,       \* where the call in progress is
  call,     \* the call in progress
  runs      \* investigations started

controller == <<budget, used, late, ledger>>
run        == <<phase, todo, pending, runs>>
vars       == <<controller, cache, stats, requests, run, pc, call>>

Counts == {"attempted", "allowed", "denied", "cached", "network", "ok", "failed"}

Nothing == [r \in Resource |-> 0]
NoCall  == [stage |-> "plan", key |-> {}, tokens |-> 1, items |-> 1, before |-> Nothing]

TypeOK ==
  /\ budget \in [Resource -> Nat]
  /\ used \in [Resource -> Nat]
  /\ late \in BOOLEAN
  /\ ledger \in [Counts -> Nat]
  /\ cache \subseteq SUBSET Items
  /\ stats \in Nat
  /\ requests \in Nat
  /\ phase \in {"plan", "work", "refine", "done", "aborted"}
  /\ todo \subseteq Items
  /\ pending \in [clues : SUBSET Clues, count : Nat, tokens : Nat]
  /\ pc \in {"idle", "chat", "sent", "settle"}
  /\ call \in [stage : Stages, key : SUBSET Items, tokens : Nat \ {0},
               items : Nat \ {0}, before : [Resource -> Nat]]
  /\ runs \in 1..MaxRuns

-----------------------------------------------------------------------------
(* The controller *)

\* What a call of a stage adds to each counter.
Need(stage, tokens, items) ==
  [r \in Resource |-> CASE r = "calls"  -> 1
                        [] r = "tokens" -> tokens
                        [] r = stage    -> items
                        [] OTHER        -> 0]

Fits(stage, tokens, items) ==
  \A r \in Resource : Need(stage, tokens, items)[r] > 0 =>
                      used[r] + Need(stage, tokens, items)[r] <= budget[r]

Peek(stage, tokens, items) == ~late /\ Fits(stage, tokens, items)

Charge(stage, tokens, items) ==
  used' = [r \in Resource |-> used[r] + Need(stage, tokens, items)[r]]

Record(counts) == ledger' = [c \in Counts |-> IF c \in counts THEN ledger[c] + 1 ELSE ledger[c]]

Sent == IF Endpoint = "real" THEN {"network"} ELSE {}

\* Time passes between any two steps.
Tick == /\ phase \in {"done", "aborted"} => pc # "idle"
        /\ ~late
        /\ late' = TRUE
        /\ UNCHANGED <<budget, used, ledger, cache, stats, requests, run, pc, call>>

-----------------------------------------------------------------------------
(* The gateway: one call of chat *)

\* A call returns: enrichment then looks whether it was charged.
Return(stage) == /\ pc' = IF stage = "llm_classify" THEN "settle" ELSE "idle"
                 /\ stats' = stats + 1

ChatCached ==
  /\ pc = "chat"
  /\ call.key \in cache
  /\ Record({"attempted", "cached", "ok"})
  /\ Return(call.stage)
  /\ UNCHANGED <<budget, used, late, cache, requests, run, call>>

Reserve ==
  /\ pc = "chat"
  /\ call.key \notin cache
  /\ Peek(call.stage, call.tokens, call.items)
  /\ Record({"attempted", "allowed"})
  /\ requests' = IF Endpoint = "real" THEN requests + 1 ELSE requests
  /\ pc' = "sent"
  /\ UNCHANGED <<budget, used, late, cache, stats, run, call>>

Denied ==
  /\ pc = "chat"
  /\ call.key \notin cache
  /\ ~Peek(call.stage, call.tokens, call.items)
  /\ Record({"attempted", "denied"})
  /\ Return(call.stage)
  /\ UNCHANGED <<budget, used, late, cache, requests, run, call>>

AnswerOk ==
  /\ pc = "sent"
  /\ Endpoint # "keyless"
  /\ Charge(call.stage, call.tokens, call.items)
  /\ Record({"ok"} \cup Sent)
  /\ cache' = cache \cup {call.key}
  /\ Return(call.stage)
  /\ UNCHANGED <<budget, late, requests, run, call>>

\* An HTTP error, an unreachable host, a timeout, a body that is not JSON, or
\* no API key.  (AnswerFailsFree is a mutation: a failed call costs nothing.)
AnswerFailsFree ==
  /\ pc = "sent"
  /\ Endpoint # "mock"
  /\ Record({"failed"} \cup Sent)
  /\ Return(call.stage)
  /\ UNCHANGED <<budget, used, late, cache, requests, run, call>>

AnswerFails ==
  /\ pc = "sent"
  /\ Endpoint # "mock"
  /\ Charge(call.stage, call.tokens, call.items)
  /\ Record({"failed"} \cup Sent)
  /\ Return(call.stage)
  /\ UNCHANGED <<budget, late, cache, requests, run, call>>

\* An error chat does not catch (a truncated or undecodable body): no caller
\* catches it either, and the investigation ends without the charge.
AnswerRaises ==
  /\ pc = "sent"
  /\ Endpoint = "real"
  /\ phase' = "aborted"
  /\ pc' = "idle"
  /\ UNCHANGED <<controller, cache, stats, requests, todo, pending, runs, call>>

-----------------------------------------------------------------------------
(* The callers *)

Idle == pc = "idle"

Call(stage, key, tokens, items) ==
  /\ pc' = "chat"
  /\ call' = [stage |-> stage, key |-> key, tokens |-> tokens, items |-> items,
              before |-> used]
  /\ UNCHANGED <<controller, cache, stats, requests, runs>>

Plan(p) ==
  /\ Idle /\ phase = "plan"
  /\ p \in Plans \cap todo
  /\ todo' = todo \ {p}
  /\ Call("plan", {p}, Cost[p], 1)
  /\ UNCHANGED <<phase, pending>>

\* The plan can only tighten the profile, an override replaces what it names.
Resolved(plan, over) ==
  [r \in Resource |->
     IF r \in DOMAIN over THEN over[r]
     ELSE IF r \in DOMAIN plan /\ plan[r] \in 1..Profile[r] THEN plan[r]
     ELSE Profile[r]]

\* The limits are replaced under counters that planning has already used; the
\* limit on elapsed time is one of them.  A fallback plan tightens nothing.
Resolve ==
  /\ Idle /\ phase = "plan"
  /\ \E plan \in PlanBudgets, over \in Overrides :
       /\ DOMAIN plan # {} => ledger["ok"] > 0
       /\ budget' = Resolved(plan, over)
  /\ late' \in BOOLEAN
  /\ phase' = "work"
  /\ UNCHANGED <<used, ledger, cache, stats, requests, todo, pending, runs, pc, call>>

Rewrite(s) ==
  /\ Idle /\ phase = "work"
  /\ s \in Sources \cap todo
  /\ todo' = todo \ {s}
  /\ Call("rewrite", {s}, Cost[s], 1)
  /\ UNCHANGED <<phase, pending>>

\* run_batch looks at the budget before it builds the call...  (EnrichUnasked is
\* a mutation: it leaves the check to the gateway.)
EnrichUnasked(d) ==
  /\ Idle /\ phase = "work"
  /\ d \in Records \cap todo
  /\ todo' = todo \ {d}
  /\ Call("llm_classify", {d}, Cost[d], 1)
  /\ UNCHANGED <<phase, pending>>

Enrich(d) ==
  /\ Idle /\ phase = "work"
  /\ d \in Records \cap todo
  /\ Peek("llm_classify", Cost[d], 1)
  /\ todo' = todo \ {d}
  /\ Call("llm_classify", {d}, Cost[d], 1)
  /\ UNCHANGED <<phase, pending>>

EnrichSkipped(d) ==
  /\ Idle /\ phase = "work"
  /\ d \in Records \cap todo
  /\ ~Peek("llm_classify", Cost[d], 1)
  /\ todo' = todo \ {d}
  /\ UNCHANGED <<controller, cache, stats, requests, phase, pending, runs, pc, call>>

\* ...and, whatever the answer, charges the call if no counter has moved.
\* (SettleUnallowed is a mutation: it forgets to count the allowance.)
Charged == \/ used["calls"] > call.before["calls"]
           \/ used["llm_classify"] > call.before["llm_classify"]

SettleUnallowed ==
  /\ pc = "settle"
  /\ pc' = "idle"
  /\ IF Charged
     THEN UNCHANGED <<used, ledger>>
     ELSE /\ Charge("llm_classify", call.tokens, 1)
          /\ Record({"attempted", "ok"})
  /\ UNCHANGED <<budget, late, cache, stats, requests, run, call>>

Settle ==
  /\ pc = "settle"
  /\ pc' = "idle"
  /\ IF Charged
     THEN UNCHANGED <<used, ledger>>
     ELSE /\ Charge("llm_classify", call.tokens, 1)
          /\ Record({"attempted", "allowed", "ok"})
  /\ UNCHANGED <<budget, late, cache, stats, requests, run, call>>

StartRefine ==
  /\ Idle /\ phase = "work"
  /\ phase' = "refine"
  /\ UNCHANGED <<controller, cache, stats, requests, todo, pending, runs, pc, call>>

\* Each clue is weighed against the counters alone, not with the batch so far.
RefineSelect(c) ==
  /\ Idle /\ phase = "refine"
  /\ c \in Clues \cap todo
  /\ pending.count < budget["clue_refine"]
  /\ Peek("clue_refine", Cost[c], 1)
  /\ todo' = todo \ {c}
  /\ pending' = [clues  |-> pending.clues \cup {c},
                 count  |-> pending.count + 1,
                 tokens |-> pending.tokens + Cost[c]]
  /\ UNCHANGED <<controller, cache, stats, requests, phase, runs, pc, call>>

\* Not a target, not routed to the LLM, over the deadline or over the budget.
RefineSkip(c) ==
  /\ Idle /\ phase = "refine"
  /\ c \in Clues \cap todo
  /\ todo' = todo \ {c}
  /\ UNCHANGED <<controller, cache, stats, requests, phase, pending, runs, pc, call>>

RefineBatchAlways ==
  /\ Idle /\ phase = "refine"
  /\ Clues \cap todo = {}
  /\ phase' = "done"
  /\ Call("clue_refine", pending.clues, Prompt + pending.tokens, pending.count)
  /\ UNCHANGED <<todo, pending>>

\* One call for the whole batch.  (RefineBatchAlways is a mutation: it also
\* sends an empty one.)
RefineBatch ==
  /\ Idle /\ phase = "refine"
  /\ Clues \cap todo = {}
  /\ pending.clues # {}
  /\ phase' = "done"
  /\ Call("clue_refine", pending.clues, Prompt + pending.tokens, pending.count)
  /\ UNCHANGED <<todo, pending>>

RefineNone ==
  /\ Idle /\ phase = "refine"
  /\ Clues \cap todo = {}
  /\ pending.clues = {}
  /\ phase' = "done"
  /\ UNCHANGED <<controller, cache, stats, requests, todo, pending, runs, pc, call>>

NoBatch == [clues |-> {}, count |-> 0, tokens |-> 0]

Init ==
  /\ budget = Profile
  /\ used = Nothing
  /\ late = FALSE
  /\ ledger = [c \in Counts |-> 0]
  /\ cache = {}
  /\ stats = 0
  /\ requests = 0
  /\ phase = "plan"
  /\ todo = Items
  /\ pending = NoBatch
  /\ pc = "idle"
  /\ call = NoCall
  /\ runs = 1

\* A new investigation on the same gateway: a new controller, the same cache.
NewRun ==
  /\ Idle /\ phase \in {"done", "aborted"}
  /\ runs < MaxRuns
  /\ budget' = Profile
  /\ used' = Nothing
  /\ late' = FALSE
  /\ ledger' = [c \in Counts |-> 0]
  /\ stats' = 0
  /\ requests' = 0
  /\ phase' = "plan"
  /\ todo' = Items
  /\ pending' = NoBatch
  /\ runs' = runs + 1
  /\ UNCHANGED <<cache, pc, call>>

Next ==
  \/ Tick
  \/ ChatCached \/ Reserve \/ Denied
  \/ AnswerOk \/ AnswerFails \/ AnswerRaises
  \/ \E p \in Plans : Plan(p)
  \/ Resolve
  \/ \E s \in Sources : Rewrite(s)
  \/ \E d \in Records : Enrich(d) \/ EnrichSkipped(d)
  \/ Settle
  \/ StartRefine
  \/ \E c \in Clues : RefineSelect(c) \/ RefineSkip(c)
  \/ RefineBatch \/ RefineNone
  \/ NewRun

Spec == Init /\ [][Next]_vars

-----------------------------------------------------------------------------
(* Properties *)

\* The checks are hard: no step takes a counter over the limit in force, though
\* _consume_if_needed charges without asking, and the limits are replaced after
\* planning has used some of them.
SpendWithinBudget ==
  [][\A r \in Resource : used'[r] > used[r] => used'[r] <= budget[r]]_vars

\* A call that was allowed and has not been charged yet.
Open == IF pc = "sent" \/ phase = "aborted" THEN 1 ELSE 0

\* The ledger adds up: every attempt was allowed, denied or served from the
\* cache; every allowance was charged and its outcome recorded, except that of
\* the call in progress or of the one that ended the investigation.
LedgerBalanced ==
  /\ ledger["attempted"] = ledger["allowed"] + ledger["denied"] + ledger["cached"]
  /\ ledger["ok"] + ledger["failed"] + Open = ledger["allowed"] + ledger["cached"]
  /\ used["calls"] + Open = ledger["allowed"]

\* Every request that left the process was charged, whatever came back.
RequestsCharged == requests <= used["calls"] + Open
=============================================================================
