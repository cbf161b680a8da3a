---------------------------- MODULE Enforcement ----------------------------
(***************************************************************************)
(* The gateway to production (src/src/backend/enforcement.py) as the       *)
(* runtime calls it (execute_enforcement of src/src/local_runtime.py): a   *)
(* batch of proposed actions passes the gates of the policy one by one,    *)
(* what is cleared is sent to the connector at once, and only when every   *)
(* action has its result are the results written to the audit trail, one   *)
(* event each. The connector and the trail fail in ways the code does not  *)
(* catch; a client may then hand in the same batch again.                  *)
(***************************************************************************)
EXTENDS Naturals, Sequences, FiniteSets

CONSTANTS
  Policies,  \* the settings the program may be started with
  Batches,   \* the sequences of actions a client may hand in
  Tokens,    \* production safety tokens
  Audited,   \* BOOLEAN: a SQL backend is configured
  MaxBatches \* bound: batches handed in

NoToken == "no token"
NoReply == "no reply"

Policy == [enabled : BOOLEAN, dryRun : BOOLEAN, approval : BOOLEAN, token : BOOLEAN,
           secret : Tokens \cup {NoToken}, minConfidence : Nat, maxActions : Nat,
           connector : BOOLEAN]

\* wellFormed: _coerce_action takes it; allowed: its type and its target's type
\* are on the policy's lists.
Action == [wellFormed : BOOLEAN, allowed : BOOLEAN, confidence : Nat, approved : BOOLEAN]

\* What a request adds: approved=True for the whole batch, dry_run (which may
\* be left out) and a safety token.
Request == [approved : BOOLEAN, dryRun : {"yes", "no", "none"}, token : Tokens \cup {NoToken}]

Status == {"BLOCKED", "REVIEW_REQUIRED", "DRY_RUN", "FAILED", "EXECUTED"}

ASSUME ConstantsAssumption ==
  /\ Policies \subseteq Policy
  /\ Batches \subseteq Seq(Action)
  /\ Audited \in BOOLEAN
  /\ MaxBatches \in Nat

VARIABLES
  policy,   \* the enforcement settings
  pc,       \* "idle", "evaluate" or "audit"
  batch,    \* the normalised actions of the batch in hand
  request,  \* its request
  results,  \* the statuses of the actions evaluated so far
  sent,     \* what the connector was given
  trail,    \* enforcement_decision events of the audit trail
  answers   \* what each batch was answered: its actions and statuses

vars == <<policy, pc, batch, request, results, sent, trail, answers>>

NoRequest == [approved |-> FALSE, dryRun |-> "none", token |-> NoToken]
Failed == [raised |-> TRUE, actions |-> <<>>, results |-> <<>>]

TypeOK ==
  /\ policy \in Policies
  /\ pc \in {"idle", "evaluate", "audit"}
  /\ batch \in Seq(Action)
  /\ request \in Request
  /\ results \in Seq(Status)
  /\ Len(results) <= Len(batch)
  /\ pc = "audit" => Len(results) = Len(batch)
  /\ sent \in Seq([batch : Nat, index : Nat, action : Action, request : Request])
  /\ trail \in Seq([batch : Nat, action : Action, status : Status])
  /\ answers \in Seq([raised : BOOLEAN, actions : Seq(Action), results : Seq(Status)])

\* The number of the batch in hand.
Number == Len(answers) + 1

-----------------------------------------------------------------------------
(* The policy *)

\* (Override is a mutation: the request's dry_run replaces the configured one.)
Override(p, r) == IF r.dryRun = "none" THEN p.dryRun ELSE r.dryRun = "yes"

\* policy_with_request: a request may add a dry run and may not take it away.
DryRun(p, r) == p.dryRun \/ r.dryRun = "yes"

\* The gates of _evaluate up to the connector, in the order of the code: the
\* status of an action that is held, "CLEARED" of one that is not.
Gate(a) ==
  IF ~policy.enabled \/ ~a.allowed THEN "BLOCKED"
  ELSE IF a.confidence < policy.minConfidence \/ (policy.approval /\ ~a.approved)
       THEN "REVIEW_REQUIRED"
  ELSE IF DryRun(policy, request) THEN "DRY_RUN"
  ELSE IF policy.token /\ (policy.secret = NoToken \/ request.token # policy.secret)
       THEN "BLOCKED"
  ELSE IF policy.connector THEN "CLEARED" ELSE "BLOCKED"

-----------------------------------------------------------------------------
(* One call of execute_enforcement *)

\* The approval of the request is given to each action.
Coerced(actions, r) ==
  [i \in DOMAIN actions |->
     [actions[i] EXCEPT !.approved = actions[i].approved \/ r.approved]]

\* An empty batch and a malformed action raise before anything is evaluated.
Submit ==
  /\ pc = "idle" /\ Len(answers) < MaxBatches
  /\ \E actions \in Batches, r \in Request :
       IF actions = <<>> \/ \E i \in DOMAIN actions : ~actions[i].wellFormed
       THEN /\ answers' = Append(answers, Failed)
            /\ UNCHANGED <<pc, batch, request, results>>
       ELSE /\ batch' = Coerced(actions, r)
            /\ request' = r
            /\ results' = <<>>
            /\ pc' = "evaluate"
            /\ UNCHANGED answers
  /\ UNCHANGED <<policy, sent, trail>>

\* The actions of the batch that are evaluated: not those over the limit.
Evaluated == IF Len(batch) > policy.maxActions THEN policy.maxActions ELSE Len(batch)

Current == batch[Len(results) + 1]

Raise ==
  /\ pc' = "idle"
  /\ answers' = Append(answers, Failed)

\* _evaluate of an action that does not pass the gates.
Hold ==
  /\ pc = "evaluate" /\ Len(results) < Evaluated
  /\ Gate(Current) # "CLEARED"
  /\ results' = Append(results, Gate(Current))
  /\ UNCHANGED <<policy, pc, batch, request, sent, trail, answers>>

\* _evaluate of one that does: adapter.execute posts it and the connector
\* acknowledges it, answers with an error or not at all, or what it answers (a
\* body that is no JSON, a read that times out) raises through the gateway and
\* the runtime, and with it go the results of the batch.
Send ==
  /\ pc = "evaluate" /\ Len(results) < Evaluated
  /\ Gate(Current) = "CLEARED"
  /\ sent' = Append(sent, [batch |-> Number, index |-> Len(results) + 1,
                           action |-> Current, request |-> request])
  /\ \E reply \in {"EXECUTED", "FAILED", NoReply} :
       IF reply = NoReply THEN Raise /\ UNCHANGED results
       ELSE results' = Append(results, reply) /\ UNCHANGED <<pc, answers>>
  /\ UNCHANGED <<policy, batch, request, trail>>

\* (Dropped is a mutation: actions over the limit have no result.)
Dropped == results

\* The results with those of the actions over the limit.
WithOverflow == results \o [i \in 1..(Len(batch) - Evaluated) |-> "BLOCKED"]

\* The gateway has a result for each action.
Decided ==
  /\ pc = "evaluate" /\ Len(results) = Evaluated
  /\ results' = WithOverflow
  /\ pc' = "audit"
  /\ UNCHANGED <<policy, batch, request, sent, trail, answers>>

\* The events of the batch in hand the trail has already.
Written == Cardinality({i \in DOMAIN trail : trail[i].batch = Number})

\* append_audit_if_available: the next event is committed, or the database
\* raises and the rest of the batch is not written.
Audit ==
  /\ pc = "audit" /\ Audited /\ Written < Len(results)
  /\ \/ /\ trail' = Append(trail, [batch |-> Number, action |-> batch[Written + 1],
                                   status |-> results[Written + 1]])
        /\ UNCHANGED <<pc, answers>>
     \/ Raise /\ UNCHANGED trail
  /\ UNCHANGED <<policy, batch, request, results, sent>>

Answer ==
  /\ pc = "audit" /\ (~Audited \/ Written = Len(results))
  /\ answers' = Append(answers, [raised |-> FALSE, actions |-> batch, results |-> results])
  /\ pc' = "idle"
  /\ UNCHANGED <<policy, batch, request, results, sent, trail>>

-----------------------------------------------------------------------------
Init ==
  /\ policy \in Policies
  /\ pc = "idle" /\ batch = <<>> /\ request = NoRequest /\ results = <<>>
  /\ sent = <<>> /\ trail = <<>> /\ answers = <<>>

Next == Submit \/ Hold \/ Send \/ Decided \/ Audit \/ Answer

Spec == Init /\ [][Next]_vars

-----------------------------------------------------------------------------
(* What production may rely on *)

\* Whatever the connector was given had passed every gate that
\* docs/production_automation.md:92 lists, of the settings and of the request it
\* came with, and was within the limit of its batch.
SentWereCleared ==
  \A i \in DOMAIN sent :
    LET s == sent[i] IN
    /\ policy.enabled /\ policy.connector
    /\ ~policy.dryRun /\ s.request.dryRun # "yes"
    /\ s.action.allowed /\ s.action.confidence >= policy.minConfidence
    /\ policy.approval => s.action.approved
    /\ policy.token => policy.secret # NoToken /\ s.request.token = policy.secret
    /\ s.index <= policy.maxActions

\* Where the events of batch n are in the trail, and what the connector was given
\* of its action i.
EventsOf(n) == {j \in DOMAIN trail : trail[j].batch = n}
SentOf(n, i) == {k \in DOMAIN sent : sent[k].batch = n /\ sent[k].index = i}

\* A batch that is answered is accounted for: each of its actions, those over the
\* limit included, has one status in the answer, and one event in the trail with
\* that status, in the order of the batch; and exactly the actions said to be
\* executed or failed went to the connector, once each.
AnswersAccounted ==
  \A n \in DOMAIN answers : ~answers[n].raised =>
    LET done == answers[n] IN
    /\ Len(done.results) = Len(done.actions)
    /\ Audited => \E k \in 0..Len(trail) :
         /\ EventsOf(n) = (k + 1)..(k + Len(done.actions))
         /\ \A i \in DOMAIN done.actions : trail[k + i] =
              [batch |-> n, action |-> done.actions[i], status |-> done.results[i]]
    /\ \A i \in DOMAIN done.results :
         Cardinality(SentOf(n, i)) = IF done.results[i] \in {"EXECUTED", "FAILED"} THEN 1 ELSE 0

=============================================================================
