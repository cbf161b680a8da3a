------------------------- MODULE EnforcementProofs -------------------------
(***************************************************************************)
(* What Enforcement proves for every policy, batch, request and token: the *)
(* connector is given only what the gates cleared, and a batch that is     *)
(* answered is accounted for, in its answer, at the connector and in the   *)
(* audit trail.                                                            *)
(***************************************************************************)
EXTENDS Enforcement, FiniteSetTheorems, TLAPS

Sent == [batch : Nat, index : Nat, action : Action, request : Request]
Event == [batch : Nat, action : Action, status : Status]

\* What was sent is of a batch handed in by now; of the batch in hand, it is an
\* action that has its result.
SentSoFar ==
  \A k \in DOMAIN sent :
    /\ sent[k].batch <= Number
    /\ sent[k].batch = Number => pc # "idle" /\ sent[k].index \in 1..Len(results)

\* How often the connector is given an action with some status.
Times(status) == IF status \in {"EXECUTED", "FAILED"} THEN 1 ELSE 0

\* The results of the batch in hand say what was sent.
ResultsTrue ==
  pc # "idle" => \A i \in 1..Len(results) : Cardinality(SentOf(Number, i)) = Times(results[i])

\* The events of the batch in hand are the last of the trail, from some k on, and
\* say its first results.
TrailFrom(k) ==
  /\ EventsOf(Number) = (k + 1)..Len(trail)
  /\ Len(trail) - k <= Len(results)
  /\ \A i \in 1..(Len(trail) - k) :
       trail[k + i] = [batch |-> Number, action |-> batch[i], status |-> results[i]]

TrailSoFar ==
  /\ \A j \in DOMAIN trail : trail[j].batch <= Number
  /\ pc # "audit" => EventsOf(Number) = {}
  /\ pc = "audit" => \E k \in 0..Len(trail) : TrailFrom(k)

Inv == /\ TypeOK
       /\ SentSoFar
       /\ ResultsTrue
       /\ TrailSoFar
       /\ AnswersAccounted

USE ConstantsAssumption DEF ConstantsAssumption

-----------------------------------------------------------------------------
(* Types *)

LEMMA EvaluatedType ==
  ASSUME TypeOK PROVE Evaluated \in 0..Len(batch) /\ Evaluated <= policy.maxActions
<1>1. policy \in Policy
  BY DEF TypeOK
<1>2. policy.maxActions \in Nat
  BY <1>1 DEF Policy
<1> QED
  BY <1>2 DEF TypeOK, Evaluated

LEMMA SubmitType == ASSUME TypeOK, Submit PROVE TypeOK'
<1>1. PICK actions \in Batches, r \in Request :
        \/ answers' = Append(answers, Failed) /\ UNCHANGED <<pc, batch, request, results>>
        \/ /\ batch' = Coerced(actions, r) /\ request' = r /\ results' = <<>>
           /\ pc' = "evaluate" /\ UNCHANGED answers
  BY DEF Submit
<1>2. UNCHANGED <<policy, sent, trail>>
  BY DEF Submit
<1>3. CASE answers' = Append(answers, Failed) /\ UNCHANGED <<pc, batch, request, results>>
  <2>1. answers' \in Seq([raised : BOOLEAN, actions : Seq(Action), results : Seq(Status)])
    BY <1>3 DEF TypeOK, Failed
  <2> QED
    BY <1>2, <1>3, <2>1 DEF TypeOK
<1>4. CASE /\ batch' = Coerced(actions, r) /\ request' = r /\ results' = <<>>
           /\ pc' = "evaluate" /\ UNCHANGED answers
  <2>1. actions \in Seq(Action)
    OBVIOUS
  <2>2. \A i \in DOMAIN actions : actions[i] \in Action
    BY <2>1
  <2>3. r.approved \in BOOLEAN
    BY DEF Request
  <2>4. \A i \in DOMAIN actions :
          [actions[i] EXCEPT !.approved = actions[i].approved \/ r.approved] \in Action
    BY <2>2, <2>3 DEF Action
  <2>5. Coerced(actions, r) \in Seq(Action)
    <3>1. DOMAIN actions = 1..Len(actions) /\ Len(actions) \in Nat
      BY <2>1
    <3>2. Coerced(actions, r) \in [1..Len(actions) -> Action]
      BY <2>4, <3>1 DEF Coerced
    <3> QED
      BY <3>1, <3>2
  <2>6. results' \in Seq(Status) /\ Len(results') <= Len(batch')
    BY <1>4, <2>5
  <2> QED
    BY <1>2, <1>4, <2>5, <2>6 DEF TypeOK
<1> QED
  BY <1>1, <1>3, <1>4

LEMMA GateStatus ==
  \A a : Gate(a) \in {"BLOCKED", "REVIEW_REQUIRED", "DRY_RUN", "CLEARED"}
BY DEF Gate

LEMMA HoldType == ASSUME TypeOK, Hold PROVE TypeOK'
<1>1. results' \in Seq(Status) /\ Len(results') = Len(results) + 1
  BY GateStatus DEF Hold, TypeOK, Status
<1>2. Len(results') <= Len(batch)
  BY <1>1, EvaluatedType DEF Hold, TypeOK
<1> QED
  BY <1>1, <1>2 DEF Hold, TypeOK

\* What is sent in this step.
Sending == [batch |-> Number, index |-> Len(results) + 1, action |-> Current, request |-> request]

LEMMA CurrentType ==
  ASSUME TypeOK, Len(results) < Evaluated
  PROVE  Current \in Action /\ Sending \in Sent /\ Len(results) < Len(batch)
<1>1. Len(results) + 1 \in 1..Len(batch)
  BY EvaluatedType DEF TypeOK
<1>2. Number \in Nat
  BY DEF TypeOK, Number
<1> QED
  BY <1>1, <1>2 DEF TypeOK, Current, Sending, Sent

LEMMA SendType == ASSUME TypeOK, Send PROVE TypeOK'
<1>1. sent' = Append(sent, Sending) /\ Len(results) < Evaluated
  BY DEF Send, Sending
<1>2. sent' \in Seq(Sent)
  BY <1>1, CurrentType DEF TypeOK, Sent
<1>3. /\ answers' \in Seq([raised : BOOLEAN, actions : Seq(Action), results : Seq(Status)])
      /\ pc' \in {"idle", "evaluate"}
      /\ results' \in Seq(Status) /\ Len(results') <= Len(batch)
  <2>1. PICK reply \in {"EXECUTED", "FAILED", NoReply} :
           IF reply = NoReply THEN Raise /\ UNCHANGED results
           ELSE results' = Append(results, reply) /\ UNCHANGED <<pc, answers>>
    BY DEF Send
  <2>2. CASE reply = NoReply
    <3>1. answers' = Append(answers, Failed) /\ pc' = "idle" /\ results' = results
      BY <2>1, <2>2 DEF Raise
    <3>2. answers' \in Seq([raised : BOOLEAN, actions : Seq(Action), results : Seq(Status)])
      BY <3>1 DEF Failed, TypeOK
    <3> QED
      BY <3>1, <3>2 DEF TypeOK
  <2>3. CASE reply # NoReply
    <3>1. reply \in Status
      BY <2>3 DEF Status
    <3>2. results' = Append(results, reply) /\ UNCHANGED <<pc, answers>>
      BY <2>1, <2>3
    <3>3. Len(results) < Len(batch)
      BY <1>1, CurrentType
    <3>4. results' \in Seq(Status) /\ Len(results') <= Len(batch)
      BY <3>1, <3>2, <3>3 DEF TypeOK
    <3> QED
      BY <3>2, <3>4 DEF TypeOK, Send
  <2> QED
    BY <2>2, <2>3
<1> QED
  BY <1>2, <1>3 DEF Send, TypeOK, Sent

\* The results with the overflow are one for each action, the first as before.
LEMMA OverflowResults ==
  ASSUME TypeOK, Len(results) = Evaluated
  PROVE  /\ WithOverflow \in Seq(Status) /\ Len(WithOverflow) = Len(batch)
         /\ \A i \in 1..Len(results) : WithOverflow[i] = results[i]
         /\ \A i \in (Len(results) + 1)..Len(batch) : WithOverflow[i] = "BLOCKED"
<1> DEFINE n == Len(batch) - Evaluated
           rest == [i \in 1..n |-> "BLOCKED"]
<1>1. n \in Nat /\ Evaluated \in Nat /\ Len(batch) \in Nat
  BY EvaluatedType DEF TypeOK
<1>2. rest \in Seq(Status) /\ Len(rest) = n /\ \A i \in 1..n : rest[i] = "BLOCKED"
  BY <1>1 DEF Status
<1>3. results \in Seq(Status) /\ WithOverflow = results \o rest
  BY DEF TypeOK, WithOverflow
<1> HIDE DEF rest
<1> QED
  BY <1>1, <1>2, <1>3

LEMMA DecidedType == ASSUME TypeOK, Decided PROVE TypeOK'
<1>1. results' \in Seq(Status) /\ Len(results') = Len(batch)
  BY OverflowResults DEF Decided
<1> QED
  BY <1>1 DEF Decided, TypeOK

\* The event written next, when a batch has the given number of events.
NextEvent(w) == [batch |-> Number, action |-> batch[w + 1], status |-> results[w + 1]]

\* How much of the batch in hand has been written.
LEMMA WrittenCount ==
  ASSUME Inv, NEW k \in 0..Len(trail), TrailFrom(k)
  PROVE  Written = Len(trail) - k
<1>1. Len(trail) \in Nat
  BY DEF Inv, TypeOK
<1>2. Cardinality((k + 1)..Len(trail)) =
        IF k + 1 > Len(trail) THEN 0 ELSE Len(trail) - (k + 1) + 1
  <2>1. k + 1 \in Int /\ Len(trail) \in Int
    BY <1>1
  <2> QED
    BY <2>1, FS_Interval
<1>3. Cardinality((k + 1)..Len(trail)) = Len(trail) - k
  BY <1>1, <1>2
<1> QED
  BY <1>3 DEF TrailFrom, EventsOf, Written

LEMMA AuditType == ASSUME Inv, Audit PROVE TypeOK'
<1>1. PICK k \in 0..Len(trail) : TrailFrom(k)
  BY DEF Inv, TrailSoFar, Audit
<1>2. Written \in Nat /\ Written < Len(batch) /\ Written < Len(results)
  BY <1>1, WrittenCount DEF Inv, TypeOK, Audit
<1>3. NextEvent(Written) \in Event
  BY <1>2 DEF Inv, TypeOK, NextEvent, Event, Number
<1>4. CASE trail' = Append(trail, NextEvent(Written)) /\ UNCHANGED <<pc, answers>>
  <2>1. trail' \in Seq(Event)
    BY <1>3, <1>4 DEF Inv, TypeOK, Event
  <2> QED
    BY <1>4, <2>1 DEF Audit, Inv, TypeOK, Event
<1>5. CASE Raise /\ UNCHANGED trail
  <2>1. answers' \in Seq([raised : BOOLEAN, actions : Seq(Action), results : Seq(Status)])
    BY <1>5 DEF Raise, Failed, Inv, TypeOK
  <2> QED
    BY <1>5, <2>1 DEF Audit, Raise, Inv, TypeOK
<1> QED
  BY <1>4, <1>5 DEF Audit, NextEvent

LEMMA AnswerType == ASSUME TypeOK, Answer PROVE TypeOK'
<1>1. answers' \in Seq([raised : BOOLEAN, actions : Seq(Action), results : Seq(Status)])
  BY DEF Answer, TypeOK
<1> QED
  BY <1>1 DEF Answer, TypeOK

-----------------------------------------------------------------------------
(* Batches that were answered before *)

Answered == [raised : BOOLEAN, actions : Seq(Action), results : Seq(Status)]

LEMMA Elements ==
  ASSUME TypeOK
  PROVE  /\ sent \in Seq(Sent) /\ \A k \in DOMAIN sent : sent[k] \in Sent /\ sent[k].batch \in Nat
         /\ trail \in Seq(Event) /\ \A j \in DOMAIN trail : trail[j] \in Event /\ trail[j].batch \in Nat
         /\ answers \in Seq(Answered)
         /\ \A n \in DOMAIN answers : answers[n] \in Answered /\ answers[n].actions \in Seq(Action)
<1>1. sent \in Seq(Sent) /\ trail \in Seq(Event) /\ answers \in Seq(Answered)
  BY DEF TypeOK, Sent, Event, Answered
<1>2. /\ \A s \in Sent : s.batch \in Nat
      /\ \A e \in Event : e.batch \in Nat
      /\ \A a \in Answered : a.actions \in Seq(Action)
  BY DEF Sent, Event, Answered
<1> HIDE DEF Sent, Event, Answered
<1>3. \A k \in DOMAIN sent : sent[k] \in Sent
  BY <1>1
<1>4. \A j \in DOMAIN trail : trail[j] \in Event
  BY <1>1
<1>5. \A n \in DOMAIN answers : answers[n] \in Answered
  BY <1>1
<1> QED
  BY <1>1, <1>2, <1>3, <1>4, <1>5

Accounted(n) ==
  ~answers[n].raised =>
    LET done == answers[n] IN
    /\ Len(done.results) = Len(done.actions)
    /\ Audited => \E k \in 0..Len(trail) :
         /\ EventsOf(n) = (k + 1)..(k + Len(done.actions))
         /\ \A i \in DOMAIN done.actions : trail[k + i] =
              [batch |-> n, action |-> done.actions[i], status |-> done.results[i]]
    /\ \A i \in DOMAIN done.results : Cardinality(SentOf(n, i)) = Times(done.results[i])

LEMMA AnswersAre == AnswersAccounted <=> \A n \in DOMAIN answers : Accounted(n)
BY DEF AnswersAccounted, Accounted, Times

\* What a step adds at the connector and in the trail is of the batch in hand.
Adds ==
  /\ sent' = sent \/ sent' = Append(sent, Sending)
  /\ trail' = trail \/ trail' = Append(trail, NextEvent(Written))

\* A sequence to which at most one element was appended.
LEMMA AppendKeeps ==
  ASSUME NEW S, NEW seq \in Seq(S), NEW x, NEW longer,
         longer = seq \/ longer = Append(seq, x)
  PROVE  /\ DOMAIN seq \subseteq DOMAIN longer
         /\ \A k \in DOMAIN seq : longer[k] = seq[k]
         /\ \A k \in DOMAIN longer : k \in DOMAIN seq \/ longer[k] = x
         /\ Len(seq) \in Nat /\ Len(longer) \in Nat /\ Len(longer) >= Len(seq)
<1>1. CASE longer = seq
  BY <1>1
<1>2. CASE longer = Append(seq, x)
  BY <1>2
<1> QED
  BY <1>1, <1>2

LEMMA AddsOwn ==
  ASSUME Inv, Adds
  PROVE  /\ DOMAIN sent \subseteq DOMAIN sent' /\ DOMAIN trail \subseteq DOMAIN trail'
         /\ \A k \in DOMAIN sent : sent'[k] = sent[k]
         /\ \A k \in DOMAIN sent' : k \in DOMAIN sent \/ sent'[k] = Sending
         /\ \A j \in DOMAIN trail : trail'[j] = trail[j]
         /\ \A j \in DOMAIN trail' : j \in DOMAIN trail \/ trail'[j] = NextEvent(Written)
         /\ Len(trail) \in Nat /\ Len(trail') \in Nat /\ Len(trail') >= Len(trail)
<1>1. sent \in Seq(Sent) /\ trail \in Seq(Event)
  BY DEF Inv, TypeOK, Sent, Event
<1>2. /\ DOMAIN sent \subseteq DOMAIN sent'
      /\ \A k \in DOMAIN sent : sent'[k] = sent[k]
      /\ \A k \in DOMAIN sent' : k \in DOMAIN sent \/ sent'[k] = Sending
  BY <1>1, AppendKeeps, Zenon DEF Adds
<1>3. /\ DOMAIN trail \subseteq DOMAIN trail'
      /\ \A j \in DOMAIN trail : trail'[j] = trail[j]
      /\ \A j \in DOMAIN trail' : j \in DOMAIN trail \/ trail'[j] = NextEvent(Written)
      /\ Len(trail) \in Nat /\ Len(trail') \in Nat /\ Len(trail') >= Len(trail)
  BY <1>1, AppendKeeps, Zenon DEF Adds
<1> QED
  BY <1>2, <1>3, Zenon

LEMMA StayAccounted ==
  ASSUME Inv, Adds, NEW n \in DOMAIN answers, answers'[n] = answers[n]
  PROVE  Accounted(n)'
<1>0. /\ DOMAIN sent \subseteq DOMAIN sent' /\ DOMAIN trail \subseteq DOMAIN trail'
      /\ \A k \in DOMAIN sent : sent'[k] = sent[k]
      /\ \A k \in DOMAIN sent' : k \in DOMAIN sent \/ sent'[k].batch = Number
      /\ \A j \in DOMAIN trail : trail'[j] = trail[j]
      /\ \A j \in DOMAIN trail' : j \in DOMAIN trail \/ trail'[j].batch = Number
  <2>1. Sending.batch = Number /\ NextEvent(Written).batch = Number
    BY DEF Sending, NextEvent
  <2> QED
    BY <2>1, AddsOwn
<1>1. n # Number
  <2>1. n \in 1..Len(answers) /\ Len(answers) \in Nat
    BY DEF Inv, TypeOK
  <2> QED
    BY <2>1 DEF Number
<1>2. EventsOf(n)' = EventsOf(n)
  <2>1. \A j : j \in EventsOf(n)' <=> j \in EventsOf(n)
    BY <1>0, <1>1 DEF EventsOf
  <2> QED
    BY <2>1 DEF EventsOf
<1>3. ASSUME NEW i PROVE SentOf(n, i)' = SentOf(n, i)
  <2>1. \A k : k \in SentOf(n, i)' <=> k \in SentOf(n, i)
    BY <1>0, <1>1 DEF SentOf
  <2> QED
    BY <2>1 DEF SentOf
<1>4. Len(trail') >= Len(trail) /\ Len(trail) \in Nat /\ Len(trail') \in Nat
  BY AddsOwn, Zenon
<1>5. Accounted(n)
  BY AnswersAre DEF Inv
<1>6. ASSUME ~answers[n].raised, Audited
      PROVE  \E k \in 0..Len(trail') :
         /\ EventsOf(n)' = (k + 1)..(k + Len(answers[n].actions))
         /\ \A i \in DOMAIN answers[n].actions : trail'[k + i] =
              [batch |-> n, action |-> answers[n].actions[i], status |-> answers[n].results[i]]
  <2>1. PICK k \in 0..Len(trail) :
         /\ EventsOf(n) = (k + 1)..(k + Len(answers[n].actions))
         /\ \A i \in DOMAIN answers[n].actions : trail[k + i] =
              [batch |-> n, action |-> answers[n].actions[i], status |-> answers[n].results[i]]
    BY <1>5, <1>6 DEF Accounted
  <2>2. ASSUME NEW i \in DOMAIN answers[n].actions PROVE trail'[k + i] = trail[k + i]
    <3>1. answers[n].actions \in Seq(Action)
      BY Elements DEF Inv
    <3>2. k + i \in (k + 1)..(k + Len(answers[n].actions))
      BY <3>1
    <3>3. k + i \in DOMAIN trail
      BY <2>1, <3>2 DEF EventsOf
    <3> QED
      BY <1>0, <3>3
  <2>3. EventsOf(n)' = (k + 1)..(k + Len(answers[n].actions))
    BY <1>2, <2>1
  <2>4. \A i \in DOMAIN answers[n].actions : trail'[k + i] =
          [batch |-> n, action |-> answers[n].actions[i], status |-> answers[n].results[i]]
    BY <2>1, <2>2
  <2>5. k \in 0..Len(trail')
    BY <1>4, <2>1
  <2> QED
    BY <2>3, <2>4, <2>5
<1> QED
  BY <1>3, <1>5, <1>6 DEF Accounted

\* A batch that raises has no answer to account for.
LEMMA RaiseInv ==
  ASSUME Inv, TypeOK', Adds, UNCHANGED trail, pc' = "idle", answers' = Append(answers, Failed)
  PROVE  Inv'
<1>1. Len(answers) \in Nat /\ Number \in Nat /\ Number' = Number + 1
  BY DEF Inv, TypeOK, Number
<1>2. SentSoFar'
  <2>1. ASSUME NEW k \in DOMAIN sent' PROVE sent'[k].batch \in Nat /\ sent'[k].batch <= Number
    <3>1. CASE k \in DOMAIN sent
      <4>1. sent'[k] = sent[k]
        BY <3>1, AddsOwn
      <4>2. sent[k].batch \in Nat /\ sent[k].batch <= Number
        BY <3>1, Elements DEF Inv, SentSoFar
      <4> QED
        BY <4>1, <4>2
    <3>2. CASE k \notin DOMAIN sent
      BY <1>1, <3>2, AddsOwn DEF Sending
    <3> QED
      BY <3>1, <3>2
  <2> QED
    BY <1>1, <2>1 DEF SentSoFar
<1>3. ResultsTrue'
  BY DEF ResultsTrue
<1>4. TrailSoFar'
  <2>1. \A j \in DOMAIN trail : trail[j].batch \in Nat /\ trail[j].batch <= Number
    BY Elements DEF Inv, TrailSoFar
  <2> QED
    BY <1>1, <2>1 DEF TrailSoFar, EventsOf
<1>5. ASSUME NEW n \in DOMAIN answers' PROVE Accounted(n)'
  <2>1. CASE n \in DOMAIN answers
    <3>1. answers'[n] = answers[n]
      BY <2>1 DEF Inv, TypeOK
    <3> QED
      BY <2>1, <3>1, StayAccounted
  <2>2. CASE n \notin DOMAIN answers
    <3>1. answers'[n] = Failed
      <4>1. answers \in Seq([raised : BOOLEAN, actions : Seq(Action), results : Seq(Status)])
        BY DEF Inv, TypeOK
      <4> QED
        BY <2>2, <4>1
    <3> QED
      BY <3>1 DEF Accounted, Failed
  <2> QED
    BY <2>1, <2>2
<1>6. AnswersAccounted'
  BY <1>5 DEF AnswersAccounted, Accounted, Times
<1> QED
  BY <1>2, <1>3, <1>4, <1>6 DEF Inv

LEMMA KeepAnswers == ASSUME Inv, Adds, UNCHANGED answers PROVE AnswersAccounted'
BY StayAccounted DEF AnswersAccounted, Accounted, Times

\* Nothing has been sent of an action that has no result.
LEMMA Unsent ==
  ASSUME Inv, NEW i \in Nat \ (1..Len(results))
  PROVE  SentOf(Number, i) = {} /\ Cardinality(SentOf(Number, i)) = 0
<1>1. SentOf(Number, i) = {}
  BY DEF Inv, SentSoFar, SentOf
<1> QED
  BY <1>1, FS_EmptySet

-----------------------------------------------------------------------------
(* The steps of a batch *)

LEMMA SubmitInv == ASSUME Inv, Submit PROVE Inv'
<1>1. TypeOK'
  BY SubmitType DEF Inv
<1>2. UNCHANGED <<sent, trail>> /\ pc = "idle" /\ Adds
  BY DEF Submit, Adds
<1>3. CASE answers' = Append(answers, Failed) /\ UNCHANGED pc
  BY <1>1, <1>2, <1>3, RaiseInv
<1>4. CASE results' = <<>> /\ pc' = "evaluate" /\ UNCHANGED answers
  <2>1. Number' = Number
    BY <1>4 DEF Number
  <2>2. SentSoFar'
    BY <1>2, <2>1 DEF Inv, SentSoFar
  <2>3. ResultsTrue'
    BY <1>4 DEF ResultsTrue
  <2>4. TrailSoFar'
    BY <1>2, <1>4, <2>1 DEF Inv, TrailSoFar, EventsOf
  <2>5. AnswersAccounted'
    BY <1>2, <1>4, KeepAnswers
  <2> QED
    BY <1>1, <2>2, <2>3, <2>4, <2>5 DEF Inv
<1> QED
  BY <1>3, <1>4 DEF Submit

LEMMA HoldInv == ASSUME Inv, Hold PROVE Inv'
<1>1. TypeOK'
  BY HoldType DEF Inv
<1>2. /\ UNCHANGED <<pc, sent, trail, answers>> /\ Number' = Number /\ Adds
      /\ pc = "evaluate"
      /\ results \in Seq(Status) /\ Len(results) \in Nat
  BY DEF Hold, Number, Adds, Inv, TypeOK
<1>3. PICK status \in {"BLOCKED", "REVIEW_REQUIRED", "DRY_RUN"} : results' = Append(results, status)
  BY GateStatus DEF Hold
<1>4. /\ Len(results') = Len(results) + 1 /\ results'[Len(results) + 1] = status
      /\ \A i \in 1..Len(results) : results'[i] = results[i]
  BY <1>2, <1>3
<1>5. SentSoFar'
  <2>1. 1..Len(results) \subseteq 1..Len(results')
    BY <1>2, <1>4
  <2> QED
    BY <1>2, <2>1 DEF Inv, SentSoFar
<1>6. ResultsTrue'
  <2> SUFFICES ASSUME NEW i \in 1..Len(results')
               PROVE  Cardinality(SentOf(Number, i)) = Times(results'[i])
    BY <1>2 DEF ResultsTrue, SentOf
  <2>1. CASE i \in 1..Len(results)
    BY <1>2, <1>4, <2>1 DEF Inv, ResultsTrue
  <2>2. CASE i = Len(results) + 1
    <3>1. Times(results'[i]) = 0
      BY <1>4, <2>2 DEF Times
    <3> QED
      BY <1>2, <2>2, <3>1, Unsent
  <2> QED
    BY <1>2, <1>4, <2>1, <2>2
<1>7. TrailSoFar'
  BY <1>2 DEF Inv, TrailSoFar, EventsOf
<1> QED
  BY <1>1, <1>2, <1>5, <1>6, <1>7, KeepAnswers DEF Inv

LEMMA SendInv == ASSUME Inv, Send PROVE Inv'
<1>1. TypeOK'
  BY SendType DEF Inv
<1>2. /\ sent' = Append(sent, Sending) /\ UNCHANGED trail /\ Adds
      /\ pc = "evaluate"
      /\ results \in Seq(Status) /\ Len(results) \in Nat
  BY DEF Send, Sending, Adds, Inv, TypeOK
<1>3. PICK reply \in {"EXECUTED", "FAILED", NoReply} :
        IF reply = NoReply THEN Raise /\ UNCHANGED results
        ELSE results' = Append(results, reply) /\ UNCHANGED <<pc, answers>>
  BY DEF Send
<1>4. CASE reply = NoReply
  <2>1. pc' = "idle" /\ answers' = Append(answers, Failed)
    BY <1>3, <1>4 DEF Raise
  <2> QED
    BY <1>1, <1>2, <2>1, RaiseInv
<1>5. CASE reply \in {"EXECUTED", "FAILED"}
  <2>1. /\ results' = Append(results, reply) /\ UNCHANGED <<pc, answers>>
        /\ Number' = Number
    BY <1>3, <1>5 DEF Number, NoReply
  <2>2. /\ Len(results') = Len(results) + 1 /\ results'[Len(results) + 1] = reply
        /\ \A i \in 1..Len(results) : results'[i] = results[i]
    BY <1>2, <2>1
  <2>3. sent \in Seq(Sent) /\ Number \in Nat
    BY DEF Inv, TypeOK, Sent, Number
  <2>4. /\ DOMAIN sent' = DOMAIN sent \cup {Len(sent) + 1} /\ Len(sent) + 1 \notin DOMAIN sent
        /\ \A k \in DOMAIN sent : sent'[k] = sent[k]
        /\ sent'[Len(sent) + 1] = Sending
    BY <1>2, <2>3
  <2>5. Sending.batch = Number /\ Sending.index = Len(results) + 1
    BY DEF Sending
  <2>6. SentSoFar'
    <3> SUFFICES ASSUME NEW k \in DOMAIN sent'
                 PROVE  /\ sent'[k].batch <= Number
                        /\ sent'[k].batch = Number => pc' # "idle" /\ sent'[k].index \in 1..Len(results')
      BY <2>1 DEF SentSoFar
    <3>1. CASE k \in DOMAIN sent
      <4>1. 1..Len(results) \subseteq 1..Len(results')
        BY <1>2, <2>2
      <4> QED
        BY <2>1, <2>4, <3>1, <4>1 DEF Inv, SentSoFar
    <3>2. CASE k = Len(sent) + 1
      BY <1>2, <2>1, <2>2, <2>3, <2>4, <2>5, <3>2
    <3> QED
      BY <2>4, <3>1, <3>2
  <2>7. ResultsTrue'
    <3> SUFFICES ASSUME NEW i \in 1..Len(results')
                 PROVE  Cardinality(SentOf(Number, i)') = Times(results'[i])
      BY <2>1 DEF ResultsTrue, SentOf
    <3>1. CASE i \in 1..Len(results)
      <4>1. i # Len(results) + 1
        BY <1>2, <3>1
      <4>2. \A k : k \in SentOf(Number, i)' <=> k \in SentOf(Number, i)
        BY <2>1, <2>4, <2>5, <4>1 DEF SentOf
      <4>3. SentOf(Number, i)' = SentOf(Number, i)
        BY <4>2 DEF SentOf
      <4> QED
        BY <1>2, <2>2, <3>1, <4>3 DEF Inv, ResultsTrue
    <3>2. CASE i = Len(results) + 1
      <4>1. SentOf(Number, i) = {}
        BY <1>2, <3>2, Unsent
      <4>2. SentOf(Number, i)' = {Len(sent) + 1}
        <5>1. \A k : k \in SentOf(Number, i)' <=> k = Len(sent) + 1
          BY <2>1, <2>4, <2>5, <3>2, <4>1 DEF SentOf
        <5> QED
          BY <5>1 DEF SentOf
      <4> QED
        BY <1>5, <2>2, <3>2, <4>2, FS_Singleton DEF Times
    <3> QED
      BY <1>2, <2>2, <3>1, <3>2
  <2>8. TrailSoFar'
    BY <1>2, <2>1 DEF Inv, TrailSoFar, EventsOf
  <2> QED
    BY <1>1, <1>2, <2>1, <2>6, <2>7, <2>8, KeepAnswers DEF Inv
<1> QED
  BY <1>4, <1>5

LEMMA DecidedInv == ASSUME Inv, Decided PROVE Inv'
<1>1. TypeOK'
  BY DecidedType DEF Inv
<1>2. /\ UNCHANGED <<batch, sent, trail, answers>> /\ Number' = Number /\ Adds
      /\ pc = "evaluate" /\ pc' = "audit"
      /\ results' = WithOverflow /\ Len(results) = Evaluated
      /\ Len(results) \in Nat /\ Len(batch) \in Nat /\ Len(results) <= Len(batch)
      /\ Len(trail) \in Nat /\ trail \in Seq(Event)
  BY DEF Decided, Number, Adds, Inv, TypeOK, Event
<1>3. /\ Len(results') = Len(batch)
      /\ \A i \in 1..Len(results) : results'[i] = results[i]
      /\ \A i \in (Len(results) + 1)..Len(batch) : results'[i] = "BLOCKED"
  BY <1>2, OverflowResults DEF Inv
<1>4. SentSoFar'
  <2>1. 1..Len(results) \subseteq 1..Len(results')
    BY <1>2, <1>3
  <2> QED
    BY <1>2, <2>1 DEF Inv, SentSoFar
<1>5. ResultsTrue'
  <2> SUFFICES ASSUME NEW i \in 1..Len(results')
               PROVE  Cardinality(SentOf(Number, i)) = Times(results'[i])
    BY <1>2 DEF ResultsTrue, SentOf
  <2>1. CASE i \in 1..Len(results)
    BY <1>2, <1>3, <2>1 DEF Inv, ResultsTrue
  <2>2. CASE i \in (Len(results) + 1)..Len(batch)
    <3>1. Times(results'[i]) = 0
      BY <1>3, <2>2 DEF Times
    <3>2. i \in Nat \ (1..Len(results))
      BY <1>2, <2>2
    <3> QED
      BY <3>1, <3>2, Unsent
  <2> QED
    BY <1>2, <1>3, <2>1, <2>2
<1>6. TrailSoFar'
  <2>1. EventsOf(Number)' = {}
    BY <1>2 DEF Inv, TrailSoFar, EventsOf
  <2>2. TrailFrom(Len(trail))'
    BY <1>2, <1>3, <2>1 DEF TrailFrom
  <2>3. Len(trail) \in 0..Len(trail')
    BY <1>2
  <2>4. \A j \in DOMAIN trail' : trail'[j].batch <= Number'
    BY <1>2 DEF Inv, TrailSoFar
  <2> QED
    BY <1>2, <2>2, <2>3, <2>4 DEF TrailSoFar
<1> QED
  BY <1>1, <1>2, <1>4, <1>5, <1>6, KeepAnswers DEF Inv

LEMMA AuditInv == ASSUME Inv, Audit PROVE Inv'
<1>1. TypeOK'
  BY AuditType
<1>2. UNCHANGED <<batch, results, sent>> /\ pc = "audit"
  BY DEF Audit
<1>3. CASE Raise /\ UNCHANGED trail
  <2>1. Adds /\ pc' = "idle" /\ answers' = Append(answers, Failed)
    BY <1>2, <1>3 DEF Adds, Raise
  <2> QED
    BY <1>1, <1>3, <2>1, RaiseInv
<1>4. CASE trail' = Append(trail, NextEvent(Written)) /\ UNCHANGED <<pc, answers>>
  <2>1. PICK k \in 0..Len(trail) : TrailFrom(k)
    BY <1>2 DEF Inv, TrailSoFar
  <2>2. /\ Written = Len(trail) - k /\ Written < Len(results)
        /\ Len(trail) \in Nat /\ k \in Nat /\ Len(results) \in Nat
        /\ trail \in Seq(Event) /\ Number \in Nat
    BY <2>1, WrittenCount DEF Audit, Inv, TypeOK, Event, Number
  <2>3. Number' = Number /\ Adds
    BY <1>2, <1>4 DEF Number, Adds
  <2>4. /\ Len(trail') = Len(trail) + 1
        /\ DOMAIN trail' = DOMAIN trail \cup {Len(trail) + 1} /\ Len(trail) + 1 \notin DOMAIN trail
        /\ \A j \in DOMAIN trail : trail'[j] = trail[j]
        /\ trail'[Len(trail) + 1] = NextEvent(Written)
    BY <1>4, <2>2
  <2>5. EventsOf(Number)' = (k + 1)..Len(trail')
    <3>1. EventsOf(Number)' = EventsOf(Number) \cup {Len(trail) + 1}
      <4>1. NextEvent(Written).batch = Number
        BY DEF NextEvent
      <4>2. \A j : j \in EventsOf(Number)' <=> j \in EventsOf(Number) \/ j = Len(trail) + 1
        BY <2>3, <2>4, <4>1 DEF EventsOf
      <4> QED
        BY <4>2 DEF EventsOf
    <3>2. EventsOf(Number) = (k + 1)..Len(trail)
      BY <2>1 DEF TrailFrom
    <3> QED
      BY <2>2, <2>4, <3>1, <3>2
  <2>6. ASSUME NEW i \in 1..(Len(trail') - k)
        PROVE  trail'[k + i] = [batch |-> Number, action |-> batch[i], status |-> results[i]]
    <3>1. CASE i \in 1..(Len(trail) - k)
      <4>1. k + i \in DOMAIN trail
        BY <2>2, <3>1
      <4>2. trail[k + i] = [batch |-> Number, action |-> batch[i], status |-> results[i]]
        BY <2>1, <3>1 DEF TrailFrom
      <4> QED
        BY <2>4, <4>1, <4>2
    <3>2. CASE i = Len(trail) + 1 - k
      <4>1. k + i = Len(trail) + 1 /\ i = Written + 1
        BY <2>2, <3>2
      <4>2. trail'[k + i] = NextEvent(Written)
        BY <2>4, <4>1
      <4>3. NextEvent(Written) = [batch |-> Number, action |-> batch[i], status |-> results[i]]
        BY <4>1 DEF NextEvent
      <4> QED
        BY <4>2, <4>3
    <3>3. i \in 1..(Len(trail) - k) \/ i = Len(trail) + 1 - k
      BY <2>2, <2>4, <2>6
    <3> QED
      BY <3>1, <3>2, <3>3
  <2>7. TrailFrom(k)'
    <3>1. Len(trail') - k <= Len(results)
      BY <2>2, <2>4
    <3> QED
      BY <1>2, <2>3, <2>5, <2>6, <3>1 DEF TrailFrom
  <2>8. TrailSoFar'
    <3>1. k \in 0..Len(trail')
      BY <2>2, <2>4
    <3>2. \A j \in DOMAIN trail' : trail'[j].batch <= Number
      <4>1. NextEvent(Written).batch = Number /\ Number <= Number
        BY <2>2 DEF NextEvent
      <4>2. \A j \in DOMAIN trail : trail[j].batch <= Number
        BY DEF Inv, TrailSoFar
      <4> QED
        BY <2>4, <4>1, <4>2
    <3> QED
      BY <1>2, <1>4, <2>3, <2>7, <3>1, <3>2 DEF TrailSoFar
  <2>9. SentSoFar' /\ ResultsTrue'
    BY <1>2, <1>4, <2>3 DEF Inv, SentSoFar, ResultsTrue, SentOf
  <2> QED
    BY <1>1, <1>4, <2>3, <2>8, <2>9, KeepAnswers DEF Inv
<1> QED
  BY <1>3, <1>4 DEF Audit, NextEvent

\* The batch in hand becomes an answered one, with what the invariant says of it.
LEMMA AnswerInv == ASSUME Inv, Answer PROVE Inv'
<1>1. TypeOK'
  BY AnswerType DEF Inv
<1> DEFINE done == [raised |-> FALSE, actions |-> batch, results |-> results]
<1>2. /\ UNCHANGED <<batch, results, sent, trail>> /\ Adds
      /\ pc = "audit" /\ pc' = "idle"
      /\ answers' = Append(answers, done)
      /\ Audited => Written = Len(results)
  BY DEF Answer, Adds
<1>3. /\ Number \in Nat /\ Number' = Number + 1
      /\ batch \in Seq(Action) /\ results \in Seq(Status) /\ Len(results) = Len(batch)
      /\ Len(trail) \in Nat /\ answers \in Seq(Answered)
  BY <1>2 DEF Inv, TypeOK, Number, Answered
<1>4. SentSoFar'
  BY <1>2, <1>3, Elements DEF Inv, SentSoFar
<1>5. ResultsTrue'
  BY <1>2 DEF ResultsTrue
<1>6. TrailSoFar'
  <2>1. \A j \in DOMAIN trail : trail[j].batch \in Nat /\ trail[j].batch <= Number
    BY Elements DEF Inv, TrailSoFar
  <2> QED
    BY <1>2, <1>3, <2>1 DEF TrailSoFar, EventsOf
<1>7. ASSUME NEW n \in DOMAIN answers' PROVE Accounted(n)'
  <2>1. CASE n \in DOMAIN answers
    <3>1. answers'[n] = answers[n]
      BY <1>2, <1>3, <2>1
    <3> QED
      BY <1>2, <2>1, <3>1, StayAccounted
  <2>2. CASE n \notin DOMAIN answers
    <3>1. n = Number /\ answers'[n] = done
      BY <1>2, <1>3, <2>2 DEF Number
    <3>2. ASSUME Audited
          PROVE  \E k \in 0..Len(trail) :
                   /\ EventsOf(Number) = (k + 1)..(k + Len(batch))
                   /\ \A i \in DOMAIN batch : trail[k + i] =
                        [batch |-> Number, action |-> batch[i], status |-> results[i]]
      <4>1. PICK k \in 0..Len(trail) : TrailFrom(k)
        BY <1>2 DEF Inv, TrailSoFar
      <4>2. Len(trail) = k + Len(batch) /\ DOMAIN batch = 1..(Len(trail) - k)
        BY <1>2, <1>3, <3>2, <4>1, WrittenCount
      <4> QED
        BY <4>1, <4>2 DEF TrailFrom
    <3>3. \A i \in DOMAIN results : Cardinality(SentOf(Number, i)) = Times(results[i])
      <4>1. \A i \in 1..Len(results) : Cardinality(SentOf(Number, i)) = Times(results[i])
        BY <1>2 DEF Inv, ResultsTrue
      <4>2. DOMAIN results = 1..Len(results)
        BY <1>3
      <4> QED
        BY <4>1, <4>2
    <3>4. EventsOf(n)' = EventsOf(Number) /\ \A i : SentOf(n, i)' = SentOf(Number, i)
      BY <1>2, <3>1 DEF EventsOf, SentOf
    <3> QED
      <4>1. Len(results) = Len(batch) /\ UNCHANGED trail
        BY <1>2, <1>3
      <4>2. /\ ~answers'[n].raised /\ answers'[n].actions = batch
            /\ answers'[n].results = results
        BY <3>1
      <4>3. Audited => \E k \in 0..Len(trail') :
              /\ EventsOf(n)' = (k + 1)..(k + Len(batch))
              /\ \A i \in DOMAIN batch : trail'[k + i] =
                   [batch |-> n, action |-> batch[i], status |-> results[i]]
        BY <3>1, <3>2, <3>4, <4>1
      <4>4. \A i \in DOMAIN results : Cardinality(SentOf(n, i)') = Times(results[i])
        BY <3>3, <3>4
      <4> HIDE DEF done
      <4> QED
        BY <4>1, <4>2, <4>3, <4>4 DEF Accounted
  <2> QED
    BY <2>1, <2>2
<1>8. AnswersAccounted'
  BY <1>7 DEF AnswersAccounted, Accounted, Times
<1> QED
  BY <1>1, <1>4, <1>5, <1>6, <1>8 DEF Inv

-----------------------------------------------------------------------------
LEMMA InitInv == Init => Inv
<1> SUFFICES ASSUME Init PROVE Inv
  OBVIOUS
<1>1. TypeOK
  BY DEF Init, TypeOK, NoRequest, Request
<1> QED
  BY <1>1 DEF Init, Inv, SentSoFar, ResultsTrue, TrailSoFar, EventsOf, AnswersAccounted

LEMMA StutterInv == ASSUME Inv, UNCHANGED vars PROVE Inv'
<1> USE DEF Inv, vars
<1>1. Number' = Number /\ Adds
  BY DEF Number, Adds
<1>2. TypeOK'
  BY DEF TypeOK
<1>3. SentSoFar' /\ ResultsTrue'
  BY <1>1 DEF SentSoFar, ResultsTrue, SentOf
<1>4. TrailSoFar'
  BY <1>1 DEF TrailSoFar, TrailFrom, EventsOf
<1> QED
  BY <1>1, <1>2, <1>3, <1>4, KeepAnswers

LEMMA Invariance == Spec => []Inv
<1>1. Inv /\ [Next]_vars => Inv'
  BY SubmitInv, HoldInv, SendInv, DecidedInv, AuditInv, AnswerInv, StutterInv DEF Next
<1> QED
  BY <1>1, InitInv, PTL DEF Spec

\* Batches, results, the trail and the answers keep their types, and there is never
\* a result without an action.
THEOREM TypeCorrect == Spec => []TypeOK
<1>1. Inv => TypeOK
  BY DEF Inv
<1> QED
  BY <1>1, Invariance, PTL

\* Every batch that is answered is accounted for at the connector and in the trail,
\* whatever batches raised before it.
THEOREM EveryAnswerAccounted == Spec => []AnswersAccounted
<1>1. Inv => AnswersAccounted
  BY DEF Inv
<1> QED
  BY <1>1, Invariance, PTL

\* The connector is given nothing that a gate of the policy would have held.
THEOREM OnlyClearedIsSent == Spec => []SentWereCleared
<1>1. Init => SentWereCleared
  BY DEF Init, SentWereCleared
<1>2. ASSUME TypeOK, SentWereCleared, Send PROVE SentWereCleared'
  <2>1. sent' = Append(sent, Sending) /\ UNCHANGED policy /\ Len(results) < Evaluated
    BY <1>2 DEF Send, Sending
  <2>2. Gate(Current) = "CLEARED"
    BY <1>2 DEF Send
  <2>3. Len(results) + 1 <= policy.maxActions
    <3>1. policy \in Policy
      BY <1>2 DEF TypeOK
    <3>2. policy.maxActions \in Nat /\ Len(results) \in Nat
      BY <1>2, <3>1 DEF TypeOK, Policy
    <3> QED
      BY <1>2, <2>1, <3>2, EvaluatedType
  <2>4. policy.minConfidence \in Nat /\ Current.confidence \in Nat
    <3>1. policy \in Policy /\ Current \in Action
      BY <1>2, <2>1, CurrentType DEF TypeOK
    <3> QED
      BY <3>1 DEF Policy, Action
  <2>5. /\ policy.enabled /\ policy.connector /\ ~policy.dryRun /\ request.dryRun # "yes"
        /\ Current.allowed /\ Current.confidence >= policy.minConfidence
        /\ policy.approval => Current.approved
        /\ policy.token => policy.secret # NoToken /\ request.token = policy.secret
    BY <2>2, <2>4 DEF Gate, DryRun
  <2>6. sent \in Seq(Sent)
    BY <1>2 DEF TypeOK, Sent
  <2> SUFFICES ASSUME NEW i \in DOMAIN sent'
               PROVE  LET s == sent'[i] IN
                      /\ policy.enabled /\ policy.connector
                      /\ ~policy.dryRun /\ s.request.dryRun # "yes"
                      /\ s.action.allowed /\ s.action.confidence >= policy.minConfidence
                      /\ policy.approval => s.action.approved
                      /\ policy.token => policy.secret # NoToken /\ s.request.token = policy.secret
                      /\ s.index <= policy.maxActions
    BY <2>1 DEF SentWereCleared
  <2>7. CASE i \in DOMAIN sent
    <3>1. sent'[i] = sent[i]
      BY <2>1, <2>6, <2>7
    <3> QED
      BY <1>2, <2>7, <3>1 DEF SentWereCleared
  <2>8. CASE i \notin DOMAIN sent
    <3>1. sent'[i] = Sending
      BY <2>1, <2>6, <2>8
    <3> QED
      BY <2>3, <2>5, <3>1 DEF Sending
  <2> QED
    BY <2>7, <2>8
<1>3. TypeOK /\ SentWereCleared /\ [Next]_vars => SentWereCleared'
  <2> SUFFICES ASSUME TypeOK, SentWereCleared, [Next]_vars PROVE SentWereCleared'
    OBVIOUS
  <2>1. CASE UNCHANGED <<policy, sent>>
    BY <2>1 DEF SentWereCleared
  <2> QED
    BY <1>2, <2>1 DEF Next, Submit, Hold, Decided, Audit, Answer, vars
<1> QED
  BY <1>1, <1>3, TypeCorrect, PTL DEF Spec

=============================================================================
