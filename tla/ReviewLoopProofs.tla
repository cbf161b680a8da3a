-------------------------- MODULE ReviewLoopProofs --------------------------
(***************************************************************************)
(* What ReviewLoop proves of all terms, records, threads and batches: the  *)
(* engine learns only activated terms, a hypothesis quotes only what a     *)
(* reviewer has handled, a decision reaches the lifecycle, and the stages  *)
(* keep their order but for stores that overlap.                           *)
(***************************************************************************)
EXTENDS ReviewLoop, TLAPS

\* A record in use has the marks of a reviewer, an active one those of an operator.
Marked(record) ==
  /\ record.stage \in {"GRAY_ROLLOUT", "ACTIVE"} => "reviewer" \in record.marks
  /\ record.stage = "ACTIVE" => "activated" \in record.marks

RecordsMarked == \A t \in Term : Marked(records[t]) /\ records[t].marks \subseteq was[t]

\* A step names what its kind needs; an example is of a term just reviewed.
GoodStep(s) ==
  /\ s.kind \in Stores \cup {"example"} => s.term \in Term
  /\ s.kind \in Feeds \cup {"list", "nominate"} => s.trace \in Trace
  /\ s.kind = "example" => "reviewer" \in was[s.term]

\* An agenda is that of a decision, or has nothing a decision leaves.
GoodAgenda(c) ==
  /\ \A s \in ToSet(agenda[c]) : GoodStep(s)
  /\ \/ \A s \in ToSet(agenda[c]) : s.kind \in Feeds \cup {"list"}
     \/ \A s \in ToSet(agenda[c]) : s.kind \in Checked \cup {"nominate"}

\* What a thread holds of a record was once there: a record it decided on admits
\* the call, and the one it will merge with is marked.
GoodStore(c) ==
  /\ checked[c] # Unread =>
       /\ agenda[c] # <<>> /\ Head(agenda[c]).kind \in Checked
       /\ Admits(Head(agenda[c]).kind, checked[c].stage)
  /\ read[c] # Unread =>
       /\ Head(agenda[c]).kind \in Checked => checked[c] # Unread
       /\ Marked(read[c]) /\ read[c].marks \subseteq was[Head(agenda[c]).term]

\* An entity was in its record and in a dictionary.
Known(e) == e.term \in TermsIn[e.trace] /\ (e.term \in Base \/ "activated" \in was[e.term])

GoodRun(c) ==
  /\ \A e \in run[c].found \cup run[c].owed \cup run[c].context.entities : Known(e)
  /\ \A t \in run[c].context.terms : "reviewer" \in was[t]
  /\ \A e \in ToSet(run[c].context.examples) : "reviewer" \in was[e.term]

\* What an exploration will read: reviewed examples, known entities.
SourcesReviewed ==
  /\ \A e \in ToSet(fewShot) : "reviewer" \in was[e.term]
  /\ \A e \in payload : Known(e)

Inv == /\ TypeOK
       /\ RecordsMarked
       /\ \A c \in Caller : GoodAgenda(c) /\ GoodStore(c)
       /\ LearnedWereActivated
       /\ SourcesReviewed
       /\ \A c \in Caller : GoodRun(c)
       /\ QuotedWereReviewed
       /\ DecisionsTaken

USE TermsAssumption, TracesAssumption, BoundsAssumption
    DEF TermsAssumption, TracesAssumption, BoundsAssumption

-----------------------------------------------------------------------------
(* Sequences and the types of what is stored *)

LEMMA TailFacts ==
  ASSUME NEW S, NEW s \in Seq(S), s # <<>>
  PROVE  /\ Head(s) \in S /\ Tail(s) \in Seq(S)
         /\ Head(s) \in ToSet(s) /\ ToSet(Tail(s)) \subseteq ToSet(s)
         /\ \A x \in ToSet(s) : x = Head(s) \/ x \in ToSet(Tail(s))
<1>1. Head(s) \in S /\ Tail(s) \in Seq(S) /\ Head(s) = s[1] /\ 1 \in DOMAIN s
  OBVIOUS
<1>2. \A i \in DOMAIN Tail(s) : i + 1 \in DOMAIN s /\ Tail(s)[i] = s[i + 1]
  OBVIOUS
<1>3. \A i \in DOMAIN s : i = 1 \/ (i - 1 \in DOMAIN Tail(s) /\ Tail(s)[i - 1] = s[i])
  OBVIOUS
<1> QED
  BY <1>1, <1>2, <1>3 DEF ToSet

LEMMA AppendFacts ==
  ASSUME NEW S, NEW s \in Seq(S), NEW x \in S
  PROVE  /\ Append(s, x) \in Seq(S)
         /\ ToSet(Append(s, x)) = ToSet(s) \cup {x}
<1>1. /\ Append(s, x) \in Seq(S) /\ DOMAIN Append(s, x) = DOMAIN s \cup {Len(s) + 1}
      /\ Append(s, x)[Len(s) + 1] = x /\ \A i \in DOMAIN s : Append(s, x)[i] = s[i]
  OBVIOUS
<1> QED
  BY <1>1 DEF ToSet

LEMMA ConsFacts ==
  ASSUME NEW S, NEW s \in Seq(S), NEW x \in S
  PROVE  /\ <<x>> \o s \in Seq(S) /\ <<x>> \o s # <<>>
         /\ ToSet(<<x>> \o s) = ToSet(s) \cup {x}
<1>1. /\ <<x>> \o s \in Seq(S) /\ Len(<<x>> \o s) = Len(s) + 1 /\ (<<x>> \o s)[1] = x
      /\ \A i \in DOMAIN s : i + 1 \in DOMAIN (<<x>> \o s) /\ (<<x>> \o s)[i + 1] = s[i]
      /\ \A i \in DOMAIN (<<x>> \o s) : i = 1 \/ (i - 1 \in DOMAIN s /\ (<<x>> \o s)[i] = s[i - 1])
  OBVIOUS
<1>2. 1 \in DOMAIN (<<x>> \o s) /\ <<x>> \o s # <<>>
  BY <1>1
<1> HIDE DEF Inv
<1> QED
  BY <1>1, <1>2 DEF ToSet

LEMMA EmptyFacts == ToSet(<<>>) = {} /\ \A S : <<>> \in Seq(S)
BY DEF ToSet

\* The steps of the calls of one to three stores.
LEMMA SingleFacts ==
  ASSUME NEW S, NEW x \in S PROVE <<x>> \in Seq(S) /\ ToSet(<<x>>) = {x}
<1>1. <<x>> \in Seq(S) /\ DOMAIN <<x>> = {1} /\ <<x>>[1] = x
  OBVIOUS
<1> QED
  BY <1>1 DEF ToSet

LEMMA TripleFacts ==
  ASSUME NEW S, NEW x \in S, NEW y \in S, NEW z \in S
  PROVE  <<x, y, z>> \in Seq(S) /\ ToSet(<<x, y, z>>) = {x, y, z}
<1>1. <<x, y, z>> \in Seq(S) /\ DOMAIN <<x, y, z>> = {1, 2, 3}
  OBVIOUS
<1>2. <<x, y, z>>[1] = x /\ <<x, y, z>>[2] = y /\ <<x, y, z>>[3] = z
  OBVIOUS
<1> QED
  BY <1>1, <1>2 DEF ToSet

LEMMA DoFacts ==
  ASSUME NEW kind \in Stores \cup Feeds, NEW t \in Term \cup {NoTerm}, NEW r \in Trace \cup {NoTrace}
  PROVE  /\ Do(kind, t, r) \in Step
         /\ Do(kind, t, r).kind = kind /\ Do(kind, t, r).term = t /\ Do(kind, t, r).trace = r
BY DEF Do, Step

LEMMA RecordFacts ==
  /\ \A x \in Record : x.stage \in Stage /\ x.marks \subseteq Mark /\ x.evidence \subseteq Trace
  /\ \A x \in Record : x # Unread /\ x # NoRecord
  /\ NoRecord # Unread /\ NoRecord.marks = {} /\ NoRecord.evidence = {} /\ NoRecord.stage = "NONE"
  /\ Unread.marks = {} /\ Unread.evidence = {} /\ Unread.stage = "UNREAD"
<1>1. \A x \in Record : x.stage \in Stage /\ x.marks \subseteq Mark /\ x.evidence \subseteq Trace
  BY DEF Record
<1>2. "NONE" \notin Stage /\ "UNREAD" \notin Stage
  BY DEF Stage
<1> QED
  BY <1>1, <1>2 DEF NoRecord, Unread

LEMMA RunFacts ==
  /\ NoRun \in Run /\ NoContext \in Context
  /\ NoRun.found = {} /\ NoRun.owed = {} /\ NoRun.context = NoContext
  /\ NoContext.terms = {} /\ NoContext.examples = <<>> /\ NoContext.entities = {}
BY DEF NoRun, Run, NoContext, Context
-----------------------------------------------------------------------------
(* What a step leaves alone *)

\* The verdict on a hypothesis names terms.
LEMMA VerdictTypes ==
  ASSUME TypeOK, NEW h \in DOMAIN queue
  PROVE  /\ queue[h] \in Hypothesis /\ queue[h].trace \in Trace
         /\ h \in DOMAIN verdict /\ verdict[h] \in Verdict \cup {NoVerdict}
         /\ ToSet(verdict[h].terms) \subseteq Term
<1>1. queue[h] \in Hypothesis /\ h \in DOMAIN verdict /\ verdict[h] \in Verdict \cup {NoVerdict}
  BY DEF TypeOK
<1>2. CASE verdict[h] = NoVerdict
  BY <1>1, <1>2, EmptyFacts DEF NoVerdict, Hypothesis
<1>3. CASE verdict[h] \in Verdict
  <2>1. verdict[h].terms \in WordLists
    BY <1>3 DEF Verdict
  <2>2. verdict[h].terms \in Seq(Term)
    BY <2>1
  <2> QED
    BY <1>1, <2>2 DEF ToSet, Hypothesis
<1> QED
  BY <1>1, <1>2, <1>3

\* A thread that is to store nothing holds no record.
LEMMA HoldsNothing ==
  ASSUME TypeOK, NEW c \in Caller, GoodStore(c), agenda[c] = <<>> \/ Head(agenda[c]).kind \in Feeds
  PROVE  checked[c] = Unread /\ read[c] = Unread
BY DEF TypeOK, GoodStore, Stores, Checked, Feeds

\* A thread gets a new agenda when it has none.
LEMMA NewAgenda ==
  ASSUME TypeOK, \A d \in Caller : GoodAgenda(d) /\ GoodStore(d),
         NEW c \in Caller, agenda[c] = <<>>, NEW s \in Seq(Step),
         agenda' = [agenda EXCEPT ![c] = s], UNCHANGED <<was, checked, read>>,
         \A x \in ToSet(s) : GoodStep(x),
         \/ \A x \in ToSet(s) : x.kind \in Feeds \cup {"list"}
         \/ \A x \in ToSet(s) : x.kind \in Checked \cup {"nominate"}
  PROVE  /\ agenda' \in [Caller -> Seq(Step)]
         /\ \A d \in Caller : GoodAgenda(d)' /\ GoodStore(d)'
         /\ \A d \in Caller : read'[d] # Unread => agenda'[d] # <<>> /\ Head(agenda'[d]).kind \in Stores
         /\ \A x : (\E d \in Caller : x \in ToSet(agenda[d])) => \E d \in Caller : x \in ToSet(agenda'[d])
<1>1. agenda \in [Caller -> Seq(Step)]
  BY DEF TypeOK
<1>2. checked[c] = Unread /\ read[c] = Unread
  BY HoldsNothing
<1>3. agenda'[c] = s /\ \A d \in Caller \ {c} : agenda'[d] = agenda[d]
  BY <1>1
<1>4. ASSUME NEW d \in Caller PROVE GoodAgenda(d)' /\ GoodStore(d)'
  <2>1. CASE d = c
    BY <1>2, <1>3, <2>1 DEF GoodAgenda, GoodStep, GoodStore
  <2>2. CASE d # c
    BY <1>3, <2>2 DEF GoodAgenda, GoodStep, GoodStore
  <2> QED
    BY <2>1, <2>2
<1>5. \A d \in Caller : read'[d] # Unread => agenda'[d] # <<>> /\ Head(agenda'[d]).kind \in Stores
  BY <1>2, <1>3 DEF TypeOK
<1>6. ASSUME NEW x, NEW d \in Caller, x \in ToSet(agenda[d]) PROVE x \in ToSet(agenda'[d])
  <2>1. d # c
    BY <1>6, EmptyFacts
  <2> QED
    BY <1>3, <1>6, <2>1
<1> QED
  BY <1>1, <1>4, <1>5, <1>6

\* A thread goes on with its run of the engine or its exploration.
LEMMA NextRun ==
  ASSUME TypeOK, \A d \in Caller : GoodRun(d), NEW c \in Caller, NEW x \in Run,
         run' = [run EXCEPT ![c] = x], UNCHANGED was,
         \A e \in x.found \cup x.owed \cup x.context.entities : Known(e),
         \A t \in x.context.terms : "reviewer" \in was[t],
         \A e \in ToSet(x.context.examples) : "reviewer" \in was[e.term]
  PROVE  run' \in [Caller -> Run] /\ \A d \in Caller : GoodRun(d)'
<1>1. run \in [Caller -> Run]
  BY DEF TypeOK
<1>2. run'[c] = x /\ \A d \in Caller \ {c} : run'[d] = run[d]
  BY <1>1
<1>3. ASSUME NEW d \in Caller PROVE GoodRun(d)'
  <2>1. CASE d = c
    BY <1>2, <2>1 DEF GoodRun, Known
  <2>2. CASE d # c
    BY <1>2, <2>2 DEF GoodRun, Known
  <2> QED
    BY <2>1, <2>2
<1> QED
  BY <1>1, <1>3

\* A decision that has been taken, or is on its way, is so after a step that loses
\* nothing of what decisions leave in the agendas.
LEMMA StillTaken ==
  ASSUME DecisionsTaken, UNCHANGED <<records, replaced, queue, verdict, fewShot, negatives>>,
         \A x : x.kind \in Feeds \cup {"list"} /\ (\E d \in Caller : x \in ToSet(agenda[d])) =>
                \E d \in Caller : x \in ToSet(agenda'[d])
  PROVE  DecisionsTaken'
<1>1. ASSUME NEW kind \in Feeds \cup {"list"}, NEW t, NEW r PROVE Owes(kind, t, r) => Owes(kind, t, r)'
  <2>1. Do(kind, t, r).kind = kind /\ Do(kind, t, r)' = Do(kind, t, r)
    BY DEF Do
  <2> QED
    BY <2>1 DEF Owes
<1>2. "list" \in Feeds \cup {"list"} /\ "sample" \in Feeds /\ "example" \in Feeds
  BY DEF Feeds
<1> QED
  BY <1>1, <1>2 DEF DecisionsTaken

-----------------------------------------------------------------------------
(* Inv holds initially *)

LEMMA InitInv == Init => Inv
<1> SUFFICES ASSUME Init PROVE Inv
  OBVIOUS
<1>1. TypeOK
  BY RunFacts, EmptyFacts DEF Init, TypeOK
<1>2. RecordsMarked
  BY RecordFacts DEF Init, RecordsMarked, Marked
<1>3. \A c \in Caller : GoodAgenda(c) /\ GoodStore(c)
  BY EmptyFacts DEF Init, GoodAgenda, GoodStore
<1>4. \A c \in Caller : GoodRun(c)
  BY RunFacts, EmptyFacts DEF Init, GoodRun
<1>5. SourcesReviewed
  BY EmptyFacts DEF Init, SourcesReviewed
<1>6. LearnedWereActivated /\ QuotedWereReviewed /\ DecisionsTaken
  BY DEF Init, LearnedWereActivated, QuotedWereReviewed, DecisionsTaken
<1> QED
  BY <1>1, <1>2, <1>3, <1>4, <1>5, <1>6 DEF Inv

-----------------------------------------------------------------------------
(* Entering a call *)

\* A call by its steps, of known terms and none of a decision.
LEMMA CallInv ==
  ASSUME Inv, NEW c \in Caller, NEW s \in Seq(Step), Call(c, s),
         \A x \in ToSet(s) : GoodStep(x) /\ x.kind \in Checked \cup {"nominate"},
         UNCHANGED <<lifecycle, feedback, engine, review>>
  PROVE  Inv'
<1> USE DEF Inv
<1>0. /\ UNCHANGED <<records, was, replaced, fewShot, negatives, learned, payload, queue, verdict, checked, read, run>>
      /\ agenda[c] = <<>> /\ agenda' = [agenda EXCEPT ![c] = s] /\ calls' = calls + 1
  BY DEF Call, Idle, lifecycle, feedback, engine, review
<1>1. /\ agenda' \in [Caller -> Seq(Step)]
      /\ \A d \in Caller : GoodAgenda(d)' /\ GoodStore(d)'
      /\ \A d \in Caller : read'[d] # Unread => agenda'[d] # <<>> /\ Head(agenda'[d]).kind \in Stores
      /\ \A x : (\E d \in Caller : x \in ToSet(agenda[d])) => \E d \in Caller : x \in ToSet(agenda'[d])
  BY <1>0, NewAgenda
<1>2. TypeOK'
  BY <1>0, <1>1 DEF TypeOK
<1>3. DecisionsTaken'
  BY <1>0, <1>1, StillTaken
<1>4. RecordsMarked' /\ LearnedWereActivated' /\ SourcesReviewed' /\ QuotedWereReviewed'
  BY <1>0 DEF RecordsMarked, LearnedWereActivated, SourcesReviewed, Known, QuotedWereReviewed
<1>5. \A d \in Caller : GoodRun(d)'
  BY <1>0 DEF GoodRun, Known
<1> QED
  BY <1>1, <1>2, <1>3, <1>4, <1>5

LEMMA EnterInv ==
  ASSUME Inv, NEW c \in Caller, Review(c) \/ GrayRollout(c) \/ Activate(c) \/ Promote(c)
  PROVE  Inv'
<1>0. UNCHANGED <<lifecycle, feedback, engine, review>>
  BY DEF Review, GrayRollout, Activate, Promote
<1>1. ASSUME NEW t \in Term, NEW kind \in Checked, Call(c, <<Do(kind, t, NoTrace)>>) PROVE Inv'
  <2>1. Do(kind, t, NoTrace) \in Step /\ Do(kind, t, NoTrace).kind = kind /\ Do(kind, t, NoTrace).term = t
    BY DoFacts DEF Stores
  <2>2. <<Do(kind, t, NoTrace)>> \in Seq(Step) /\ ToSet(<<Do(kind, t, NoTrace)>>) = {Do(kind, t, NoTrace)}
    BY <2>1, SingleFacts
  <2>3. GoodStep(Do(kind, t, NoTrace))
    BY <2>1 DEF GoodStep, Stores, Feeds, Checked
  <2> QED
    BY <1>0, <1>1, <2>1, <2>2, <2>3, CallInv
<1>2. ASSUME NEW t \in Term, NEW r \in Trace,
             Call(c, <<Do("nominate", t, r), Do("approve", t, NoTrace), Do("gray", t, NoTrace)>>)
      PROVE  Inv'
  <2> DEFINE x == Do("nominate", t, r)
             y == Do("approve", t, NoTrace)
             z == Do("gray", t, NoTrace)
  <2>1. /\ x \in Step /\ x.kind = "nominate" /\ x.term = t /\ x.trace = r
        /\ y \in Step /\ y.kind = "approve" /\ y.term = t
        /\ z \in Step /\ z.kind = "gray" /\ z.term = t
    <3>1. {"nominate", "approve", "gray"} \subseteq Stores
      BY DEF Stores, Checked
    <3>2. x \in Step /\ x.kind = "nominate" /\ x.term = t /\ x.trace = r
      BY <3>1, DoFacts
    <3>3. y \in Step /\ y.kind = "approve" /\ y.term = t
      BY <3>1, DoFacts
    <3>4. z \in Step /\ z.kind = "gray" /\ z.term = t
      BY <3>1, DoFacts
    <3> QED
      BY <3>2, <3>3, <3>4
  <2> HIDE DEF x, y, z
  <2>2. <<x, y, z>> \in Seq(Step) /\ ToSet(<<x, y, z>>) = {x, y, z}
    BY <2>1, TripleFacts
  <2>3. GoodStep(x) /\ GoodStep(y) /\ GoodStep(z)
    BY <2>1 DEF GoodStep, Stores, Feeds, Checked
  <2>4. Call(c, <<x, y, z>>)
    BY <1>2 DEF x, y, z
  <2>5. \A u \in {x, y, z} : GoodStep(u) /\ u.kind \in Checked \cup {"nominate"}
    BY <2>1, <2>3 DEF Checked
  <2> QED
    BY <1>0, <2>2, <2>4, <2>5, CallInv
<1> QED
  BY <1>1, <1>2 DEF Review, GrayRollout, Activate, Promote, Checked
-----------------------------------------------------------------------------
(* The steps of a store *)

LEMMA CheckInv == ASSUME Inv, NEW c \in Caller, Check(c) PROVE Inv'
<1> USE DEF Inv
<1> DEFINE step == Head(agenda[c])
           current == records[step.term]
<1>0. /\ UNCHANGED <<records, was, replaced, fewShot, negatives, learned, payload, queue, verdict, calls, read, run>>
      /\ agenda[c] # <<>> /\ step.kind \in Checked /\ checked[c] = Unread
  BY DEF Check, lifecycle, feedback, engine, review
<1>1. /\ agenda \in [Caller -> Seq(Step)] /\ checked \in [Caller -> Record \cup {Unread}]
      /\ records \in [Term -> Record \cup {NoRecord}]
  BY DEF TypeOK
<1>2. step \in ToSet(agenda[c]) /\ step.term \in Term
  <2>1. step \in ToSet(agenda[c])
    BY <1>0, <1>1, TailFacts
  <2> QED
    BY <1>0, <2>1 DEF GoodAgenda, GoodStep, Stores
<1>3. read[c] = Unread
  BY <1>0 DEF GoodStore
<1>4. RecordsMarked' /\ LearnedWereActivated' /\ SourcesReviewed' /\ QuotedWereReviewed'
  BY <1>0 DEF RecordsMarked, LearnedWereActivated, SourcesReviewed, Known, QuotedWereReviewed
<1>5. \A d \in Caller : GoodRun(d)'
  BY <1>0 DEF GoodRun, Known
<1>6. CASE Admits(step.kind, current.stage)
  <2>1. checked' = [checked EXCEPT ![c] = current] /\ agenda' = agenda
    BY <1>6 DEF Check
  <2>2. current \in Record
    BY <1>0, <1>1, <1>2, <1>6, RecordFacts DEF Admits
  <2>3. TypeOK'
    BY <1>0, <2>1, <2>2 DEF TypeOK
  <2>4. checked'[c] = current /\ \A d \in Caller \ {c} : checked'[d] = checked[d]
    BY <1>1, <2>1
  <2>5. \A d \in Caller : GoodAgenda(d)'
    BY <1>0, <2>1 DEF GoodAgenda, GoodStep
  <2>6. ASSUME NEW d \in Caller PROVE GoodStore(d)'
    <3>1. CASE d = c
      BY <1>0, <1>3, <1>6, <2>1, <2>4, <3>1 DEF GoodStore
    <3>2. CASE d # c
      BY <1>0, <2>1, <2>4, <3>2 DEF GoodStore
    <3> QED
      BY <3>1, <3>2
  <2>7. DecisionsTaken'
    BY <1>0, <2>1, StillTaken
  <2> QED
    BY <1>4, <1>5, <2>3, <2>5, <2>6, <2>7
<1>7. CASE ~Admits(step.kind, current.stage)
  <2>1. agenda' = [agenda EXCEPT ![c] = <<>>] /\ checked' = checked
    BY <1>7 DEF Check
  <2>2. agenda'[c] = <<>> /\ \A d \in Caller \ {c} : agenda'[d] = agenda[d]
    BY <1>1, <2>1
  <2>3. TypeOK'
    BY <1>0, <1>3, <2>1, <2>2, EmptyFacts DEF TypeOK
  <2>4. ASSUME NEW d \in Caller PROVE GoodAgenda(d)' /\ GoodStore(d)'
    <3>1. CASE d = c
      BY <1>0, <1>3, <2>1, <2>2, <3>1, EmptyFacts DEF GoodAgenda, GoodStore
    <3>2. CASE d # c
      BY <1>0, <2>1, <2>2, <3>2 DEF GoodAgenda, GoodStep, GoodStore
    <3> QED
      BY <3>1, <3>2
  <2>5. \A x \in ToSet(agenda[c]) : x.kind \in Checked \cup {"nominate"}
    <3>1. step.kind \notin Feeds \cup {"list"}
      BY <1>0 DEF Checked, Feeds
    <3> QED
      BY <1>2, <3>1 DEF GoodAgenda
  <2>6. Checked \cup {"nominate"} \subseteq Stores \ (Feeds \cup {"list"})
    BY DEF Checked, Feeds, Stores
  <2>7. DecisionsTaken'
    <3>1. \A x : x.kind \in Feeds \cup {"list"} /\ (\E d \in Caller : x \in ToSet(agenda[d])) =>
                \E d \in Caller : x \in ToSet(agenda'[d])
      BY <2>2, <2>5, <2>6
    <3> QED
      BY <1>0, <3>1, StillTaken
  <2> QED
    BY <1>4, <1>5, <2>3, <2>4, <2>7
<1> QED
  BY <1>6, <1>7

LEMMA ReadInv == ASSUME Inv, NEW c \in Caller, Read(c) PROVE Inv'
<1> USE DEF Inv
<1> DEFINE step == Head(agenda[c])
<1>0. /\ UNCHANGED <<records, was, replaced, fewShot, negatives, learned, payload, queue, verdict, calls,
                     agenda, checked, run>>
      /\ agenda[c] # <<>> /\ step.kind \in Stores /\ (step.kind \in Checked => checked[c] # Unread)
      /\ read' = [read EXCEPT ![c] = records[step.term]]
  BY DEF Read, lifecycle, feedback, engine, review
<1>1. /\ agenda \in [Caller -> Seq(Step)] /\ read \in [Caller -> Record \cup {NoRecord, Unread}]
      /\ records \in [Term -> Record \cup {NoRecord}]
  BY DEF TypeOK
<1>2. step.term \in Term
  <2>1. step \in ToSet(agenda[c])
    BY <1>0, <1>1, TailFacts
  <2> QED
    BY <1>0, <2>1 DEF GoodAgenda, GoodStep
<1>3. read'[c] = records[step.term] /\ \A d \in Caller \ {c} : read'[d] = read[d]
  BY <1>0, <1>1
<1>4. TypeOK'
  <2>1. read' \in [Caller -> Record \cup {NoRecord, Unread}]
    BY <1>0, <1>1, <1>2
  <2>2. \A d \in Caller : read'[d] # Unread => agenda'[d] # <<>> /\ Head(agenda'[d]).kind \in Stores
    BY <1>0, <1>3 DEF TypeOK
  <2> QED
    BY <1>0, <2>1, <2>2 DEF TypeOK
<1>5. RecordsMarked' /\ LearnedWereActivated' /\ SourcesReviewed' /\ QuotedWereReviewed'
  BY <1>0 DEF RecordsMarked, LearnedWereActivated, SourcesReviewed, Known, QuotedWereReviewed
<1>6. \A d \in Caller : GoodRun(d)' /\ GoodAgenda(d)'
  BY <1>0 DEF GoodRun, Known, GoodAgenda, GoodStep
<1>7. ASSUME NEW d \in Caller PROVE GoodStore(d)'
  <2>1. CASE d = c
    BY <1>0, <1>2, <1>3, <2>1 DEF GoodStore, RecordsMarked, Marked
  <2>2. CASE d # c
    BY <1>0, <1>3, <2>2 DEF GoodStore, Marked
  <2> QED
    BY <2>1, <2>2
<1>8. DecisionsTaken'
  BY <1>0, StillTaken
<1> QED
  BY <1>4, <1>5, <1>6, <1>7, <1>8

\* The record a store writes: of the stage asked for or the one it read, with the
\* marks that stage needs, and all the evidence it knows of.
LEMMA MergedFacts ==
  ASSUME Inv, NEW c \in Caller, read[c] # Unread
  PROVE  /\ Head(agenda[c]).term \in Term
         /\ Merged(c) \in Record /\ Marked(Merged(c))
         /\ read[c].marks \subseteq Merged(c).marks
         /\ read[c].evidence \subseteq Merged(c).evidence
         /\ Head(agenda[c]).kind = "list" =>
              "reviewer" \in Merged(c).marks /\ Head(agenda[c]).trace \in Merged(c).evidence
<1> DEFINE step == Head(agenda[c])
           s == Requested(step.kind)
           f == FinalStage(read[c], s, step.kind \in {"reject", "gray", "activate"})
<1>1. /\ agenda[c] # <<>> /\ step.kind \in Stores /\ agenda[c] \in Seq(Step)
      /\ checked[c] \in Record \cup {Unread} /\ read[c] \in Record \cup {NoRecord}
      /\ GoodAgenda(c) /\ GoodStore(c)
  BY DEF Inv, TypeOK
<1>2. step \in ToSet(agenda[c]) /\ step \in Step /\ step.term \in Term /\ step.trace \in Trace \cup {NoTrace}
      /\ (step.kind = "list" => step.trace \in Trace)
  <2>1. step \in ToSet(agenda[c]) /\ step \in Step
    BY <1>1, TailFacts
  <2> QED
    BY <1>1, <2>1 DEF GoodAgenda, GoodStep, Step
<1>3. /\ Merged(c).stage = f
      /\ Merged(c).marks = read[c].marks \cup Given(step.kind)
      /\ Merged(c).evidence = read[c].evidence \cup checked[c].evidence \cup ({step.trace} \ {NoTrace})
      /\ Merged(c) = [stage |-> Merged(c).stage, marks |-> Merged(c).marks, evidence |-> Merged(c).evidence]
  BY DEF Merged
<1>4. s \in Stage /\ Given(step.kind) \subseteq Mark
  BY <1>1 DEF Stores, Checked, Requested, Given, Stage, Mark
<1>5. f \in Stage /\ (f = s \/ f = read[c].stage)
  <2>1. CASE read[c] \in Record
    BY <1>4, <2>1, RecordFacts DEF FinalStage
  <2>2. CASE read[c] = NoRecord
    <3>1. Priority(read[c].stage) = 0 /\ Priority(s) \in Nat
      BY <1>4, <2>2, RecordFacts DEF Priority, Stage
    <3> QED
      BY <1>4, <3>1 DEF FinalStage
  <2> QED
    BY <1>1, <2>1, <2>2
<1> HIDE DEF f
<1>6. read[c].marks \subseteq Mark /\ read[c].evidence \subseteq Trace /\ checked[c].evidence \subseteq Trace
  BY <1>1, RecordFacts
<1>7. Merged(c) \in Record
  <2>1. Merged(c).stage \in Stage /\ Merged(c).marks \subseteq Mark /\ Merged(c).evidence \subseteq Trace
    BY <1>2, <1>3, <1>4, <1>5, <1>6
  <2> QED
    BY <1>3, <2>1 DEF Record
<1>8. Marked(Merged(c))
  <2>1. s \in {"GRAY_ROLLOUT", "ACTIVE"} => "reviewer" \in Given(step.kind)
    BY <1>1 DEF Stores, Checked, Requested, Given
  <2>2. s = "ACTIVE" => "activated" \in Given(step.kind)
    BY <1>1 DEF Stores, Checked, Requested, Given
  <2>3. Marked(read[c])
    BY <1>1 DEF GoodStore
  <2> QED
    BY <1>3, <1>5, <2>1, <2>2, <2>3 DEF Marked
<1>9. step.kind = "list" => "reviewer" \in Merged(c).marks /\ step.trace \in Merged(c).evidence
  BY <1>2, <1>3 DEF Given
<1> QED
  BY <1>2, <1>3, <1>7, <1>8, <1>9

\* Marks are only added to what the records of a term have had.
LEMMA MarksGrow ==
  ASSUME Inv, \A t \in Term : was[t] \subseteq was'[t],
         UNCHANGED <<fewShot, learned, payload, queue, run>>
  PROVE  /\ LearnedWereActivated' /\ SourcesReviewed' /\ QuotedWereReviewed'
         /\ \A d \in Caller : GoodRun(d)'
<1> USE DEF Inv
<1>1. LearnedWereActivated'
  BY DEF LearnedWereActivated, TypeOK
<1>2. \A e \in Mention : Known(e) => Known(e)'
  BY DEF Known, Mention
<1>3. SourcesReviewed'
  <2>1. ToSet(fewShot) \subseteq Mention /\ payload \subseteq Mention
    BY DEF TypeOK, ToSet
  <2> QED
    BY <1>2, <2>1 DEF SourcesReviewed, Mention
<1>4. ASSUME NEW d \in Caller PROVE GoodRun(d)'
  <2>1. run[d] \in Run
    BY DEF TypeOK
  <2>2. /\ run[d].found \subseteq Mention /\ run[d].owed \subseteq Mention /\ run[d].context \in Context
    BY <2>1 DEF Run
  <2>3. /\ run[d].context.entities \subseteq Mention /\ run[d].context.terms \subseteq Term
        /\ ToSet(run[d].context.examples) \subseteq Mention
    BY <2>2 DEF Context, ToSet
  <2> QED
    BY <1>2, <2>2, <2>3 DEF GoodRun, Mention
<1>5. QuotedWereReviewed'
  <2>1. \A i \in DOMAIN queue : queue[i] \in Hypothesis
    BY DEF TypeOK
  <2>2. \A h \in Hypothesis : h.nearest \in Term \cup {NoTerm} /\ h.examples \subseteq Term /\ h.entities \subseteq Term
    BY DEF Hypothesis
  <2> QED
    BY <2>1, <2>2 DEF QuotedWereReviewed
<1> QED
  BY <1>1, <1>3, <1>4, <1>5

LEMMA WriteInv == ASSUME Inv, NEW c \in Caller, Write(c) PROVE Inv'
<1> USE DEF Inv
<1> DEFINE step == Head(agenda[c])
           t == step.term
           new == IF step.kind = "list" THEN <<Do("example", t, step.trace)>> \o Tail(agenda[c])
                  ELSE Tail(agenda[c])
<1>0. /\ read[c] # Unread
      /\ records' = [records EXCEPT ![t] = Merged(c)]
      /\ was' = [was EXCEPT ![t] = @ \cup Merged(c).marks]
      /\ replaced' = IF read[c] = records[t] THEN replaced ELSE replaced \cup {t}
      /\ agenda' = [agenda EXCEPT ![c] = new]
      /\ checked' = [checked EXCEPT ![c] = Unread]
      /\ read' = [read EXCEPT ![c] = Unread]
      /\ UNCHANGED <<fewShot, negatives, learned, payload, queue, verdict, calls, run>>
  BY DEF Write, feedback, engine, review
<1>1. /\ agenda \in [Caller -> Seq(Step)] /\ read \in [Caller -> Record \cup {NoRecord, Unread}]
      /\ checked \in [Caller -> Record \cup {Unread}]
      /\ records \in [Term -> Record \cup {NoRecord}] /\ was \in [Term -> SUBSET Mark]
      /\ agenda[c] # <<>> /\ step.kind \in Stores
  BY <1>0 DEF TypeOK
<1>2. /\ t \in Term /\ Merged(c) \in Record /\ Marked(Merged(c))
      /\ read[c].evidence \subseteq Merged(c).evidence
      /\ step.kind = "list" => "reviewer" \in Merged(c).marks /\ step.trace \in Merged(c).evidence
  BY <1>0, MergedFacts
<1>3. /\ step \in Step /\ step \in ToSet(agenda[c]) /\ Tail(agenda[c]) \in Seq(Step)
      /\ ToSet(Tail(agenda[c])) \subseteq ToSet(agenda[c])
      /\ \A x \in ToSet(agenda[c]) : x = step \/ x \in ToSet(Tail(agenda[c]))
      /\ (step.kind = "list" => step.trace \in Trace)
  <2>1. /\ step \in Step /\ step \in ToSet(agenda[c]) /\ Tail(agenda[c]) \in Seq(Step)
        /\ ToSet(Tail(agenda[c])) \subseteq ToSet(agenda[c])
        /\ \A x \in ToSet(agenda[c]) : x = step \/ x \in ToSet(Tail(agenda[c]))
    BY <1>1, TailFacts
  <2> QED
    BY <2>1 DEF GoodAgenda, GoodStep
<1> PICK example : example = Do("example", t, step.trace)
  OBVIOUS
<1>4. step.kind = "list" =>
        /\ example \in Step /\ example.kind = "example" /\ example.term = t /\ example.trace = step.trace
  <2>1. "example" \in Stores \cup Feeds
    BY DEF Feeds
  <2> HIDE DEF step
  <2> QED
    BY <1>2, <1>3, <2>1, DoFacts
<1>5. /\ new \in Seq(Step)
      /\ ToSet(new) = ToSet(Tail(agenda[c])) \cup (IF step.kind = "list" THEN {example} ELSE {})
  <2>1. CASE step.kind = "list"
    <3>1. new = <<example>> \o Tail(agenda[c]) /\ example \in Step
      BY <1>4, <2>1
    <3>2. /\ <<example>> \o Tail(agenda[c]) \in Seq(Step)
          /\ ToSet(<<example>> \o Tail(agenda[c])) = ToSet(Tail(agenda[c])) \cup {example}
      <4> DEFINE rest == Tail(agenda[c])
      <4>1. rest \in Seq(Step)
        BY <1>3
      <4> HIDE DEF rest, step
      <4>2. <<example>> \o rest \in Seq(Step) /\ ToSet(<<example>> \o rest) = ToSet(rest) \cup {example}
        BY <3>1, <4>1, ConsFacts
      <4> QED
        BY <4>2 DEF rest
    <3> HIDE DEF new, step
    <3> QED
      BY <2>1, <3>1, <3>2
  <2>2. CASE step.kind # "list"
    BY <1>3, <2>2
  <2> QED
    BY <2>1, <2>2
<1> HIDE DEF new
<1>6. /\ agenda'[c] = new /\ checked'[c] = Unread /\ read'[c] = Unread
      /\ \A d \in Caller \ {c} : agenda'[d] = agenda[d] /\ checked'[d] = checked[d] /\ read'[d] = read[d]
  BY <1>0, <1>1
<1>7. /\ records'[t] = Merged(c) /\ \A u \in Term \ {t} : records'[u] = records[u]
      /\ was'[t] = was[t] \cup Merged(c).marks /\ \A u \in Term \ {t} : was'[u] = was[u]
      /\ \A u \in Term : was[u] \subseteq was'[u]
  BY <1>0, <1>1, <1>2
<1>8. TypeOK'
  <2>1. /\ records' \in [Term -> Record \cup {NoRecord}] /\ agenda' \in [Caller -> Seq(Step)]
        /\ checked' \in [Caller -> Record \cup {Unread}]
        /\ read' \in [Caller -> Record \cup {NoRecord, Unread}]
    BY <1>0, <1>1, <1>2, <1>5
  <2>2. was' \in [Term -> SUBSET Mark]
    <3>1. Merged(c).marks \subseteq Mark
      BY <1>2, RecordFacts
    <3> QED
      BY <1>0, <1>1, <1>2, <3>1
  <2>3. replaced' \subseteq Term
    BY <1>0, <1>2 DEF TypeOK
  <2>4. \A d \in Caller : read'[d] # Unread => agenda'[d] # <<>> /\ Head(agenda'[d]).kind \in Stores
    BY <1>6 DEF TypeOK
  <2> QED
    BY <1>0, <2>1, <2>2, <2>3, <2>4 DEF TypeOK
<1>9. RecordsMarked'
  BY <1>2, <1>7 DEF RecordsMarked, Marked
<1>10. ASSUME NEW d \in Caller PROVE GoodAgenda(d)'
  <2>1. \A x \in Step : GoodStep(x) => GoodStep(x)'
    BY <1>7 DEF GoodStep, Stores
  <2>2. ToSet(agenda[d]) \subseteq Step /\ GoodAgenda(d)
    BY <1>1 DEF ToSet
  <2>3. CASE d # c
    BY <1>6, <2>1, <2>2, <2>3 DEF GoodAgenda
  <2>4. CASE d = c
    <3>1. step.kind = "list" => GoodStep(example)'
      BY <1>2, <1>3, <1>4, <1>7 DEF GoodStep
    <3>2. \A x \in ToSet(new) : GoodStep(x)'
      BY <1>3, <1>5, <2>1, <2>2, <2>4, <3>1 DEF GoodAgenda
    <3>3. \/ \A x \in ToSet(new) : x.kind \in Feeds \cup {"list"}
          \/ \A x \in ToSet(new) : x.kind \in Checked \cup {"nominate"}
      <4>1. "list" \notin Checked \cup {"nominate"} /\ "example" \in Feeds
        BY DEF Checked, Feeds
      <4> QED
        BY <1>3, <1>4, <1>5, <2>2, <2>4, <4>1 DEF GoodAgenda
    <3> QED
      BY <1>6, <2>4, <3>2, <3>3 DEF GoodAgenda
  <2> QED
    BY <2>3, <2>4
<1>11. ASSUME NEW d \in Caller PROVE GoodStore(d)'
  <2>1. CASE d = c
    BY <1>6, <2>1 DEF GoodStore
  <2>2. CASE d # c
    <3>1. agenda'[d] = agenda[d] /\ checked'[d] = checked[d] /\ read'[d] = read[d]
      BY <1>6, <2>2
    <3>2. read[d] # Unread => Head(agenda[d]).term \in Term
      BY MergedFacts
    <3> QED
      BY <1>7, <3>1, <3>2 DEF GoodStore, Marked
  <2> QED
    BY <2>1, <2>2
<1>12. /\ LearnedWereActivated' /\ SourcesReviewed' /\ QuotedWereReviewed'
       /\ \A d \in Caller : GoodRun(d)'
  BY <1>0, <1>7, MarksGrow
<1>13. DecisionsTaken'
  <2>1. ASSUME NEW kind \in Feeds, NEW u, NEW r, Owes(kind, u, r) PROVE Owes(kind, u, r)'
    <3>1. Do(kind, u, r).kind = kind
      BY DEF Do
    <3>2. Do(kind, u, r) # step
      BY <1>1, <3>1 DEF Stores, Checked, Feeds
    <3>3. PICK d \in Caller : Do(kind, u, r) \in ToSet(agenda[d])
      BY <2>1 DEF Owes
    <3>4. Do(kind, u, r) \in ToSet(agenda'[d])
      BY <1>3, <1>5, <1>6, <3>2, <3>3
    <3> QED
      BY <3>4 DEF Owes, Do
  <2>2. ASSUME NEW u \in Term, NEW r, Owes("list", u, r)
        PROVE  Owes("list", u, r)' \/ (r \in records'[u].evidence /\ Owes("example", u, r)')
    <3>1. PICK d \in Caller : Do("list", u, r) \in ToSet(agenda[d])
      BY <2>2 DEF Owes
    <3>2. CASE d = c /\ Do("list", u, r) = step
      <4>1. step.kind = "list" /\ step.term = u /\ step.trace = r
        BY <3>2 DEF Do
      <4>2. Do("example", u, r) \in ToSet(agenda'[c])
        BY <1>5, <1>6, <4>1
      <4>3. r \in records'[u].evidence
        BY <1>2, <1>7, <4>1
      <4> QED
        BY <4>2, <4>3 DEF Owes, Do
    <3>3. CASE ~(d = c /\ Do("list", u, r) = step)
      <4>1. Do("list", u, r) \in ToSet(agenda'[d])
        BY <1>3, <1>5, <1>6, <3>1, <3>3
      <4> QED
        BY <4>1 DEF Owes, Do
    <3> QED
      BY <3>2, <3>3
  <2>3. ASSUME NEW u \in Term, NEW r, r \in records[u].evidence \/ u \in replaced
        PROVE  r \in records'[u].evidence \/ u \in replaced'
    BY <1>0, <1>2, <1>7, <2>3
  <2> SUFFICES ASSUME NEW h \in DOMAIN queue, NEW r, r = queue[h].trace
        PROVE /\ verdict[h].decision = "MISREPORT" => r \in ToSet(negatives) \/ Owes("sample", NoTerm, r)'
              /\ verdict[h].decision = "APPROVED" =>
                   \A u \in ToSet(verdict[h].terms) :
                     \/ Owes("list", u, r)'
                     \/ /\ r \in records'[u].evidence \/ u \in replaced'
                        /\ [term |-> u, trace |-> r] \in ToSet(fewShot) \/ Owes("example", u, r)'
    BY <1>0 DEF DecisionsTaken
  <2>4. verdict[h].decision = "MISREPORT" => r \in ToSet(negatives) \/ Owes("sample", NoTerm, r)'
    BY <2>1 DEF DecisionsTaken, Feeds
  <2>5. ASSUME verdict[h].decision = "APPROVED", NEW u \in ToSet(verdict[h].terms)
        PROVE \/ Owes("list", u, r)'
              \/ /\ r \in records'[u].evidence \/ u \in replaced'
                 /\ [term |-> u, trace |-> r] \in ToSet(fewShot) \/ Owes("example", u, r)'
    <3>1. u \in Term
      BY <2>5, VerdictTypes
    <3>2. CASE Owes("list", u, r)
      <4>1. (r \in records'[u].evidence /\ Owes("example", u, r)') \/ Owes("list", u, r)'
        BY <2>2, <3>1, <3>2
      <4> QED
        BY <4>1
    <3>3. CASE /\ r \in records[u].evidence \/ u \in replaced
               /\ [term |-> u, trace |-> r] \in ToSet(fewShot) \/ Owes("example", u, r)
      <4>1. r \in records'[u].evidence \/ u \in replaced'
        BY <2>3, <3>1, <3>3
      <4>2. Owes("example", u, r) => Owes("example", u, r)'
        BY <2>1 DEF Feeds
      <4> QED
        BY <3>3, <4>1, <4>2
    <3> QED
      BY <2>5, <3>2, <3>3 DEF DecisionsTaken
  <2> QED
    BY <2>4, <2>5
<1> QED
  BY <1>8, <1>9, <1>10, <1>11, <1>12, <1>13

LEMMA FeedInv == ASSUME Inv, NEW c \in Caller, Feed(c) PROVE Inv'
<1> USE DEF Inv
<1> DEFINE step == Head(agenda[c])
<1>0. /\ UNCHANGED <<records, was, replaced, learned, payload, queue, verdict, calls, checked, read, run>>
      /\ agenda[c] # <<>> /\ step.kind \in Feeds
      /\ agenda' = [agenda EXCEPT ![c] = Tail(agenda[c])]
      /\ IF step.kind = "sample"
         THEN negatives' = Append(negatives, step.trace) /\ fewShot' = fewShot
         ELSE fewShot' = Append(fewShot, [term |-> step.term, trace |-> step.trace]) /\ negatives' = negatives
  BY DEF Feed, lifecycle, engine, review
<1>1. agenda \in [Caller -> Seq(Step)] /\ fewShot \in Seq(Mention) /\ negatives \in Seq(Trace)
  BY DEF TypeOK
<1>2. /\ step \in ToSet(agenda[c]) /\ Tail(agenda[c]) \in Seq(Step)
      /\ ToSet(Tail(agenda[c])) \subseteq ToSet(agenda[c])
      /\ \A x \in ToSet(agenda[c]) : x = step \/ x \in ToSet(Tail(agenda[c]))
  BY <1>0, <1>1, TailFacts
<1>3. /\ step.trace \in Trace
      /\ step.kind # "sample" => step.kind = "example" /\ step.term \in Term /\ "reviewer" \in was[step.term]
  <2>1. GoodStep(step)
    BY <1>2 DEF GoodAgenda
  <2> QED
    BY <1>0, <2>1 DEF GoodStep, Feeds
<1>4. checked[c] = Unread /\ read[c] = Unread
  BY <1>0, HoldsNothing
<1>5. agenda'[c] = Tail(agenda[c]) /\ \A d \in Caller \ {c} : agenda'[d] = agenda[d]
  BY <1>0, <1>1
<1> DEFINE e == [term |-> step.term, trace |-> step.trace]
<1>6. /\ negatives' \in Seq(Trace) /\ ToSet(negatives) \subseteq ToSet(negatives')
      /\ fewShot' \in Seq(Mention) /\ ToSet(fewShot) \subseteq ToSet(fewShot')
      /\ step.kind = "sample" => step.trace \in ToSet(negatives')
      /\ step.kind = "example" => e \in ToSet(fewShot')
      /\ \A x \in ToSet(fewShot') : x \in ToSet(fewShot) \/ (step.kind = "example" /\ x = e)
  <2>1. CASE step.kind = "sample"
    <3>1. negatives' = Append(negatives, step.trace) /\ fewShot' = fewShot
      BY <1>0, <2>1
    <3>2. negatives' \in Seq(Trace) /\ ToSet(negatives') = ToSet(negatives) \cup {step.trace}
      BY <1>1, <1>3, <3>1, AppendFacts
    <3> QED
      BY <1>1, <2>1, <3>1, <3>2
  <2>2. CASE step.kind # "sample"
    <3>1. e \in Mention
      BY <1>3, <2>2 DEF Mention
    <3> HIDE DEF e
    <3>2. fewShot' = Append(fewShot, e) /\ negatives' = negatives
      BY <1>0, <2>2 DEF e
    <3> QED
      BY <1>1, <1>3, <2>2, <3>1, <3>2, AppendFacts
  <2> QED
    BY <2>1, <2>2
<1>7. TypeOK'
  <2>1. \A d \in Caller : read'[d] # Unread => agenda'[d] # <<>> /\ Head(agenda'[d]).kind \in Stores
    BY <1>0, <1>4, <1>5 DEF TypeOK
  <2>2. agenda' \in [Caller -> Seq(Step)]
    BY <1>0, <1>1, <1>2
  <2> QED
    BY <1>0, <1>6, <2>1, <2>2 DEF TypeOK
<1>8. RecordsMarked' /\ LearnedWereActivated' /\ QuotedWereReviewed'
  BY <1>0 DEF RecordsMarked, LearnedWereActivated, QuotedWereReviewed
<1>9. \A d \in Caller : GoodRun(d)'
  BY <1>0 DEF GoodRun, Known
<1>10. SourcesReviewed'
  BY <1>0, <1>3, <1>6 DEF SourcesReviewed, Known
<1>11. ASSUME NEW d \in Caller PROVE GoodAgenda(d)' /\ GoodStore(d)'
  <2>1. CASE d = c
    BY <1>0, <1>2, <1>4, <1>5, <2>1 DEF GoodAgenda, GoodStep, GoodStore
  <2>2. CASE d # c
    BY <1>0, <1>5, <2>2 DEF GoodAgenda, GoodStep, GoodStore
  <2> QED
    BY <2>1, <2>2
<1>12. DecisionsTaken'
  <2>1. ASSUME NEW kind, NEW t, NEW r, Owes(kind, t, r)
        PROVE  Owes(kind, t, r)' \/ step = Do(kind, t, r)
    <3>1. PICK d \in Caller : Do(kind, t, r) \in ToSet(agenda[d])
      BY <2>1 DEF Owes
    <3>2. step = Do(kind, t, r) \/ Do(kind, t, r) \in ToSet(agenda'[d])
      BY <1>2, <1>5, <3>1
    <3> QED
      BY <3>2 DEF Owes, Do
  <2>2. \A kind, t, r : step = Do(kind, t, r) => step.kind = kind /\ step.term = t /\ step.trace = r
    BY DEF Do
  <2>3. ASSUME NEW r, r \in ToSet(negatives) \/ Owes("sample", NoTerm, r)
        PROVE  r \in ToSet(negatives') \/ Owes("sample", NoTerm, r)'
    BY <1>6, <2>1, <2>2, <2>3
  <2>4. ASSUME NEW t, NEW r, [term |-> t, trace |-> r] \in ToSet(fewShot) \/ Owes("example", t, r)
        PROVE  [term |-> t, trace |-> r] \in ToSet(fewShot') \/ Owes("example", t, r)'
    BY <1>6, <2>1, <2>2, <2>4
  <2>5. ASSUME NEW t, NEW r, Owes("list", t, r) PROVE Owes("list", t, r)'
    BY <1>0, <2>1, <2>2, <2>5 DEF Feeds
  <2> QED
    BY <1>0, <2>3, <2>4, <2>5 DEF DecisionsTaken
<1> QED
  BY <1>7, <1>8, <1>9, <1>10, <1>11, <1>12
-----------------------------------------------------------------------------
(* The engine and the exploration *)

\* The entries of a thread's run are known and reviewed, whatever is unchanged.
LEMMA RunParts ==
  ASSUME TypeOK, NEW c \in Caller
  PROVE  /\ run[c] \in Run /\ run[c].records \in Seq(Trace) /\ run[c].left \in Seq(Trace)
         /\ run[c].found \subseteq Mention /\ run[c].owed \subseteq Mention /\ run[c].context \in Context
<1>1. run[c] \in Run
  BY DEF TypeOK
<1> QED
  BY <1>1 DEF Run

\* Steps that only move a thread's run on.
LEMMA RunInv ==
  ASSUME Inv, NEW c \in Caller, NEW x \in Run, run' = [run EXCEPT ![c] = x],
         UNCHANGED <<records, was, replaced, fewShot, negatives, learned, queue, verdict, calls, agenda, checked, read>>,
         payload' \in {payload, run[c].found},
         \A e \in x.found \cup x.owed \cup x.context.entities : Known(e),
         \A t \in x.context.terms : "reviewer" \in was[t],
         \A e \in ToSet(x.context.examples) : "reviewer" \in was[e.term]
  PROVE  Inv'
<1> USE DEF Inv
<1>1. run' \in [Caller -> Run] /\ \A d \in Caller : GoodRun(d)'
  BY NextRun
<1>2. payload' \subseteq Mention /\ \A e \in payload' : Known(e)
  BY RunParts DEF TypeOK, SourcesReviewed, GoodRun
<1>3. TypeOK'
  BY <1>1, <1>2 DEF TypeOK
<1>4. SourcesReviewed'
  BY <1>2 DEF SourcesReviewed, Known
<1>5. RecordsMarked' /\ LearnedWereActivated' /\ QuotedWereReviewed'
  BY DEF RecordsMarked, LearnedWereActivated, QuotedWereReviewed
<1>6. \A d \in Caller : GoodAgenda(d)' /\ GoodStore(d)'
  BY DEF GoodAgenda, GoodStep, GoodStore
<1>7. DecisionsTaken'
  BY StillTaken
<1> QED
  BY <1>1, <1>3, <1>4, <1>5, <1>6, <1>7

\* The terms in use have been activated.
LEMMA ActiveWereActivated ==
  ASSUME Inv
  PROVE  RuntimeTerms \subseteq Term /\ \A t \in RuntimeTerms : {"reviewer", "activated"} \subseteq was[t]
BY DEF Inv, RecordsMarked, Marked, RuntimeTerms, At

LEMMA RunEngineInv == ASSUME Inv, NEW c \in Caller, RunEngine(c) PROVE Inv'
<1> USE DEF Inv
<1>0. /\ UNCHANGED <<records, was, replaced, fewShot, negatives, payload, queue, verdict, agenda, checked, read>>
      /\ calls' = calls + 1
      /\ learned' = IF RuntimeTerms = {} THEN learned ELSE RuntimeTerms
  BY DEF RunEngine, lifecycle, feedback, review, storing
<1>1. PICK batch \in Batches :
        run' = [run EXCEPT ![c] = [NoRun EXCEPT !.phase = "ANALYSE", !.records = batch, !.left = batch]]
  BY DEF RunEngine
<1> DEFINE x == [NoRun EXCEPT !.phase = "ANALYSE", !.records = batch, !.left = batch]
<1>2. x \in Run /\ x.found = {} /\ x.owed = {} /\ x.context = NoContext
  <2>1. batch \in Seq(Trace)
    OBVIOUS
  <2> QED
    BY <2>1, RunFacts DEF NoRun, Run
<1> HIDE DEF x
<1>3. run' = [run EXCEPT ![c] = x]
  BY <1>1 DEF x
<1>4. run' \in [Caller -> Run] /\ \A d \in Caller : GoodRun(d)'
  BY <1>0, <1>2, <1>3, NextRun, RunFacts, EmptyFacts
<1>5. learned' \subseteq Term /\ LearnedWereActivated'
  BY <1>0, ActiveWereActivated DEF LearnedWereActivated, TypeOK
<1>6. TypeOK'
  BY <1>0, <1>4, <1>5 DEF TypeOK
<1>7. RecordsMarked' /\ SourcesReviewed' /\ QuotedWereReviewed'
  BY <1>0 DEF RecordsMarked, SourcesReviewed, Known, QuotedWereReviewed
<1>8. \A d \in Caller : GoodAgenda(d)' /\ GoodStore(d)'
  BY <1>0 DEF GoodAgenda, GoodStep, GoodStore
<1>9. DecisionsTaken'
  BY <1>0, StillTaken
<1> QED
  BY <1>4, <1>5, <1>6, <1>7, <1>8, <1>9

LEMMA ExtractInv == ASSUME Inv, NEW c \in Caller, Extract(c) PROVE Inv'
<1> USE DEF Inv
<1> DEFINE r == Head(run[c].left)
           new == {[term |-> t, trace |-> r] : t \in TermsIn[r] \cap (Base \cup learned)}
           x == [run[c] EXCEPT !.left = Tail(@), !.found = @ \cup new, !.owed = @ \cup new]
<1>0. /\ UNCHANGED <<records, was, replaced, fewShot, negatives, learned, payload, queue, verdict, calls, agenda, checked, read>>
      /\ run[c].left # <<>>
      /\ run' = [run EXCEPT ![c].left = Tail(@), ![c].found = @ \cup new, ![c].owed = @ \cup new]
  BY DEF Extract, lifecycle, feedback, engine, review, storing
<1>1. run \in [Caller -> Run]
  BY DEF TypeOK
<1>2. run' = [run EXCEPT ![c] = x]
  BY <1>0, <1>1
<1>3. r \in Trace /\ Tail(run[c].left) \in Seq(Trace)
  BY <1>0, RunParts, TailFacts
<1>4. new \subseteq Mention /\ \A e \in new : Known(e)
  BY <1>3 DEF Mention, Known, LearnedWereActivated
<1> HIDE DEF new, r
<1>5. /\ x \in Run /\ x.found = run[c].found \cup new /\ x.owed = run[c].owed \cup new
      /\ x.context = run[c].context
  BY <1>3, <1>4, RunParts DEF Run
<1> HIDE DEF x
<1>6. GoodRun(c)
  OBVIOUS
<1> QED
  BY <1>0, <1>2, <1>4, <1>5, <1>6, RunInv DEF GoodRun

LEMMA FinishInv == ASSUME Inv, NEW c \in Caller, Finish(c) PROVE Inv'
<1>0. /\ UNCHANGED <<records, was, replaced, fewShot, negatives, learned, queue, verdict, calls, agenda, checked, read>>
      /\ payload' = run[c].found
  BY DEF Finish, lifecycle, feedback, review, storing
<1>1. PICK x \in {NoRun, [NoRun EXCEPT !.phase = "EXPLORE", !.records = run[c].records]} :
         run' = [run EXCEPT ![c] = x]
  BY DEF Finish
<1>2. x \in Run /\ x.found = {} /\ x.owed = {} /\ x.context = NoContext
  BY <1>1, RunFacts, RunParts DEF NoRun, Run, Inv
<1> QED
  BY <1>0, <1>1, <1>2, RunFacts, EmptyFacts, RunInv

LEMMA ReadContextInv == ASSUME Inv, NEW c \in Caller, ReadContext(c) PROVE Inv'
<1> USE DEF Inv
<1>0. UNCHANGED <<records, was, replaced, fewShot, negatives, learned, payload, queue, verdict, calls, agenda, checked, read>>
  BY DEF ReadContext, lifecycle, feedback, engine, review, storing
<1>1. PICK examples \in {fewShot, <<>>} :
        run' = [run EXCEPT ![c].phase = "QUOTE",
                  ![c].context = [terms |-> PromptTerms, examples |-> examples, entities |-> payload]]
  BY DEF ReadContext
<1> DEFINE context == [terms |-> PromptTerms, examples |-> examples, entities |-> payload]
           x == [run[c] EXCEPT !.phase = "QUOTE", !.context = context]
<1>2. PromptTerms \subseteq Term /\ \A t \in PromptTerms : "reviewer" \in was[t]
  BY DEF PromptTerms, At, RecordsMarked, Marked
<1>3. examples \in Seq(Mention) /\ \A e \in ToSet(examples) : "reviewer" \in was[e.term]
  <2>1. CASE examples = fewShot
    BY <2>1 DEF TypeOK, SourcesReviewed
  <2>2. CASE examples = <<>>
    BY <2>2, EmptyFacts
  <2> QED
    BY <2>1, <2>2
<1>4. context \in Context
  BY <1>2, <1>3 DEF Context, TypeOK
<1>5. run' = [run EXCEPT ![c] = x]
  BY <1>1 DEF TypeOK
<1>6. x \in Run /\ x.found = run[c].found /\ x.owed = run[c].owed /\ x.context = context
  BY <1>4, RunParts DEF Run
<1>7. context.terms = PromptTerms /\ context.examples = examples /\ context.entities = payload
  OBVIOUS
<1> HIDE DEF x, context
<1>8. GoodRun(c)
  OBVIOUS
<1> QED
  BY <1>0, <1>2, <1>3, <1>5, <1>6, <1>7, <1>8, RunInv DEF GoodRun, SourcesReviewed

LEMMA NominateInv == ASSUME Inv, NEW c \in Caller, Nominate(c) PROVE Inv'
<1> USE DEF Inv
<1>0. /\ UNCHANGED <<records, was, replaced, fewShot, negatives, learned, payload, queue, verdict, calls, checked, read>>
      /\ agenda[c] = <<>>
  BY DEF Nominate, lifecycle, feedback, engine, review
<1>1. PICK e \in run[c].owed : /\ agenda' = [agenda EXCEPT ![c] = <<Do("nominate", e.term, e.trace)>>]
                               /\ run' = [run EXCEPT ![c].owed = @ \ {e}]
  BY DEF Nominate
<1>2. e.term \in Term /\ e.trace \in Trace
  BY RunParts DEF Mention
<1>3. PICK s \in Step : s = Do("nominate", e.term, e.trace) /\ s.kind = "nominate" /\ GoodStep(s)
  <2>1. "nominate" \in Stores
    BY DEF Stores
  <2>2. /\ Do("nominate", e.term, e.trace) \in Step
        /\ Do("nominate", e.term, e.trace).kind = "nominate"
        /\ Do("nominate", e.term, e.trace).term = e.term
        /\ Do("nominate", e.term, e.trace).trace = e.trace
    BY <1>2, <2>1, DoFacts
  <2> QED
    BY <1>2, <2>2 DEF GoodStep
<1>4. <<s>> \in Seq(Step) /\ ToSet(<<s>>) = {s}
  BY SingleFacts
<1>5. /\ agenda' \in [Caller -> Seq(Step)]
      /\ \A d \in Caller : GoodAgenda(d)' /\ GoodStore(d)'
      /\ \A d \in Caller : read'[d] # Unread => agenda'[d] # <<>> /\ Head(agenda'[d]).kind \in Stores
      /\ \A x : (\E d \in Caller : x \in ToSet(agenda[d])) => \E d \in Caller : x \in ToSet(agenda'[d])
  <2>1. /\ agenda' = [agenda EXCEPT ![c] = <<s>>]
        /\ \A x \in ToSet(<<s>>) : GoodStep(x) /\ x.kind \in Checked \cup {"nominate"}
    BY <1>1, <1>3, <1>4
  <2> QED
    BY <1>0, <1>4, <2>1, NewAgenda
<1> DEFINE x == [run[c] EXCEPT !.owed = @ \ {e}]
<1>6. x \in Run /\ x.found = run[c].found /\ x.owed \subseteq run[c].owed /\ x.context = run[c].context
  BY RunParts DEF Run
<1>7. run' = [run EXCEPT ![c] = x]
  BY <1>1 DEF TypeOK
<1> HIDE DEF x
<1>8. run' \in [Caller -> Run] /\ \A d \in Caller : GoodRun(d)'
  <2>1. GoodRun(c)
    OBVIOUS
  <2> QED
    BY <1>0, <1>6, <1>7, <2>1, NextRun DEF GoodRun
<1>9. TypeOK'
  BY <1>0, <1>5, <1>8 DEF TypeOK
<1>10. DecisionsTaken'
  BY <1>0, <1>5, StillTaken
<1>11. RecordsMarked' /\ LearnedWereActivated' /\ SourcesReviewed' /\ QuotedWereReviewed'
  BY <1>0 DEF RecordsMarked, LearnedWereActivated, SourcesReviewed, Known, QuotedWereReviewed
<1> QED
  BY <1>5, <1>8, <1>9, <1>10, <1>11

\* What a hypothesis quotes of a context is what the context holds.
LEMMA QuotesFacts ==
  ASSUME Inv, NEW c \in Caller, NEW r \in Trace, NEW h \in Quotes(r, run[c].context) \cup {Bare(r)}
  PROVE  /\ h \in Hypothesis
         /\ h.nearest # NoTerm =>
              IF h.builtin THEN h.nearest \in Fallback ELSE "reviewer" \in was[h.nearest]
         /\ \A t \in h.examples : "reviewer" \in was[t]
         /\ \A t \in h.entities : t \in TermsIn[h.trace] /\ (t \in Base \/ "activated" \in was[t])
<1> DEFINE context == run[c].context
<1>0. /\ context.terms \subseteq Term /\ context.examples \in Seq(Mention) /\ context.entities \subseteq Mention
      /\ GoodRun(c)
  BY RunParts DEF Inv, Context
<1>1. CASE h = Bare(r)
  BY <1>1 DEF Bare, Hypothesis
<1>2. CASE h \in Quotes(r, context)
  <2> HIDE DEF context
  <2>1. PICK t \in Searched(context.terms) \cup {NoTerm},
             said \in SUBSET {e.term : e \in {m \in context.entities : m.trace = r}} :
          h = [trace |-> r, nearest |-> t, builtin |-> context.terms = {},
               examples |-> {context.examples[i].term : i \in DOMAIN context.examples \cap {1, 2}}, entities |-> said]
    BY <1>2 DEF Quotes
  <2> DEFINE quoted == {context.examples[i].term : i \in DOMAIN context.examples \cap {1, 2}}
  <2>2. /\ h.trace = r /\ h.nearest = t /\ h.builtin = (context.terms = {}) /\ h.examples = quoted /\ h.entities = said
    BY <2>1
  <2>3. quoted \subseteq Term /\ \A u \in quoted : "reviewer" \in was[u]
    <3>1. \A i \in DOMAIN context.examples : context.examples[i] \in Mention /\ context.examples[i] \in ToSet(context.examples)
      BY <1>0 DEF ToSet
    <3> QED
      BY <1>0, <3>1 DEF GoodRun, Mention, context
  <2> HIDE DEF quoted
  <2>4. t \in Term \cup {NoTerm} /\ (t # NoTerm => IF context.terms = {} THEN t \in Fallback ELSE t \in context.terms)
    BY <1>0, <2>1 DEF Searched
  <2>5. said \subseteq Term /\ \A u \in said : u \in TermsIn[r] /\ (u \in Base \/ "activated" \in was[u])
    <3>1. \A u \in said : \E e \in context.entities : e.trace = r /\ u = e.term
      BY <2>1
    <3>2. \A e \in context.entities : e \in Mention /\ Known(e)
      BY <1>0 DEF GoodRun, context
    <3> QED
      BY <3>1, <3>2 DEF Known, Mention
  <2>6. h \in Hypothesis
    <3>1. (context.terms = {}) \in BOOLEAN
      OBVIOUS
    <3> QED
      BY <2>1, <2>3, <2>4, <2>5, <3>1 DEF Hypothesis, quoted
  <2>7. h.nearest # NoTerm => IF h.builtin THEN h.nearest \in Fallback ELSE "reviewer" \in was[h.nearest]
    <3>1. \A u \in context.terms : "reviewer" \in was[u]
      BY <1>0 DEF GoodRun, context
    <3> QED
      BY <2>2, <2>4, <3>1
  <2> QED
    BY <2>2, <2>3, <2>5, <2>6, <2>7
<1> QED
  BY <1>1, <1>2

\* A new hypothesis has no verdict, so nothing of it is to be taken.
LEMMA ExploreInv == ASSUME Inv, NEW c \in Caller, Explore(c) PROVE Inv'
<1> USE DEF Inv
<1>0. UNCHANGED <<records, was, replaced, fewShot, negatives, learned, payload, calls, agenda, checked, read>>
  BY DEF Explore, lifecycle, feedback, engine, storing
<1> DEFINE rest == [run[c] EXCEPT !.records = Tail(@)]
           r == Head(run[c].records)
<1>1. run \in [Caller -> Run]
  BY DEF TypeOK
<1>2. CASE run' = [run EXCEPT ![c] = NoRun] /\ UNCHANGED <<queue, verdict>>
  BY <1>0, <1>2, RunFacts, EmptyFacts, RunInv
<1>3. CASE /\ run[c].records # <<>> /\ run' = [run EXCEPT ![c] = rest]
           /\ \E h \in Quotes(r, run[c].context) \cup {Bare(r)} : Enqueue(h)
  <2>1. PICK h \in Quotes(r, run[c].context) \cup {Bare(r)} : Enqueue(h)
    BY <1>3
  <2>2. r \in Trace /\ Tail(run[c].records) \in Seq(Trace)
    BY <1>3, RunParts, TailFacts
  <2>3. /\ rest \in Run /\ rest.context = run[c].context
        /\ rest.found = run[c].found /\ rest.owed = run[c].owed
    BY <2>2, RunParts DEF Run
  <2> HIDE DEF rest
  <2>4. run' \in [Caller -> Run] /\ \A d \in Caller : GoodRun(d)'
    <3>1. GoodRun(c)
      OBVIOUS
    <3> QED
      BY <1>0, <1>3, <2>3, <3>1, NextRun DEF GoodRun
  <2>5. /\ h \in Hypothesis
        /\ h.nearest # NoTerm => IF h.builtin THEN h.nearest \in Fallback ELSE "reviewer" \in was[h.nearest]
        /\ \A t \in h.examples : "reviewer" \in was[t]
        /\ \A t \in h.entities : t \in TermsIn[h.trace] /\ (t \in Base \/ "activated" \in was[t])
    BY <2>1, <2>2, QuotesFacts
  <2>6. /\ queue' = Append(queue, h) /\ verdict' = Append(verdict, NoVerdict)
        /\ queue \in Seq(Hypothesis) /\ verdict \in Seq(Verdict \cup {NoVerdict})
        /\ Len(verdict) = Len(queue)
    BY <2>1 DEF Enqueue, TypeOK
  <2>7. /\ queue' \in Seq(Hypothesis) /\ verdict' \in Seq(Verdict \cup {NoVerdict})
        /\ Len(verdict') = Len(queue')
        /\ \A i \in DOMAIN queue' :
             \/ i \in DOMAIN queue /\ queue'[i] = queue[i] /\ verdict'[i] = verdict[i]
             \/ queue'[i] = h /\ verdict'[i] = NoVerdict
    BY <2>5, <2>6
  <2>8. TypeOK'
    BY <1>0, <2>4, <2>7 DEF TypeOK
  <2>9. QuotedWereReviewed'
    BY <1>0, <2>5, <2>7 DEF QuotedWereReviewed
  <2>10. DecisionsTaken'
    <3> SUFFICES ASSUME NEW i \in DOMAIN queue', NEW v, v = verdict'[i], NEW x, x = queue'[i].trace
          PROVE /\ v.decision = "MISREPORT" => x \in ToSet(negatives) \/ Owes("sample", NoTerm, x)
                /\ v.decision = "APPROVED" =>
                     \A t \in ToSet(v.terms) :
                       \/ Owes("list", t, x)
                       \/ /\ x \in records[t].evidence \/ t \in replaced
                          /\ [term |-> t, trace |-> x] \in ToSet(fewShot) \/ Owes("example", t, x)
      BY <1>0 DEF DecisionsTaken, Owes, Do
    <3>1. CASE i \in DOMAIN queue /\ queue'[i] = queue[i] /\ verdict'[i] = verdict[i]
      BY <3>1 DEF DecisionsTaken
    <3>2. CASE verdict'[i] = NoVerdict
      BY <3>2 DEF NoVerdict
    <3> QED
      BY <2>7, <3>1, <3>2
  <2>11. RecordsMarked' /\ LearnedWereActivated' /\ SourcesReviewed'
    BY <1>0 DEF RecordsMarked, LearnedWereActivated, SourcesReviewed, Known
  <2>12. \A d \in Caller : GoodAgenda(d)' /\ GoodStore(d)'
    BY <1>0 DEF GoodAgenda, GoodStep, GoodStore
  <2> QED
    BY <2>4, <2>8, <2>9, <2>10, <2>11, <2>12
<1>4. [run EXCEPT ![c].records = Tail(@)] = [run EXCEPT ![c] = rest]
  BY <1>1
<1> QED
  BY <1>2, <1>3, <1>4 DEF Explore, review

-----------------------------------------------------------------------------
(* Decisions *)

\* What a decision leaves to be stored.
LEMMA IngestedFacts ==
  ASSUME NEW told \in Verdict, NEW r \in Trace
  PROVE  /\ Ingested(told, r) \in Seq(Step)
         /\ \A x \in ToSet(Ingested(told, r)) : x.kind \in Feeds \cup {"list"} /\ GoodStep(x)
         /\ told.decision = "MISREPORT" => Do("sample", NoTerm, r) \in ToSet(Ingested(told, r))
         /\ told.decision = "APPROVED" =>
              \A t \in ToSet(told.terms) : Do("list", t, r) \in ToSet(Ingested(told, r))
<1>0. told.terms \in Seq(Term) /\ told.decision \in Decision
  BY DEF Verdict
<1>1. CASE told.decision = "MISREPORT"
  <2>1. Ingested(told, r) = <<Do("sample", NoTerm, r)>>
    BY <1>1 DEF Ingested
  <2>2. /\ Do("sample", NoTerm, r) \in Step /\ Do("sample", NoTerm, r).kind = "sample"
        /\ Do("sample", NoTerm, r).trace = r
    BY DoFacts DEF Feeds
  <2>3. GoodStep(Do("sample", NoTerm, r))
    BY <2>2 DEF GoodStep, Stores, Checked
  <2> QED
    BY <1>1, <2>1, <2>2, <2>3, SingleFacts DEF Feeds
<1>2. CASE told.decision = "APPROVED"
  <2>1. Ingested(told, r) = [i \in DOMAIN told.terms |-> Do("list", told.terms[i], r)]
    BY <1>2 DEF Ingested
  <2>2. ASSUME NEW i \in DOMAIN told.terms
        PROVE  /\ Do("list", told.terms[i], r) \in Step
               /\ Do("list", told.terms[i], r).kind = "list"
               /\ GoodStep(Do("list", told.terms[i], r))
    <3> PICK t \in Term : t = told.terms[i]
      BY <1>0
    <3>1. /\ Do("list", t, r) \in Step /\ Do("list", t, r).kind = "list"
          /\ Do("list", t, r).term = t /\ Do("list", t, r).trace = r
      BY DoFacts DEF Stores
    <3>2. GoodStep(Do("list", t, r))
      BY <3>1 DEF GoodStep, Feeds
    <3> QED
      BY <3>1, <3>2
  <2>3. DOMAIN told.terms = 1 .. Len(told.terms) /\ Len(told.terms) \in Nat
    BY <1>0
  <2>4. Ingested(told, r) \in Seq(Step)
    BY <2>1, <2>2, <2>3
  <2>5. /\ \A x \in ToSet(Ingested(told, r)) : \E i \in DOMAIN told.terms : x = Do("list", told.terms[i], r)
        /\ \A i \in DOMAIN told.terms : Do("list", told.terms[i], r) \in ToSet(Ingested(told, r))
    BY <2>1 DEF ToSet
  <2>6. \A t \in ToSet(told.terms) : \E i \in DOMAIN told.terms : t = told.terms[i]
    BY DEF ToSet
  <2> QED
    BY <1>2, <2>2, <2>4, <2>5, <2>6
<1>3. CASE told.decision \notin {"MISREPORT", "APPROVED"}
  BY <1>3, EmptyFacts DEF Ingested
<1> QED
  BY <1>1, <1>2, <1>3

\* The new verdict is owed from the moment the repository shows it; the others
\* lose nothing.
LEMMA VerdictInv ==
  ASSUME Inv, NEW c \in Caller, NEW h \in DOMAIN queue, NEW told \in Verdict,
         verdict' = [verdict EXCEPT ![h] = told], Call(c, Ingested(told, queue[h].trace)),
         UNCHANGED <<lifecycle, feedback, engine, queue>>
  PROVE  Inv'
<1> USE DEF Inv
<1> DEFINE s == Ingested(told, queue[h].trace)
<1>0. /\ UNCHANGED <<records, was, replaced, fewShot, negatives, learned, payload, queue, checked, read, run>>
      /\ agenda[c] = <<>> /\ agenda' = [agenda EXCEPT ![c] = s] /\ calls' = calls + 1
  BY DEF Call, Idle, lifecycle, feedback, engine
<1>1. /\ s \in Seq(Step)
      /\ \A x \in ToSet(s) : x.kind \in Feeds \cup {"list"} /\ GoodStep(x)
      /\ told.decision = "MISREPORT" => Do("sample", NoTerm, queue[h].trace) \in ToSet(s)
      /\ told.decision = "APPROVED" =>
           \A t \in ToSet(told.terms) : Do("list", t, queue[h].trace) \in ToSet(s)
  <2>1. queue[h].trace \in Trace
    BY VerdictTypes
  <2> QED
    BY <2>1, IngestedFacts
<1> HIDE DEF s
<1>2. /\ agenda' \in [Caller -> Seq(Step)]
      /\ \A d \in Caller : GoodAgenda(d)' /\ GoodStore(d)'
      /\ \A d \in Caller : read'[d] # Unread => agenda'[d] # <<>> /\ Head(agenda'[d]).kind \in Stores
      /\ \A x : (\E d \in Caller : x \in ToSet(agenda[d])) => \E d \in Caller : x \in ToSet(agenda'[d])
  BY <1>0, <1>1, NewAgenda
<1>3. /\ verdict \in Seq(Verdict \cup {NoVerdict}) /\ Len(verdict) = Len(queue)
      /\ queue \in Seq(Hypothesis) /\ h \in DOMAIN verdict
  BY DEF TypeOK
<1>4. /\ verdict' \in Seq(Verdict \cup {NoVerdict}) /\ Len(verdict') = Len(queue')
      /\ verdict'[h] = told /\ \A i \in DOMAIN queue \ {h} : verdict'[i] = verdict[i]
  BY <1>0, <1>3
<1>5. TypeOK'
  <2>1. /\ UNCHANGED <<records, was, replaced, fewShot, negatives, learned, payload, queue, checked, read, run>>
        /\ calls' \in Nat
    BY <1>0 DEF TypeOK
  <2>2. TypeOK
    OBVIOUS
  <2> HIDE DEF Inv
  <2> QED
    BY <1>2, <1>4, <2>1, <2>2 DEF TypeOK
<1>6. RecordsMarked' /\ LearnedWereActivated' /\ SourcesReviewed' /\ QuotedWereReviewed'
  BY <1>0 DEF RecordsMarked, LearnedWereActivated, SourcesReviewed, Known, QuotedWereReviewed
<1>7. \A d \in Caller : GoodRun(d)'
  BY <1>0 DEF GoodRun, Known
<1>8. DecisionsTaken'
  <2>1. agenda'[c] = s
    BY <1>0 DEF TypeOK
  <2>2. ASSUME NEW kind, NEW t, NEW r, Owes(kind, t, r) \/ Do(kind, t, r) \in ToSet(s) PROVE Owes(kind, t, r)'
    <3>1. \E d \in Caller : Do(kind, t, r) \in ToSet(agenda'[d])
      BY <1>2, <2>1, <2>2 DEF Owes
    <3> QED
      BY <3>1 DEF Owes, Do
  <2> SUFFICES ASSUME NEW i \in DOMAIN queue, NEW r, r = queue[i].trace, NEW v, v = verdict'[i]
        PROVE /\ v.decision = "MISREPORT" => r \in ToSet(negatives) \/ Owes("sample", NoTerm, r)'
              /\ v.decision = "APPROVED" =>
                   \A t \in ToSet(v.terms) :
                     \/ Owes("list", t, r)'
                     \/ /\ r \in records[t].evidence \/ t \in replaced
                        /\ [term |-> t, trace |-> r] \in ToSet(fewShot) \/ Owes("example", t, r)'
    BY <1>0 DEF DecisionsTaken
  <2>3. CASE i = h
    BY <1>1, <1>4, <2>2, <2>3
  <2>4. CASE i # h
    <3>1. v = verdict[i]
      BY <1>4, <2>4
    <3>2. /\ v.decision = "MISREPORT" => r \in ToSet(negatives) \/ Owes("sample", NoTerm, r)
          /\ v.decision = "APPROVED" =>
               \A t \in ToSet(v.terms) :
                 \/ Owes("list", t, r)
                 \/ /\ r \in records[t].evidence \/ t \in replaced
                    /\ [term |-> t, trace |-> r] \in ToSet(fewShot) \/ Owes("example", t, r)
      BY <3>1 DEF DecisionsTaken
    <3> QED
      BY <2>2, <3>2
  <2> QED
    BY <2>3, <2>4
<1> QED
  BY <1>2, <1>5, <1>6, <1>7, <1>8

LEMMA DecideInv == ASSUME Inv, NEW c \in Caller, Decide(c) PROVE Inv'
<1>0. UNCHANGED <<lifecycle, feedback, engine, queue>>
  BY DEF Decide
<1>1. CASE Call(c, <<>>) /\ verdict' = verdict
  BY <1>0, <1>1, EmptyFacts, CallInv DEF review
<1>2. ASSUME NEW h \in DOMAIN queue, NEW word \in Spelling, NEW terms \in WordLists, NEW told,
             told = [decision |-> Normalized(word), terms |-> terms], told.decision \in Decision,
             verdict' = [verdict EXCEPT ![h] = told], Call(c, Ingested(told, queue[h].trace))
      PROVE  Inv'
  <2>1. told \in Verdict
    BY <1>2 DEF Verdict
  <2> QED
    BY <1>0, <1>2, <2>1, VerdictInv
<1> QED
  BY <1>1, <1>2 DEF Decide, Payload

-----------------------------------------------------------------------------
(* The invariant of every step, and its theorems *)

LEMMA StutterInv == Inv /\ UNCHANGED vars => Inv'
<1> SUFFICES ASSUME Inv, UNCHANGED vars PROVE Inv'
  OBVIOUS
<1> USE DEF Inv
<1>0. UNCHANGED <<records, was, replaced, fewShot, negatives, learned, payload, queue, verdict, calls,
                  agenda, checked, read, run>>
  BY DEF vars, lifecycle, feedback, engine, review, storing
<1>1. TypeOK'
  BY <1>0 DEF TypeOK
<1>2. RecordsMarked' /\ LearnedWereActivated' /\ SourcesReviewed' /\ QuotedWereReviewed'
  BY <1>0 DEF RecordsMarked, Marked, LearnedWereActivated, SourcesReviewed, Known, QuotedWereReviewed
<1>3. \A d \in Caller : GoodRun(d)' /\ GoodAgenda(d)' /\ GoodStore(d)'
  BY <1>0 DEF GoodRun, Known, GoodAgenda, GoodStep, GoodStore
<1>4. DecisionsTaken'
  BY <1>0, StillTaken
<1> QED
  BY <1>1, <1>2, <1>3, <1>4

LEMMA NextInv == Inv /\ [Next]_vars => Inv'
<1> SUFFICES ASSUME Inv, [Next]_vars PROVE Inv'
  OBVIOUS
<1>1. CASE Next
  BY <1>1, EnterInv, DecideInv, CheckInv, ReadInv, WriteInv, FeedInv, RunEngineInv, ExtractInv, NominateInv,
     FinishInv, ReadContextInv, ExploreInv DEF Next
<1>2. CASE UNCHANGED vars
  BY <1>2, StutterInv
<1> QED
  BY <1>1, <1>2

LEMMA Invariance == Spec => []Inv
BY InitInv, NextInv, PTL DEF Spec

\* The types of the lifecycle, the queue and the threads' calls.
THEOREM TypeCorrect == Spec => []TypeOK
BY Invariance, PTL DEF Inv

\* The engine recognises only what a reviewer rolled out and somebody activated,
\* for any terms, batches, word lists and number of threads: each read and each
\* write of a record may have those of other threads in between.
THEOREM OnlyActivatedIsLearned == Spec => []LearnedWereActivated
BY Invariance, PTL DEF Inv

\* A queued hypothesis quotes as nearest term or example only what a reviewer has
\* handled, or one of the similarity tool's own words when nothing was rolled
\* out, and of its record only entities that are known.
THEOREM OnlyReviewedIsQuoted == Spec => []QuotedWereReviewed
BY Invariance, PTL DEF Inv

\* A decision is in the lifecycle or on its way there, but for evidence of a term
\* one of whose records was written over without having been read.
THEOREM EveryDecisionTaken == Spec => []DecisionsTaken
BY Invariance, PTL DEF Inv

-----------------------------------------------------------------------------
(* The order of the stages *)

\* A store that allows no downgrade does not go back, and does not activate.
LEMMA NoDowngrade ==
  ASSUME NEW r, r.stage \in Stage \cup {"NONE"},
         NEW s \in {"NEW_CANDIDATE", "REVIEWED", "GRAY_ROLLOUT"}
  PROVE  /\ Priority(FinalStage(r, s, FALSE)) >= Priority(r.stage)
         /\ FinalStage(r, s, FALSE) = "ACTIVE" => r.stage = "ACTIVE"
<1> DEFINE old == r.stage
<1>1. FinalStage(r, s, FALSE) = IF Priority(old) > Priority(s) THEN old ELSE s
  BY DEF FinalStage
<1>2. old \in {"NEW_CANDIDATE", "REVIEWED", "GRAY_ROLLOUT", "ACTIVE", "REJECTED", "NONE"}
  BY DEF Stage
<1> HIDE DEF old
<1>3. Priority(old) \in Nat /\ Priority(s) \in Nat
  <2>1. ASSUME NEW x \in {"NEW_CANDIDATE", "REVIEWED", "GRAY_ROLLOUT", "ACTIVE", "REJECTED", "NONE"}
        PROVE  Priority(x) \in Nat
    <3>1. CASE x \in {"NEW_CANDIDATE", "REVIEWED"}
      BY <3>1 DEF Priority
    <3>2. CASE x \in {"GRAY_ROLLOUT", "ACTIVE"}
      BY <3>2 DEF Priority
    <3>3. CASE x \in {"REJECTED", "NONE"}
      BY <3>3 DEF Priority
    <3> QED
      BY <3>1, <3>2, <3>3
  <2> QED
    BY <1>2, <2>1
<1> PICK f : f = FinalStage(r, s, FALSE)
  OBVIOUS
<1>5. f = IF Priority(old) > Priority(s) THEN old ELSE s
  BY <1>1
<1>4. /\ Priority(f) >= Priority(old)
      /\ f = "ACTIVE" => old = "ACTIVE"
  <2>1. CASE Priority(old) > Priority(s)
    <3>1. f = old
      BY <1>5, <2>1
    <3>2. Priority(old) >= Priority(old)
      BY <1>3
    <3> QED
      BY <3>1, <3>2, Zenon
  <2>2. CASE ~(Priority(old) > Priority(s))
    <3>1. f = s
      BY <1>5, <2>2
    <3>2. Priority(s) >= Priority(old)
      BY <1>3, <2>2
    <3> QED
      BY <3>1, <3>2
  <2> QED
    BY <2>1, <2>2
<1> QED
  BY <1>4 DEF old

\* A store of the record it read, decided on by the stage that record has, is in
\* order.
LEMMA WriteInOrder ==
  ASSUME Inv, NEW c \in Caller, Write(c), ~Stale(c), NEW t \in Term
  PROVE  InOrder(t)
<1> DEFINE step == Head(agenda[c])
           downgrade == step.kind \in {"reject", "gray", "activate"}
<1>0. /\ read[c] # Unread /\ records' = [records EXCEPT ![step.term] = Merged(c)]
      /\ records \in [Term -> Record \cup {NoRecord}] /\ agenda[c] # <<>> /\ step.kind \in Stores
      /\ GoodStore(c)
  BY DEF Inv, TypeOK, Write
<1>1. /\ read[c] = records[step.term]
      /\ step.kind \in {"gray", "activate"} => checked[c].stage = records[step.term].stage
  BY DEF Stale
<1>2. step.term \in Term /\ read[c].evidence \subseteq Merged(c).evidence
  BY <1>0, MergedFacts
<1>3. Merged(c).stage = FinalStage(read[c], Requested(step.kind), downgrade)
  BY DEF Merged
<1>4. CASE t = step.term
  <2>1. records'[t] = Merged(c)
    BY <1>0, <1>2, <1>4
  <2>0. records[t].evidence \subseteq records'[t].evidence
    BY <1>1, <1>2, <1>4, <2>1
  <2>2. records[t].stage \in Stage \cup {"NONE"}
    BY <1>0, RecordFacts
  <2>3. CASE step.kind \in {"gray", "activate"}
    <3>1. Admits(step.kind, records[t].stage)
      BY <1>0, <1>1, <1>4, <2>3 DEF GoodStore, Checked
    <3> QED
      <4>1. records'[t].stage = Requested(step.kind)
        BY <1>3, <2>1, <2>3 DEF FinalStage
      <4>2. \/ records'[t].stage = "GRAY_ROLLOUT" /\ records[t].stage = "REVIEWED"
            \/ records'[t].stage = "ACTIVE" /\ records[t].stage = "GRAY_ROLLOUT"
        BY <2>3, <3>1, <4>1 DEF Admits, Requested
      <4> QED
        BY <2>0, <4>2 DEF InOrder, Priority
  <2>4. CASE step.kind = "reject"
    BY <1>1, <1>2, <1>3, <1>4, <2>1, <2>4 DEF InOrder, FinalStage, Requested
  <2>5. CASE ~downgrade
    <3>1. Requested(step.kind) \in {"NEW_CANDIDATE", "REVIEWED", "GRAY_ROLLOUT"}
      BY <1>0, <2>5 DEF Requested, Stores, Checked
    <3> QED
      <4>1. records'[t].stage = FinalStage(records[t], Requested(step.kind), FALSE)
        <5>1. read[c] = records[t] /\ ~downgrade
          BY <1>1, <1>4, <2>5
        <5> HIDE DEF downgrade, step
        <5> QED
          BY <1>3, <2>1, <5>1 DEF FinalStage
      <4>2. /\ Priority(records'[t].stage) >= Priority(records[t].stage)
            /\ records'[t].stage = "ACTIVE" => records[t].stage = "ACTIVE"
        <5> HIDE DEF step
        <5> QED
          BY <2>2, <3>1, <4>1, NoDowngrade
      <4> QED
        BY <2>0, <4>2 DEF InOrder
  <2> QED
    BY <2>3, <2>4, <2>5
<1>5. CASE t # step.term
  <2>1. records'[t] = records[t]
    BY <1>0, <1>5
  <2> QED
    BY <2>1 DEF InOrder, Priority
<1> QED
  BY <1>4, <1>5

\* Only a store writes records.
LEMMA OnlyWrites ==
  ASSUME [Next]_vars, records' # records
  PROVE  \E c \in Caller : Write(c)
<1>1. PICK c \in Caller :
        \/ Review(c) \/ GrayRollout(c) \/ Activate(c) \/ Promote(c) \/ Decide(c)
        \/ Check(c) \/ Read(c) \/ Write(c) \/ Feed(c)
        \/ RunEngine(c) \/ Extract(c) \/ Nominate(c) \/ Finish(c)
        \/ ReadContext(c) \/ Explore(c)
  BY DEF Next, vars, lifecycle
<1>2. CASE Review(c) \/ GrayRollout(c) \/ Activate(c) \/ Promote(c) \/ Decide(c)
  BY <1>2 DEF Review, GrayRollout, Activate, Promote, Decide, lifecycle
<1>3. CASE Check(c) \/ Read(c) \/ Feed(c) \/ RunEngine(c) \/ Extract(c)
  BY <1>3 DEF Check, Read, Feed, RunEngine, Extract, lifecycle
<1>4. CASE Nominate(c) \/ Finish(c) \/ ReadContext(c) \/ Explore(c)
  BY <1>4 DEF Nominate, Finish, ReadContext, Explore, lifecycle
<1> QED
  BY <1>1, <1>2, <1>3, <1>4

LEMMA SameInOrder == ASSUME records' = records, NEW t \in Term PROVE InOrder(t)
BY DEF InOrder, Priority

\* Of any number of threads each store that is of the record the thread read keeps
\* the order of the stages and the evidence: only a store another thread's came
\* before may set a term back.
THEOREM StagesKeepOrder == Spec => StageDiscipline
<1> DEFINE Ordered == \A t \in Term :
             \/ InOrder(t)
             \/ \E c \in Caller : /\ read[c] # Unread /\ read'[c] = Unread
                                  /\ Head(agenda[c]).term = t /\ Stale(c)
<1>1. ASSUME Inv, [Next]_vars PROVE Ordered
  <2> SUFFICES ASSUME NEW t \in Term, ~InOrder(t)
               PROVE  \E c \in Caller : /\ read[c] # Unread /\ read'[c] = Unread
                                        /\ Head(agenda[c]).term = t /\ Stale(c)
    OBVIOUS
  <2>1. PICK c \in Caller : Write(c)
    BY <1>1, OnlyWrites, SameInOrder
  <2>2. Stale(c)
    BY <1>1, <2>1, WriteInOrder
  <2>3. read[c] # Unread /\ read'[c] = Unread
    BY <1>1, <2>1 DEF Write, Inv, TypeOK
  <2>4. Head(agenda[c]).term = t
    <3>1. CASE Head(agenda[c]).term # t
      <4>1. records'[t] = records[t]
        BY <1>1, <2>1, <3>1 DEF Write, Inv, TypeOK
      <4> QED
        BY <4>1 DEF InOrder, Priority
    <3> QED
      BY <3>1
  <2> QED
    BY <2>2, <2>3, <2>4
<1>2. Inv /\ [Next]_vars => [Ordered]_vars
  BY <1>1
<1> QED
  BY <1>2, Invariance, PTL DEF Spec, StageDiscipline

-----------------------------------------------------------------------------
(* One thread alone *)

\* What a thread holds of a record is still the record.
Fresh(c) ==
  /\ replaced = {}
  /\ read[c] # Unread => read[c] = records[Head(agenda[c]).term]
  /\ checked[c] # Unread => checked[c].stage = records[Head(agenda[c]).term].stage

LEMMA FreshInit == ASSUME NEW c \in Caller, Init PROVE Fresh(c)
BY DEF Init, Fresh

LEMMA FreshStep ==
  ASSUME NEW c \in Caller, Caller = {c}, Inv, Fresh(c), [Next]_vars
  PROVE  Fresh(c)'
<1> USE DEF Inv
<1>1. /\ agenda \in [Caller -> Seq(Step)] /\ checked \in [Caller -> Record \cup {Unread}]
      /\ read \in [Caller -> Record \cup {NoRecord, Unread}] /\ GoodStore(c)
  BY DEF TypeOK
<1>2. agenda[c] = <<>> \/ Head(agenda[c]).kind \in Feeds => checked[c] = Unread /\ read[c] = Unread
  BY <1>1, HoldsNothing
<1>3. CASE UNCHANGED <<records, replaced, checked, read>> /\ (agenda' = agenda \/ (checked[c] = Unread /\ read[c] = Unread))
  BY <1>3 DEF Fresh
<1>4. CASE Review(c) \/ GrayRollout(c) \/ Activate(c) \/ Promote(c) \/ Decide(c)
  <2>1. UNCHANGED <<records, replaced, checked, read>> /\ agenda[c] = <<>>
    BY <1>4 DEF Review, GrayRollout, Activate, Promote, Decide, Call, Idle, lifecycle
  <2> QED
    BY <1>2, <1>3, <2>1
<1>5. CASE Feed(c) \/ Nominate(c)
  <2>1. /\ UNCHANGED <<records, replaced, checked, read>>
        /\ agenda[c] = <<>> \/ Head(agenda[c]).kind \in Feeds
    BY <1>5 DEF Feed, Nominate, lifecycle
  <2> QED
    BY <1>2, <1>3, <2>1
<1>6. CASE RunEngine(c) \/ Extract(c) \/ Finish(c) \/ ReadContext(c) \/ Explore(c) \/ UNCHANGED vars
  <2>1. UNCHANGED <<lifecycle, storing>>
    BY <1>6 DEF RunEngine, Extract, Finish, ReadContext, Explore, vars
  <2>2. UNCHANGED <<records, replaced, checked, read>> /\ agenda' = agenda
    BY <2>1 DEF lifecycle, storing
  <2> QED
    BY <2>2 DEF Fresh
<1>7. CASE Check(c)
  <2>1. read[c] = Unread
    BY <1>1, <1>7 DEF Check, GoodStore
  <2> QED
    BY <1>1, <1>7, <2>1 DEF Check, Fresh, lifecycle
<1>8. CASE Read(c)
  BY <1>1, <1>8 DEF Read, Fresh, lifecycle
<1>9. CASE Write(c)
  BY <1>1, <1>9 DEF Write, Fresh
<1> QED
  BY <1>3, <1>4, <1>5, <1>6, <1>7, <1>8, <1>9 DEF Next

\* A thread that is alone with the lifecycle never stores over a record it has not
\* read, and keeps every term in order: whatever sequence of calls, a term goes
\* back only to be rejected, is activated only from gray roll-out, and keeps all
\* its evidence.
THEOREM OneThreadKeepsOrder ==
  ASSUME NEW c \in Caller, Caller = {c}
  PROVE  Spec => [](replaced = {}) /\ [][\A t \in Term : InOrder(t)]_vars
<1>1. ASSUME Inv, Fresh(c), [Next]_vars PROVE \A t \in Term : InOrder(t)
  <2> SUFFICES ASSUME NEW t \in Term PROVE InOrder(t)
    OBVIOUS
  <2>1. CASE records' = records
    BY <2>1, SameInOrder
  <2>2. CASE Write(c)
    <3>1. read[c] # Unread /\ (Head(agenda[c]).kind \in Checked => checked[c] # Unread)
      BY <1>1, <2>2 DEF Write, Inv, GoodStore
    <3>2. ~Stale(c)
      BY <1>1, <3>1 DEF Stale, Fresh, Checked
    <3> QED
      BY <1>1, <2>2, <3>2, WriteInOrder
  <2> QED
    BY <1>1, <2>1, <2>2, OnlyWrites
<1> DEFINE Ordered == \A t \in Term : InOrder(t)
<1>2. Inv /\ Fresh(c) /\ [Next]_vars => [Ordered]_vars
  BY <1>1
<1>3. Init => Inv /\ Fresh(c)
  BY InitInv, FreshInit
<1>4. Inv /\ Fresh(c) /\ [Next]_vars => (Inv /\ Fresh(c))'
  BY NextInv, FreshStep
<1>5. Fresh(c) => replaced = {}
  BY DEF Fresh
<1> QED
  BY <1>2, <1>3, <1>4, <1>5, PTL DEF Spec
=============================================================================
