----------------------------- MODULE ReviewLoop -----------------------------
(***************************************************************************)
(* The loop from an analysed record back to the analysis: the engine       *)
(* nominates the slang terms it recognises (src/src/enhancement/engine.py),*)
(* controlled exploration queues a hypothesis for each record              *)
(* (src/src/agent/exploration_agent.py, runtime_clue_services.py), people  *)
(* decide on the hypotheses (src/storage/review_repo.py,                   *)
(* ingest_review_decision of src/src/agent/investigation_runtime.py), and  *)
(* the slang lifecycle (src/src/enhancement/lifecycle.py) takes terms from *)
(* candidate to active, where the next run of the engine knows them.       *)
(*                                                                         *)
(* Only the review repository has a lock. The records of the lifecycle     *)
(* have none: a call reads a record, decides, and writes it whole, with    *)
(* the calls of other threads in between. So a read and a write of one     *)
(* record are steps of their own. Going through all records for those of   *)
(* some stages is one step with what is kept of them, and so is all that   *)
(* an exploration reads: what depends on them is stated term by term, of   *)
(* what the term has ever been, so that it does not matter when in between *)
(* each of them is read.                                                   *)
(***************************************************************************)
EXTENDS Naturals, Sequences, SequencesExt

CONSTANTS
  Term,      \* slang terms
  Base,      \* those every SlangDictionary starts with
  Fallback,  \* those the similarity tool searches when it is given none
  Trace,     \* records, by trace id
  TermsIn,   \* the terms the text of a record contains
  RedTerm,   \* terms that contain a word of the policy guard
  RedTrace,  \* records with such a word in what a hypothesis quotes of them
  Caller,    \* threads: investigations, decisions, operators
  Batches,   \* the record sequences the engine may be given, each record once
  WordLists, \* the terms a reviewer may ask to add to the word list
  MaxCalls   \* bound: calls made by all threads

NoTerm  == "no term"
NoTrace == "no trace"
Stage  == {"NEW_CANDIDATE", "REVIEWED", "GRAY_ROLLOUT", "ACTIVE", "REJECTED"}
Decision == {"APPROVED", "MISREPORT", "UNCERTAIN", "ESCALATE"}

ASSUME TermsAssumption ==
  /\ NoTerm \notin Term
  /\ Base \subseteq Term /\ Fallback \subseteq Term /\ RedTerm \subseteq Term
ASSUME TracesAssumption ==
  /\ NoTrace \notin Trace
  /\ RedTrace \subseteq Trace
  /\ TermsIn \in [Trace -> SUBSET Term]
  /\ Batches \subseteq Seq(Trace)
  /\ WordLists \subseteq Seq(Term)
ASSUME BoundsAssumption == MaxCalls \in Nat

VARIABLES
  records,   \* lifecycle: the record of each term
  fewShot,   \* few_shot_examples
  negatives, \* negative_samples, and as many whitelist_candidates
  learned,   \* terms the extractor's dictionary has beyond Base
  payload,   \* entities of the last run of the engine
  queue,     \* review repository: the hypotheses
  verdict,   \* their state of review
  calls,     \* calls made
  agenda,    \* what each thread's call has still to store
  checked,   \* the record on which the call under way decided
  read,      \* the record the store under way will merge with
  run,       \* the run of the engine and exploration each thread is in
  was,       \* history: the marks the records of a term have ever had
  replaced   \* history: terms with a record written over one nobody had read

lifecycle == <<records, was, replaced>>
feedback  == <<fewShot, negatives>>
engine    == <<learned, payload>>
review    == <<queue, verdict>>
storing   == <<agenda, checked, read>>
vars == <<lifecycle, feedback, engine, review, calls, storing, run>>

Mark   == {"reviewer", "activated"}
Record == [stage : Stage, marks : SUBSET Mark, evidence : SUBSET Trace]
NoRecord == [stage |-> "NONE", marks |-> {}, evidence |-> {}]
Unread   == [stage |-> "UNREAD", marks |-> {}, evidence |-> {}]

\* A store: what is asked for a term, and the record it is asked for.
Checked == {"approve", "reject", "gray", "activate"}
Stores  == Checked \cup {"nominate", "list"}
Feeds   == {"example", "sample"}
Step    == [kind : Stores \cup Feeds, term : Term \cup {NoTerm}, trace : Trace \cup {NoTrace}]
Do(kind, t, r) == [kind |-> kind, term |-> t, trace |-> r]

\* An entity recognised in a record, and an example for the prompt.
Mention == [term : Term, trace : Trace]

Context == [terms : SUBSET Term, examples : Seq(Mention), entities : SUBSET Mention]
NoContext == [terms |-> {}, examples |-> <<>>, entities |-> {}]
NoRun == [phase |-> "NONE", records |-> <<>>, left |-> <<>>, found |-> {}, owed |-> {}, context |-> NoContext]
Run == [phase : {"NONE", "ANALYSE", "EXPLORE", "QUOTE"}, records : Seq(Trace), left : Seq(Trace),
        found : SUBSET Mention, owed : SUBSET Mention, context : Context]

\* What a hypothesis says: its record, the nearest slang term and whether the
\* tool's own list gave it, the examples and the entities of the record.
Hypothesis == [trace : Trace, nearest : Term \cup {NoTerm}, builtin : BOOLEAN,
               examples : SUBSET Term, entities : SUBSET Term]
Verdict == [decision : Decision, terms : WordLists]
NoVerdict == [decision |-> "NONE", terms |-> <<>>]

TypeOK ==
  /\ records \in [Term -> Record \cup {NoRecord}]
  /\ fewShot \in Seq(Mention)
  /\ negatives \in Seq(Trace)
  /\ learned \subseteq Term
  /\ payload \subseteq Mention
  /\ queue \in Seq(Hypothesis)
  /\ verdict \in Seq(Verdict \cup {NoVerdict})
  /\ Len(verdict) = Len(queue)
  /\ calls \in Nat
  /\ agenda \in [Caller -> Seq(Step)]
  /\ checked \in [Caller -> Record \cup {Unread}]
  /\ read \in [Caller -> Record \cup {NoRecord, Unread}]
  /\ run \in [Caller -> Run]
  /\ was \in [Term -> SUBSET Mark]
  /\ replaced \subseteq Term
  /\ \A c \in Caller :
       read[c] # Unread => agenda[c] # <<>> /\ Head(agenda[c]).kind \in Stores

-----------------------------------------------------------------------------
(* Calls of the lifecycle *)

Idle(c) == agenda[c] = <<>> /\ run[c].phase = "NONE"

\* A thread enters a call that comes to these stores.
Call(c, steps) ==
  /\ Idle(c) /\ calls < MaxCalls
  /\ calls' = calls + 1
  /\ agenda' = [agenda EXCEPT ![c] = steps]
  /\ UNCHANGED <<checked, read, run>>

\* review, gray_rollout, activate, promote_approved_candidate
Review(c) ==
  /\ \E t \in Term, kind \in {"approve", "reject"} : Call(c, <<Do(kind, t, NoTrace)>>)
  /\ UNCHANGED <<lifecycle, feedback, engine, review>>

GrayRollout(c) ==
  /\ \E t \in Term : Call(c, <<Do("gray", t, NoTrace)>>)
  /\ UNCHANGED <<lifecycle, feedback, engine, review>>

Activate(c) ==
  /\ \E t \in Term : Call(c, <<Do("activate", t, NoTrace)>>)
  /\ UNCHANGED <<lifecycle, feedback, engine, review>>

Promote(c) ==
  /\ \E t \in Term, r \in Trace :
       Call(c, <<Do("nominate", t, r), Do("approve", t, NoTrace), Do("gray", t, NoTrace)>>)
  /\ UNCHANGED <<lifecycle, feedback, engine, review>>

\* The stage a call wants the term to be in. An unknown term is a KeyError.
Admits(kind, stage) ==
  CASE kind = "gray" -> stage = "REVIEWED"
    [] kind = "activate" -> stage = "GRAY_ROLLOUT"
    [] OTHER -> stage # "NONE"

\* The first look at the record. The call ends if the stage is another: it raises,
\* or the term is in gray roll-out already.
Check(c) ==
  /\ agenda[c] # <<>> /\ Head(agenda[c]).kind \in Checked /\ checked[c] = Unread
  /\ LET step == Head(agenda[c]) current == records[step.term] IN
     IF Admits(step.kind, current.stage)
     THEN checked' = [checked EXCEPT ![c] = current] /\ agenda' = agenda
     ELSE agenda' = [agenda EXCEPT ![c] = <<>>] /\ checked' = checked
  /\ UNCHANGED <<lifecycle, feedback, engine, review, calls, read, run>>

\* _store_record looks the record up again,
Read(c) ==
  /\ agenda[c] # <<>> /\ Head(agenda[c]).kind \in Stores /\ read[c] = Unread
  /\ Head(agenda[c]).kind \in Checked => checked[c] # Unread
  /\ read' = [read EXCEPT ![c] = records[Head(agenda[c]).term]]
  /\ UNCHANGED <<lifecycle, feedback, engine, review, calls, agenda, checked, run>>

Priority(s) ==
  CASE s = "NEW_CANDIDATE" -> 1 [] s = "REVIEWED" -> 2
    [] s = "GRAY_ROLLOUT" -> 3 [] s = "ACTIVE" -> 4 [] OTHER -> 0

\* (Downgraded is a mutation: the stage is always the one asked for.)
Downgraded(current, s, downgrade) == s

\* The stage a record ends in when it is stored as s: a term already further on
\* stays there, unless the caller allows a downgrade.
FinalStage(current, s, downgrade) ==
  IF ~downgrade /\ Priority(current.stage) > Priority(s) THEN current.stage ELSE s

Requested(kind) ==
  CASE kind = "nominate" -> "NEW_CANDIDATE" [] kind = "approve" -> "REVIEWED"
    [] kind = "reject" -> "REJECTED" [] kind = "activate" -> "ACTIVE" [] OTHER -> "GRAY_ROLLOUT"

\* Whether a call gives a reviewer, and the date of activation.
Given(kind) ==
  CASE kind = "nominate" -> {} [] kind = "activate" -> {"reviewer", "activated"} [] OTHER -> {"reviewer"}

\* ... merges: evidence is added, reviewer and date stay when not given anew,
Merged(c) ==
  LET step == Head(agenda[c]) IN
  [stage    |-> FinalStage(read[c], Requested(step.kind), step.kind \in {"reject", "gray", "activate"}),
   marks    |-> read[c].marks \cup Given(step.kind),
   evidence |-> read[c].evidence \cup checked[c].evidence \cup ({step.trace} \ {NoTrace})]

\* ... and writes the record, whatever has become of the one it read. A term of a
\* decision's word list is then made an example.
Write(c) ==
  LET step == Head(agenda[c]) t == step.term IN
  /\ read[c] # Unread
  /\ records' = [records EXCEPT ![t] = Merged(c)]
  /\ was' = [was EXCEPT ![t] = @ \cup Merged(c).marks]
  /\ replaced' = IF read[c] = records[t] THEN replaced ELSE replaced \cup {t}
  /\ agenda' = [agenda EXCEPT ![c] =
       IF step.kind = "list" THEN <<Do("example", t, step.trace)>> \o Tail(@) ELSE Tail(@)]
  /\ checked' = [checked EXCEPT ![c] = Unread]
  /\ read' = [read EXCEPT ![c] = Unread]
  /\ UNCHANGED <<feedback, engine, review, calls, run>>

\* An example or a negative sample is appended.
Feed(c) ==
  /\ agenda[c] # <<>> /\ Head(agenda[c]).kind \in Feeds
  /\ LET step == Head(agenda[c]) IN
     IF step.kind = "sample"
     THEN negatives' = Append(negatives, step.trace) /\ fewShot' = fewShot
     ELSE fewShot' = Append(fewShot, [term |-> step.term, trace |-> step.trace]) /\ negatives' = negatives
  /\ agenda' = [agenda EXCEPT ![c] = Tail(@)]
  /\ UNCHANGED <<lifecycle, engine, review, calls, checked, read, run>>

At(s) == {t \in Term : records[t].stage = s}

-----------------------------------------------------------------------------
(* A run of the engine and the exploration of its records *)

\* (WithCandidates is a mutation: terms nobody has looked at are recognised.)
WithCandidates == At("ACTIVE") \cup At("NEW_CANDIDATE")

\* runtime_terms_mapping of the engine.
RuntimeTerms == At("ACTIVE")

\* _refresh_runtime_slang_dictionary: without an active term the dictionary of
\* the run before stays. It is the engine's, and all threads share it.
RunEngine(c) ==
  /\ Idle(c) /\ calls < MaxCalls
  /\ calls' = calls + 1
  /\ learned' = IF RuntimeTerms = {} THEN learned ELSE RuntimeTerms
  /\ \E batch \in Batches :
       run' = [run EXCEPT ![c] = [NoRun EXCEPT !.phase = "ANALYSE", !.records = batch, !.left = batch]]
  /\ UNCHANGED <<lifecycle, feedback, payload, review, storing>>

\* The slang terms the dictionary of the moment recognises in the next record.
Extract(c) ==
  /\ run[c].phase = "ANALYSE" /\ run[c].left # <<>>
  /\ LET r   == Head(run[c].left)
         new == {[term |-> t, trace |-> r] : t \in TermsIn[r] \cap (Base \cup learned)}
     IN  run' = [run EXCEPT ![c].left = Tail(@), ![c].found = @ \cup new, ![c].owed = @ \cup new]
  /\ UNCHANGED <<lifecycle, feedback, engine, review, calls, storing>>

\* They are nominated one by one,
Nominate(c) ==
  /\ run[c].phase = "ANALYSE" /\ run[c].left = <<>> /\ agenda[c] = <<>>
  /\ \E e \in run[c].owed :
       /\ agenda' = [agenda EXCEPT ![c] = <<Do("nominate", e.term, e.trace)>>]
       /\ run' = [run EXCEPT ![c].owed = @ \ {e}]
  /\ UNCHANGED <<lifecycle, feedback, engine, review, calls, checked, read>>

\* ... and the run leaves its payload. The orchestrator then explores the records
\* or does not.
Finish(c) ==
  /\ run[c].phase = "ANALYSE" /\ run[c].left = <<>> /\ run[c].owed = {} /\ agenda[c] = <<>>
  /\ payload' = run[c].found
  /\ \E next \in {NoRun, [NoRun EXCEPT !.phase = "EXPLORE", !.records = run[c].records]} :
       run' = [run EXCEPT ![c] = next]
  /\ UNCHANGED <<lifecycle, feedback, learned, review, calls, storing>>

\* (EveryStage is a mutation: the prompt is given the candidates too.)
EveryStage == Term \ At("NONE")

\* runtime_prompt_context with include_gray.
PromptTerms == At("ACTIVE") \cup At("GRAY_ROLLOUT")

\* _build_exploration_hypotheses reads the payload and the prompt context once
\* for all records. The examples are those of one label, or all of them.
ReadContext(c) ==
  /\ run[c].phase = "EXPLORE"
  /\ \E examples \in {fewShot, <<>>} :
       run' = [run EXCEPT ![c].phase = "QUOTE",
                 ![c].context = [terms |-> PromptTerms, examples |-> examples, entities |-> payload]]
  /\ UNCHANGED <<lifecycle, feedback, engine, review, calls, storing>>

\* slang_similarity_search: the words it is given, or its own if there are none.
Searched(terms) == IF terms = {} THEN Fallback ELSE terms

\* What analyze says of a record: the nearest of the words searched or none, the
\* first two examples, and as many of the record's entities as come first.
Quotes(r, context) ==
  {[trace |-> r, nearest |-> t, builtin |-> context.terms = {}, examples |-> {context.examples[i].term :
     i \in DOMAIN context.examples \cap {1, 2}}, entities |-> said] :
     t \in Searched(context.terms) \cup {NoTerm},
     said \in SUBSET {e.term : e \in {m \in context.entities : m.trace = r}}}

\* Over budget a hypothesis quotes nothing.
Bare(r) == [trace |-> r, nearest |-> NoTerm, builtin |-> FALSE, examples |-> {}, entities |-> {}]

\* One of the policy guard's words in what it quotes makes it raise.
Refused(h) == h.trace \in RedTrace \/ ({h.nearest} \cup h.examples \cup h.entities) \cap RedTerm # {}

\* (QueuedOnly is a mutation: the hypothesis has no state of review.)
QueuedOnly(h) == queue' = Append(queue, h) /\ verdict' = verdict

\* add_hypothesis
Enqueue(h) ==
  /\ queue' = Append(queue, h)
  /\ verdict' = Append(verdict, NoVerdict)

\* The next record is explored and its hypothesis queued: over budget without the
\* guard's look; a refusal ends the investigation.
Explore(c) ==
  LET r == Head(run[c].records) IN
      /\ run[c].phase = "QUOTE"
      /\ IF run[c].records = <<>> THEN run' = [run EXCEPT ![c] = NoRun] /\ UNCHANGED review
         ELSE \/ Enqueue(Bare(r)) /\ run' = [run EXCEPT ![c].records = Tail(@)]
              \/ \E h \in Quotes(r, run[c].context) :
                   IF Refused(h) THEN run' = [run EXCEPT ![c] = NoRun] /\ UNCHANGED review
                   ELSE Enqueue(h) /\ run' = [run EXCEPT ![c].records = Tail(@)]
      /\ UNCHANGED <<lifecycle, feedback, engine, calls, storing>>

-----------------------------------------------------------------------------
(* Decisions *)

\* What a caller may hand in: a decision by its name, or by another spelling
\* that normalize_decision maps to it.
Spelling == {"CONFIRM", "FALSE_POSITIVE", "UNSURE", "ESCALATE", "MAYBE"}

\* normalize_decision; "MAYBE" stands for the spellings it rejects.
Normalized(word) ==
  CASE word = "CONFIRM" -> "APPROVED" [] word = "FALSE_POSITIVE" -> "MISREPORT"
    [] word = "UNSURE" -> "UNCERTAIN" [] OTHER -> word

\* (RawPayload is a mutation: the lifecycle is told the spelling handed in.)
RawPayload(handed, word) == [handed EXCEPT !.decision = word]

\* What the orchestrator tells the lifecycle: the decision the repository kept.
Payload(handed, word) == handed

\* ingest_review_decision of the lifecycle manager: a misreport is a negative
\* sample, an approved term of the word list goes to gray roll-out at once.
Ingested(told, r) ==
  CASE told.decision = "MISREPORT" -> <<Do("sample", NoTerm, r)>>
    [] told.decision = "APPROVED" -> [i \in DOMAIN told.terms |-> Do("list", told.terms[i], r)]
    [] OTHER -> <<>>

\* ingest_review_decision of the orchestrator. An unknown hypothesis and a
\* spelling that is not known raise and change nothing.
Decide(c) ==
  /\ \E h \in DOMAIN queue \cup {0}, word \in Spelling, terms \in WordLists :
       LET handed == [decision |-> Normalized(word), terms |-> terms] IN
       IF h = 0 \/ handed.decision \notin Decision THEN Call(c, <<>>) /\ verdict' = verdict
       ELSE /\ verdict' = [verdict EXCEPT ![h] = handed]
            /\ Call(c, Ingested(Payload(handed, word), queue[h].trace))
  /\ UNCHANGED <<lifecycle, feedback, engine, queue>>

-----------------------------------------------------------------------------
Init ==
  /\ records = [t \in Term |-> NoRecord]
  /\ fewShot = <<>> /\ negatives = <<>>
  /\ learned = {} /\ payload = {}
  /\ queue = <<>> /\ verdict = <<>>
  /\ calls = 0
  /\ agenda = [c \in Caller |-> <<>>]
  /\ checked = [c \in Caller |-> Unread]
  /\ read = [c \in Caller |-> Unread]
  /\ run = [c \in Caller |-> NoRun]
  /\ was = [t \in Term |-> {}]
  /\ replaced = {}

Next == \E c \in Caller :
  \/ Review(c) \/ GrayRollout(c) \/ Activate(c) \/ Promote(c) \/ Decide(c)
  \/ Check(c) \/ Read(c) \/ Write(c) \/ Feed(c)
  \/ RunEngine(c) \/ Extract(c) \/ Nominate(c) \/ Finish(c)
  \/ ReadContext(c) \/ Explore(c)

Spec == Init /\ [][Next]_vars

-----------------------------------------------------------------------------
(* What a term needs to be recognised, to be quoted, to be learned from *)

\* Only a term that was put in gray roll-out by a reviewer and then activated is
\* ever in the dictionary with which the engine recognises slang, whatever runs,
\* nominations and decisions came in between and however they overlapped.
LearnedWereActivated ==
  \A t \in learned : {"reviewer", "activated"} \subseteq was[t]

\* What an exploration quotes as known slang has been through the hands of a
\* reviewer, the nearest term and the examples: the candidates the engine
\* nominates itself are not fed back to it. Only if no term was rolled out is one
\* of the similarity tool's own words offered instead. The entities it quotes are
\* the record's, known from the start or activated.
QuotedWereReviewed ==
  \A i \in DOMAIN queue : LET h == queue[i] IN
    /\ h.nearest # NoTerm =>
         IF h.builtin THEN h.nearest \in Fallback ELSE "reviewer" \in was[h.nearest]
    /\ \A t \in h.examples : "reviewer" \in was[t]
    /\ \A t \in h.entities : t \in TermsIn[h.trace] /\ (t \in Base \/ "activated" \in was[t])

\* A thread has still to do this.
Owes(kind, t, r) == \E c \in Caller : Do(kind, t, r) \in ToSet(agenda[c])

\* A decision the repository shows has reached the lifecycle, or its caller is
\* still on the way: a misreport is a negative sample of its record; each approved
\* word-list term has its example, and the record among its evidence. Whatever
\* spelling the decision was handed in with, and however calls overlap, but for
\* this: what the evidence holds is lost when another call had read the term's
\* record before it was written, and then writes its own.
DecisionsTaken ==
  \A h \in DOMAIN queue : LET r == queue[h].trace IN
    /\ verdict[h].decision = "MISREPORT" => r \in ToSet(negatives) \/ Owes("sample", NoTerm, r)
    /\ verdict[h].decision = "APPROVED" =>
         \A t \in ToSet(verdict[h].terms) :
           \/ Owes("list", t, r)
           \/ /\ r \in records[t].evidence \/ t \in replaced
              /\ [term |-> t, trace |-> r] \in ToSet(fewShot) \/ Owes("example", t, r)

\* The store a thread is about to do is of a record that is no longer the one it
\* read, or was decided on by a stage the term no longer has.
Stale(c) ==
  LET step == Head(agenda[c]) IN
  \/ read[c] # records[step.term]
  \/ step.kind \in {"gray", "activate"} /\ checked[c].stage # records[step.term].stage

\* A step keeps a term in order: it does not go back to an earlier stage, except to
\* be rejected; it becomes active only from gray roll-out; its evidence is kept.
InOrder(t) ==
  /\ records[t].evidence \subseteq records'[t].evidence
  /\ records'[t].stage = "REJECTED" \/ Priority(records'[t].stage) >= Priority(records[t].stage)
  /\ records'[t].stage = "ACTIVE" => records[t].stage \in {"GRAY_ROLLOUT", "ACTIVE"}

\* Every step of the loop keeps every term in order, but for a store that is stale
\* because another thread's came in between. No sequence of calls, of whatever
\* kinds, is out of order by itself.
StageDiscipline ==
  [][\A t \in Term :
       \/ InOrder(t)
       \/ \E c \in Caller : /\ read[c] # Unread /\ read'[c] = Unread
                            /\ Head(agenda[c]).term = t /\ Stale(c)]_vars

=============================================================================
