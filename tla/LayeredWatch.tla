---------------------------- MODULE LayeredWatch ----------------------------
(***************************************************************************)
(* The watch loop of scripts/collect_blackgray_all.py --watch              *)
(* --run-clue-build over the planner and the pending batch of              *)
(* src/src/scheduling/layered_collection.py: on every tick the layers that *)
(* are due run their collectors (module Collectors), the rows that are new *)
(* by trace id join the pending batch, and the batch is built into clues.  *)
(* The process may be killed, or die of an exception, at any time; what it *)
(* knows and what is pending are only in its memory.                       *)
(***************************************************************************)
EXTENDS Collectors, FiniteSets

CONSTANTS
  Interval,   \* seconds between two runs of each layer, in units of the clock
  MinRecords, \* clue_batch_min_records
  MaxDeaths   \* bound: times the process dies

Layer == {"fast", "slow", "clue"}

ASSUME WatchAssumption ==
  /\ Interval \in [Layer -> Nat \ {0}]
  /\ MinRecords \in Nat \ {0}
  /\ MaxDeaths \in Nat

VARIABLES
  pc,      \* "tick", "run", "sleep" or "dead"
  agenda,  \* what the tick has still to do: children, and layers to conclude
  ran,     \* collection_layer_ran
  age,     \* time since each layer ran, up to its interval
  spent,   \* time since the tick read the clock
  pending, \* the pending batch: how many rows of each text
  built,   \* texts that have been in a clue build of this process
  start,   \* texts that were in the database when it started
  deaths

process == <<pc, agenda, ran, age, spent, pending, built, start, deaths>>
vars == <<world, process>>

Nothing == [t \in Text |-> 0]
Longest == CHOOSE n \in {Interval[l] : l \in Layer} : \A l \in Layer : Interval[l] <= n

TypeOK ==
  /\ CollectorsTypeOK
  /\ pc \in {"tick", "run", "sleep", "dead"}
  /\ agenda \in Seq(Kind \cup {"fast", "slow"})
  /\ ran \in BOOLEAN
  /\ \A l \in Layer : age[l] \in 0..Interval[l]
  /\ spent \in 0..Longest
  /\ pending \in [Text -> Nat]
  /\ built \subseteq Text /\ start \subseteq Text
  /\ deaths \in 0..MaxDeaths
  /\ pc # "run" => child = "none"

Due(l) == age[l] = Interval[l]

\* Number of rows in the pending batch.
Count == FoldFunction(+, 0, pending)

-----------------------------------------------------------------------------
\* Time passes, for a child as for the loop.
Clock ==
  /\ pc # "dead"
  /\ \E l \in Layer : ~Due(l)
  /\ age' = [l \in Layer |-> IF Due(l) THEN age[l] ELSE age[l] + 1]
  /\ spent' = IF pc # "run" \/ spent = Longest THEN spent ELSE spent + 1
  /\ UNCHANGED <<world, pc, agenda, ran, pending, built, start, deaths>>

\* The tick reads the clock; the fast layer goes first.
Tick ==
  /\ pc = "tick"
  /\ agenda' = (IF Due("fast") THEN <<"x", "telegram", "fast">> ELSE <<>>)
            \o (IF Due("slow") THEN <<"public", "hydration", "slow">> ELSE <<>>)
  /\ ran' = (Due("fast") \/ Due("slow"))
  /\ pc' = "run"
  /\ UNCHANGED <<world, age, spent, pending, built, start, deaths>>

\* The next child of the layer.
Launch ==
  /\ pc = "run" /\ agenda # <<>> /\ Head(agenda) \in Kind
  /\ Spawn(Head(agenda))
  /\ agenda' = Tail(agenda)
  /\ UNCHANGED <<pc, ran, age, spent, pending, built, start, deaths>>

\* (NotWaited is a mutation: children are started and not waited for.)
NotWaited == TRUE

\* run_child returns when the child has ended.
Waited == child = "none"

Child == pc = "run" /\ ChildStep /\ UNCHANGED process

\* (OnlyFirst is a mutation: rows join an empty batch only.)
OnlyFirst(new) == [t \in Text |-> IF t \in new /\ Count = 0 THEN 1 ELSE pending[t]]

\* add_rows: pending rows are kept by trace id.
Added(new) == [t \in Text |-> IF t \in new THEN pending[t] + 1 ELSE pending[t]]

\* The children of a layer are done: collect_new_raw_rows takes every row whose
\* trace id is not known, whichever child saved it, and mark_ran stores the time
\* of the tick.
Conclude ==
  /\ pc = "run" /\ Waited /\ agenda # <<>> /\ Head(agenda) \in Layer
  /\ pending' = Added({t \in Text : rows[t] = "new"})
  /\ rows' = [t \in Text |-> IF rows[t] = "new" THEN "seen" ELSE rows[t]]
  /\ age' = [age EXCEPT ![Head(agenda)] = IF spent < Interval[Head(agenda)] THEN spent
                                          ELSE Interval[Head(agenda)]]
  /\ agenda' = Tail(agenda)
  /\ UNCHANGED <<posts, cursor, since, child, left>>
  /\ UNCHANGED <<pc, ran, spent, built, start, deaths>>

\* (OnlyWhenDue is a mutation: a build waits for a tick that collects nothing.)
OnlyWhenDue == Count > 0 /\ ~ran /\ Due("clue")

\* should_run_clue_build
ShouldBuild == Count > 0 /\ (ran \/ Due("clue"))

\* The end of a tick: the batch is built, or it is too small and stays; either
\* way the clue layer has run. Without a layer due the loop sleeps.
EndTick ==
  /\ pc = "run" /\ Waited /\ agenda = <<>>
  /\ IF ShouldBuild
     THEN /\ age' = [age EXCEPT !["clue"] = IF spent < Interval["clue"] THEN spent
                                            ELSE Interval["clue"]]
          /\ IF Count < MinRecords THEN UNCHANGED <<pending, built>>
             ELSE /\ built' = built \cup {t \in Text : pending[t] > 0}
                  /\ pending' = Nothing
     ELSE UNCHANGED <<age, pending, built>>
  /\ pc' = IF ran THEN "tick" ELSE "sleep"
  /\ ran' = FALSE /\ spent' = 0
  /\ UNCHANGED <<world, agenda, start, deaths>>

Wake ==
  /\ pc = "sleep"
  /\ pc' = "tick"
  /\ UNCHANGED <<world, agenda, ran, age, spent, pending, built, start, deaths>>

\* The process is killed, and its child with it, or reading the database or
\* building clues raises (the batch is drained by then): what is in memory is lost.
Die ==
  /\ pc # "dead" /\ deaths < MaxDeaths
  /\ deaths' = deaths + 1
  /\ pc' = "dead"
  /\ child' = "none" /\ left' = <<>>
  /\ agenda' = <<>> /\ pending' = Nothing
  /\ since' = cursor /\ age' = Interval /\ spent' = 0 /\ ran' = FALSE
  /\ UNCHANGED <<posts, rows, cursor, built, start>>

\* main: whatever is in the database is taken for known, and every layer is due.
Restart ==
  /\ pc = "dead"
  /\ pc' = "tick"
  /\ rows' = [t \in Text |-> IF rows[t] = "new" THEN "seen" ELSE rows[t]]
  /\ start' = {t \in Text : rows[t] # "none"}
  /\ built' = {}
  /\ UNCHANGED <<posts, cursor, since, child, left, agenda, ran, age, spent, pending, deaths>>

-----------------------------------------------------------------------------
Init ==
  /\ CollectorsInit
  /\ pc = "tick" /\ agenda = <<>> /\ ran = FALSE
  /\ age = Interval /\ spent = 0
  /\ pending = Nothing /\ built = {} /\ start = {}
  /\ deaths = 0

Posted == (\E s \in Stream : Post(s)) /\ UNCHANGED process

Loop == Tick \/ Launch \/ Child \/ Conclude \/ EndTick \/ Wake

Next == Posted \/ Clock \/ Loop \/ Die \/ Restart

\* Children end and the loop is scheduled; time passes. Nothing says that the
\* process is started again.
Spec == Init /\ [][Next]_vars /\ WF_vars(Loop) /\ WF_vars(Clock)

-----------------------------------------------------------------------------
(* What the watch owes the rows its collectors store *)

\* A row the process takes for known was there when it started, is pending, or
\* has been in a clue build: none falls between the database and the batch.
KnownAccounted ==
  \A t \in Text : rows[t] = "seen" /\ pc # "dead" =>
    t \in start \/ t \in built \/ pending[t] > 0

\* A row stored by any child, one that failed halfway included, is built into
\* clues, unless the process dies.
RowsReachClues ==
  \A t \in Text : (rows[t] = "new" /\ pc # "dead")
    ~> (pc = "dead" \/ (rows[t] = "seen" /\ pending[t] = 0 /\ t \in built))

=============================================================================
