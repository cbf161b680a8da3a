--------------------------- MODULE Investigation ---------------------------
(***************************************************************************)
(* One investigation after another on one runtime: the workflow of         *)
(* src/src/workflows/investigation_workflow.py and the phases it calls     *)
(* (src/src/agent/runtime_*_services.py, services.py), with what outlives  *)
(* an investigation: the clue pool, the entity graph, the record cache of  *)
(* the semantic search, and the shared builder with the payload of its     *)
(* last build.                                                             *)
(*                                                                         *)
(* A record is known by its source, a clue by its key, by the sources that *)
(* support it, and by whether it comes from the graph and has been scored. *)
(* A scored clue is of high quality when one of its sources is Good.  All  *)
(* clues count as recent: the reasons about short time windows are left    *)
(* out.                                                                    *)
(***************************************************************************)
EXTENDS Integers, Sequences, FiniteSets, SequencesExt

CONSTANTS
  Sources,     \* configured sources, a set of integers in priority order
  Layer,       \* the collection layer of each source
  Blocked,     \* sources the collection policy forbids
  KeyOf,       \* the entity the records of a source are about (partial)
  Good,        \* sources whose records make a clue of high quality
  Yield,       \* the numbers of records a collector may return
  Requests,    \* what a caller may ask
  Imports,     \* sets of records an import may cache
  MaxSources,  \* sources a plan may select
  MaxLivePool, \* max_live_sources_when_pool_hit
  MaxRaw,      \* max_raw_records
  MaxCalls,    \* max_llm_calls
  MaxRewrites, \* max_query_rewrite_sources
  MaxRuns      \* bound: investigations

Keys == {KeyOf[s] : s \in DOMAIN KeyOf}
Clue == [key : Keys, srcs : (SUBSET Sources) \ {{}}, graph : BOOLEAN, scored : BOOLEAN]

\* provided: records given by the caller; wanted: entities the query and its
\* filters match; relevant: those whose retrieval score passes the merge
\* threshold; precise: the high_precision gate; workers: collector threads.
Request == [provided : SUBSET Sources, available : SUBSET Sources,
            wanted : SUBSET Keys, relevant : SUBSET Keys, cross : BOOLEAN,
            precise : BOOLEAN, profile : {"fast", "balanced"}, workers : Nat \ {0}]

ASSUME SourcesAssumption ==
  /\ Sources \subseteq Int /\ IsFiniteSet(Sources)
  /\ Layer \in [Sources -> Int]
  /\ \A s, t \in Sources : s < t => Layer[s] <= Layer[t]
  /\ Blocked \subseteq Sources /\ Good \subseteq Sources
  /\ DOMAIN KeyOf \subseteq Sources
ASSUME BoundsAssumption ==
  /\ Yield \subseteq Nat
  /\ Requests \subseteq Request
  /\ Imports \subseteq SUBSET Sources
  /\ {MaxSources, MaxLivePool, MaxRaw, MaxRuns} \subseteq Nat \ {0}
  /\ {MaxCalls, MaxRewrites} \subseteq Nat

VARIABLES
  pc,        \* the step the workflow is at
  runs,      \* investigations started
  request,   \* what the caller asked
  planning,  \* "preflight" or "full"
  plan,      \* collection and rewrite controls, selected sources
  late,      \* the clock is past deadline_at
  ledger,    \* LLM calls charged to the controller of the last prepare
  asked,     \* LLM calls of this investigation
  found,     \* clues retrieved from the pool
  semantic,  \* records and clues of the semantic phase, and its decision
  live,      \* what live collection gathered
  pending,   \* sources of the layers still to collect
  results,   \* what the collectors of the current layer returned
  waiting,   \* sources of the current layer being collected
  fresh,     \* records and clues of the fresh processing
  stages,    \* main_flow_stages
  report,    \* merged candidates, hypotheses and what they were built from
  builder,   \* the shared OfflineClueBuilder
  pool,      \* clues saved
  graph,     \* entity graph: records whose entity it has observed
  cache      \* records cached for the semantic search

planned   == <<request, planning, plan, ledger, asked>>
collected == <<live, pending, results, waiting>>
shared    == <<builder, pool, graph, cache>>
vars == <<pc, runs, planned, late, found, semantic, collected, fresh, stages, report, shared>>

Gaps == {"no_candidate_clues_in_pool", "insufficient_high_quality_pool_clues",
         "insufficient_cross_source_support", "evidence_chain_not_satisfied_by_pool"}
Statuses == {"completed", "error", "blocked_by_source_policy"}
StageNames == {"input_task", "route_and_guard", "asset_retrieval",
               "intelligence_pipeline", "clue_generation_report"}

NoRequest  == [provided |-> {}, available |-> {}, wanted |-> {}, relevant |-> {}, cross |-> FALSE,
               precise |-> FALSE, profile |-> "balanced", workers |-> 1]
NoPlan     == [mode |-> "adaptive", rewrite |-> FALSE, selected |-> {}]
NoSemantic == [records |-> {}, clues |-> {}, collect |-> FALSE, gap |-> {}]
NoLive     == [records |-> <<>>, runs |-> <<>>, gap |-> {}, exempt |-> FALSE]
NoFresh    == [records |-> {}, clues |-> {}]
NoReport   == [merged |-> {}, explored |-> {}, payload |-> {}]

TypeOK ==
  /\ pc \in {"idle", "prepare", "retrieve", "semantic", "decide", "live",
             "layer", "collect", "fresh", "report"}
  /\ runs \in 0..MaxRuns
  /\ request \in Request
  /\ planning \in {"preflight", "full"}
  /\ plan \in [mode : {"adaptive", "pool_only", "live_only"}, rewrite : BOOLEAN, selected : SUBSET Sources]
  /\ late \in BOOLEAN
  /\ ledger \in Nat /\ asked \in Nat
  /\ found \subseteq Clue
  /\ semantic \in [records : SUBSET Sources, clues : SUBSET Clue, collect : BOOLEAN, gap : SUBSET Gaps]
  /\ live \in [records : Seq(Sources), runs : Seq([src : Sources, fetched : Nat, status : Statuses]),
               gap : SUBSET Gaps, exempt : BOOLEAN]
  /\ pending \subseteq Sources /\ waiting \subseteq Sources
  /\ DOMAIN results \subseteq Sources
  /\ \A s \in DOMAIN results : results[s] \in [count : Nat, status : Statuses]
  /\ fresh \in [records : SUBSET Sources, clues : SUBSET Clue]
  /\ DOMAIN stages \subseteq StageNames
  /\ report \in [merged : SUBSET Clue, explored : SUBSET Sources, payload : SUBSET Sources]
  /\ builder \in [gateway : BOOLEAN, enrich : BOOLEAN, enriched : BOOLEAN, payload : SUBSET Sources]
  /\ pool \subseteq Clue
  /\ graph \subseteq Sources /\ cache \subseteq Sources

-----------------------------------------------------------------------------
(* Clues and evidence *)

High(c) == c.scored /\ c.srcs \cap Good # {}

Supporting(records, k) == {s \in records \cap DOMAIN KeyOf : KeyOf[s] = k}

\* (Unsupported is a mutation: a clue for every known key, with or without
\* evidence.)
Unsupported(records) ==
  {[key |-> k, srcs |-> Supporting(records, k), graph |-> FALSE, scored |-> TRUE] : k \in Keys}

CluesOf(records) ==
  {[key |-> k, srcs |-> Supporting(records, k), graph |-> FALSE, scored |-> TRUE] :
     k \in {KeyOf[s] : s \in records \cap DOMAIN KeyOf}}

\* EntityGraphStore.generate_clues: one for every entity seen in two sources.
GraphClues(known, promoted) ==
  {[key |-> k, srcs |-> Supporting(known, k), graph |-> TRUE, scored |-> k \in promoted] :
     k \in {j \in Keys : Cardinality(Supporting(known, j)) > 1}}

GraphOf(records) == graph \cup (records \cap DOMAIN KeyOf)

\* What a build of the records may return: with graph clues enabled, also those
\* of the whole graph, earlier records included, promoted and scored or archived.
Builds(records) ==
  IF request.profile = "fast" THEN {CluesOf(records)}
  ELSE {CluesOf(records) \cup GraphClues(GraphOf(records), promoted) : promoted \in SUBSET Keys}

\* Clues of one key and type become one with the evidence and the score of all.
MergeByKey(clues) ==
  LET Same(c) == {d \in clues : d.key = c.key /\ d.graph = c.graph}
  IN  {[c EXCEPT !.srcs = UNION {d.srcs : d \in Same(c)},
                 !.scored = \E d \in Same(c) : d.scored] : c \in clues}

Maximum(set) == CHOOSE m \in set : \A n \in set : n <= m

\* _summarize_retrieved_clues
Summary(clues) ==
  [total |-> Cardinality(clues),
   high  |-> Cardinality({c \in clues : High(c)}),
   cross |-> Maximum({0} \cup {Cardinality(c.srcs) : c \in clues})]

\* _merge_retrieved_summary: counts are added, whether or not the clues of the
\* two summaries are the same.
Plus(a, b) == [total |-> a.total + b.total, high |-> a.high + b.high,
               cross |-> Maximum({a.cross, b.cross})]

MinHigh == IF request.precise THEN 2 ELSE 1

\* _live_collection_reasons_from_summary; the gap is sufficient when empty.
GapOf(summary) ==
  {g \in Gaps :
    \/ g = "no_candidate_clues_in_pool" /\ summary.total = 0
    \/ g = "insufficient_high_quality_pool_clues" /\ summary.high < MinHigh
    \/ g = "insufficient_cross_source_support" /\ request.cross /\ summary.cross < 2
    \/ g = "evidence_chain_not_satisfied_by_pool" /\ summary.high < 1}

\* _should_collect_live_sources, given the evidence gap
ShouldCollect(gap) ==
  /\ request.provided = {} /\ request.available # {} /\ plan.selected # {}
  /\ plan.mode # "pool_only"
  /\ plan.mode = "live_only" \/ gap # {}

\* set_runtime_controls(gateway, budget, policy) and then build(policy), whose
\* own call of set_runtime_controls makes a pipeline with no gateway.
SetControls(b, gateway, enrich) == [b EXCEPT !.gateway = gateway, !.enrich = enrich]

\* (PayloadKept is a mutation: the engine's payload is not replaced.)
PayloadKept(b, records, enrich) == SetControls(b, FALSE, enrich)

BuildWith(b, records, enrich) ==
  LET controlled == SetControls(b, FALSE, enrich)
  IN  [controlled EXCEPT !.payload = records,
                         !.enriched = controlled.gateway /\ controlled.enrich]

\* The clues of a build are saved; the graph keeps its entities.
Build(records, enrich, clues) ==
  /\ builder' = BuildWith(SetControls(builder, TRUE, enrich), records, enrich)
  /\ pool' = pool \cup clues
  /\ graph' = GraphOf(records)

-----------------------------------------------------------------------------
(* Routing and asset retrieval *)

\* The first n sources of a set in priority order: a list cut with [:n].
First(set, n) == {s \in set : Cardinality({t \in set : t < s}) < n}

\* A set of sources as a list in priority order.
InOrder(set) ==
  CHOOSE seq \in [1..Cardinality(set) -> set] :
    /\ ToSet(seq) = set
    /\ \A i, j \in DOMAIN seq : i < j => seq[i] < seq[j]

\* The provided records, cut to max_raw_records.
Provided == First(request.provided, MaxRaw)

\* Calls charged to the controller in force, refused beyond its budget.
Ask(limit) == \E n \in 0..limit :
  /\ ledger + n <= MaxCalls
  /\ ledger' = ledger + n
  /\ asked' = asked + n

\* A controller made by prepare: what it charges starts from nothing.
AskAnew(limit) == \E n \in 0..limit :
  /\ n <= MaxCalls
  /\ ledger' = n
  /\ asked' = asked + n

\* InvestigationWorkflow.run is called.
Begin ==
  /\ pc = "idle" /\ runs < MaxRuns
  /\ \E r \in Requests :
       /\ request' = r
       /\ planning' = IF r.provided = {} THEN "preflight" ELSE "full"
  /\ pc' = "prepare"
  /\ runs' = runs + 1
  /\ plan' = NoPlan
  /\ asked' = 0 /\ ledger' = 0
  /\ late' = FALSE
  /\ found' = {} /\ semantic' = NoSemantic /\ live' = NoLive /\ fresh' = NoFresh
  /\ pending' = {} /\ results' = <<>> /\ waiting' = {}
  /\ stages' = <<>> /\ report' = NoReport
  /\ UNCHANGED shared

UsesPlanner == planning = "full" /\ request.profile = "balanced"

\* (AlwaysPlanned is a mutation: a preflight asks the model too.)
AlwaysPlanned == IF request.profile = "balanced" THEN 2 ELSE 0

\* The calls a prepare may make: intent parsing and the plan.
PlanningCalls == IF UsesPlanner THEN 2 ELSE 0

\* _select_sources: every source when the limit allows, else those the plan's
\* scores put forward, at least one.
Selections ==
  IF Cardinality(request.available) <= MaxSources
  THEN {request.available}
  ELSE {set \in SUBSET request.available : set # {} /\ Cardinality(set) <= MaxSources}

\* RunStatePreparation.prepare
Prepare ==
  /\ pc = "prepare"
  /\ AskAnew(PlanningCalls)
  /\ \E chosen \in Selections, planner \in {"adaptive", "pool_only", "live_only"}, rewrite \in BOOLEAN :
       /\ ~UsesPlanner => planner = "adaptive" /\ rewrite
       /\ plan' = [mode     |-> IF request.profile = "fast" THEN "pool_only" ELSE planner,
                   rewrite  |-> rewrite /\ request.profile # "fast",
                   selected |-> chosen]
  /\ late' = FALSE
  /\ pc' = "retrieve"
  /\ UNCHANGED <<runs, request, planning, found, semantic, collected, fresh, stages, report, shared>>

\* InitialCandidateRetrievalService.retrieve: the clues of the pool the query
\* matches, and those of the graph, unscored, whatever the query.
Retrieve ==
  /\ pc = "retrieve"
  /\ found' = MergeByKey({c \in pool : c.key \in request.wanted} \cup GraphClues(graph, {}))
  /\ pc' = "semantic"
  /\ UNCHANGED <<runs, planned, late, semantic, collected, fresh, stages, report, shared>>

\* The records of the semantic search and of its graph expansion.
Hits == {s \in cache \cap DOMAIN KeyOf : KeyOf[s] \in request.wanted}

\* (AnyClueEnough is a mutation: a semantic clue of any quality suffices.)
AnyClueEnough(records, clues) ==
  LET gap    == GapOf(Plus(Summary(found), Summary(clues)))
      enough == ShouldCollect(gap) /\ clues # {} /\ plan.mode # "live_only"
  IN  [records |-> records, clues |-> clues,
       collect |-> ShouldCollect(gap) /\ ~enough,
       gap     |-> IF enough THEN {} ELSE gap]

\* The decision on what has been found before live collection.
Decision(records, clues) ==
  LET summary == Plus(Summary(found), Summary(clues))
      gap     == GapOf(summary)
      enough  == /\ ShouldCollect(gap) /\ plan.mode # "live_only"
                 /\ Summary(clues).high > 0
                 /\ gap \subseteq {"insufficient_high_quality_pool_clues"}
  IN  [records |-> records, clues |-> clues,
       collect |-> ShouldCollect(gap) /\ ~enough,
       gap     |-> IF enough THEN {} ELSE gap]

Satisfied(sem) == request.provided = {} /\ found \cup sem.clues # {} /\ sem.gap = {}

\* (PreflightStages is a mutation: the input stage is recorded by a preflight
\* only.)
PreflightStages == {"route_and_guard", "asset_retrieval"} \cup
                   (IF planning = "preflight" THEN {"input_task"} ELSE {})

RouteStages == {"route_and_guard", "asset_retrieval"} \cup
               (IF planning = "preflight" \/ request.provided # {} THEN {"input_task"} ELSE {})

SetStages(names, status) ==
  stages' = [n \in names \cup DOMAIN stages |-> IF n \in names THEN status ELSE stages[n]]

\* _run_semantic_local_phase, and the rerouting of a preflight whose assets do
\* not suffice.
Semantic ==
  /\ pc = "semantic"
  /\ IF request.provided # {} \/ Hits = {}
     THEN semantic' = Decision({}, {}) /\ UNCHANGED <<builder, pool, graph>>
     ELSE \E clues \in Builds(Hits) :
            semantic' = Decision(Hits, clues) /\ Build(Hits, request.profile = "balanced", clues)
  /\ SetStages(RouteStages, "completed")
  /\ IF planning = "preflight" /\ ~Satisfied(semantic')
     THEN pc' = "prepare" /\ planning' = "full"
     ELSE pc' = "decide" /\ UNCHANGED planning
  /\ UNCHANGED <<runs, request, plan, ledger, asked, late, found, collected, fresh, report, cache>>

\* _decide_and_run_fresh_path
Decide ==
  /\ pc = "decide"
  /\ IF Satisfied(semantic)
     THEN /\ live' = [NoLive EXCEPT !.gap = semantic.gap]
          /\ SetStages({"intelligence_pipeline"}, "skipped")
          /\ pc' = "report"
     ELSE pc' = "live" /\ UNCHANGED <<live, stages>>
  /\ UNCHANGED <<runs, planned, late, found, semantic, pending, results, waiting, fresh, report, shared>>

-----------------------------------------------------------------------------
(* Live collection *)

NothingElse == request.provided = {} /\ semantic.records = {} /\ found = {}

\* _cap_live_sources, then _filter_sources_for_collection
Capped  == IF found = {} THEN plan.selected ELSE First(plan.selected, MaxLivePool)
Allowed == Capped \ Blocked

BlockedRuns == LET refused == InOrder(Capped \cap Blocked)
               IN  [i \in DOMAIN refused |->
                      [src |-> refused[i], fetched |-> 0, status |-> "blocked_by_source_policy"]]

LiveUnneeded ==
  /\ pc = "live" /\ ~semantic.collect
  /\ live' = [NoLive EXCEPT !.gap = semantic.gap]
  /\ pc' = "fresh"
  /\ UNCHANGED <<runs, planned, late, found, semantic, pending, results, waiting, fresh, stages, report, shared>>

LiveTooLate ==
  /\ pc = "live" /\ semantic.collect
  /\ late /\ ~NothingElse
  /\ live' = [NoLive EXCEPT !.gap = semantic.gap]
  /\ pc' = "fresh"
  /\ UNCHANGED <<runs, planned, late, found, semantic, pending, results, waiting, fresh, stages, report, shared>>

LiveBlocked ==
  /\ pc = "live" /\ semantic.collect
  /\ ~late \/ NothingElse
  /\ Allowed = {}
  /\ live' = [NoLive EXCEPT !.gap = semantic.gap, !.runs = BlockedRuns]
  /\ pc' = "fresh"
  /\ UNCHANGED <<runs, planned, late, found, semantic, pending, results, waiting, fresh, stages, report, shared>>

Rewrites == IF plan.rewrite /\ ~late
            THEN Cardinality(First(Allowed, MaxRewrites)) ELSE 0

\* The queries are rewritten, which may take the rest of the time; the runs
\* start from an empty list, the blocked sources left out.
LiveStarts ==
  /\ pc = "live" /\ semantic.collect
  /\ ~late \/ NothingElse
  /\ Allowed # {}
  /\ Ask(Rewrites)
  /\ late' \in (IF Rewrites > 0 THEN BOOLEAN ELSE {late})
  /\ late => late'
  /\ live' = [NoLive EXCEPT !.gap = semantic.gap, !.exempt = late' /\ NothingElse]
  /\ pending' = Allowed
  /\ pc' = "layer"
  /\ UNCHANGED <<runs, request, planning, plan, found, semantic, results, waiting, fresh, stages, report, shared>>

Expired == late /\ ~live.exempt
Full    == Len(live.records) >= MaxRaw

\* The loop of _collect_records_from_sources
LayersEnd ==
  /\ pc = "layer"
  /\ pending = {} \/ Expired \/ Full
  /\ pc' = "fresh"
  /\ UNCHANGED <<runs, planned, late, found, semantic, collected, fresh, stages, report, shared>>

LayerStarts ==
  /\ pc = "layer"
  /\ pending # {} /\ ~Expired /\ ~Full
  /\ results' = <<>>
  /\ pc' = "collect"
  /\ UNCHANGED <<runs, planned, late, found, semantic, live, pending, waiting, fresh, stages, report, shared>>

\* The layer of group_sources_by_collection_layer whose turn it is.
Members == {s \in pending : \A t \in pending : Layer[s] <= Layer[t]}

Workers == IF request.workers < Cardinality(Members) THEN request.workers ELSE Cardinality(Members)
Uncalled == Members \ (waiting \cup DOMAIN results)

\* A thread starts _collect_one_source; one thread alone looks at the clock.
Call(s) ==
  /\ pc = "collect"
  /\ s \in Uncalled /\ \A t \in Uncalled : s <= t
  /\ Cardinality(waiting) < Workers
  /\ Workers = 1 => ~Expired
  /\ waiting' = waiting \cup {s}
  /\ UNCHANGED <<pc, runs, planned, late, found, semantic, live, pending, results, fresh, stages, report, shared>>

\* The collector returns records or raises.
Return(s) ==
  /\ s \in waiting
  /\ waiting' = waiting \ {s}
  /\ \E outcome \in {[count |-> n, status |-> "completed"] : n \in Yield}
                      \cup {[count |-> 0, status |-> "error"]} :
       results' = [t \in DOMAIN results \cup {s} |-> IF t = s THEN outcome ELSE results[t]]
  /\ UNCHANGED <<pc, runs, planned, late, found, semantic, live, pending, fresh, stages, report, shared>>

\* (RawCount is a mutation: the log has the records a source returned.)
RawCount(acc, s) ==
  LET room  == MaxRaw - Len(acc.records)
      taken == IF results[s].count < room THEN results[s].count ELSE room
  IN  IF room <= 0 THEN acc
      ELSE [acc EXCEPT !.records = @ \o [i \in 1..taken |-> s],
                       !.runs = Append(@, [src |-> s, fetched |-> results[s].count,
                                           status |-> results[s].status])]

\* The records of a source, cut to what the budget has left.
Accept(acc, s) ==
  LET room  == MaxRaw - Len(acc.records)
      taken == IF results[s].count < room THEN results[s].count ELSE room
  IN  IF room <= 0 THEN acc
      ELSE [acc EXCEPT !.records = @ \o [i \in 1..taken |-> s],
                       !.runs = Append(@, [src |-> s, fetched |-> taken, status |-> results[s].status])]

\* What live collection holds after this layer.
Gathered == FoldLeft(Accept, live, InOrder(Members \cap DOMAIN results))

\* The gap on all that has been found, with the clues of a layer's build.
GapAfter(clues) == GapOf(Plus(Plus(Summary(found), Summary(semantic.clues)), Summary(clues)))

\* (EveryLayer is a mutation: the verdict of the recheck is not used.)
EveryLayer(gap, clues) == FALSE

\* The recheck stops collection.
Stops(gap, clues) == gap = {} /\ clues # {}

\* (AllCalled is a mutation: the layer waits for the sources it skipped.)
AllCalled == waiting = {} /\ Uncalled = {}

\* Every collector has returned; one thread alone skips the sources it has no
\* time for.
LayerDone == waiting = {} /\ (Uncalled = {} \/ (Workers = 1 /\ Expired))

\* The layer has been collected; _live_collection_layer_recheck builds clues
\* from all records so far and looks at the gap again.
LayerReturns ==
  /\ pc = "collect" /\ LayerDone
  /\ \E now \in {Gathered} :
       LET got  == ToSet(now.records)
           kept == [live EXCEPT !.records = now.records, !.runs = now.runs]
       IN  IF Len(now.runs) > Len(live.runs) /\ got # {}
           THEN \E clues \in Builds(got) :
                  /\ Build(got, FALSE, clues)
                  /\ live' = [kept EXCEPT !.gap = GapAfter(clues)]
                  /\ pending' = IF Stops(GapAfter(clues), clues) THEN {} ELSE pending \ Members
           ELSE /\ live' = kept
                /\ pending' = pending \ Members
                /\ UNCHANGED <<builder, pool, graph>>
  /\ pc' = "layer"
  /\ UNCHANGED <<runs, planned, late, found, semantic, results, waiting, fresh, stages, report, cache>>

-----------------------------------------------------------------------------
(* Fresh processing, refinement and report *)

Collected == ToSet(live.records)

Processed == IF request.provided # {} THEN Provided
             ELSE IF Collected # {} THEN Collected ELSE semantic.records

\* FreshProcessingService and the pipeline stage of the workflow.
Fresh ==
  /\ pc = "fresh"
  /\ IF Collected # {} \/ request.provided # {}
     THEN \E clues \in Builds(Processed) :
            /\ Build(Processed, request.profile = "balanced", clues)
            /\ fresh' = [records |-> Processed, clues |-> clues]
     ELSE /\ fresh' = [records |-> Processed, clues |-> {}]
          /\ UNCHANGED <<builder, pool, graph>>
  /\ SetStages({"intelligence_pipeline"}, IF Processed # {} THEN "completed" ELSE "skipped")
  /\ pc' = "report"
  /\ UNCHANGED <<runs, planned, late, found, semantic, collected, report, cache>>

\* With fresh records, only pool clues over the merge threshold take part.
PoolPart == IF fresh.records = {} THEN found ELSE {c \in found : c.key \in request.relevant}

\* _generate_clues_and_report.  Refinement asks the model at most once and saves
\* the merged clues; exploration may follow when there are fresh records, and
\* must when no merged clue is of high quality; then the report is made.
Report ==
  /\ pc = "report"
  /\ LET merged == MergeByKey(PoolPart \cup semantic.clues \cup fresh.clues)
     IN  /\ Ask(IF merged = {} THEN 0 ELSE 1)
         /\ pool' = pool \cup merged
         /\ \E explores \in BOOLEAN :
              /\ explores => fresh.records # {}
              /\ fresh.records # {} /\ (merged = {} \/ \A c \in merged : ~High(c)) => explores
              /\ report' = [merged   |-> merged,
                            explored |-> IF explores THEN fresh.records ELSE {},
                            payload  |-> IF explores THEN builder.payload ELSE {}]
  /\ SetStages({"clue_generation_report"}, "completed")
  /\ pc' = "idle"
  /\ UNCHANGED <<runs, request, planning, plan, late, found, semantic, collected, fresh, builder, graph, cache>>

\* The policy guard finds one of its words in what exploration says of a record
\* and raises: the clues are saved, the caller gets no report.
ExplorationRefused ==
  /\ pc = "report" /\ fresh.records # {}
  /\ LET merged == MergeByKey(PoolPart \cup semantic.clues \cup fresh.clues)
     IN  /\ Ask(IF merged = {} THEN 0 ELSE 1)
         /\ pool' = pool \cup merged
  /\ pc' = "idle"
  /\ UNCHANGED <<runs, request, planning, plan, late, found, semantic, collected, fresh, stages,
                 report, builder, graph, cache>>

\* Between investigations, run_advanced_pipeline caches its records and leaves
\* its own payload in the engine.
Ingest ==
  /\ pc = "idle" /\ runs < MaxRuns
  /\ \E records \in Imports :
       /\ cache' = cache \cup records
       /\ builder' = [builder EXCEPT !.payload = records]
  /\ UNCHANGED <<pc, runs, planned, late, found, semantic, collected, fresh, stages, report, pool, graph>>

\* The deadline of the last prepare passes.
Tick ==
  /\ pc \notin {"idle", "prepare"} /\ ~late
  /\ late' = TRUE
  /\ UNCHANGED <<pc, runs, planned, found, semantic, collected, fresh, stages, report, shared>>

-----------------------------------------------------------------------------
Init ==
  /\ pc = "idle" /\ runs = 0
  /\ request = NoRequest /\ planning = "preflight" /\ plan = NoPlan
  /\ late = FALSE /\ ledger = 0 /\ asked = 0
  /\ found = {} /\ semantic = NoSemantic /\ live = NoLive /\ fresh = NoFresh
  /\ pending = {} /\ results = <<>> /\ waiting = {}
  /\ stages = <<>> /\ report = NoReport
  /\ builder = [gateway |-> FALSE, enrich |-> FALSE, enriched |-> FALSE, payload |-> {}]
  /\ pool = {} /\ graph = {} /\ cache = {}

Step ==
  \/ Prepare \/ Retrieve \/ Semantic \/ Decide
  \/ LiveUnneeded \/ LiveTooLate \/ LiveBlocked \/ LiveStarts
  \/ LayersEnd \/ LayerStarts \/ LayerReturns
  \/ \E s \in Sources : Call(s) \/ Return(s)
  \/ Fresh \/ Report \/ ExplorationRefused

Next == Begin \/ Step \/ Ingest \/ Tick

\* The workflow runs in its caller's thread, and collectors return or raise.
Spec == Init /\ [][Next]_vars /\ WF_vars(Step)

-----------------------------------------------------------------------------
(* Properties *)

\* What a run log says was fetched from a source.
Logged(s, log) ==
  FoldLeft(LAMBDA sum, run : IF run.src = s THEN sum + run.fetched ELSE sum, 0, log)

\* The records of all layers together stay within max_raw_records, come from
\* sources the plan selected and the policy allows, and are accounted for in the
\* run log: the counts it gives add up, source by source, to the records kept.
RecordsAccounted ==
  /\ Len(live.records) <= MaxRaw
  /\ ToSet(live.records) \subseteq plan.selected \ Blocked
  /\ \A s \in Sources :
       Cardinality({i \in DOMAIN live.records : live.records[i] = s}) = Logged(s, live.runs)

\* An investigation that skips collection because its assets suffice reports a
\* clue of high quality, and one supported by two sources when the caller asked
\* for cross-source evidence, although clues of the pool and of the semantic
\* phase are counted twice when they are the same.
SatisfiedMeansEvidence ==
  pc = "idle" /\ runs > 0 /\ request.provided = {} /\ stages["intelligence_pipeline"] = "skipped"
    /\ semantic.gap = {} =>
    /\ \E c \in report.merged : High(c)
    /\ request.cross => \E c \in report.merged : Cardinality(c.srcs) > 1

\* Exploration reads the classifications and entities of the last build of the
\* shared builder: they are those of the records it explores, whatever builds
\* of layers, of earlier investigations or of the ingestion came between.
ExplorationReadsOwnBuild == report.payload = report.explored

\* The two controllers a rerouted investigation makes never let it ask the
\* model more often than one budget allows.
OneBudget == asked <= MaxCalls

\* Fresh records of a profile that enables record enrichment are built with
\* the enrichment stage.
FreshRecordsEnriched ==
  pc = "report" /\ fresh.clues # {} /\ request.profile = "balanced" => builder.enriched

\* A source is asked for records only while the gap is open on the evidence
\* there is, layer after layer, and after the deadline only when the
\* investigation would otherwise have nothing, or beside another thread.
CollectionDisciplined ==
  [][\A s \in Sources : s \in waiting' /\ s \notin waiting =>
       /\ live.gap # {}
       /\ \E clues \in IF live.records = <<>> THEN {{}} ELSE Builds(ToSet(live.records)) :
            live.gap = GapAfter(clues)
       /\ \A t \in Allowed :
            Layer[t] < Layer[s] => \E i \in DOMAIN live.runs : live.runs[i].src = t
       /\ late /\ request.workers = 1 => NothingElse]_vars

\* The stages of the report are five, only an exploration of records may leave
\* the last one out, and the pipeline stage is skipped exactly when nothing was
\* processed.
ReportComplete ==
  pc = "idle" /\ runs > 0 =>
    /\ StageNames \ DOMAIN stages \subseteq
         IF fresh.records # {} THEN {"clue_generation_report"} ELSE {}
    /\ stages["intelligence_pipeline"] = "skipped" <=> fresh.records = {}
    /\ Collected # {} => fresh.records = Collected

\* Every investigation ends, with its report or with the error of the guard.
InvestigationsEnd == pc # "idle" ~> pc = "idle"

=============================================================================
