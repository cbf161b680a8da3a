# Verification of BlackAgent in TLA+

BlackAgent collects public intelligence, turns raw rows into candidate clues,
and lets an agent investigate, review and act on them. Most of its code is text
analysis without state. The part where things can go wrong in ways a unit test
hardly reaches is the machinery around it: a job queue in SQLite shared by
scheduler processes, budgets consulted around model calls, a gateway that
executes approved actions, stores that are updated by several callers. This
directory models that machinery, checks it with TLC and proves theorems about
it with TLAPS.

## Inventory

| component | state it keeps | operations | interacts with | hard behaviour | what makes it correct |
|---|---|---|---|---|---|
| collection queue (`src/scheduling/cron_queue.py`, `scripts/run_collection_scheduler.py`) | none of its own; locals of a cycle | `sync_schedules`, `tick`, `enqueue_unique_job`, `run_workers`, `execute_job`, clue build | SQL backend, collector subprocesses, offline clue builder | several processes on one file, select-then-upsert, crashes, retries, bounded rounds | one active job per dedupe key, bounded attempts, no row lost, every job ends |
| SQL backend (`storage/sql_backend.py`) | `scheduled_jobs`, `queue_jobs`, `clue_batch_items`, `task_runs`, raw rows, clues | get / save / claim / complete / fail / release | everything that persists | each statement commits alone; whole payloads are written back | ownership of claims and reservations, completion only after clues |
| task backend (`src/backend/task_backend.py`, `local_runtime.py`) | task records and their order, threads; `task_runs` | submit, run pending, claim and handle, store | local runtime, handlers | a task's thread and a `run_pending` race, lists outlive the lock, handlers and saves raise | a task is handled once, ends, keeps its outcome, and is stored only in states it has been in |
| investigation workflow and its phases (`src/workflows/investigation_workflow.py`, `src/agent/runtime_*_services.py`, `services.py`) | plan, deadline, what each phase found, stage records; across investigations the clue pool, the record cache and the shared builder | prepare, retrieve, semantic phase, live collection by layers, fresh processing, refinement, exploration, report | collectors, builder, LLM gateway, exploration | a preflight that is prepared again, a builder shared by all phases, a deadline that passes anywhere, threads of a layer | evidence before a shortcut, counts that add up, one budget, the payload of one's own build |
| pipeline and offline builder (`src/pipeline`) | controls and last payload of the shared builder | `set_runtime_controls`, `build` | investigation, queue, watch | controls set in one call and used in another | fresh records get the stages their profile enables |
| budget controller (`src/agent/budget_controller.py`) | limits, counters, ledger | peek, reserve, consume, limits replaced after planning | LLM gateway, enrichment, refinement | time passes between a check and its use; charges without a check | limits are hard, the ledger adds up |
| LLM gateway (`src/backend/llm_gateway.py`) | answer cache, statistics | `chat_completions` | budget controller, the endpoint | every way a request may fail, answers cached by earlier investigations | what was sent is charged |
| exploration (`src/agent/exploration_agent.py`, `policy_guard.py`, `budget_manager.py`) | rounds and queries of one record | `analyze` | slang lifecycle, review repository | a refusal in the middle of a batch of records | quotes of slang only what a reviewer has handled, or the tool's own words when nothing is rolled out, and of a record the entities known in it |
| review (`src/agent/investigation_runtime.py`, `storage/review_repo.py`) | hypotheses and decisions | queue, mark, ingest | slang lifecycle | two calls for one decision, several callers | no decision is lost on the way to the lifecycle |
| slang lifecycle (`src/enhancement/lifecycle.py`, `engine.py`) | term records, examples, negative samples; the dictionary of the last run | nominate, review, roll out, activate, promote, ingest | engine, exploration, review | long sequences of calls on one term; records read, merged and written whole without a lock; a dictionary that outlives a stage | a term reaches the dictionary through every stage; only overlapping stores may set it back or lose evidence |
| enforcement gateway (`src/backend/enforcement.py`, `local_runtime.py`) | nothing between calls; audit trail | execute, audit | webhook connector, SQL backend | requests that try to widen the policy, a connector or a trail that raises in the middle of a batch | only cleared actions are sent, what is answered is recorded |
| layered collection (`src/scheduling/layered_collection.py`, `scripts/collect_blackgray_all.py`) | known trace ids and pending batch in memory, times of the layers | tick, collect new rows, build | collector scripts, builder | children that fail halfway, rows saved again, death of the process | each known row is pending or built |
| collector scripts (`scripts/*_collector.py`, `collect_public_sources.py`, `hydrate_*`) | cursors in state files | one run over queries, chats or pages | raw rows, the network | rows and cursors are written at different moments | no cursor passes a post that was not saved |
| live collection's choice of sources (`runtime_collection_services.py`, `source_quota.py`) | quotas of a round | allocate, select, collect, backfill | collectors | quotas and backfill at their limits | within the limits, no source starves |
| entity graph (`storage/entity_graph.py`) | entities, observations, relations | add, generate clues | builder, retrieval | facts of earlier investigations join the clues of later builds | what it adds to the evidence is in the report |
| conversation sessions | turns in memory | add, query | agent | - | - |
| text analysis, parsing, configuration, reports | none | pure functions and I/O | - | - | - |

`PROJECT.json` lists every component with its status, the hazards at their
lines, the map from definitions to source lines, the runs and the theorems.

## Modules

| module | what it is |
|---|---|
| `CollectionQueue` | the scheduler processes and the queue tables, one SQL statement per step |
| `UniqueQueue` | what one process promises: one job slot per dedupe key, rows reserved only while the build runs |
| `CollectionQueueRefinement` | the mapping from the tables to `UniqueQueue` |
| `MCQueue` | instances for TLC |
| `CollectionQueueProofs` | theorems for any number of processes |
| `SingleProcessProofs` | theorems for one process, the refinement of `UniqueQueue` among them |
| `LLMBudget` | gateway, cache, budget controller and the stages that call them, over several investigations |
| `MCLLM` | instance for TLC |
| `LLMBudgetProofs` | theorems for any items, costs, limits and endpoint |
| `OneShotTask` | what the task backend promises of a task |
| `TaskBackend` | task records, task threads, callers of `run_pending`, and `task_runs` |
| `TaskBackendProofs` | theorems for any tasks and callers, and the refinement of `OneShotTask` |
| `Investigation` | one investigation after another: the workflow, its phases, the collectors of live collection, the shared builder and pool |
| `MCInvestigation` | instance for TLC |
| `InvestigationProofs` | theorems for any sources, requests and limits |
| `ReviewLoop` | slang lifecycle, exploration, review repository and engine, with several threads between whose reads and writes of a record those of others come |
| `MCReviewLoop` | instance for TLC |
| `ReviewLoopProofs` | theorems for any terms, records, batches and threads, and for one thread alone |
| `Enforcement` | the gateway, the connector behind it and the audit trail |
| `MCEnforcement` | instance for TLC |
| `EnforcementProofs` | theorems for any policies, batches and tokens |
| `Collectors` | the collector scripts with their state files and rows |
| `LayeredWatch` | the watch loop, composed with `Collectors` |
| `MCWatch` | instance for TLC |
| `WatchProofs` | theorems for any texts, streams, pages and intervals |

The models meet in a few places. `Investigation` counts the calls to the model
that `LLMBudget` follows through the gateway one by one. The refusal of the
policy guard is `ExplorationRefused` in `Investigation` and the refused branch
of `Explore` in `ReviewLoop`, where the hypotheses it leaves behind can be seen.
The clue builds of `CollectionQueue`, `LayeredWatch` and `Investigation` are the
same `OfflineClueBuilder`, made anew by the first two and shared by all
investigations of one runtime. Otherwise the scheduler, the watch, an
investigation and the task backend are alternatives to each other and share
nothing but the rows they store.

### CollectionQueue and the code

A process is one run of `scripts/run_collection_scheduler.py`. Its program
counter `pc[p]` names the next SQL statement; the other per-process variables
are the Python locals that live across statements:

| variable | in the code |
|---|---|
| `agenda`, `focus`, `readSched` | the loop over definitions or due schedules, its current schedule, and the row `get_schedule` returned |
| `pass` | `round_index`, `worker_index` and whether `round_claimed > 0` in `run_workers` |
| `cand` | the payloads selected by `claim_queue_jobs` and not yet upserted |
| `claimed`, `job` | the list returned by `claim_queue_jobs`, the job being executed |
| `readJob` | `existing` in `complete_queue_job` and `fail_queue_job` |
| `before`, `rest`, `row`, `batch`, `added` | `before_keys`, the rows left in a loop over rows, the row read and about to be upserted, `raw_keys`, `pending_added > 0` |

`sched`, `jobs`, `history`, `raw`, `items`, `clued` are the tables. A SELECT
and the UPSERT that acts on it are two steps, because `_upsert` commits each
statement alone and another process may run in between. A statement that reads
what only its own process can change, or a second read of a row whose result is
used only for timestamps (`save_queue_job` and `save_schedule` re-read the row
to keep `created_at`), is not a step of its own.

The operations and their actions: `sync_schedules` is `SyncRead`, `SyncWrite`;
`tick` is `TickList`, `TickCheck`, `TickEnqueue`, `TickAdvance`; `run_workers`
is `ClaimSelect`, `ClaimNone`, `ClaimWrite`, `Dispatch`, `WorkerDone`;
`_execute_collection_job` is `RunnerWrites`, `RunnerExits`, `RunnerFails`,
`AddRead`, `AddWrite`, `AddDone`; `enqueue_unique_job` is `UniqueCheck`,
`UniqueWrite`; `_execute_clue_build_job` is `Reserve*`, `LoadRows`,
`BuildClues`, `BuildFails`, `Finish*`, `Release*`; `complete_queue_job`,
`fail_queue_job` and `_persist_task_history` are `Complete*`, `Fail*`,
`History*`. `Raise` is an exception in any statement of a job, `Crash` the end
of the process at any point, including an exception that leaves `run_workers`.

Abstractions. Time is two comparisons (`ScheduleDue`, `BackoffOver`). The
order of schedules in a tick and of rows in a batch is arbitrary. The claim
order keeps the priority and leaves ties open. All clue builds have one
priority, although a follow-up gets 90 where the scheduled one has 88: no other
schedule lies between. Job ids are uuids; TLC has a finite pool, and an id is
used again once its job is finished and nothing in memory or in the items
refers to it. The lease columns are left out because nothing reads them. The
`layers` filter of `run_workers` and registered `task_executors` are used only
by tests and are left out.

### LLMBudget and the code

One investigation is one pass through `prepare` (planning calls, then the limits
are resolved and replaced under the controller), the rewriting of source
queries, `LLMEnrichStage.run_batch` and `ClueRefinementService.refine`. It runs
in one thread, so `pc` is where its single call of `chat_completions` is:
`"chat"` before the cache is consulted, `"sent"` with an allowance, `"settle"`
back in `run_batch`. `budget`, `used` and `ledger` are the attributes of
`BudgetController`, `cache` and `stats` those of the gateway; `late` says that
`elapsed_seconds()` has passed its limit, and `Tick` may make it so between any
two steps. `requests` counts what was really sent and exists in no variable of
the code. `NewRun` starts the next investigation: a new controller on the same
gateway, hence the same cache.

The gateway is `ChatCached`, `Reserve`, `Denied`, `AnswerOk`, `AnswerFails`
(every error `chat_completions` returns, and the missing key) and `AnswerRaises`
(an error it does not catch: a truncated or undecodable body). The callers are
`Plan`, `Resolve`, `Rewrite`, `Enrich`, `EnrichSkipped`, `Settle`,
`RefineSelect`, `RefineSkip`, `RefineBatch`.

Abstractions. A call is known by the set of items it is about, which is also its
cache key. An item has a fixed cost in tokens. Calls, tokens, classified records
and refined clues stand for all limits; extraction has a limit of the same form
that no stage uses. Which items are routed to the model, ranked or skipped is
left open. The limit on elapsed time may be replaced too: `Resolve` may make an
investigation late, or no longer late. `Enrich` is reached only where a
pipeline has been given a gateway; the builder of the workflow loses it, as
`investigation_enrich` shows.

### TaskBackend and the code

A step is what happens under one acquisition of the backend's lock, or one
statement outside it. A task's thread is named by the task. `status`, `attempts`
and `rank` are `_tasks` and `_order`; `ids` is what is left of `pending_ids`,
`results` the snapshots a call returns, `table` the `status` column of
`task_runs`. `submit` is `Submit`, `StartThread`, `SubmitSnapshot`; `run_pending`
is `RunPending` and, for each task, `Claim`, `Handle`, `Finish`, `Result`, or
`Taken` when the status is no longer PENDING; the runtime's `persist_task` is
`Store`, or `StoreRaises`, which ends the call and loses the snapshots it had
still to store. What a handler computes is left out: it returns or it raises. `OneShotTask`
has no threads, lists or snapshots: a task is submitted, started and ended, and
the table may show any state the task has been in.

### Investigation and the code

`InvestigationWorkflow.run` is a sequence of phases in its caller's thread, and
`pc` is the phase that comes next. `request` is what the caller asked, `planning`
and `plan` the state that `RunStatePreparation.prepare` makes, `found` the clues
of the first retrieval, `semantic`, `live` and `fresh` the results of the three
phases, `pending` (the allowed sources no layer has taken yet), `waiting` and
`results` the loop of `_collect_records_from_sources` and its threads, `stages` the
`main_flow_stages`. `builder`, `pool`, `graph` and `cache` outlive an
investigation; `graph` is the observations of the `EntityGraphStore`.
`ledger` is what the controller of the last `prepare` has charged, `asked` what
the whole investigation has asked of the model; no variable of the code has
that sum.

| action | in the code |
|---|---|
| `Begin`, `Prepare`, `Retrieve` | `run`, `prepare` (again, with planning, when a preflight is rerouted), the pool retrieval |
| `Semantic`, `Decide` | `_run_semantic_local_phase` with its build and the rerouting; `_decide_and_run_fresh_path` |
| `LiveUnneeded`, `LiveTooLate`, `LiveBlocked`, `LiveStarts` | the four ways through the head of live collection |
| `LayerStarts`, `Call`, `Return`, `LayerReturns`, `LayersEnd` | the loop over layers: collectors that return or raise, in one thread or several, the record budget, the recheck with its build |
| `Fresh`, `Report`, `ExplorationRefused` | fresh processing; merge, refinement, exploration and report; the guard's exception |
| `Ingest`, `Tick` | `run_advanced_pipeline` between investigations; the deadline passes |

Abstractions. A record is its source, a clue its key, the sources that
support it, whether it comes from the entity graph and whether it has a quality
score; what a text says is a constant function `KeyOf`. Builds add their entities
to the graph, and with graph clues enabled (not in the fast profile) return one
for every entity the graph has seen in two sources, those of earlier records
included; which of them are promoted, and so scored, is left open. Retrieval adds
them too, whatever the query, without a score: they are counted, never as of high
quality. Which sources the
scores select, whether the plan rewrites queries, how many calls are made below
a limit, and whether exploration is asked for are left open. All clues count as
recent. Reports and summaries have no content beyond the clues they name.

### ReviewLoop and the code

`records` is `_records` of the `SlangLifecycleManager`, `fewShot` and `negatives`
its examples and negative samples, `learned` the dictionary the engine's
extractor was last given, `payload` the entities of `_last_run_payload`, `queue`
and `verdict` the review repository. A thread `c` is in a call of the lifecycle
when `agenda[c]` holds stores it has still to do, and in a run of the engine or
an exploration when `run[c]` says so. `checked[c]` and `read[c]` are the two
locals named `current`: the record by whose stage a call goes on, and the one
`_store_record` merges with. `was` and `replaced` are history: the marks the
records of a term have ever had, and the terms one of whose records was written
over although nobody who wrote it had read it.

| action | in the code |
|---|---|
| `Review`, `GrayRollout`, `Activate`, `Promote` | the entry of the call, with the stores it comes to |
| `Check`, `Read`, `Write` | `current = self._records[term]` and the test of its stage; the lookup in `_store_record`; the merge and the assignment |
| `Decide`, `Feed` | `mark_reviewed` and the lifecycle's call for it; the appends to examples and negative samples |
| `RunEngine`, `Extract`, `Nominate`, `Finish` | refreshing the dictionary; recognising the terms of one record; nominating one of them; the payload |
| `ReadContext`, `Explore` | `_build_exploration_hypotheses`: what it reads for all records; `analyze` and `add_hypothesis` for one |

Only the review repository has a lock, so between any two of these steps other
threads may take theirs. Collecting the records of some stages is one step with
what is kept of them: the properties that depend on it are stated term by term
and of the marks a term has ever had, which only grow, so a term read earlier or
later than the others makes no difference.

A hypothesis is what it quotes: the nearest slang term with whether the tool's own
list gave it (`Searched`: an empty list of terms is taken for none given), the
first two examples, and entities of its record from the engine's last payload.
Which word is nearest, how many of a record's first entities are slang terms, and
whether a record exhausts its exploration budget are left open; the guard's list is
a set of terms and records that have one of its words.

Abstractions. Of reviewer and dates a record keeps whether it has a reviewer and a
date of activation; a decision is known by its name and its word list.
`whitelist_candidates` always equals the negative samples and is not a variable.
The engine filters its records before it recognises anything; a batch is what is
left. In CPython a loop over `_records` raises if another thread inserts a term
meanwhile; the call then has no effect, as if it had not been made, or its run of
the engine or exploration ends, and that is not modelled.

### Enforcement and the code

`execute_enforcement` is `Submit` (coercion and the request's approval), then
`Hold` or `Send` for each action, `Decided` (the actions over the limit), `Audit`
for each event and `Answer`. `Gate` is the chain of checks in `_evaluate`. `Send`
may raise, because the connector decodes what it is answered and does not catch
everything; then the results of the whole batch are gone. `Audit` may raise
after some events. `sent` is what the outside world has seen and is in no
variable of the code. A target's type and the action's type are one bit
(`allowed`); aliases of action names and the text of results are left out.

### Collectors, LayeredWatch and the code

`Collectors` has one child process at a time: `Spawn` reads its state file,
`XQuery`, `TelegramChat` and `TelegramSkips` visit one query or chat and may
raise after any row, `XEnds` writes the X cursors, `PublicSearch` and `Hydrate`
are the two collectors without cursors. `cursor` is the state files, `since` the
X collector's copy, `rows` the table, with the one thing the watch looks at:
whether the trace id of a row is one it knows.

`LayeredWatch` is `collect_blackgray_all.py --watch --run-clue-build`: `Tick`
makes the agenda of the layers that are due, `Launch` and `Child` run their
collectors, `Conclude` takes the new rows into the pending batch and marks the
layer, `EndTick` builds or waits, `Wake` ends the sleep. `Die` is the death of
the process at any moment, `Restart` its next start, which takes every row in
the database for known. `age` and `spent` are times since a layer ran and since
the tick read the clock; both stop at the longest interval.

Abstractions. Time is counted in units of the fast interval. A text is a row's
identity, as its hash is. The watch is modelled without `--fresh`, Telegram with
`--once` only; media, relevance rules and page parsing are constants.

## Runs

| run | question | instance | distinct states |
|---|---|---|---|
| `queue_single` | with one process: do the tables implement `UniqueQueue`, are reserved items always being built, do `queue_jobs` and `task_runs` agree, does finished stay finished, is every stored row registered and built, does every job end | 1 process, 2 job ids, 2 rows, a collector below the build, claims of 1, 2 rounds, batches of 1, 2 attempts, failing builds | 56,506 |
| `queue_faults` | does one process stay safe when killed anywhere and restarted, with any statement raising | 1 process, 2 job ids, 2 rows, batches of 1, 2 attempts, all faults | 1,014,802 |
| `queue_double_claim` | is a claim exclusive between processes: no | 2 processes | - |
| `queue_drain` | does a build that leaves items enqueue a follow-up: no | 1 process, 2 rows, batches of 1, no faults | - |
| `queue_lost_rows` | is every row of a failing collector registered: no | 1 process, failing subprocesses | - |
| `llm_real` | are the limits hard, is every request charged, does the ledger add up | 2 investigations; 1 planning call, 1 source, 2 records, 2 clues; real endpoint | 519,133 |
| `tasks` | is each task handled once, does it end, is it the abstract one-shot task | 2 tasks with threads, 1 caller of `run_pending`, limits 0 and 1, saves that raise | 17,898 |
| `investigation` | do records, run log, evidence, payloads, budget and report fit together, and does every investigation end | 2 investigations, each of 6 kinds of request; 4 sources in 2 layers, one of them blocked; 2 imports | 256,185 |
| `investigation_enrich` | are fresh records of a balanced investigation enriched by the model: no | as `investigation`, 1 investigation | - |
| `review` | is a term learned and quoted only after its stages, does every decision reach the lifecycle, and is nothing but a stale store to blame for lost evidence or a term set back | 2 terms, 2 records, 2 threads that overlap anywhere, 4 calls of any kind | 2,789,193 |
| `enforcement` | is only what every gate cleared sent, and is every answer accounted for | 6 settings, 4 batches, 2 tokens, 2 batches handed in, audited | 153,572 |
| `watch` | do cursors stay behind saved rows, is every known row pending or built, is every stored row built | 2 texts, 1 query with pages of one, 1 chat, 2 posts each, a slow layer every second unit, 1 death | 291,396 |

Bounds. Two job ids are one per dedupe key with one collector; a violation of
`OneActivePerKey` needs only a second job for one key, and the id pool is
shared, so it can appear. Two rows with batches of one exercise the backlog,
the follow-up check and the item loops; two attempts exercise retry and giving
up. In `queue_single` the collector has a lower priority than the build and one
job is claimed at a time, so that `JobsEnd` depends on there being as many rounds
as keys: with one round it fails, which its mutation shows. Overlaps of two
processes are in `queue_double_claim` and in the theorems, which hold for any
number of them.

In `MCLLM` the limits (4 calls, 7 tokens, 2 refined clues, 1 classified record)
are small enough that each of them is the one that denies in some behaviour, and
the resolved ones may be lower than what planning has used. In a second
investigation the cache has the answers of the first. In `tasks` a limited
`run_pending`, the threads and a second listing overlap in every order; two
tasks let a limit leave one behind. More callers, and the synchronous mode, are
left to the theorems. The mock and keyless endpoints of `LLMBudget` are
likewise covered by the theorems: they have the steps of the real one without
the requests. Symmetry is used only where no liveness is checked.

In `MCInvestigation` three records fit where two sources of two records each
return four, so one source is cut in every full layer; two of three sources fit
the plan; the second investigation finds the pool, the graph, the cache and
the payload that the first one and an import have left. The six requests differ in what
makes a path through the workflow differ: the precision gate, cross-source
evidence with two threads, a blocked source with a merge that drops clues, the
fast profile, provided records, and nothing but a blocked source. In `MCReviewLoop`
one of the terms is in every dictionary and in the similarity tool's own list, and
may be nominated before anyone has reviewed it; the other reaches the dictionary
only through activation. One record has both terms and the other, which the guard
refuses, only the second, so that two records can be evidence of one term and one
of them be lost. Four calls are an activation from nothing (promote, activate), a
run of the engine that learns the term and the decision on the hypothesis that
quotes it, or any four that overlap in pairs; the engine is given one record at a
time, and longer batches are left to the theorems. In `MCEnforcement` one setting is open and each of the others closes one
gate; the batches are empty, malformed, held by the type and the confidence, and
one longer than the limit of two. In `MCWatch` a page holds one tweet, so that
the second is one that did not fit; the hydrated page has a text of its own,
which only the second layer brings.

`ReservationHeld` and `FinishedStaysFinished` are checked without database
errors: with them the code really leaves items reserved (an exception in
`list_raw_by_hash_ids` is outside the inner `try`) and really re-runs a
succeeded job (an exception in `_persist_task_history` makes `run_workers` fail
it). `RowsRegistered` and `RowsBuilt` are checked without failing subprocesses,
and `RowsRegistered` is refuted with them.

Fairness. `FairSpec` of the queue says that a process goes on with its next
statement and is started again when it ends (a cron entry, or `--cycles`), that
subprocesses and the pipeline return, and that time passes. Strong fairness of
`BuildClues` says that a build tried again and again does not fail every time;
strong fairness of `SyncDone` that not every start is `--bootstrap-only`. A hung
subprocess is outside these assumptions: `subprocess.run` has no timeout.

`TaskBackend` assumes that a started thread and a caller inside a call go on,
and that handlers return or raise an `Exception`. Nobody has to call
`run_pending`: in threaded mode `TasksEnd` must hold without it.

`Investigation` assumes `WF_vars(Step)`: a workflow that has begun runs on in its
caller's thread, and collectors return or raise. Nobody has to begin one, and the
deadline need not pass. `LayeredWatch` assumes that the loop runs on, its
children end, and time passes; nobody has to post anything, the process need not
die, and nothing says that it is started again when it has. `ReviewLoop` and
`Enforcement` are called from outside and promise nothing without a call, so no
liveness is stated of them.

### What the refuted runs show

- `queue_double_claim`: two processes select one pending job, both upsert it
  CLAIMED and both execute it. A batch item can be reserved twice in the same way.
- `queue_drain`: a build of the first item leaves the second PENDING and calls
  `enqueue_unique_job` while its own job, with the same dedupe key, is CLAIMED.
  No follow-up is enqueued; the item waits for the next scheduled build.
- `queue_lost_rows`: a collector stores a row and exits with an error; the
  retry counts the row among `before_keys`, and nothing registers it.
- `investigation_enrich`: the runtime hands gateway, budget and policy to the
  builder with `set_runtime_controls`; `build` then calls
  `set_runtime_controls(policy=policy)` itself (`offline_clue_builder.py:88`), and
  a pipeline made from those arguments has no gateway. The enrichment that
  `docs/使用文档.md:284` lists for balanced investigations never takes place there.

### Known behaviour without a run

These are in the models too, and in the hazards of `PROJECT.json`; a run would
only restate one line of the code, or contradict nothing the repository says.

- Retrieval takes every cross-source entity of the graph, about whatever, so the
  cross-source requirement may be met by one the query does not name. `Retrieve`,
  `GraphClues`.
- A connector whose answer cannot be decoded raises through the gateway: the
  results and audit events of the batch are lost though actions were carried out
  (`docs/production_automation.md:100` says every decision is audited). `Send`.
- A word of the policy guard in one record ends the exploration of all, and the
  investigation with it, after hypotheses of earlier records were queued.
  `Explore`, `ExplorationRefused`.
- Two calls of the slang lifecycle that overlap on one term: each reads the record,
  merges and writes it whole, and the later write loses the other's evidence, stage
  and reviewer; a nomination may so take back an activation. `Read`, `Write`,
  `Stale`.
- While no term is active or in gray roll-out, explorations quote the similarity
  tool's seven built-in words as candidate slang. `Searched`.
- A save of a task's snapshot that raises leaves it and those after it unstored;
  `task_runs` then shows an earlier state for good. `StoreRaises`.
- Telegram's backfill reads a chat's oldest messages up to `history_limit`
  (`docs/telegram_collection.md:92` says the most recent); X asks for one page.
  `History`, `PageOf`.
- After a restart the watch never builds rows that were pending or not yet looked
  at. `Die`, `Restart`.
- The enrichment stage charges a call that the cache answered, or that the
  gateway denied because the time limit passed after `run_batch` had looked: it
  charges whenever the counters have not moved. `Settle`.
- Calls beyond the limits of the refinement batch deny the whole batch.
  `RefineBatch`, `Denied`.

### Mutations

Each property of a passing run is paired in `PROJECT.json` with a changed
definition (a dropped guard, an off-by-one, a missing release) under which TLC
finds it violated. The changed definitions stand before the ones they replace,
in the same module, and nothing else uses them.

## Proofs

All theorems are for arbitrary constants that satisfy the named assumptions of
their module; those of the queue (`ParamsAssumption`) say that the limits are
positive, the build is not a collector, and the reserved identifiers are not job
ids or rows.

`CollectionQueueProofs`, any number of processes, all faults. `RetryDiscipline`
and `CompletedHasClues` are not inductive: the queue writes back payloads it
read earlier. `QueueInv` adds what those payloads still guarantee at the write
(`CandOK`: a selected payload was PENDING with an attempt left; `ReadOK`: a
payload read at the end of a job has an attempt; `HeldOK`: the row of a held job
cannot have been recycled; `BatchOK`: rows being completed belong to a batch
whose clues are saved; `JobAt`: a process in a job step has a job). The proof
first shows which actions write which variable, so that each part looks only at
its writers. Theorems: `QueueInvariant`, `TypeCorrect`, `RetriesBounded`,
`CompletionSound`.

`SingleProcessProofs`, one process. Each theorem names the faults it excludes;
under each of those TLC finds the property violated. `OneActivePerKey` holds
under all faults, kills and restarts included (with two processes it is false). It
needs that the answer of `has_active_queue_job` still holds at the insert
(`CheckOK`), that payloads in memory equal their rows and claimed jobs are
distinct (`HandOK`), and that no other active job has the key of the job in hand,
up to the write that may put it back to PENDING (`CurrentOK`). `PayloadOK` and
`RowAt` say the same of the payloads' keys and of the batch items in hand. On
that invariant (`SingleInv`) stand:

- `OneProcessHoldsReservations` (no database errors, no kill): a reserved item is
  in the batch of the build in hand, which has yet to finish it (`ReservedOK`).
- `OneProcessOwnsReservations` (no database errors): with kills, it is in hand
  or belongs to a build that stays claimed and that nobody executes any more
  (`OwnedOK`), which keeps every other build from being enqueued.
- `OneProcessHistory` (no kill): between the two writes that end a job the row
  already says what the history will (`HistOK`).
- `OneProcessFinishesOnce` (no database errors): a job that fails is still
  CLAIMED when the failure is written (`FailOK`), so no step reopens what is
  finished.
- `OneProcessRegistersRows` (collectors return zero, no database errors, no
  kill): `RowsRegistered` is inductive on `SingleInv`.
- `OneProcessImplementsUniqueQueue` (no database errors; kills allowed): the slot
  of a key is read from the only active row with that key (`SlotBusy`), so each
  write of a row is one step of one slot or of one row's place in the inbox, and
  `OwnedOK` gives that no row is reserved when the build ends. This is the
  refinement without its fairness.

`LLMBudgetProofs`, any items, costs and limits. That charges stay within the
limits depends on where a call is: at `"sent"` the allowance still fits, because
nothing is charged and no limit changes until the answer; at `"settle"` the
charge fits because `run_batch` looked before the call and only the call itself,
which then shows in the counters, could have moved them. The invariant says so,
together with the accounting equations. Theorems: `LLMTypeCorrect`,
`LedgerSound`, `RequestsAreCharged`, `BudgetIsHard`.

`TaskBackendProofs`, any finite set of tasks, any callers and limits, with and
without threads. `HandledOnce` needs that whoever handles a task has it marked
RUNNING (`Holding`), that a PENDING task was never attempted (`Unattempted`), and
that a client in a call works on a task (`OnTask`). The refinement of
`OneShotTask` needs that the snapshots a caller still holds show states the task
has been in (`Copied`): then `Claim` is the task's start, `Finish` its end,
`Store`, and a save that wrote its row and then raised, the abstract `Show`, and
every other step a stutter. Theorems:
`TaskTypeCorrect`, `TasksHandledOnce`, `TaskImplementsOneShot`, `OutcomesStay`.

`InvestigationProofs`, any requests, limits and any finite set of sources, which
are numbered by their priority (`SourcesAssumption`).

- `OneBudgetHolds`: `OneBudget` needs that a preflight has asked nothing when the
  second controller is made, so that what was asked is what the last controller
  has charged (`BudgetInv`).
- `ReportsComplete`: at every `pc`, which stages are recorded already, and that a
  phase's result is still empty before the phase has run (`FlowInv`).
- Folds. `Gathered` folds `Accept` over the results of a layer in list order, and
  `Logged` folds a sum over the run log; both are recursive functions underneath.
  `NatSetInduction` is induction over the naturals with a set in the place of the
  predicate, from the library's minimality theorem; with it `OrderedList` shows
  that the list `InOrder` chooses exists, `Iteration` that a fold has one value
  after each element of its list, and `FoldsAccept` that what `Accept` keeps a
  fold of it keeps. The other theorems rest on these.
- `InvestigationTypeCorrect`: `TypeOK` is inductive, once `Gathered`, `Merged` and
  the builds are known to stay in their types.
- `RecordsAreAccounted`: while layers are gathered, every accumulated state is
  `Balanced` (as many records of a source as the log says, none beyond the limit)
  and comes from sources already taken out of `pending` (`AccountInv`).
- `SatisfactionHasEvidence`: a closed gap means that enough of what was counted is
  of high quality or cross-source (`ClosedGap`); since counts of the pool and of
  the semantic clues are added though both may hold the same clue, the invariant
  speaks of what exists rather than of sums, and says that the merge keeps it
  (`Supported`, `MergedSupported`, `EvidenceInv`).
- `ExplorationOfOwnBuild`: which records the payload of the shared builder is of,
  at each `pc`, and that gathering a layer that adds nothing leaves the payload's
  records those of the last build (`OwnInv`, `GatheredGrows`).
- `CollectionIsDisciplined`: the gap at hand is the one on what was found before,
  with the clues of a build of the records so far (`OnEvidence`); it is open when a
  layer is left while sources are pending, and no source of a layer that is done
  was skipped, unless time or room ran out (`DecisionInv`, `CourseInv`).

`ReviewLoopProofs`, any terms, records, batches, word lists and threads, and any
interleaving of their reads and writes. The record a thread holds may be long out
of date, so the invariant says of it only what stays true: a record in use has a
reviewer's mark, an active one that of its activation (`Marked`, `RecordsMarked`),
those of a record read are among what the term has ever had, and the record a
call decided on admits the call (`GoodStore`); `MergedFacts` derives the same of
what is written. What a run has found or will quote has its marks already
(`GoodRun`, `SourcesReviewed`), and marks only grow (`MarksGrow`), whatever else is
lost. An agenda is either that of a decision or holds nothing a decision leaves
(`GoodAgenda`), so a call that ends at its check takes no decision with it; every
other step turns what is owed into what is stored. `WriteInOrder` is the heart of
`StagesKeepOrder`: a store that is not stale is in order, and `OnlyWrites` says
that no other step writes records. With one thread no store is ever stale
(`Fresh`), which is `OneThreadKeepsOrder`: nothing is written over unread, and the
action property holds without its exception. Theorems: `TypeCorrect`,
`OnlyActivatedIsLearned`, `OnlyReviewedIsQuoted`, `EveryDecisionTaken`,
`StagesKeepOrder`, `OneThreadKeepsOrder`.

`EnforcementProofs`, any policies, batches, tokens, audited or not. Of the batch
in hand, what was sent and the statuses so far agree position by position
(`SentSoFar`, `ResultsTrue`), and its events are the last ones of the trail, in
order (`TrailSoFar`); of earlier batches nothing changes any more, because every
event and every request carries the number of its batch (`AnswersAccounted`).
Theorems: `TypeCorrect`, `OnlyClearedIsSent`, `EveryAnswerAccounted`.

`WatchProofs`, any texts, streams, page sizes, histories and intervals. The
cursors of the X collector in memory are ahead of the state file and behind the
posts, and everything on their last page is saved (`Behind`, with `Visiting` for
the streams that are left); `KnownAccounted` is inductive with the types.
Theorems: `CursorsStayBehind`, `KnownRowsAccounted`, `WatchTypeCorrect`.

Every invariant and action property of a passing run is thus also a theorem,
with the hypotheses named above where a property is false without them. Only
model-checked: `JobsEnd`, `RowsBuilt`, `TasksEnd`, `InvestigationsEnd`,
`RowsReachClues`, and the fairness of `UniqueQueue` in
`ImplementsUniqueQueue`. They depend on fairness, hence on `ENABLED`, which the
prover does not handle. The library's induction theorems take an operator as a
parameter, which no installed prover can instantiate; where a fold had to be
followed, `NatSetInduction` was enough. The refuted runs are counterexamples
and need no proof.

## Plan

What is left, in this order:

1. An abstract budget (a counter that is never overdrawn) that `LLMBudget`
   implements for each of its limits, with the change of limits as a step.
2. Several processes: what a double claim may do to attempts, items and slots,
   as a weaker abstract queue that any number of processes implements.
3. `SourceQuota`: the allocation of a round (`source_quota.py`) as operators
   checked against a reference definition, used by `Selections`.
4. Telegram's tail mode, with messages that arrive while the backfill runs.
5. Relations of the entity graph, which the semantic search follows.

## Not modelled

Cleaning, classification, extraction, the heuristics of slang and strategy, OCR
and the learned models, which are most of the lines of the repository, are
functions from text to text and scores: a model of them would either copy their
word lists or say nothing. The same holds for the parsing of feeds, pages and
configuration, and for reports, evaluation and delivery scripts, which read
files and write files. Of the pipeline, its stages are taken together as the
function from records to clues. The scores by which sources are selected and
their quotas are left open, as choices. Of the entity graph only what its clues
need is modelled; its relations and profiles, and the conversation sessions, are
sequential bookkeeping in one object. See the components in
`PROJECT.json`.
