# Verification of EvoQuantV3

TLA+ models of EvoQuantV3, the TLC runs that check them on small instances, and
theorems about them checked by TLAPS. Paths and line numbers refer to the
repository. `PROJECT.json` holds the same facts as a table: which definition
models which lines, what each run checks, the findings, the hazards and the
theorems.

Contents: [the system](#the-system) · [modules](#the-modules-and-the-code) ·
[runs](#the-runs) · [bounds](#bounds) · [fairness](#fairness) ·
[proofs](#proofs) · [findings](#findings) · [left out](#what-is-left-out) ·
[plan](#plan)

## The system

EvoQuantV3 collects market data, stores it, derives indicators from it and
serves both over HTTP. One supervisor process (`main.py`) runs every part as a
child process; the parts meet in three SQLite files: `exchange_data.db`,
`market_data.db` and `analytics.db`.

| Component | State | Operations | What is hard | What makes it correct |
|---|---|---|---|---|
| Supervisor, `main.py` | children with restart count, handled and disabled flags | launch, poll, restart with back-off, give up, stop in three phases | children exit and operators signal at any time; the back-off sleep blocks the loop | bounded restarts, one child's crashes leave the others alone, nothing outlives the supervisor |
| Logic pipeline, `logic_layer/logic_pipeline` | statuses and failed modules of a run, a pool of threads | level by level (`dag_scheduler.py`) or phase by phase (`service.py`) | failures, timeouts of calls that go on, cycles, hung modules | no module reads the tables of one that failed or is still writing; every module is accounted for; a failure holds back what depends on it and nothing else |
| Query cache, `api/query_cache.py` | entries with two limits, events in flight, published results, groups | get_or_fetch, background refresh, eviction, cleaning, invalidations | a call takes several locks one after the other | an invalidation is undone by nothing begun after it, waiters are woken |
| Exchange access, `exchange_data/circuit_breaker.py`, `client.py` | a breaker per exchange | guarded calls with retries | late results, shared breaker, swallowed exceptions | outages stop traffic, recoveries resume it |
| Database sessions, `database/db_manager.py` | a connection per thread and `DBManager`, its transaction, the file's write lock | execute, upsert, fetch, commit, record of a run | statements that fail in the middle of a transaction, threads that inherit one, several processes | locks are given back, `latest_*` rows do not go back, what finishes is committed |
| Collectors, `data_layer/*` | their tables | scheduled jobs, bootstraps, backfills, run-once modes, one stream | sources that fail, partial saves, restarts, rivals for the lock | as above |
| Event bars, `liquidations/`, `trades/` | buckets in memory, a bar table and its `latest_*` table | add, flush, poll, save | late events, flushes inside a bar, failed saves, restarts | an event counts once; both tables agree |
| Indicator modules, `logic_layer/*` | tables of `analytics.db` | read, compute, save, commit | steps that raise, rivals (a single runner beside the pipeline, threads left by a timeout) | what finishes is committed |
| HTTP routers, `api/routers/*` | none | SELECTs, one after the other | commits of other processes between two SELECTs; tables that do not exist yet | an answer shows one state of a table; endpoints come alive |
| Schemas, `db_manager.py` and services | which tables exist | created when a file is opened, or when a service first runs | API and services start independently | as above |

How they interact: the supervisor starts collectors, pipeline and API as
processes. Collectors call exchanges through the breaker and write
`exchange_data.db` and `market_data.db`. The pipeline reads these (attached to
the connection of `analytics.db`) and writes `analytics.db`. Endpoints read all
three, some through the query cache. There are no messages between processes:
the shared state is the files, so the hard cases are those of transactions.

## The modules and the code

| Modules | Model | Code |
|---|---|---|
| `Supervisor` | `supervise_modules`, `launch_module`, `_restart_child`, `stop_modules`, `handle_signal` | `main.py` 542–795 |
| `DependencyOrder` | what a pipeline run promises about order (abstract) | |
| `DagScheduler` | `topological_levels`, `run_dag`, `_execute_module` | `dag_scheduler.py` 36–140 |
| `PhaseOrder` | what a classic run promises about phases, skips and statuses (abstract) | |
| `ClassicPipeline` | `_run_classic_pipeline`, `_run_phase`, `_run_phase_parallel`, `_execute_task` | `service.py` 46–372 |
| `QueryCache` | `QueryCache` | `query_cache.py` 58–276 |
| `CircuitBreaker` | `CircuitBreaker`, `retry_on_failure` | `circuit_breaker.py` 34–98, `client.py` 129–168 |
| `AtomicSaves` | what the sessions of a file promise each other (abstract) | |
| `StoreSessions` | connections, transactions, write lock, snapshots, commit, close | `db_manager.py` |
| `StorePrograms` | the language jobs are written in; the recording of runs | `db_manager.py`, services |
| `ProgramRules` | rules a program may keep, as theorems need them; nothing of the code | |
| `ExchangeJobs` | jobs, commands and the stream of the exchange service | `data_layer/exchange_data` |
| `CollectorJobs` | options, onchain, alternative, tokenomics, macro and calendar collectors, their bootstraps | `data_layer/*_data` |
| `MarketJobs` | `collect_once` of the 34 services with a single job | `data_layer/*` |
| `LogicJobs`, `ContextJobs`, `AnalysisJobs` | the runs of the indicator, context and analysis modules | `logic_layer/*` |
| `EventBars` | liquidation stream, liquidation poll, trade poll | `liquidations/`, `trades/collector.py` |
| `Answers` | a request among commits and starting services | `db_manager.py` 3319–3333, `api/errors.py` |
| `EndpointPaths` | the language endpoints are written in | `api/dependencies.py`, `db_manager.py` |
| `ExchangeEndpoints`, `AnalyticsEndpoints`, `MarketEndpoints`, `LogicEndpoints`, `CurrentEndpoints`, `TimeSliceEndpoints`, `ContextBundles` | the endpoints and the context loaders under them | `api/routers/*`, services |
| `Schemas` | the tables opening each file creates, and those each service creates | `db_manager.py`, repositories |
| `MCPrograms` | all jobs, their programs and threads, and the lists of exceptions | |
| `MCProgramRules` | the rules evaluated for every program of the repository | |
| other `MC...` | small instances for TLC | |
| `...Proofs` | theorems and their lemmas | |

State machines have one layout: constants with a named assumption, variables
with the code's names, one action per critical section, statement or step of a
thread, the properties at the end. Operators whose comment begins with "Fault:"
stand next to the definition they distort and no specification uses them: put in
its place, they show that a property notices the fault.

**Supervisor.** A child is its position in `children`. `phase` and `pos` say
where the supervising thread is: an action per branch of the poll loop
(`PassOver`, `PollAlive`, `AcceptExit`, `TaskFails`, `GiveUp`, `BackOff`), one
for the end of the blocking sleep (`Relaunch`), one per phase of `stop_modules`.
`Exit`, `Signal` and `Tick` are the environment. `streak`, `asked` and `raised`
are history for the properties. Ages stop one tick past the window, where they
make no further difference.

**DagScheduler.** `StartLevel` is the head of the loop over levels, skips
included. `Call` and `Finish` are the pool's threads; `Collect`, `Timeout`,
`AllCollected` and `LeaveLevel` the scheduling thread's way through
`as_completed` and out of the executor, which waits for calls that were given
up. `NextLevel` is what the breadth-first search yields next. The pool may start
calls in any order, more than its queue would. `DependencyOrder` is the promise
without levels, pools or deadlines: enter a module when all it depends on
succeeded, report it once, give it up, or skip it for a failed dependency.
`DagScheduler` maps `entered` to the modules whose call has begun and `results`
to itself, and implements it.

**ClassicPipeline.** Serial phases walk the list with `place`; the parallel phase
goes through `Submit`, two waits and the executor's exit. A status stands for the
text of the result; only those that contain "error" count as failures.
`PhaseOrder` is the promise without threads, waits and counters: the modules of a
phase begin when those of the earlier phases are over, which means reported and
ended, or skipped; in a serial phase the modules listed before are over too, a
module of `Checked` is skipped because it is switched off or something it depends
on failed, and called because neither is so; a status is final. The documents
promise this of every module, which is `PhaseOrder` with all of them in
`Checked`; the code keeps it for the serial phases, so the mapping puts their
modules there, and `FailuresStayContained` is about the rest ([finding
1](#findings)). The mapping is `Called`: a call that waits in the pool has not
begun. All else of the state, the place in the list, `pc`, `failed_modules` and
the current phase, is hidden.

**QueryCache.** A value is the version of the row it was read from, 0 is no
value. An entry's age says which of its two limits has passed. A call moves
through `pc` values that mark the gaps between its critical sections: check,
wait, take, register, fetch, store, publish, release, signal. Refreshes are
threads of their own. Invalidation by prefix with dependencies clears one prefix
per step, as the lock is released in between. `floor` is history: the version of
a row when its key was last invalidated; so is `overtaken`: the threads that were
at work on a key when its floor moved, until they are done with it.

**CircuitBreaker.** One breaker and the threads that share it. Reading the
state, taking a slot and recording a result are separate steps, because they are
separate critical sections; a call ends well, with an error that is retried,
with one that is not, or with an exception the wrapper does not name. While the
exchange is down a call may still end well: several collectors return `[]` for
an exception. The failure count stops at the threshold, the only value it is
compared with.

**The store.** `StoreSessions` is one SQLite file in WAL mode. A session's
transaction is `none`; `begun`, when a statement failed after the implicit
BEGIN; `reading`, when a SELECT in it has fixed a snapshot; `stale`, when
somebody committed since; or `writing`, which at most one session is. Reads
outside a transaction leave nothing behind. A session belongs to a thread and a
`DBManager`, and a job that ends leaves it as it is, unless the job opened the
manager itself (`Fresh`).

What jobs do is data: the seven `...Jobs` modules translate each job into a
program over fetch, read, write, commit and control steps, in the order of the
code and with its exception handlers. `Optional` and `Either` are tests of data,
`Each` is a loop over answers, `Attempt` a `try` whose handler logs,
`Recorded` the wrapper that records a run whichever way it ends
(`_run_collection_job`). A write keeps its table and its kind: add, replace
whatever is there (`Put`), replace when not older (`Latest`), UPDATE (`Revise`),
DELETE. Rows are abstracted to the time of the newest one, for the tables in
`Tables`; `draft` is what the writing session sees, `stored` what is committed.
The run follows two `latest_*` tables and their histories, those that a job and
a backfill or bootstrap save at the same time; for the other tables it matters
only that they are written. A delete leaves the newest row or, where rows are
deleted by age, takes it too (`Empties`), while `latest_*` keeps its row;
`emptied` names such tables until the transaction ends.

`AtomicSaves` has no lock and no jobs: a session saves into a batch of its own,
begun with the rows stored then; a commit stores the whole batch, and only if
nobody has committed since it was begun; a rollback drops it. The mapping is
`Batches`: the writing session's transaction is the only batch there is, begun
with `stored` and holding `draft`.

**EventBars.** A behaviour follows one of three collectors: the stream adds
events to `buckets`, takes all out (`Flush`) and adds them to the rows there are;
the polls fetch recent events, no more than the limit of one answer, and replace
the rows of their bars. Events have a notional: a bucket without any, which the
stream drops, does not occur. A save is two upserts and a commit; it may fail
after any subset of its rows, which the stream leaves in an open transaction and
the polls commit with the record of their run. Rows are abstracted to their count
of events.

**Answers.** An endpoint is the set of its paths: sequences of SELECTs, each with
the file it goes to, its tables, and the distance to the handler that catches its
exception (`rescue`). The `...Endpoints` modules translate 541 endpoints of the
routers into expressions over `**` (one after the other), `\cup` (a test of
data), `Maybe`, `Each` and `Tried`. `Answers` follows one request: `Look` is a
SELECT outside a transaction, `Catch` and `Fail` are what a table that does not
exist leads to, `CreateTables` is `init_storage` called from the request,
`Commit` is another process, `StartService` a runner's first step. Services that
are to run are `Launched`. `changed` holds the tables committed since the request
looked at them, `torn` remembers that it looked again. `Schemas` says which
tables opening a file creates (`CoreTables`) and which each service creates
(`ServiceTables`).

`MCAnswers` composes this with the store: the tables that change are those the
jobs of the six job modules write (`MCWritten`). Which services run follows
`resolve_modules` of `main.py`: not those its registry lacks (`Unregistered`), nor
the one that is switched off by default (`FlaggedOff`), nor the lazy ones (`Lazy`),
which nothing starts later. All routers are modelled as registered; that the
tables of services in domains switched off by default are looked at by the routers
of such domains only, as `core/feature_flags.py:9` asks, is the assumption
`DisabledDomainsKeepQuiet`, which the run evaluates.

## The runs

| Run | Question | Properties | Distinct states |
|---|---|---|---|
| `supervisor` | two daemons and a task, crashing at any point, and an operator | `DisabledOnlyAfterStreak`, `FailuresAreIsolated`, `NothingOutlivesSupervisor`, `GracefulStop`, `ShutdownCompletes` | 852 thousand |
| `dag` | ten modules with a cycle and an unknown name, a hang | `NoCallBetweenLevels`, `OnlyCyclesAreLeftOut`, `RespectsDependencies` (refinement), `StatusDespiteHang` | 5 thousand |
| `classic` | five phases, one module switched off, one hanging | `PhasesDoNotOverlap`, `KeepsOrderOfPhases` (refinement), `StatusDespiteHungCall` | 107 thousand |
| `query_cache` | two callers and a refresh on two keys and one entry | `InvalidationTakesEffect`, `GroupsCoverStore`, `NoEventIsForgotten` | 2.9 million |
| `circuit_breaker` | three threads through outages | `FewProbes`, `ProbeDecides`, `Recovers` | 88 thousand |
| `store` | each of 126 jobs, alone or against a rival | `LatestOnlyAdvances`, `HistoryCoversLatest`, `LockIsGivenBack`, `NobodyWaitsWithLock`, `OnlyRereadersGetStuck`, `FinishedMeansCommitted`, `SavesAreAtomic` (refinement) | 757 thousand |
| `event_bars` | three collectors, late events, failed saves, restarts | `CountedAtMostOnce`, `LostOnlyInFailures`, `LatestWithinHistory`, `LatestStaysNewest`, `EventsGetSaved` | 323 thousand |
| `answers` | the paths of 541 endpoints among commits and starting services | `OneStatePerAnswer`, `EndpointsComeAlive` | 96 thousand |
| `classic_contained`, `circuit_breaker_stuck`, `store_stuck`, `event_bars_cut` | [findings](#findings) | one each, violated | |

Each passing run also checks the `TypeOK` of its module.

Three properties of the store and both of the answers name exceptions. Of the
jobs, `MCUnrecorded` may keep the write lock with an idle thread (small services
and the stream record no runs, so nothing commits after a failure), `MCSlow` hold
it while they wait for the network, `MCRereading` can get into a transaction
whose writes all fail. Of the endpoints, `MCRereading` can show two states of a
table in one answer and `MCTableless` look at tables that no schema of the
repository has; `EndpointsComeAlive` also excepts an endpoint as long as all that
is missing belongs to services that `main.py` does not start. The runs show that
nobody outside a list does it.

The three lists of jobs are not too long either: `MCAnswers` extends
`MCProgramRules`, so that the run `answers` also evaluates its assumptions, and
these say that each list is equal to the set of jobs whose program breaks the
rule the theorem about it needs (for `MCUnrecorded`, among the jobs that do not
close their session). That makes the
hypotheses of the theorems about the store facts about all 126 programs and the
13 `latest_*` tables of the repository, not only about the pairs a run looks at.

`CHECK_DEADLOCK FALSE` is set for the supervisor and the pipelines, which return
and then do nothing more, and for the event bars, where the clock ends.

## Bounds

- Supervisor: three children are the fewest with a daemon given up, one alive
  and a task; limits 2/2/1 instead of 10/3/1 keep priorities apart; a window of
  one tick tells exits inside it from those outside; exit codes 0 and -9, as
  other codes differ only in the exit code that is reported.
- DAG: the real graph's spine (fan-out, fan-in, a chain of four levels), a
  two-node cycle and a node behind an unknown name. Two workers make a hung call
  compete with its level.
- Classic: all modules of `_MODULE_DEPENDENCIES` in their phases, one of the
  parallel phase hanging, so that two workers leave one for its neighbours.
- Query cache: capacity one makes every store of the other key an eviction; two
  callers and one refresh reach every race of two leaders, a leader and a
  waiter, or a leader and a refresh; `MaxVersion` bounds writes, one being
  enough to tell old from new. Callers are interchangeable, hence the symmetry
  in a run that checks no liveness.
- Breaker: threshold and attempts 2, one slot as in the default configuration;
  three threads are the fewest for a probe, a waiting prober and a late result.
- Store: one file at a time, and a job with one rival (`MCDeployments`): what a
  property looks at, a lock or a snapshot lost to somebody else, takes two
  sessions. Rivals are chosen to write often and to fail; the three pairs added
  share `latest_*` tables. `MaxStamp` 2 tells older from newer; `MaxAgain` 1
  lets each run go round one of its loops once more, so that a loop's body meets
  what its previous round left behind.
- Event bars: bars of two instants, two bars (three for the cut), lateness of
  one instant, two keys: enough for a bar saved in parts, a late event after a
  flush, a half-done save of two rows, and events of the next bar in between.
- Answers: one request; one router at a time; at most one service not yet run,
  one whose tables the router asks for; one commit per request, between any two
  looks, which is what two states of a table take. Loops run up to two rounds.
  A request to `time_slice` names one domain or all, and at most two slices.

The theorems hold for all values of these constants.

## Fairness

- Supervisor: its thread runs (all sleeps are finite) and the kernel carries out
  a SIGKILL. No child is obliged to exit by itself.
- Pipelines: the scheduling thread and idle workers run, timeouts pass, modules
  outside `Hanging` return. A hung module is never obliged to.
- Breaker: collectors call again and again, requests end because ccxt has a
  request timeout, time passes. Outages need not end.
- Store (`store_stuck` only): jobs are scheduled again and a run goes on,
  because requests and waits for the lock have time limits.
- Event bars: the loop flushes every five minutes and a save goes on by itself.
  Nothing says that events come, saves fail or processes end.
- Answers: each service that `resolve_modules` leaves in `main.py`'s list
  eventually runs, since `main.py` starts these and restarts what ends, or runs in
  the pipeline. Those of `Unregistered`, `FlaggedOff` and `Lazy` need not.
- The query cache has only safety properties, so no fairness.

## Proofs

Assumptions are those named in the modules (`SupervisorAssumption`,
`DagAssumption`, `ClassicAssumption`, `QueryCacheAssumption`,
`BreakerAssumption`, `StoreAssumption`, `BarsAssumption`, `AnswersAssumption`):
types of the constants, positive limits, programs whose jumps and handlers stay
inside them. TLC evaluates each.

- `SupervisorProofs`: types; `GivenUpAfterStreak` from an invariant relating a
  child's restart count to the streak of quick exits, with the pending restart
  of the back-off and the launch loop as separate parts; `CrashesAreIsolated`
  from an invariant of how stopping can begin: a pass without an active child
  means all are given up or done; `NothingOutlives` and `StopsInOrder` from the
  order of the stop phases.
- `DagSchedulerProofs`: `DagInv` says failed modules are those with a bad
  status, levels gone through have statuses, what lies ahead is untouched, calls
  are under way for the current level only, which waits for nothing that has not
  succeeded. From it follow `NothingRunsBetweenLevels` and the refinement
  `DagImplementsOrder`, one lemma per action. `OnlyCircularLeftOut` adds that no
  module of a cycle is ever passed, and that the modules left over form a knot.
- `ClassicPipelineProofs`: `CallInv` says that in a serial phase one call is
  under way at most, the one waited for, and that a pool is left only when its
  last call has ended, from which `PhasesStayApart`. `CauseInv` adds that
  `failed_modules` lists the errors of the phases gone through and that the
  modules of later phases are untouched: what a serial module depends on no
  longer changes, from which `SkipsHaveACause` (`SerialSkipsHaveACause`, which no
  run lists, as the refinement says more). `ProgressInv` says what is over: in a
  serial phase the modules before `place`, in a parallel one, by its `pc`, those
  with a status; all modules of the phases gone through are reported and ended.
  With it `ClassicImplementsOrder` maps each action: `Call` and `Start` enter,
  `CallReturns` and `Finish` end a call, the two waits collect statuses, and
  `Submit`, `LeavePool` and `NextPhase` change nothing `PhaseOrder` sees.
  `ClassicAssumption` says what that needs of the tables in `service.py`: a
  module has one place in one phase, and serial modules depend on earlier
  phases.
- `QueryCacheProofs`: `NobodyForgotten` and `GroupsCovered` are inductive with
  the threads' roles; `InvalidationEffective` also needs that no floor is above
  the row's version, and that a thread that holds an older version than its key's
  floor is overtaken: then whatever is stored below a floor is the own result of
  such a thread. One lemma covers what all invalidations have in common.
  `OnlyQueriesBringVersions` proves an action property no run lists,
  `CopiesComeFromQueries`: whatever a step does to the entries, published results
  and threads' results of a key, each copy was there before, of the same key, or
  is the row's current version. So a version that was overwritten does not come
  back once its last copy is gone, with or without invalidations. What a step may
  do without reading a row is one predicate, `OnlyPasses`, and the cases are the
  steps that put, publish or read.
- `CircuitBreakerProofs`: `SlotsCounted` says that the holders of slots are
  under way and at most `_half_open_calls`, from which `ProbesAreFew` and
  `ProbesDecide` follow although state and slot are taken separately.
  `ClosedIsBelowThreshold` proves an invariant no run lists,
  `ClosedBelowThreshold`.
- `StoreProofs`, for any jobs whose programs are well formed: types,
  `OneWriterAtATime` (one session writes and only a writer's draft differs from
  what is stored), and from it the refinement `SavesStayAtomic`: a write begins a
  batch with `draft`, which is `stored` as long as nobody writes, and a commit
  finds no other batch. The other theorems have a rule on programs as their
  hypothesis, stated in `ProgramRules`:
  - `LatestAdvances`, `Guarded`: `latest_*` tables are saved through guarded
    upserts only, and nothing is deleted from them. The invariant is
    that a draft is never behind what is stored there.
  - `HistoryIsKept`, `Growing` and `HistoriesFirst`: histories are written by
    saves that keep newer rows and by deletes, and the only way to a save into a
    latest table is the save into its history. What is proved is of commits: one
    takes a history back only if its transaction has deleted the newest row. The
    invariant says that whoever is about to save a latest row holds the lock and
    has saved the history, and that no two runs share a session: another run, or
    a restart, then ends both saves or neither.
  - `CommittedAtTheEnd`, `AskingWithoutLock`, `LockComesBack` and
    `OnlyRereadersGoStale` are about every way through a program. Their rules
    ask for a certificate: a set of steps that contains those where something
    may be open (writes uncommitted, or for `LockComesBack` a lock somebody left,
    or for `OnlyRereadersGoStale` a transaction somebody left) and that the
    successors of its members stay in until a commit, along handlers too where
    failures count. That is what recursion over a program would compute; a
    program keeps the rule if some set does. The invariants (`Tidy`, `GivenBack`,
    `NothingReread`) say that a run whose session has the lock, or an open
    transaction, is at a step of its set; the last two also that what an idle
    thread keeps was left by a job that may. `StepCases` is the lemma they share:
    each step of a run succeeds or fails, as its operation may, and leaves the
    others alone except for making their snapshots stale. A restart ends the runs
    of whole processes only because pools of threads are equal or disjoint
    (`StoreAssumption`).
  That the programs keep the rules is evaluated by TLC (`MCProgramRules`), with
  the least certificates.

  Two theorems are about the language itself, for programs of any length.
  `ProgramsStayWellFormed`: its operators keep jumps and handlers inside.
  `RecordingGivesBack`: a body of any shape, recorded by `_run_collection_job`
  (`Recorded`) or in a `finally` (`Noted`), gives the lock back on every way
  through it, since all its failures come to the record and its commit; and
  sequences, branches and loops of programs that give the lock back do so too.
  The argument is one certificate per operator: the places of the parts moved to
  where the parts stand (`HeldThere`, `PartFlows`). With it `RecordedRunsGiveBack`
  and `RecordedRunsCommit` need no certificate of the recorded jobs, only that
  they are recorded. All jobs that keep their session are, in `ExchangeJobs`,
  but `exchange_cleanup`, whose program TLC finds to give the lock back, and
  those of `MCUnrecorded`. The theorems take one operator at a time: what they say
  of a program nested to any depth follows by induction over its text, which is
  not stated here, as the prover cannot do it.
- `EventBarsProofs`: `CountInv` relates history, buckets and batch to the events
  there were, for every cell; two more parts are needed, that what is stored
  does not exceed the draft (restarts) and that a poll's batch counts fetched
  events only. `LatestIsCovered` needs that at step "latest" the history already
  has the batch. `LatestNeverGoesBack` needs that the draft's latest row is
  never behind the stored one. `SavedIsKept` proves an action property no run
  lists, `SavedStaysSaved`.
- `AnswersProofs`: `Consistent` adds to the types that tables in `changed` have
  been looked at before `at`, and that a torn request is on a path that looks at
  a written table twice. `AnswersShowOneState` then follows under
  `OnceUnlessListed`: only listed endpoints have such paths. That hypothesis is
  about the constants; that it holds of the real endpoints is what the run
  shows.

Left to TLC: liveness (`ShutdownCompletes`, `StatusDespiteHang`,
`StatusDespiteHungCall`, `Recovers`, `EventsGetSaved`, `EndpointsComeAlive`), which
is beyond the prover. Every invariant, action property and refinement that a
passing run checks is a theorem. No module that is proved about uses recursion.

## Findings

Each is a violation run.

1. `classic_contained`: phase 2 of a classic run keeps failures to themselves in
   neither direction. It calls `feature_standardization` and
   `cross_asset_analysis` after `technical_indicators` has failed
   (`service.py:324` against 310), and a module that never returns is recorded as
   timed out while the modules of phases 3 to 5 never get a status, because
   leaving the executor waits for it (`service.py:147` against line 40 and
   `README.md:730`). The trace TLC prints has both; with `Hanging = {}` the
   property fails by the first alone.
2. `circuit_breaker_stuck`: a probe that ends with an unnamed exception leaves
   the breaker rejecting calls for good (`client.py:163`, `README.md:721`).
3. `store_stuck`: no rollback follows a failed write. After one lock timeout and
   a SELECT in the open transaction every write of that thread fails once
   somebody else has committed, the record of the failure included
   (`db_manager.py:3273`, `PROJECT_DOCUMENTATION.md:5059`).
4. `event_bars_cut`: a poll whose look-back begins inside a saved bar replaces
   the bar by its rest (`liquidations/collector.py:115` against line 84).

Contradictions of the query cache with its documents: the definitions are at the
end of `QueryCache`, and TLC refutes each when it takes the place of the
invariants in `QueryCache.cfg`.

- `OneQueryPerKey`: two calls that miss at the same time both find nothing in
  flight and both execute the query (`query_cache.py:142`–156 against line 50).
- `InvalidatedIsGone`: a query reads the row, the row is written and its prefix
  invalidated, and the query then stores what it read, with a full lifetime
  (`query_cache.py:168`; `README.md:585`, `logic_pipeline/README.md:43`).
- `NothingLeftOver`: each query leaves its result in `_inflight_results` whether
  or not anybody waits (`query_cache.py:173`), no invalidation clears it, not even
  `invalidate_all` ("clears the whole cache", line 203), and a later call that
  waits is given it when its leader fails or takes too long (line 150).

Contradictions of the API with its documents: the services that main.py does not
start are what `EndpointsComeAlive` excepts.

- Lazy services: `main.py:514` skips them and nothing calls
  `lazy_starter.request_start` or `get_pending_starts`, so that
  `governance_data`, `prediction_market_data`, `search_trend_data` and
  `nft_market_data` never run unless a user starts them, although they are
  "put off until the first request" (`README.md:531`). 22 endpoints of registered
  routers fail at each request.
- `main.py` has no entry for `bridge_flow_data`, `defi_protocol_data`,
  `orderflow_data`, `regulatory_data`, `social_sentiment_data` and
  `whale_tracker_data`, although by default it starts "the complete set" that
  names them (`data_layer/README.md:656`–658). With the other services of
  `Unregistered`, 56 endpoints of registered routers fail for good.

Seen while modelling:

- Supervisor: a daemon given up after ending with a negative code leaves the
  exit code at 0 (`main.py:775`, unlike `tests/test_main.py:228`). A signal
  during launch reaches the shutdown manager, which has no callbacks
  (`core/graceful_shutdown.py:19`, `README.md:517`). The restart window counts
  from the last start (`main.py:572`, `data_layer/README.md:662`).
- Pipeline: feature flags are looked at in serial phases only, so
  `liquidity_regime`, off by default, is called in phase 2 (`service.py:149`,
  `README.md:543`). A module skipped for its upstream does not count as failed
  in a classic run (`service.py:360`); in the DAG it does. The DAG's deadline is
  per level, `dag_scheduler.py:19` calls it a module's.
- Breaker: retries go on after the breaker opened (`client.py:140`).
- With the files split, which is the default (`tests/conftest.py:9` switches it
  off), some modules fail as soon as their sources have rows, or read nothing:
  `event_probability` asks `news_articles` for a column it has not
  (`service.py:68`), `unlock_impact` reads `klines` from `market_data.db`
  (`service.py:74`), `smart_money_conviction` and `defi_stress` call `.get` on a
  row (`service.py:72` and 69), `flow_decomposition` reads `orderflow`, which
  nothing creates (`service.py:47`). `news_sentiment` updates a view and swallows
  the error (`repository.py:76`).
- Saving: `cleanup_historical_data` (`exchange_data/service.py:2031`) deletes
  history by age and leaves `latest_*` rows alone, so the latest row of a symbol
  that was delisted stays without its history. `regime_detection` commits the
  transition before the state. The stream's latest row shows only the last part
  of a bar saved in parts. The limit of a trade poll (`trades/collector.py:107`)
  cuts its oldest bar as finding 4 does; so can the limit of the liquidation poll.
- `exchange_reserve_data`'s runner calls `service.build_scheduler`, which the
  service has not, and ends after `init_storage`, each time it is restarted.
- API: 28 endpoints look at tables no schema has (`TablelessEndpoints`).

## What is left out

- Supervisor: the registry, argument parsing, resource limits, metrics export.
- Pipeline: cron and interval schedules, caches cleared after a run (those of the
  pipeline's process, which nobody else reads).
- Query cache: start and stop of the cleaning thread, counters, fetchers that
  return `None`, refresh switched off.
- Breaker: the registry, metrics, client creation.
- Store: SQL and columns, rows beyond the newest time, schema creation beyond
  its commit, checkpoints of the WAL, PostgreSQL. Numeric calculators stand
  between a job's reads and writes and are left out; so are parsers of answers.
- Answers: only a table that is missing makes a request fail; missing columns,
  refused parameters and exceptions of the computation do not. All routers are
  registered, those switched off by default too. The routers `bundle` and
  `health` build on a dozen services each, whose paths multiply beyond TLC's
  reach; `ws` is a broadcast loop.
- Not modelled, with the reasons in `PROJECT.json`: response cache, request
  coalescer, pacing and rate limits, event bus and preloading, websockets,
  routing and backends, database and runtime helpers, decision handoff,
  monitoring, papers and scripts. Most are sequential, or no code calls them;
  pacing is about real time.

## Plan

Done, in this order: `Supervisor`, `DependencyOrder`, `DagScheduler`,
`ClassicPipeline`, `QueryCache`, `CircuitBreaker`, the store with its jobs,
`EventBars`, `Answers` with its endpoints and schemas; with proofs.

Next:

1. Columns in the schemas, so that the failures listed above become runs.
2. `RequestPacing`: spacing of request slots with an abstract clock.
3. What the query cache promises as an abstract specification (versions come from
   queries, those below a floor only from queries an invalidation overtook), with
   `QueryCache` shown to implement it.
