# A TLA+ model of CHA!N Quant Studio

This directory specifies the control logic of the repository, model-checks it with
TLC on small instances and proves part of it with TLAPS for every instance.
Paths below are relative to the repository; `gateway.py`, `workflow.py` and so on
are under `src/quant_signal_agent/studio/`, `state/...` under `src/quant_signal_agent/`.

## 1. Inventory

Quant Studio turns a user's specification of a Signal Definition or a Trading
Strategy into a reviewed, backtested and approved artifact, and runs approved
Signals on public market data. It has two halves that meet only through files and
a child process: the **studio** (who may release what) and the **signal agent**
(market data in, advisory notifications out).

| Component | State | Operations | Hard behaviour | What makes it correct |
|---|---|---|---|---|
| `WorkflowDag` (`orchestration.py`) | none: a DAG | `research` | optional nodes | gates come in their order, optional ones are omitted |
| `QuantStudio`, `ManagerAgent` (`workflow.py`, `manager.py`) | one `StudioProject` per id | 8 user commands, 8 staff callbacks | long sequences of rejections that reset different fields | evidence and approvals belong to the version at hand |
| Work orders (`CodexWorkOrderRunner`, `StudioService`) | `work_orders`, `dead_letters`, `user_blockers`, `codex_circuit` in one JSON file; the worker task | submit, adopt, decide, cancel, retry, resume; readiness, claim, execute, bind, checkpoint, requeue, finish; recovery passes | awaits, cancellation, crashes, quota, retries, partial writes | gates in order, no lost handoff, exact budgets, single owner, progress |
| `StrategyDatasetMaterializer`, `VersionedMarketDataService`, `ArtifactRegistry` | content-addressed datasets, two JSON registries | acquire, upsert | partial writes, corrupt registry | one verified version per key |
| `GlobalCodexCircuitBreaker` | state, open_until | open, close, is_open | survives restarts | one quota error stops all work |
| `SignalRuntimeController` | child process, metadata, selection | select, start, stop, waiter | selection outside the lock, late waiter | the metadata names the process that runs |
| `LocalOrderBook` (`state/order_book.py`) | levels, sequence, flags, generation | snapshot, delta, invalidate | out-of-order and duplicated deltas, a rule per exchange | a synchronized book is the venue's book |
| `CandleStore`, `MarketState`, freshness | windows of candles, contexts | apply | revisions, out-of-order events | a closed candle is final and applied once |
| `MarketDataSupervisor` (`state/supervisor.py`) | stream tasks, candidate set | initialize, run, reconcile, recover, resync, backfill | interleaved tasks, reconnects | no gap is evaluated, no closed candle twice |
| `SignalEngine`, `SignalDeduplicator` | statistics, seen occurrences, cooldowns | evaluate, accept | timeouts, bounded memory | one emission per occurrence and cooldown |
| `NotificationDispatcher` | bounded queue, worker, counters | publish, deliver, close | close against publish, retries | queued = sent + failed after close |
| Transports (`exchanges/common`) | the session, the limiter's window, DNS failures; socket tasks | request, retry, acquire, rebuild; stream, subscribe | locks held over sleeps, cancellation, sessions closed under others, reconnects | limits kept, no session leaked, calls end |
| Candidate universe (`universe/`, dynamic subscriptions) | pool, refresh time, membership at four places, update queues | rank, admit, reconcile, subscribe, stop | warm-ups that fail half way, updates against reconnects | one membership everywhere, stable for its residency |
| CoinGlass, backtesting, features, CLIs, dashboard | various | various | mostly data conversion | see section 8 |

How they interact: the HTTP application calls `StudioService`, which mutates the
JSON state through `JsonStateStore.update`; the worker task of
`CodexWorkOrderRunner` polls the same state, runs agent turns and writes the
outcome back; gate decisions put an order back into the queue; an approved Signal
is looked up in the artifact registry and started as a child process, which
builds the market-data half: an adapter's stream and REST answers go through
`MarketState`, an applied event is handed to the signal engine, an emitted signal to the
notification dispatcher. `QuantStudio` is the in-memory form of the same
workflow. `PROJECT.json` lists under `hazards` what is hard to test in each of
them, at its line.

## 2. Modules

| Module | Models | Rests on |
|---|---|---|
| `ReleaseGates` | the release contract: the phases of an item and the gates between them | - |
| `StudioWorkflow` | `QuantStudio` and `ManagerAgent` | instance of `ReleaseGates` |
| `MCStudioWorkflow` | the instance TLC checks | `StudioWorkflow` |
| `StudioWorkflowProofs` | theorems about `StudioWorkflow` | `StudioWorkflow`, `TLAPS` |
| `WorkOrders` | the durable work orders, the worker, the user and the operator, recovery | instance of `ReleaseGates` |
| `WorkOrdersInvariant` | what holds of one stored order; what older Gateways may have left | `WorkOrders` |
| `MCWorkOrders` | the order profiles of the runs | `WorkOrdersInvariant` |
| `WorkOrdersProofs` | theorems about `WorkOrders` | `WorkOrdersInvariant`, `TLAPS` |
| `OrderBook` | `LocalOrderBook`, the book part of `MarketState`, and how `MarketDataSupervisor` keeps it in step with a venue | - |
| `MCOrderBook` | the clock of the runs | `OrderBook` |
| `OrderBookProofs` | theorems about `OrderBook` | `OrderBook`, `TLAPS` |
| `MarketData` | `CandleWindowStore`, the rest of `MarketState`, and the supervisor's candle streams, gaps, backfills and recoveries | - |
| `MarketDataProofs` | theorems about `MarketData` | `MarketData`, `TLAPS` |
| `SignalEngine` | `SignalEngine.evaluate_event` in concurrent tasks, `SignalDeduplicator` | - |
| `MCSignalEngine` | the strategies and events of the run | `SignalEngine` |
| `SignalEngineProofs` | theorems about `SignalEngine` | `SignalEngine`, `TLAPS` |
| `Notifications` | `NotificationDispatcher` and the outcomes of `TelegramNotifier.send` | - |
| `NotificationsProofs` | theorems about `Notifications` | `Notifications`, `TLAPS` |
| `SignalRuntime` | `SignalRuntimeController` and the manager messages that start and stop a Signal | - |
| `SignalRuntimeProofs` | theorems about `SignalRuntime` | `SignalRuntime`, `TLAPS` |
| `Candidates` | candidate runtime, pool, reconciliation, dynamic subscriptions | - |
| `CandidatesProofs` | theorems about `Candidates` | `Candidates`, `TLAPS` |
| `RestTransport` | REST calls: limiter, retries, session and its rebuild, the open-interest poll | - |

### ReleaseGates

The abstract specification. An item is `absent`, `building` (implementation and
its review), at the `implementation_gate`, `researching` (dataset, backtest,
review, optimization), at the `backtest_gate` or the `live_gate`, `released`,
`failed` (with or without an implementation that is still approved) or
`cancelled`. One step may move several items, because the Gateway's recovery pass
does. Nothing here knows about retries, restarts or agents: the two state machines
below are shown to implement it.

### StudioWorkflow

Every method of `QuantStudio` is synchronous, so each is one action; a method that
raises changes nothing, so its checks are the action's guard. `project[p]` is the
`StudioProject` record;
`granted[p]` is a history variable that remembers which revision and which run the
user's last positive decisions were about. Implementations and runs are numbered,
and a review remembers what it reviewed: that is the only data the properties need.
Rejections and optimization approvals reset exactly the fields the code resets.

### WorkOrders

`JsonStateStore.update` never suspends, so the code between two real awaits is one
action. The awaits are an agent turn, the dataset materializer, the end of the
heartbeat in `_execute`'s `finally`, the start of the execution task and the polling
loop. The worker is therefore `down`, `polling`, `created` (task made, not started),
in a `dataset` or agent `turn`, `closing` (or `raising`) in the `finally` block, or
`dead` (the task ended with an exception and nobody restarts it).

- `order[o]` is the stored order. `version` is the bound `artifact_version`,
  `recorded` the version in its registry record, `made` counts its Strategy handoffs,
  `manifests` are those that left a manifest on disk, `report` is the first report in
  `reports/` that names it, `approvedFor` a history field. A review's verdict is what `_review_outcome` says of its report, which
  reads the first line and every CHECK line; `unchecked` is a report whose first line is PASS
  and which lacks checks. The recovery passes ask `_review_passed`, which reads the first line
  only: `FirstLinePasses`. `delayed` stands for a `retry_not_before` in the future, `error`
  for the class of `last_error` that recovery looks at.
- User and operator: `Submit`, `Adopt`, `Decide` (all four gates), `Cancel` (its
  four effects, by the position of the execution), `RetryDeadLetter`,
  `ResumeAfterQuota`.
- Worker: `Claim`, `Begin`, the turns (`StrategyTurn`, `BacktestTurn`,
  `ReviewPasses`, `ReviewFails`, `ReviewIncomplete`, `OptimizationTurn`,
  `MaintenanceTurn`, `DatasetReady`, `AcquisitionError`), their failures
  (`TurnTimeout`, `TurnQuota`, `TurnError`) and `EndExecution`. A handoff
  of `StrategyTurn` may or may not leave a manifest, and the version is bound as
  `_bind_artifact_identity_from_evidence` does: the only manifest; of several, one the
  handoff names, or none; without one the order stays unbound and its record
  (`RecordedVersion`) names no version.
- Gateway: `GatewayStart`/`StartWorker` with the recovery passes in the order of
  `_run`, `GatewayStop`, `Crash`, `CloseCircuit`, `DelayElapses`; `ReadinessFails` and
  `ReadinessReturns` are the login probe, whose request to the user is `Login` in `blocked`.
- Older Gateways: `Legacy` are orders a store may hold at the first start, such as a gate
  that shows a failed review or a dead letter whose review had passed. `RecoverFailed` and
  `RecoverPassed` repair them. They are marked `inherited`, because the release contract
  is about orders this Gateway created; a restored dead letter keeps its used-up budget.

Abstractions to know of. `create` and `modify` are one operation. An interrupted strategy or
backtest turn may or may not have left its manifest or report. `_finish`'s store
write and registry write, and the two store writes of a quota error, are one step.
One recovery pass, the migration of orders without `optimization_required`, is left out.

### OrderBook

One instrument, on a venue chosen at the start. The venue is external: `books[k]` is
its book after update `k`, and an update's number is its sequence number. Only one side
is modelled, since the code treats bids and asks alike.

- The stream. `VenueAnnounces` sends one delta for all updates since the last one
  (Hyperliquid: a whole book); `queue` holds what is received and not yet processed,
  with the end of the connection behind it. The delta's first, previous and final
  sequence are `prev + 1`, `prev` and `final`, as each adapter passes them.
- `LocalOrderBook`. `AcceptsSnapshot`, `FromSnapshot`, `FromDelta` and `Invalidate` are
  its methods. A delta is `Ignored`, `Applied` or `OutOfSync` by the rule of its venue:
  Binance perpetual and spot (`BinanceReplays`, `BinanceFollows`, first and later
  deltas), OKX's previous sequence, a comparison for the rest.
- Snapshots have `Depth` levels. `Determined(at)` are the prices whose level such a
  snapshot settles; `known` remembers them for the last one applied.
- Time. `Time[k]` is the venue's coarse timestamp of update `k`. REST answers carry
  another clock on three venues (`RestTimes`): the client's on Binance spot, that of the
  answer on Binance perpetual and Bybit.
- The supervisor. `phase` is where the consuming task is. Binance's lane waits for a
  delta (`buffering`), asks for a snapshot (`snapshot`) and then processes the buffer;
  its gaps are resynchronised in place (`resync`). The other venues give the connection
  up, recover by `mode` and connect again. A REST request and its answer are two steps,
  and the answer shows any state the venue had in between. `WarmFromCriticalLane` is
  the other Binance lane, which applies a book it read long before.
- `candidate` marks an instrument of a candidate supervisor, on Binance spot only, since
  the dynamic perpetual adapter has no order books. `ReconcileCandidate` applies a REST
  snapshot as `reconcile` does, without asking for a bridging delta: the book is synchronized
  at once. It may happen again later, when a symbol was removed and added; a delta missed
  meanwhile is a `RejectEvent`. A symbol added while the depth lane runs has no queue there
  (`state/supervisor.py:1001`); that its deltas are dropped until the lane connects again
  is the model's candidate that does not connect.
- `observed` holds, for each kept observation, its generation and the number of gaps
  (`gaps`) and of ended connections (`conn`) when it was made; the last two are history.

Abstractions to know of. A full recovery does to the book what a reconnect does. The
bootstrap path without lanes is used by no adapter of the repository and is left out,
as is OKX's sequence reset. Sampling
and the limits of the deques only make `observed` smaller. Freshness limits are compared
in `SignalEngine`.

### MarketData

One instrument and one feed per behaviour, since feeds share no state: candles of an
adapter that recovers until it succeeds (`adapter`), of an isolated lane that goes on after
a failed recovery (`lane`), of an interval that is only refreshed (`baseline`), or one kind
of context data.

- A candle is its open time in units of its interval, whether it is closed, and whether
  its values are final. `Upsert` is `CandleWindowStore.upsert`; `Applied` applies one
  candle and counts the closed ones that reach the event handler, `ApplyMany` the rows of an
  answer in turn. `ContiguousClosed` is what a strategy gets: the newest of the closed
  candles (`ClosedOf`), if none is missing between them.
- The venue is external: it updates and closes its candle (`VenueUpdates`,
  `VenueCloses`); a connection may be lost at any moment with what is under way.
- The consuming task warms up, connects, processes or rejects events, detects a gap and
  asks for the missing candles, notices the end of its connection and recovers by `mode`.
  A REST request and its answer are two steps (`asked`, then `Rows`), so that a candle may
  close in between. `byClock` are adapters that compare a row's close time with the local
  clock because the venue sends no closed flag.
- `ApplyContext` and `ApplyTrade` are the other branches of `MarketState.apply`, with their
  comparison of times and sequence numbers, the merge of partial tickers, the history of
  open interest and the bounded memory of trades; `mark` is the freshness mark.

### SignalEngine

`evaluate_event` awaits one strategy after the other, each bounded by a timeout, with a
`now` read before the first. `Receive` runs up to the first strategy that is ready;
each outcome (`EvaluationTimesOut`, `EvaluationFails`, `EvaluatesToNothing`,
`CandidateInvalid`, `CandidateSuppressed`, `CandidateEmitted`) runs up to the next.
`EvaluationCancelled` is the end of the task in its await: `evaluate_event` catches
`TimeoutError` and `Exception` only, so the strategies that remain are never decided.
`abandoned` counts them; it is a history variable.
`seen` and `last` are the deduplicator's memory of occurrences and its cooldowns.
A strategy is its place in the registry, and a task knows the places it has still to
evaluate. Requirements are sets of kinds, venues and intervals; `history` stands for the candles a
venue has. One symbol, and at most one candidate per evaluation.

### Notifications

`publish_notification` never waits (`Drop`, `Enqueue`). The worker takes an item, paces,
sends and retries (`Take`, `Pace`, `Succeed`, `Retry`, `Fail`, `TryAgain`); `close()` is a
task of its own that joins the queue, puts the sentinel, awaits the worker and closes the
transport, and `Start` may follow. `Responses` are what `TelegramNotifier.send` tells
apart; most of them leave open whether the recipient got the message. `TaskDone` wakes
`join()` for good, also when something is queued before the caller runs again.

### SignalRuntime

A manager message is a task: it reads the approved versions, awaits the router
(`ReadState`, then `RouteStart`, `RouteStop`, `DenyStart`, `DenyStop`, `Clarify`), and
start and stop wait for the controller's lock, for the process factory (`Spawned`,
`SpawnFails`) or for the process to end (`StopReturns`, `StopTimesOut`). `metadata` and
`shutdown` are the two files, which survive the Gateway; `_watch_process` is
`WatchProcess`. A process number is its birth marker, while `Pids` are used again by
`ForeignStarts`. The runtime process exits when it likes: what an operator installs is not
in the repository, and the public `main.py` does not read the shutdown file. Approvals
arrive by themselves (`Approve`); `WorkOrders` shows what they stand for.

### Candidates

Rankings are arbitrary sets of symbols. `UpdatePool` keeps what is ranked or still within
its residency and admits newcomers while there is room; a membership that changed is
reconciled if the refresh interval is over. `reconcile()` warms the new instruments up
over many awaits and then commits in one step (`PrepareSucceeds`), or rolls back
(`PrepareFails`). Each of the adapters has a stream: the update queue exists from
`Connect`, before the first subscription is sent (`Opened`); `SendUpdate` takes an update
off the queue, and `Drop` may lose it with the connection. `RequestStop` may come at any
moment. One lane per adapter stands for all of its lanes.

### RestTransport

A caller with retries and the open-interest poll, which has none, share one limiter and
one session. A task waits for the limiter's lock, sleeps inside it, waits for the session
lock, for its answer, for a session to close, or in a delay, and may be cancelled at each
of them. There is no clock: `calls` and `granted` hold ages up to the limiter's period. A
closed session nobody uses stands for the next one to be made, so the state space is finite
without a bound on calls. Answers are told apart as the code does: `Answered`, `Refused`
(4xx), `Unavailable` (429, 5xx, with or without Retry-After), `ConnectionFails`,
`DnsFails`, `DnsFailsAgain`.

## 3. Runs

| Run | Expect | What it shows |
|---|---|---|
| `studio_workflow` | pass | the properties of `StudioWorkflow`, and that it implements `ReleaseGates` |
| `orders_gates` | pass | `StoreIsSound`, `ApprovalsInOrder`, `GatesShowReviewedWork`, `BudgetRespected`, `ReleaseIsRegistered`, refinement: one order of any profile, all failures except quota, operator retries, adoption, a crash |
| `orders_recovery` | pass | `StoreIsSound`, `ApprovalsInOrder`, `NoGateOnFailedReview`, refinement under quota errors, stops, crashes, resumes, recovered reports and what older Gateways left |
| `orders_queue` | pass | `WorkingIsOwned`, `WorkWaitsForCodex` and, under `Fairness`, `SettledWhileWorkerLives` for two orders with cancellation at every point, quota errors and a missing login |
| `orders_cancel_kills_worker` | violation | cancelling the running order ends the worker |
| `book_sync` | pass | the properties of `OrderBook` on four venues: exact, never back in time, bridged (but for candidates), re-read before use, no observation across a gap |
| `market_data` | pass | `CandlesAreExact`, `ContextIsExact`, `NothingTakenBack` for every feed with lost and refused events and failed requests |
| `signal_engine` | pass | `DecidedOnce`, `LatenessBounded` and, under fairness, `EvaluationsEnd` for two tasks and two strategies |
| `notifications` | pass | `NothingLost`, `DeliveredInOrder`, `DeliveriesEnd` with retries, restarts and two closes |
| `signal_runtime` | pass | `OneKnownRuntime`, `StopsAsMeant`, `MessagesAnswered` for two interleaved messages, reused process ids and a Gateway that stops or crashes |
| `candidates` | pass | `MembershipAgrees`, `MembershipIsSteady`, `StreamsSettle` with failing warm-ups, lost connections and a stop |
| `rest_transport` | pass | `LimitsKept`, `RequestsGoOn` with every failure and a cancellation at every wait |

Several properties are conjunctions of named parts, each with its own comment beside it:
for instance `CandlesAreExact` is `HandledOnce`, `ClosedIsFinal` and `HistoryIsExact`
together with the module's type invariant.

The violation run states what the code's own reply says; `PROJECT.json` quotes the lines
under `findings`. The passing runs leave out what is listed below as a disagreement of the
code with itself, so that they show what holds otherwise: `orders_gates` and
`orders_recovery` do not retry an order from the `optimize` stage, `orders_gates` has no
quota errors (the other properties are checked with quota errors in `orders_recovery`), and
both let the materializer resolve both kinds (a constructor parameter of the runner).
`book_sync` leaves out Bybit, and `orders_queue` has no maintenance orders.

More disagreements were met while modelling and are recorded here without a run. The
models contain the behaviour; the properties exclude it where they say so.

- optimizer recovery (`gateway.py:1004`) judges by an error text and checkpoints that may
  stem from an earlier round: after approvals were withdrawn it can put the order back into
  research, and it refunds an attempt;
- a report recovered after a quota error becomes evidence with a verdict of its own
  (`gateway.py:1212`): the order reaches its gate without an independent review, also when
  that report had failed its review before;
- the recovery pass for failed reviews (`gateway.py:1055`) asks `_review_passed`
  (`gateway.py:2214`), which reads the first line only, while a live review goes through
  `_review_outcome` (`gateway.py:2202`), which calls a PASS without its CHECK lines
  incomplete: an inherited order stays at its gate with such a report. The comment
  of the pass speaks of failed reviews; `NoGateOnFailedReview` therefore asks
  the first line of an inherited report and every check of this Gateway's own;
- a Strategy handoff without a manifest is accepted: the order stays unbound, its gates
  open, and its registry record names no artifact and no version (`gateway.py:1952-1972`,
  `2290-2299`, `2342-2349`; `tests/test_studio_gateway.py:796-931` runs that path). If the user
  required no backtest, it reaches live approval like that, and `_approved_signal_versions`
  never offers it for a start; with a backtest, its dataset refuses it.
  `ReleaseIsRegistered` says that the record and the binding agree in either case;
- a candidate's reconciliation applies its REST book without asking for a bridge
  (`state/supervisor.py:328`), although the adapter requires the stream bootstrap: the
  book is usable before any delta, and its first delta is taken by the rule for a bridged
  snapshot whose clock is the client's, so its timestamp may go back. `BridgedBeforeUse` and
  that one step of `NeverGoesBack` exclude candidates;
- a cancellation inside `evaluate_event` leaves the strategies that remain undecided
  (`signals/engine.py:115`). The supervisor cancels so when the depth lane of a Binance
  adapter ends for one instrument: the bridges of the others are cancelled wherever they are
  (`state/supervisor.py:1059-1064`). `NothingSkipped` counts what is abandoned, and says
  that nothing else is skipped;
- the version bound to an order stays the first one (`gateway.py:1925`), so that a
  release may be registered under a version the last review was not about;
- on Bybit a delta that was refused for its timestamp leaves a synchronized book without
  its levels (`state/order_book.py:169`), because its rule has no lower bound;
- observations from before a reconnect of the Binance lane stay readable
  (`state/supervisor.py:890`), since only an invalidation starts a new generation;
- a candle that closes between the REST answer of a backfill and the stream's next event
  stays open in the window (`state/supervisor.py:1256`) until a later recovery, although
  `.agents/skills/exchange-data-integrity-review/SKILL.md:19-20` speaks of a rewarm that
  completes before evaluation resumes; `HistoryIsExact` shows that readers of closed
  windows are not misled by it;
- `select_signal` (`gateway.py:466`) takes effect outside the runtime's lock, also for a
  process being created, although its docstring says "for the next start"; a start of one
  Signal while another runs is answered as a start of the second;
- a crash in the process factory leaves a runtime nobody knows of (`gateway.py:521`),
  although line 443 says "Own one advisory runtime process"; a start after a stop that
  timed out returns the process that is still shutting down;
- `CandidatePool`'s cut to its capacity (`universe/pool.py:42`) never removes anything,
  because newcomers are only admitted while there is room;
- Retry-After is cut to the policy's longest delay and known only to the call that got it
  (`exchanges/common/retry.py:44`); answers with 4xx and 429 do not reset the count of
  consecutive DNS failures (`exchanges/common/http.py:131`); a grant of the limiter may be
  used later than its period (`http.py:119`), so `RateKept` is about grants;
- `accept()` deletes cooldown entries that are over by the time of its caller
  (`signals/policy.py:55`), and that time was read before the awaits: with three events, an
  evaluation whose time is earlier finds no entry and emits a fingerprint again although, by
  the two times `accept()` compares, the cooldown still runs. This was met while proving;
  `CooldownSpaced` states what holds, that the second signal is handed on no sooner than a
  cooldown after the time the first was judged by;
- the depth lane knows the instruments it was started with and drops the deltas of later
  candidates (`state/supervisor.py:1001`); `rank()` does not look at the age of a ticker
  (`universe/binance.py:234`);
- a dataset result kept across an operator retry with another version is reused
  (`gateway.py:1479`), and a state file or registry that cannot be parsed is read as empty
  and overwritten by the next update (`gateway.py:209`, `studio/orchestration.py:245`);
- `approve_implementation` announces the Backtest Agent as the next agent also when no
  backtest was requested (`studio/manager.py:135`), although `_STAGE_OWNER` (line 29)
  makes the Manager the owner of the next stage;
- a Signal with a requested backtest fails at its dataset with the default
  materializer (`studio/strategy_data.py:146`), although `config/STUDIO_WORKFLOW.md:68`
  gives it the same research nodes as a Strategy;
- a cancellation that arrives as the execution's last await completes is acknowledged
  (`gateway.py:3457`) and has no effect (`gateway.py:1633`);
- an optimisation proposal the user never accepted is still in the result a retried
  Strategy turn is given (`gateway.py:1508`, `1869`), although
  `config/STUDIO_WORKFLOW.md:108-110` says only the approved scope is sent;
- an adoption order fails once its review has passed (`gateway.py:2297`): the adopted
  manifest names the order that created it, and `_record_artifact` raises, although
  `gateway.py:3143` promises a review of an existing artifact;
- a maintenance order that completes its turn stays "working" until a restart queues it
  again: its result is kept in a local variable (`gateway.py:1581`);
- an exception in a backtest turn marks the order failed without its results
  (`gateway.py:795`), so a remediation starts again at Strategy, although
  `config/STUDIO_WORKFLOW.md:122-123` lets it resume at Backtest;
- `notional_within_range` reports a range as fully covered by its outermost level
  (`state/order_book.py:55`), although levels between the cut of a snapshot and a level
  a later delta brought may never have been received.

`CHECK_DEADLOCK FALSE`: a released project, an order waiting for a user who never
decides, an idle dispatcher and a stopped runtime are legitimate ends, and the bounds of
a run end its behaviours.

### Bounds

`MaxRevisions`, `MaxRuns` (studio) = 3: a field left behind by round one can meet
round two and be compared with round three. Projects do not interact, so one is
enough. `MaxVersions`, `MaxRuns` (orders) = 2: one stale and one current value.
`MaxAttempts` = 2 or 3 and `SameIssueLimit` = 1 make both limits reachable, each
before the other. Two orders where the queue matters, one where only the record
does. `MaxFaults` bounds crashes, stops and quota errors: up to three in
`orders_recovery`, so a recovery can be interrupted and recovered again. One finding
identifier is enough, because counts are kept per identifier and a second one only
delays the limit.

`book_sync`: two prices and `Depth` 1, so that a snapshot settles one price and cuts the
other off, and two quantities, so that a level comes and goes. Four updates: a book that
is shown, a delta that spans more than one update, one that is missed and one after it.
Updates 2 and 3 share a timestamp (`CoarseTime`). Two faults allow a recovery that fails
and is repeated, a lost delta before a reconnect, two refused deltas (`StaleThreshold` 2), or
a second reconciliation after a missed delta.

`market_data`: a window of 4 and a warm-up of 3 with 6 candles, so that a backfill can be
too short for the gap and a window overflow; two faults let a failed recovery be followed by
another loss. Context data has two times, three sequence numbers and four events: an event
can be older, equal with another sequence, a repetition or a correction.
`signal_engine`: two tasks with two events (any number in the theorems), a memory of one occurrence (so that one is
evicted), timeouts, cooldown and age of one unit each, and time up to 3, so that a limit can
be met, missed by one and passed during an await. `notifications`: three publications for a
queue of two, two attempts, two closes with a restart between them. `signal_runtime`: two
messages at once out of three, two signals, two processes and two process ids, so that an id
is used again while a record still names it, and one stop or crash. `candidates`: three
symbols for a capacity of two, a residency longer than the refresh interval, one failed
warm-up or scan and two lost connections, for two adapters. `rest_transport`: two grants in
a period of three with two tasks, three attempts, a rebuild after two DNS failures, and
Retry-After values below and above the longest delay; calls and time are unbounded.


### Fairness

Fairness is stated for what the code, the event loop or a timeout does by itself, never for
users, operators, strategies or venues.

- `WorkOrders`: `_run` polls and claims, an execution task starts and ends, a turn ends
  by its result, its error or the `wait_for` timeout, delays and the circuit's recovery time
  pass, and the Gateway is started again by its operator. Nothing is assumed of which
  outcome a turn has. The operator's retries are not in `orders_queue`: the queue is claimed
  in list order, so an operator who retries the first order for ever starves the second.
- `SignalEngine`: time passes and `wait_for` fires; strategies may hang.
- `Notifications`: the worker runs when it can, a request ends because the client session
  has a total timeout, time passes, and the caller of `close()` continues.
- `SignalRuntime`: the router answers, the process factory returns or raises, `stop()` ends
  at its timeout. The lock is a fair `asyncio.Lock`, hence strong fairness of acquiring it.
- `Candidates`: warm-up requests and connection attempts end, updates are sent, consumers
  are cancelled. Snapshots and stops need not come.
- `RestTransport`: time passes, a request is answered or times out, a session closes, and
  the two locks are handed on in order (strong fairness).

## 4. Proofs

`StudioWorkflowProofs` proves, for every set of projects and all bounds in `Nat`:

| Theorem | States |
|---|---|
| `TypeCorrect` | `Spec => []TypeOK` |
| `StagesPresupposedHolds` | `Spec => []StagesPresupposed`, the inductive invariant |
| `EvidenceIsCurrentHolds` | `Spec => []EvidenceIsCurrent` |
| `ReleasedAsApprovedHolds` | `Spec => []ReleasedAsApproved` |
| `StartIsNeverRefusedHolds` | `Spec => []StartIsNeverRefused` |
| `ReleaseIsFrozenHolds` | `Spec => ReleaseIsFrozen` |
| `ImplementsReleaseGates` | `Spec => GatesRespected` |

The only assumption is `BoundsAssumption`. `EvidenceIsCurrent` is not inductive: that
the implementation at the user's gate was reviewed, that the run under review is one
of the current revision, and that research stages belong to projects with a
requested backtest are facts of earlier stages. `ProjectInv` states, stage by stage,
what holds of one project; each action changes one project, so the proof has one
lemma per action about one record, and the three properties follow from `ProjectInv`
without another induction. The refinement proof maps stages to phases and shows for
every action that it is a move or a stutter of the contract; it needs `ProjectInv`
for the moves that depend on the user's backtest choice.

`OrderBookProofs` proves, for all venues, prices, quantities, depths, clocks that do not
run backwards, thresholds and bounds:

| Theorem | States |
|---|---|
| `TypeCorrect` | `Spec => []TypeOK` |
| `BridgedCorrect` | `Spec => []BridgedBeforeUse` |
| `RewarmCorrect` | `Spec => []RewarmedBeforeStreaming` |
| `GapForgets` | `Spec => []NoObservationFromBeforeAGap` |
| `ForwardOnly` | `Spec => NeverGoesBack`, when Bybit is not among the venues |
| `BookCorrect` | `Spec => []SynchronizedBookIsExact`, when Bybit is not among the venues |

The assumptions are `BookAssumption` and `TimeAssumption`; TLC evaluates both. `IInv` adds to
the properties what the queue holds (events of updates the venue has made, no snapshot on
Binance, no delta on Hyperliquid), where a book's sequence and timestamp come from, and
what each phase presupposes: a venue that is down with nothing to recover has a
synchronized book, which is why the stream may resume. `BookSteps` then shows that
whichever action is taken, a book is left alone, invalidated, replaced by a snapshot or
moved by a delta that applies, and `AppliedConnects` that such a delta starts no later
than the book and ends no earlier, venue by venue. Exactness follows by induction with
`BookIsExact`, which also holds of unsynchronized books: a gap stops a book, it does not
spoil it. `BridgedBeforeUse` is about every Binance book that is not a candidate's, and
`NeverGoesBack` leaves out the first delta on a candidate's unbridged book (section 3).
Bybit is excluded because its rule has no lower bound (section 3); its REST and stream
timestamps are different clocks, so `ForwardOnly` excludes it too.

`NotificationsProofs` proves `NothingLostHolds`, `Spec => []NothingLost`: for every queue
size, retry policy, pacing interval and number of publications and closes. The only
assumption is `DispatcherAssumption`. `NothingLost` is not inductive. `IInv` adds where the
sentinel stands: once in the queue while `close()` awaits the worker, with nothing but
late notifications behind it, and nowhere at other times (`QueueInv`); that the worker ends
for `close()` only, and that `close()` has a worker while it joins (`CloseInv`); and that
the worker holds a notification exactly while it delivers (`WorkInv`). The counters then do
the rest: when `close()` finds nothing unfinished, `Accounting` says that the queue is
empty, so the sentinel has room at once and stands first. One lemma per action keeps `IInv`.
`DeliveredInOrderHolds` (`Spec => DeliveredInOrder`) rests on `OrderInv`: the queue is in the
order of publication, around the sentinel, and everything in it is newer than what is being
delivered and than what the recipient has got, also by requests that were reported as failed.

`WorkOrdersProofs` proves, for any orders, order profiles, bounds, retry budgets and faults:

| Theorem | States | Under |
|---|---|---|
| `StoreIsSoundHolds` | `Spec => []StoreIsSound` | |
| `ReleaseIsRegisteredHolds` | `Spec => []ReleaseIsRegistered`: record and binding agree, also when there is no version | |
| `WorkWaitsForCodexHolds` | `Spec => []WorkWaitsForCodex` | |
| `BudgetRespectedHolds` | `Spec => []BudgetRespected` | nothing inherited |
| `ApprovalsInOrderHolds` | `Spec => []ApprovalsInOrder` | no optimizer retry |
| `NoGateOnFailedReviewHolds` | `Spec => []NoGateOnFailedReview` | no optimizer retry |
| `GatesRespectedHolds` | `Spec => GatesRespected` | no optimizer retry |
| `GatesShowReviewedWorkHolds` | `Spec => []GatesShowReviewedWork` | no optimizer retry, no quota error, nothing inherited |
| `WorkingIsOwnedHolds` | `Spec => []WorkingIsOwned` | no maintenance orders |

The conditions are those of the runs and the disagreements of section 3: without them the
code itself breaks the property. An operator who retries an order at its optimizer stage
meets the recovery pass that judges by an old error text; after a quota error a report
from disk counts as reviewed; a dead letter an older Gateway had misread returns to its gate
with its failures used up; a maintenance turn's result is dropped and the order stays
"working". `LegacyAssumption` says what an older Gateway may have left: well-formed
records that let nothing past a gate the user had not approved. TLC evaluates it in the runs
that have such orders. No property is inductive. `WorkOrdersInvariant` therefore states what
holds of one record whatever its status: status and stage belong together (`ShapeInv`), a
stage has the handoffs it reads (`EvidenceInv`), an order at a gate has either a bound
version with its manifest or neither of them, and its registry record says which, and what
is researched has such a version (`VersionInv`), counts and death agree (`BudgetInv`), what
is past a gate was approved for the implementation at hand also while it is queued, retried,
failed or blocked (`GrantInv`, `ProposalInv`), and what a gate shows was reviewed (`ShownInv`,
`ReviewedInv`). `StoreInv` and `GateInv` collect them. Each update of a record is shown to
keep them once, and each action is such an update of one record or, at a start, of every
record; TLC checks on the runs' inherited orders that they are satisfiable. The refinement
needs `GateInv` for the moves back into research.

`SignalRuntimeProofs` proves `OneKnownRuntimeHolds` (`Spec => []OneKnownRuntime`) and
`StopsAsMeantHolds` (`Spec => StopsAsMeant`) for any number of messages, processes, Signals
and process ids, under `RuntimeAssumption`. The invariant adds what each point of a message
presupposes: a message in progress has no answer yet (`AnswerInv`); what a handler read,
selected for a start or gave a process stays approved, because approvals are only added
(`ApprovalInv`); a runtime that lives is the recorded one and, if the controller holds a
process, that process, and while one is being created none lives and no shutdown is asked for
(`KnownInv`); a process being created is given what the record will say unless another Signal
is selected, and a Gateway that is down holds no process (`RecordInv`).

`MarketDataProofs` proves, for any venue history, window, warm-up and memory sizes, events,
times, sequence numbers and faults, under `MarketDataAssumption`:

| Theorem | States |
|---|---|
| `ContextIsExactHolds` | `Spec => []ContextIsExact` |
| `CandlesAreExactHolds` | `Spec => []CandlesAreExact` |
| `NothingTakenBackHolds` | `Spec => NothingTakenBack` |

`CandlesAreExact` is not inductive: whether an answer may be applied depends on what the
venue was doing when it was asked. `CandleInv` adds that what is in flight is a candle as the
venue announced it (`FromVenue`), that `asked` and `since` are not later than the venue's
open candle (`LinkInv`), that the window has no final values of the open candle or a
later one and, while a request is under way, none of the candle that was open when it
was sent (`FinalBelow`), and that a candle whose final values reached the handler is
not newer than the window and has its final values where the window still has it
(`Once`). The last two are why overlapping
streams, backfills and recoveries evaluate a candle once, also where a row is called closed
by the local clock before its values are final.

An answer has any number of rows, so what it does to a window is shown by induction on
them. The induction is first-order: `SetInduction` is about the set of row numbers for which
a fact holds, a set being something the provers instantiate and a predicate not. `Iteration`
gives the recursive functions their values that way, `ApplyManyKeeps` carries a set of
window states that one candle does not leave through all rows, and `ClosedOfFacts` says that
what a strategy gets is closed and comes from the window. `AnswerLeavesNoHole` uses the same induction
to show that a gap's backfill joins the window: the rows that follow the last candle are
appended one by one. `NothingTakenBack` then has one proof per part: `NeverOlderHolds` for
context data, one step of `Shut` windows for `ClosedStaysClosed`, and `StreamStep` for
`StreamLeavesNoHole`.

`SignalEngineProofs` proves `DecidedOnceHolds` (`Spec => []DecidedOnce`) and
`LatenessBoundedHolds` (`Spec => []LatenessBounded`) for any number of tasks, strategies,
venues, events and fingerprints and any policy, under `EngineAssumption`. `EngineInv` says
that each strategy before the one at hand has cost an evaluation one timeout at most, which
bounds how far a task's time lies behind the clock. `RankInv` ties what was emitted to the
memory: the last occurrences recorded are the ones remembered, so an emission's rank says
where it stands and an occurrence that is not found has been pushed out. `CoolInv` says that
an entry at least as late as the emission is there until the emission is a cooldown old by
the clock; an entry a task deletes is over by that task's time, which is not after the clock.
`NothingSkipped` counts: `Pending` is the set of pairs of a task and a strategy it has still to
decide upon. An event adds what it triggers to one idle task's part of that set. An outcome
takes one pair out of it and, with the strategies that turn out not to be ready, moves as
many to `Recorded`; a cancellation moves one task's part to `abandoned`. The parts of the
other tasks are disjoint from it (`PendingSplit`).

`CandidatesProofs` proves `MembershipAgreesHolds` (`Spec => []MembershipAgrees`) and
`MembershipIsSteadyHolds` (`Spec => MembershipIsSteady`) for any symbols, adapters, capacity,
residency, refresh interval and delays, under `CandidateAssumption` (`PowersAssumption` only
says that the powers of two a delay is computed with are numbers). `ReachedHead` and
`StreamQueued` are the facts about queues: sending the first update does not change where a
queue leads, and `reconcile_instruments` leads it to the new membership. `RunInv` adds that
a `reconcile()` in progress is about the pool as it is and was due when it started, and
`PoolInv` that who left the pool had stayed for its residency, from which steadiness follows
although the pool decides and the supervisor carries out at different times.

Only model-checked: everything about `RestTransport`; liveness (out of the prover's reach,
like every property under fairness): `SettledWhileWorkerLives`, `EvaluationsEnd`,
`DeliveriesEnd`, `MessagesAnswered`, `StreamsSettle` and `RequestsGoOn`; and the violation run.

## 5. Mutants

Every property of a passing run has a mutant: an operator beside the definition it
replaces, with the comment `Mutant:`, that changes the code's behaviour the way a
plausible defect would. TLC finds the property violated under the run's own
configuration. A property that is a conjunction of named parts has several, one for
nearly every part.

## 6. Plan

Done: every module is checked; `StudioWorkflow`, `WorkOrders`, `OrderBook`,
`Notifications`, `SignalRuntime`, `SignalEngine`, `Candidates` and `MarketData` are proved
about. In this order come next:

1. `RestTransport` (`NoSessionLeaks`, `RateKept`).
2. `DataService` and `ArtifactRegistry`: two registries, partial writes, corrupt
   files; the crash between `_finish`'s two writes.
3. The position state machine of the generic backtest engine against a reference
   definition over short candle sequences.

## 7. How to check

`tlc -config <run>.cfg <module>` for each run of `PROJECT.json`, and `tlapm <module>.tla`
for the proofs of `StudioWorkflowProofs`, `WorkOrdersProofs`, `OrderBookProofs`,
`MarketDataProofs`, `SignalEngineProofs`, `NotificationsProofs`, `SignalRuntimeProofs` and
`CandidatesProofs`. `WorkOrdersProofs` takes some minutes.

## 8. Not modelled

Specification parsing, features, performance metrics and chart writing convert data and
keep no control state, and so do the exchange adapters beyond the sequence numbers,
timestamps and closed flags of their events, their dynamic subscriptions and the
open-interest poll. Of the transports, application pings, `merge_streams` and proxies are
left out; of the supervisor, statistics, the health monitor and the bootstrap without lanes,
which no adapter uses. The Manager's language routing is an LLM call: any decision may
follow it. CoinGlass is an optional provider of enrichment text behind the modelled
transport. The dashboard shows the Gateway's snapshot. The message log, prompts and
progress texts are left out
everywhere: no property is about them.
