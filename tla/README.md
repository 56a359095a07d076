# Quant-ML-Bot: TLA+ models and proofs

Quant-ML-Bot is a Python research framework with a paper and a live trading
side. Its trading half is a set of small programs that share durable state with
each other, with brokers and with hosted runners that may vanish: a unit test
reaches few of their interleavings. Its research half is mostly sequential, but
its results are only worth something if no row of tomorrow, no half-written file
and no second look slips in anywhere between the vendor's prices and the ledger
of trials. This directory models both, down to where numeric code over data frames begins.

Every definition is translated from the code; the file and lines of each are in
`PROJECT.json` under `map`. Operators introduced by "Mutation:" are deliberate
mistakes, one for each checked property: put in place of the definition that follows
them they make TLC find the property violated (`mutants` in `PROJECT.json`). Every
run passes; where a document of the repository promises what the code does not do, section 4
says so.

## Running

    tlc -config safety_gate.cfg MC_SafetyGate.tla
    tlapm GateProofs.tla

`PROJECT.json` lists every run with its module and configuration. The largest
runs take two to three minutes with two workers.

## 1. Inventory

### Components, their state and how they meet

| Component | State it keeps | Operations | Meets | What makes it correct |
|---|---|---|---|---|
| Live safety gate, `scripts/live_safety_gate.py` | SQLite: latches (kill, reconciliation, daily, rolling, quarantine), equity series, pending orders, configuration, evidence log | `evaluate_order`, `observe_equity`, `observe_equity_with_flows`, kill / confirm / reset, halt resets, `adopt_new_config`, `record_order_outcome`, operator override | every trader, the reporting API, operators | no add under any latch; breaches latch; latches open inside out; ids used once; exposure caps count what may still fill |
| Cash-flow journal, `scripts/cash_flow_journal.py` | entries, blocked latch, as-of time (in the gate's database) | `reconcile` | the gate only | each transfer moves the equity boundary once; a conflict quarantines |
| Order gateway, `scripts/order_gateway.py` | none | `submit_order`: decide, then call the broker | gate, broker client | whatever may be at the broker is reserved |
| Alpaca paper client, `exec/alpaca_paper.py` | none | snapshot, submit, order status | broker | the outcome of a submit is refused, accepted or unknown, never guessed |
| Paper loop, `exec/paper_loop.py`, `scripts/paper_targets.py` | intent log, planner state, run log | `run_once`: guards, reconcile, plan, bound, submit, persist | gateway, ops branch | an intent is durable before it is sent; an unresolved order stops the run |
| Operations runner, `scripts/ops_runner.py`, `scripts/ops_runtime.py` | leases, runs, skipped, first-seen, incidents, sent, outbox, kill files | `run_once`, `preview_once`, `set_kill` | the workflow, the wrapped loop, `persist_state.sh` | a session's command starts at most once; missed sessions are reported; alerts are not lost |
| Delivery, `scripts/ops_deliver.py` | outbox, delivered | `deliver` | issue tracker | what is queued is posted |
| Persistence, `ops/persist_state.sh`, `ops/workflows/*.yml` | the `ops-state` branch | checkout, commit, push | all of the above | what is durable is a prefix some job really reached |
| Live loop (Fidelity), `exec/live_loop.py`, `exec/fidelity_live.py`, `exec/fidelity_reconcile.py`, `scripts/mode_config.py` | the bot's book, recorded intents, live gate | arm, reconcile, plan, preview, place | browser session, gate, ops branch | one order per intent; the book counts each fill once; nothing on top of what is unsettled |
| Fidelity session, `exec/fidelity_session.py`, `exec/fidelity_sdk.py` | daily lease, `HALTED` latch | connect, finish | live loop, Fidelity | one login a session; anything unclean halts until review |
| Fidelity hosts, `scripts/fidelity_*.py`, login probe | files on a Windows host | provision, preview, launch | session | refuse unless provisioned |
| Trial registry, `scripts/trial_registry.py`, `trial_runner.py`, `declare_family.py`, `amend_family.py`, `run_058_t016.py` | hash-chained ledger, head anchor, lock, declarations, sealed rows | start, finish, declare, amend, verify, holdout | studies | one chain behind its anchor; every look counts; one holdout opening per family |
| Model registry, `scripts/model_registry.py` | list of promotions | register, promote, rollback | nothing yet | promoted by the rules |
| Backtest harness, `scripts/backtest_harness.py` | cash, position, dividends owed | `run_backtest`, `equity_curve` | studies | the account balances; what was recorded explains it |
| Portfolio backtest, `scripts/portfolio_backtest.py` | cash, shares, pending decision | `run_portfolio_backtest` | families | buys never overdraw; no fill before the decision's next open |
| Cross-validation, `scripts/walk_forward_cv.py`, `edge_walk_forward.py`, `model_cv.py` | none | folds, inner folds, nested walk | studies | no training label overlaps a test window; only embargo gaps stay excluded |
| Portfolio risk, allocation, `scripts/portfolio_risk.py`, `allocation_*.py`, `buffered_allocation.py` | none | weight books | families, loops | weights rest on past rows |
| Data pipeline, `scripts/data.py`, `data_sources.py`, ... | caches, manifests, data checks | publish, load, validate, back-adjust | studies | what loads is one snapshot; adjusted prices return what an investor made |
| Feature-set comparison, `scripts/feature_set_comparison.py` | process pool, checkpoint | run units, collect, test pairs, checkpoint | estimators | as a serial run, whoever dies |
| Family runs, `scripts/run_058_t015.py`, `run_059_t004.py`, `run_061_buffered_trial.py` | trials of a family | run, resume | ledger, panel, portfolio backtest | reported when complete, on one panel |
| Features, estimators, metrics, statistics | none | numeric functions | studies | numeric |
| Other studies and reports | result files | one-shot scripts | all of the above | reproducible |
| Loop guard, `.github/scripts/loop_guard.py` | pull-request state | claim and merge rules | CI | one claim at a time |
| Reporting API and UI, `reports/` | none | thin handlers | gate | each request is one gate method (an answer posted to `/kill/confirm` may be an old one) |
| Restore drill, `scripts/restore_drill.py` | none | verifies a restored copy | ops branch | read-only |

### Behaviours that are hard to test here

* Every gate method is one `BEGIN IMMEDIATE` transaction, but a trader's
  protocol is several calls: the snapshot is read before the transaction, the
  broker is called after it, and other processes, fills, kills and crashes fall
  in between.
* A submit can time out: the order may be working, may still arrive or may be
  lost. Only the broker's terminal answer may release the reservation.
* A workflow job works on a checkout. It survives only as far as it was pushed;
  its push is refused when an operator or another job pushed first; the push may
  be accepted and its answer lost.
* `sent.json`, the incident log and the outbox are three files, written one after
  the other; the run record
  moves the point from which missed sessions are looked for.
* A broker's answer about a kill is heard by a person and handed in later, beside others'.
* Latches nest: kill outside, loss and reconciliation halts inside; resets may
  come in any order and be refused half way.
* Transfers are reported repeatedly, late, out of order, contradictory.
* Calendar edges: midnight between two observations, a cutoff between two
  invocations.
* Files that belong together are written one after the other: ledger line and
  anchor; prices, actions and manifest; temporary file and checkpoint. Some of
  the readers take no lock.
* A lock file outlives its owner.
* Positions in sub-frames, purges, shifts and back-adjustment all look right one
  row off.
* Work comes back from a pool in any order, or not at all.

`PROJECT.json` lists each of these under `hazards` at the line where it bites,
with the properties that cover it.

## 2. Modules

| Module | Models | Builds on |
|---|---|---|
| `EquityBreaker` | the arithmetic of `_observe_equity_locked` | |
| `CashFlowJournal` | `cash_flow_journal.reconcile` | |
| `SafetyGate` | the gate's database and every method that writes it | both of the above |
| `KillSwitch` | the kill switch between operators, broker and evidence log | `SafetyGate` |
| `GateTrading` | the gate closed with traders and a broker | `SafetyGate` |
| `OpsRunner` | the runner, delivery, the workflow and the `ops-state` branch | |
| `PaperLoop` | `paper_loop.py --submit` on checkouts of the branch, and its broker | |
| `FidelityLoop` | the armed session of `live_loop.py` on the branch, and its broker | |
| `OrderPromise` | what both loops promise of every order (no code of its own) | |
| `TrialLedger` | the trial registry and the runs that write it | |
| `MarketCalendar`, `PriceBundle` | the NYSE calendar; when a price bundle is sound | |
| `BundleCache` | publication and load of a bundle | `PriceBundle` |
| `FundedLedger` | `run_backtest` and the audit of its events | |
| `FundedStudy` | the tear sheet: one load, three accounts over it | `BundleCache`, `FundedLedger` |
| `NestedStudy` | nested walk-forward study of an instrument, to its orders | |
| `ResearchPanel`, `PortfolioBooks`, `PortfolioLedger` | the adjusted panel, the books of the rules, the portfolio backtest | each other, in this order |
| `FamilyRun` | the family programs, interrupted and resumed | `PortfolioLedger` |
| `PairedTest` | the paired tests of two runs | |
| `FeatureSweep` | the comparison with its worker pool and checkpoint | `PairedTest` |
| `Positions` | the elements of a set of positions or ranks, in order | |
| `MC_*` | small instances | |
| `SumTheorems` | lemmas on sums and maxima over finite sets, for the proofs | |
| `GateProofs`, `OpsRunnerProofs`, `PaperLoopProofs`, `FidelityLoopProofs`, `TrialLedgerProofs`, `FundedStudyProofs`, `ResearchProofs` | theorems (the last about `NestedStudy`, `FeatureSweep` and `FamilyRun`) | |

**`SafetyGate`.** The variables are the rows of the database: `config`
(`config_json`), `killLatched`, `killConfirmed`, `reconHalt`, `dailyHalt`
(`daily_halt_session`), `rollingHalt`, `breaker` (the seven rows of the equity
series), `quarantine`, `journal`, `flowSeen` (`flow_observations`), `pending`
(`pending_orders`); `held[p]` is the configuration in the memory of process `p`'s
`SafetyGate` object, which is not always the durable one; `clock` is the `now`
of the callers. One method is one action, because one method is one transaction;
a call that raises rolls back and has no step. `EvaluateOrder` includes the
freshness check, the observation it makes and the reservation it inserts:
guards that the code reads after the observation are read at the primed variables.
Snapshots are arbitrary here.

**`KillSwitch`** adds what `SafetyGate` leaves free in `ConfirmKill`: where an answer
comes from. Each operator asks the broker on his own account (`AskBroker`) and hands
the answer in when he likes, or twice (`HandIn`), beside the requests and resets of
others. `log` is the part of the evidence log that `confirm_kill`, `request_kill` and
`reset_kill` write, each entry in the transaction of the change it tells of. Nothing in the
call or in the log says when an answer was asked for.

**`GateTrading`** makes snapshots and reports come from a broker: a trader takes
a snapshot, decides, sends (delivered, timed out and delayed, certainly refused),
reconciles; the broker fills one unit at a time, expires orders at any time;
processes crash, and kills are requested and reset, between any two of these. A decision is
`evaluate_order` or, for a reduction by hand, `evaluate_operator_override_reduce`, which no kill stops.
Equity and prices are constant: the loss breaker is checked in `SafetyGate`.

**`OpsRunner`** is one profile. `saved` is the `ops-state` branch, `work[j]` job
j's checkout, `job[j]` where its process is and what it holds in memory, and
`posted` the issue tracker. Both copies are one record of every file the code
writes: `killFile` (the workflow's KILL), `kill` (`kill-<profile>.json`),
`leases`, `ran` (`runs.jsonl`), `skipped`, `firstSeen`, `sent`, `reports`
(`incidents.jsonl`), `outbox`. A workflow job goes idle, ready (checked out),
then one of the branches of `run_once` (`StopOnKillFile`, `HaltKilled`,
`FindNothingDue`, `FindLeaseHeld`, `Claim`), persist, command, running, report
(`_deliver`: `LogIncident` and `QueueIncident` for each incident, `MarkSent` at the end), deliver, posting/moving (`ops_deliver`), and pushes
(`PersistState`). An operator's kill, reset or clearing is an edit of a fresh
checkout and a push. `Push` is git's rule: accepted only while nobody else moved
the branch since this checkout. `LoseRunner`, `KillProcess`, failed posts, and
pushes that fail or are accepted without an answer are the faults. A day has
three instants (before, in and after the submit window). `started` and `forgotten`
are history variables.

**`PaperLoop`** is the command that `OpsRunner` starts, seen from inside. `saved`
is again the branch and `work[r]` runner r's checkout, here with the files of the
loop: `rows` (the gate's `pending_orders`), `intents` (`intents.jsonl`), `recorded`
(`fills.jsonl`), `executed` (`allocation-state.json`). `run[r]` is the process:
`current` says that nobody pushed since r's own last state of the branch, `todo`
and `unknown` are the reconciliation's, `orders` the plan's, `clean` whether the
decision may be noted as executed, and `sent` what it sent (a history of the
process). One write of a file, one push and one broker call are one action each:
`LookUp`, `RecordFill`, `Release` (`reconcile_pending`), `PersistFills`, `Plan`
(`plan_allocation`, `bound_buys`, `_deployed_today`), `Deny` or `Reserve`,
`RecordIntent`, `PersistIntent`, then `Accept`, `TimeOut` or `Refuse`
(`_durable_send` inside `submit_order`), `Finish` and `PersistDecision`, the
workflow's `PersistState`. `CutOff` is the submission deadline. Runs overlap freely: the lease
of `OpsRunner` keeps two scheduled runs of a session apart, a run started by hand
has none. The broker takes, delays or loses a request, fills it
one unit at a time and expires it. A process is killed, a runner lost, a push fails or
is accepted without an answer at any point.

**`FidelityLoop`** is one armed session a day. `saved` is the branch, `work` the
checkout, `run` the process; both copies hold `leases`, `halted` (the file
`HALTED`), `rows` (the gate's `pending_orders`), `intents`, `book`, `applied` and
`positions` (`bot-positions.json`) and `executed`. `Claim` takes and pushes the lease
before the login, `Ownership` compares the book with the account,
`Apply` writes an ended order into the book, `PersistIntent` pushes the
reservation, the intent and the book's line before the order is previewed and placed; the
confirmation number of the preview is how the broker's record is found again. Every path
that is not clean halts (`Halt`) until a person clears the latch. The broker fills one
share at a time, may delay or lose a placement, and somebody else may trade in the account.

**`OrderPromise`** has two variables per order, what the branch says of it (`none`,
`open`, `ended`) and what became of it at the broker (`none`, `live`, `done`). An order is
placed only while it is open on the branch and only once; it ends there only when it can
trade no more or was never placed. `PaperLoop` and `FidelityLoop` both implement it
(`KeepsOrderPromise`), with different mappings: in the paper loop the reservation alone
says that an order may exist, at Fidelity reservation, intent and book line together do.

**`TrialLedger`.** `lines`, `anchor`, `sidecars` and `lock` are the files; a
record's hash is its position, `prev` the position it names. `run[p]` is a process of one of
four jobs: a candidate trial, the holdout run, a declaration, an amendment. `Enter`, `GiveUp`,
`Inside` (verify and validate), `WriteLine`, `WriteAnchor` and `Leave` are
`serialized` and `_append`; `Look` and `OpenPanel` compute a result; `ReadSpend` is the holdout
run's unlocked read of its own start. `Crash`, `FailWrite` and the person's `Recover` are the faults and
their remedy. A run may record in production or not (`recording`); what its callback returns may be
no valid rows (`malformed`). `looks` and `opened` are history variables.

**`BundleCache` and `FundedStudy`.** A file on `disk` is named by the snapshot it was
written from. A publication writes prices, actions, hashes both from disk, writes
the manifest, and may stop between any two; a load resolves the one manifest, reads, compares
hashes and validates with `PriceBundle`'s `Sound`. `FundedStudy` then walks the frame three
times with `FundedLedger`: the strategy's orders, buy-and-hold, random trips.
`FundedLedger` walks a session in the code's order (payment, split, dividend, order at the
open, mark at the close), payments a set named by the rows that earned them; `audit` replays the
recorded events as `equity_curve` does.

**`NestedStudy`** abstracts a model to the latest row whose prices reached it
(`seen`): `BeginWalk`, `OuterFold`, `InnerFold`, `Fit`, `Conclude`, then `ScanSession` walks the
orders. Fold bounds, purge and embargo are those of the code, on positions of
frames with missing sessions, blank features and corporate actions.

**`FamilyRun`** puts the panel of a data check (`ResearchPanel`), the books of a
configuration (`PortfolioBooks`) and the session loop (`PortfolioLedger`) under the three
programs of the families. `events` is the ledger, a trial known by the position of its
start. 058 runs series by series and can be resumed after an interruption; 059 and 061
start all series first and run once.

**`FeatureSweep`** has the parent (`LaunchSweep`, `Submit`, `Collect`, `Replace`, `Join`,
`Finished`), a queue, workers, finished futures, and the checkpoint with its temporary
sibling. Units fail, workers die at any time (the pool is then broken, and a parent that
still submits is refused: `SubmitRefused`), writes fail, the machine goes down.

### Abstractions

Left out everywhere: the evidence log but for its kill entries (no decision reads it),
texts, credentials, HTTP, `kills.jsonl` and `ops/delivered` (nothing reads them).
Percentages are integers and quotients are cross-multiplied; binary rounding is
not modelled. A transfer batch is a set. Prices are integers, 0 is a missing
price. An incident is its kind, a number and the sessions it names: what makes
its fingerprint. `OpsRunner` follows one profile: the matrix runs the profiles
one after the other in one concurrency group, on files of their own.
`RecordRun` is one step: that a process killed right after the run record may
also lose its summary is left out.

In `PaperLoop` a unit of any ticker costs one dollar, so quantities are notionals;
price moves, fractions, the no-trade band and the one-dollar minimum are left out, and
`Target` stands for what the allocation rule computes. The gate's verdict is free
except that an id is never admitted twice: what it decides is `SafetyGate`'s. Checks
that only abort before anything is written (calendar, stale data, account
fingerprint) are left out; any abort is `KillProcess`. Day orders and the
runs of a morning end with their session (`NextSession`).

In `FidelityLoop` a plan is any vector of shares; the loss and mode caps, the settled-cash
guard, the library's request and response checks and the workflow's attempts marker are left
out: `OneLoginPerSession` must hold by the lease alone. In `TrialLedger` a record holds type,
trial, role and configuration; verification reads `Linked`, `WholeLives`, `HasReturns` and the
anchor. In `FundedLedger` money is whole units and slippage a percentage; which closes
cross is left open, so orders are any shifted signals. In `NestedStudy` a month is a
number of days. In `PortfolioBooks` weights are parts of `Whole`, rounded down, and a
volatility is a count of returns that moved, as all names move together: enough to
tell which rows a weight depends on. In `FeatureSweep` statistics are the integers the code's
tests are built from. `FamilyRun` takes the ledger as one atomic sequence: how it is
written is `TrialLedger`'s.

## 3. Runs

All runs pass.

| Run | What it shows |
|---|---|
| `safety_gate` | Latches, breaker and admission over two days, with transfers that settle, wait, conflict, repeat or are malformed: `AddsOnlyWhenClear`, `HaltLastsTheDay`, `BreachesLatch`, `BoundaryMovesWithJournal`, `AppliedForever` |
| `kill_switch` | Two operators who request, confirm and reset kills with answers handed in late or twice: `ResetsAreJustified` |
| `trading_one` | One trader, buys and sells of two instruments, partial fills, timeouts, late arrivals, crashes, kills: `WorkingIsReserved`, `JointExposureCapped`, `ExposureShrinksUnderKill` |
| `ops_branch` | Scheduler and operator on one branch: `CommandAtMostOnce`, `LeaseOutlivesCommand`, `ReportsAreNeverLost` |
| `ops_reports` | Under fairness: `MissIsPosted` |
| `paper_loop` | Two overlapping runners, two sessions, a purchase over the daily cap and then a rebalance: `SentIsDurable`, `FillsAreRecorded`, `NothingOnTopOfUnknown`, `TradesTheDecisionOnce`, and the refinement `KeepsOrderPromise` |
| `fidelity_loop` | Two sessions at Fidelity with two faults: `OneLoginPerSession`, `BookCountsFillsOnce`, `NothingFollowsTheUnsettled`, and the refinement `KeepsOrderPromise` |
| `trial_ledger` | Two processes on one ledger with crashes and failed writes: `HoldoutSpentOnce`, `EveryLookCounts`, `OneChainBehindItsAnchor`, and under fairness `EveryRunEnds` |
| `funded_study` | An interrupted publisher, then three accounts over what loads: `LoadsOneSnapshot`, `BooksBalance`, `AuditAgrees`, `RandomTripsMatch`, `SplitsKeepWorth` |
| `nested_study` | Every calendar of fourteen sessions in seventeen days, legal and refused purges: `TrainsOnTheLegalRows`, `OrdersRestOnForecasts` |
| `family_run` | Three kinds of family over seven data checks, interrupted and resumed: `DecisionsKnowNoTomorrow`, `PanelReturnsTheInvestors`, `NeverOverdraws`, `FamilyIsWhole` |
| `feature_sweep` | Two runs of a sweep with failing units, dying workers and crashes: `ResultsAreTheSerialOnes`, `PairsSurvive`, and under fairness `EveryRunReturns` |

The type invariants (`TypeOK`, `TradingTypeOK`, `OpsTypeOK`, `PaperTypeOK`, `FidelityTypeOK`,
`LedgerTypeOK`) and the two gate invariants `IdsAreNeverReused` and `QuarantineIsJournals` stand
beside their modules and are not part of the runs; the ones the proofs use are proved.

### Bounds and why they are enough

* `safety_gate`: one process. Processes differ only in the configuration they hold, and there is
  one: whatever several would call in turn, one calls as well (the theorems hold for any number of
  processes and, but for `BreachesLatch`, for any configurations). Two
  days of one instant each and snapshot delays 0 and 1 make a late snapshot one of the day
  before. Equity falls from 10 to 8, exactly the 20% of the rolling limit; a transfer of net 1
  leaves 9, exactly the 10% of the daily one; 0 is the untrusted equity. Two observations, whose ids
  are interchangeable (symmetry), take batches with a pending transfer, the same one settled together
  with a second, a conflicting amount that on the first day comes from the future, and a malformed event:
  enough to settle, repeat, regress, conflict, and to breach by equity before, between
  or after. One order adds; it may be tried again under its used id.
* `kill_switch`: two operators, interchangeable, a clear and a contrary answer, eight entries of
  the log: request, confirmation, contrary answer with its revocation and confirmation
  again before a reset, and a second kill after it. The theorem holds for any number of operators and entries.
* `trading_one`: four orders over two instruments, chosen so that one buy of A
  fits, two reach the position cap, and A with B reach the gross cap.
* `ops_branch`: one scheduler (the workflow's concurrency group admits one job),
  one operator, two sessions, two interventions (kill and reset; kill and
  dispatch; two kills) and one fault, anywhere. `ops_reports`: three days, the
  second without a session, two faults. The theorems about `OpsRunner` hold for
  any number of these.
* `paper_loop`: two runners are enough for every pairwise overlap, and are
  interchangeable. Two tickers and a daily cap of 2 against a first target of 3
  make the first decision take more than one run; in the second session the
  target sells one ticker and completes the other, so that buys are deferred. Cash
  never binds. One fault falls anywhere. That other numbers of runners,
  tickers, sessions and faults change nothing is proved for all five properties.
* `fidelity_loop`: two sleeves, two sessions with a decision each, plans of up to two
  shares either way, two faults anywhere. Orders of two shares have a middle, where they
  can be cancelled half filled.
* `trial_ledger`: two processes are enough for every pairwise overlap; three runs (a
  declaration or two candidates before a holdout, two holdouts at once), one
  addition to the declaration's source, two faults: one leaves a line without its anchor, the
  other hits whoever comes next. Recovery is possible between any two.
* `funded_study`: five sessions across a new year whose holiday is not observed, or
  a Good Friday. Four bundles are sound (a split with dividends, quiet dividends, late
  payments under a bound, a reverse split), nine are refused, each for a reason of its own;
  two interruptions. `MC_FundedStudy` also compares the calendar with its references from
  1970 to 2120.
* `nested_study`: fourteen sessions placed anywhere in seventeen days, so that a test
  window may be empty, end early or hold the frame's last row; purge and embargo at
  the horizon, above it and below it (refused).
* `family_run`: two tickers over six sessions and three months with seven data checks that
  share a past and part at session 4 or 5: other prices, a split with a dividend, the same
  one on an excluded session, the same one disputed, a late listing with sealed rows, an
  impossible dividend. Twelve rules cover every kind of signal and sizing. Two launches and
  one fault: an interrupted family is resumed once.
* `feature_sweep`: two entries under two feature sets make four units, for one to three workers; one
  data set compares, one has no scoreable regression, one a disagreement about a label. Two
  runs and two faults: a unit that fails while another worker dies, a worker that dies before all
  is submitted, and a crash after either.
* Deadlock is checked where the system cannot stop: gate, traders, operations runner,
  paper loop, and the study that may always load again. It is not in `fidelity_loop`, `trial_ledger`,
  `nested_study`, `family_run` and `feature_sweep`, whose programs end: the last session is over, the
  study is done, or the bound on runs is used up.

### Fairness

Three runs assume any. `ops_reports`: weak fairness of `Checkout` for workflow jobs
(the cron schedule keeps starting jobs) and of the disjunction of a job's own
steps (a running step goes on or is killed). `trial_ledger`: weak fairness of each
process's `Step`, for an operating system that schedules every running process; a waiter's
timeout is one of its steps, and nobody is made to release a lock or to recover one.
`feature_sweep`: weak fairness of the parent's steps and of the workers' together: the
executor hands out what is queued. Nothing is assumed of operators, of faults, of launches
or of the clock; the number of faults is bounded, so posts and pushes succeed
eventually, as they would between outages.

## 4. Where code and text disagree

These are notes, not runs: where one would make a property false, the run's bounds or the
property's premise leave it out, as said here.

Gate and traders:

* `confirm_kill` (`live_safety_gate.py:1067`) takes an answer for the kill that is latched, whenever
  the broker gave it: a clear answer asked for before the kill was requested, or for
  an earlier kill, confirms it. The comment at line 1102 says that `reset_kill` "can never rely on a stale
  broker-side clear"; what the code does guarantee, that a contrary answer handed in later revokes the
  confirmation, is `ResetsAreJustified`.
* `reset_kill` (line 1137) checks the reconciliation and the rolling halt but
  not the daily one; its docstring (line 1129) names "no active loss/drawdown/reconciliation
  halt".
* A process opened before another one adopted tighter limits measures heartbeats with its own
  (line 828): a breach is recorded and not latched, against spec 032 (line 228). The runs
  have one configuration.
* The aggregate `external_cash_flow` moves the boundary on the heartbeat also when a journal exists
  (line 828), which the comment at line 658 excludes for orders. `safety_gate` reports no
  aggregate flow.
* A snapshot is read before the gate's transaction (`paper_loop.py:428`). With two traders an
  order may fill and be released in between, and is in neither the snapshot nor the
  reservations: a joint cap can be passed. `trading_one` has one trader.
* `adopt_new_config` (line 1276) does not look at the daily halt although its docstring (line 1263)
  says any halt refuses.
* `reset_rolling_halt` works under a kill. Spec 032 (line 253) says it is refused,
  the method's docstring says otherwise on purpose.
* Just after midnight a still fresh snapshot of yesterday is taken for a new
  session (line 975) and can replace today's daily halt, which spec 032 (line 247) keeps "for the rest
  of the official trading day". `HaltLastsTheDay` therefore has a premise on the breaker's
  session.
* Withdrawals can bring the adjusted base to zero (every observation then raises)
  or below (no loss counts as a breach). `Measurable` and `FallsBy` say what the
  code does; the runs keep the base positive.
* The long-only rule ignores working sells: two sells of one holding both pass.
  `trading_one` has one sell of each holding.
* A kill latched between the decision and the broker call does not stop the order. It was
  reserved before the kill, so what the account has or may still come to does not grow:
  `ExposureShrinksUnderKill`.

Operations and the paper loop:

* `ops_deliver` moves a posted item in the checkout only (line 38): if that is never pushed, the
  next job posts it again, although the docstring (line 4) says never twice.
* An incident is appended to `incidents.jsonl` (`ops_runner.py:70`) before its outbox file is written
  (lines 71-72): a process killed in between leaves it logged, neither queued nor posted, and
  the workflow pushes that. Artifact f02b of spec 055 (line 20) has them "queued as they are first recorded".
  Nothing reads the log back: `sent.json`, which suppresses repeats, is written last, so the
  next job raises the incident again if its cause still holds. `ReportsAreNeverLost` therefore speaks
  of what counts as sent and what is queued.
* The workflow stops on its KILL file (`paper-loop.yml:58`) before the runner could queue the
  halt incident that spec 055 (line 57) promises.
* A process that dies between its run record and its report takes the missed
  sessions it had found with it: the run record moves the search past them. The
  variable `forgotten` names exactly these in `NoMissIsOverwritten`.
* A decision is noted as executed when its orders were all accepted,
  not when they filled: day orders that expire unfilled
  afterwards are not made up for before the next decision, although the docstring
  of `AllocationPlanner` (`src/exec/paper_loop.py:185`) says that "a partly
  executed one is finished next run".
* An intent that is on the branch when its process dies before the send leaves a
  reservation the broker has no record of. Every later run of the profile stops at
  it, also in later sessions, until a person reconciles; so does a request that
  timed out and was lost. The message at line 367 says so.
* A second workflow kill has the same incident content as the first and is
  deduplicated, and `_workflow_kill` is never reached from this workflow.

Fidelity:

* An order denied or failed after its reservation leaves a book line that later sessions find
  unsettled: they stop, until a person clears it.
* `HALTED` is a file of the checkout: when the final push fails too, the latch is lost with it. The lease
  still keeps the day closed.
* A status read before and a fill after `positions()` make the ownership check halt without cause.
* `_resubmission` cannot be reached through the gate, which admits an id once; the check for
  overselling cannot be reached behind the ownership check.

Trial ledger:

* The holdout run reads its start back outside its `try` (`run_058_t016.py:175`). When another process is between
  line and anchor, `verify` raises: the holdout is spent, nothing was opened, and no terminal is
  written, although the docstring says that errors are recorded.
* `amend_family` and `declare_family` verify before they take the lock: a trial may
  start between the check and the record, against the docstring of `amend_family` ("refused once any trial of the family exists").

Data and studies:

* Two publishers of one ticker and range can interleave so that a manifest vouches for prices of one and
  actions of the other; one publisher is assumed. A second range makes every load of the ticker ambiguous.
* `run_one_ticker` builds research-adjusted frames, which `run_backtest` refuses; in the live program every ticker
  ends as a `ComparisonFailure`. `NestedStudy` models what its signals mean.
* A mid-run checkpoint is called a prefix of the final file (`feature_set_comparison.py`, and
  `tests/test_feature_set_comparison.py:585`); with pairs that finish out of order it is only a sorted subset.
  The first checkpoint of a rerun replaces the complete file of the run before it.

## 5. Proofs

All theorems hold for every value of the constants that satisfies the named
assumptions:

* `GateAssumption`: orders are of known instruments and nonzero integer quantity,
  delays are integers, a day has an instant, `NoConfig` is no configuration;
  `MoneyAssumption`: equities, flows and amounts are integers, the transfers are
  finitely many; `TradingAssumption`: finitely many instruments and intents, the
  position at the start is whole, prices are natural.
* `KillSwitchAssumption`: an answer is one that `confirm_kill` can be given; the log's bound is natural.
* `OpsAssumption`: there is a day, trading days are days, no operator's checkout is a
  workflow's.
* `FidelityAssumption`: there is a session, every session acts on a decision, the
  tickers are finitely many, planned quantities are integers, faults are counted.
* `LedgerAssumption`: there is a configuration, bounds are natural, a process is
  called neither "free" nor "orphan".
* `AccountAssumption`: capital and shares are positive, costs natural.

* `PaperAssumption`: finitely many tickers, numbered; every session acts on a decision, whose
  targets, like caps and opening positions, are natural.
* `StudyAssumption`: a frame has a row, its days grow, blanks and actions are rows of it;
  window sizes are at least a month, as `nested_walk_forward` demands, purge and embargo natural.
* `SweepAssumption`: there is an entry and a core.
* `FamilyAssumption`: a declaration names each candidate and each seed once, and no candidate is
  one of its own baselines; buy-and-hold has a rule; the program that resumes is the one that runs series by series.
* `PanelAssumption`: tickers and sessions are finitely many; the rows of a ticker grow, with prices
  above zero (`run_portfolio_backtest` refuses others), dividends and splits any integers: what the
  panel cannot use of them, `Buildable` refuses.
* `BookAssumption`: a rule is one of those `PortfolioBooks` lists, a mix has no negative part, a
  blend has parts, each a rule that selects; windows, `Whole` and the target are positive.
* `LedgerAssumption` of `PortfolioLedger`: capital is positive, a commission natural, and a quote's
  cost one part in a positive number.

Some theorems have a hypothesis besides, which the code or its documents state:

* `JointExposureCorrect` and `ExposureShrinksCorrect`: one trader. Two traders that both took their snapshot
  before either reserved are not bounded by it, and `trading_one` has one.
* `BreachesLatchCorrect`: one configuration (a new one is adopted without another look at the
  series, hazards), and `[]PositiveBase`, the adjusted equity at the day's start and at its high
  stays above zero: the code divides by both, and below zero the comparison turns round.
  Deposits larger than the account can take the adjusted series there.
* `BoundaryMovesWithJournalCorrect`: no aggregate flow beside the journal (`Flows ⊆ {0}`),
  which the heartbeat would take (section 4).
* `LoadsOneSnapshotCorrect`: one publisher (section 4).
* The four theorems about the account of `FundedStudy`: `[]EvenSplits`, the unit of shares is so fine that a split gives whole units. The code's
  floats are what this stands for; TLC has confirmed it on the instance of `funded_study`.

| Theorem | Says |
|---|---|
| `ControlTypeCorrect` | the gate's control rows keep their types |
| `ResetsAreJustifiedCorrect` | a kill reset without attestation rests on a logged confirmation that nothing has overtaken |
| `AddsOnlyWhenClearCorrect` | no add is reserved under any latch |
| `IdsAreNeverReusedCorrect` | a client order id is reserved for one order only |
| `QuarantineCorrect` | the quarantine flag and the journal's latch agree |
| `AppliedForeverCorrect` | an applied transfer stays applied, with its amount |
| `HaltLastsTheDayCorrect` | a daily halt stays for its day, and nothing is added on it |
| `BreachesLatchCorrect` | no step moves the equity series past a limit without latching its halt |
| `BoundaryMovesWithJournalCorrect` | raw and adjusted equity part by exactly what the journal applies |
| `WorkingIsReservedCorrect` | whatever the broker works on, or may still receive, is reserved |
| `JointExposureCorrect` | the account itself stays within the position and gross caps |
| `ExposureShrinksCorrect` | under a kill, what is held or may still be bought only shrinks |
| `OpsTypeCorrect` | branch, checkouts and processes keep their types |
| `CommandAtMostOnceCorrect` | a session's command starts at most once |
| `LeaseOutlivesCommandCorrect` | the lease of a started session stays on the branch |
| `ReportsAreNeverLostCorrect` | a missed session is queued or posted by the time a run record passes it; what counts as sent is queued or posted |
| `OrdersAreDurable` | an order at the broker or on its way is reserved on the branch, with its quantity |
| `NoFillIsLost` | the branch releases an order the broker had only with its fill line |
| `NothingIsSentBlind` | no order is sent while another run's request is unanswered |
| `LoopKeepsItsPromise` | the paper loop implements `OrderPromise` |
| `OneLoginCorrect` | a session of the armed loop logs in once |
| `SessionKeepsItsPromise` | the armed loop implements `OrderPromise` |
| `FillsAreCountedOnce` | every filled order is in the bot's book exactly once, on branch and checkout |
| `NothingFollows` | nothing is placed on top of an unknown outcome, or of a fill the book does not show |
| `LedgerStays` | the trial ledger stays in its inductive invariant |
| `HoldoutIsSpentOnce` | the holdout is started once, and opened no more often |
| `EveryLookIsCounted` | a family counts every look at its research data, failed ones too |
| `OneChainBehind` | the records form one chain, and nothing follows a half-written append |
| `LoadsOneSnapshotCorrect` | a load that validates is of one publication |
| `BooksBalanceCorrect` | the trades explain cash and receivable to the unit; nothing is borrowed |
| `AuditAgreesCorrect` | the audit accepts every run and finds its trades |
| `RandomTripsMatchCorrect` | the random baseline makes the strategy's number of trips, none overlapping |
| `SplitsKeepWorthCorrect` | a split keeps the worth of what is held, up to the validation's tolerance |
| `DayStaysWithinCap` | what is bought in a day, by whichever runs, stays within the deploy cap |
| `TradesOnce` | no order is sent that could lead past its decision with what is still under way |
| `StudyInvariance` | the nested study stays in its inductive invariant |
| `LegalTraining` | a fold trains on exactly the legal rows, and no label of one is open when its test begins |
| `HonestOrders` | no order knows a price after the close before it; a position rests on a forecast |
| `ResultsAreSerial` | the sweep reports and checkpoints what a serial run computes |
| `SavedPairsSurvive` | no step of a run tears the checkpoint or takes back a pair |
| `FamiliesAreWhole` | a family's program that ends has every series completed on its panel |
| `AccountsNeverOverdrawn` | every session of every series balances; no short position, no overdrawn buy, one cut for all buys |

**Gate.** Most action properties need only the type of the control rows
(`ControlTypeOK`): a latch, the order table and the journal are each decided inside one transaction.
The breaker's need `BreakerInv`: the seven rows form a series of integers (`breaker ∈ Series`), and
the journal has applied a transfer when it is settled, and then only (`Booked`).

**Reservations.** `WorkingIsReserved` is not inductive: a release is harmless
only because at most one trader ever sends an id and the broker has not seen it
before. `ReservationInv` adds that: two senders have different ids, an id being
sent or delayed is unknown to the broker, an id being sent is not delayed, and a
reserved row has a nonzero quantity.

**Caps.** `ExposureInv` says why reservations are enough. The worst case of an instrument is
its position with every buy that may still fill. It is at most what a snapshot in
use shows plus the reserved buys (`SnapshotCovers`): a fill moves a unit from the order to the position,
and what filled since the snapshot is still reserved. So an order that the gate
admits on that snapshot keeps the worst case within the caps (`Capped`). Under a kill nothing
but a reduction is admitted, so the only steps left move a unit from an order to the position or
give it up.

**Kills.** `SwitchInv` says what the flag `killConfirmed` stands for: the log has a confirmation that no
request, reset or contrary answer came after. A reset without an attestation needs the flag, so
it finds that entry.

**Leases.** `CommandAtMostOnce` is an argument about optimistic concurrency, and
its inductive invariant (`LeaseInv`) speaks about checkouts that may still push.
Call a session claimed when its command started, or when a process whose push was
accepted is about to start it. Then: a claimed session has its lease on the
branch, and in every checkout that is still current; a current checkout that
has not decided yet holds exactly the branch's leases; a process about to push its
lease holds it, and if its checkout is current the branch has none, so nobody
claimed the session; about to start means not started; two processes about to
start have different sessions. An accepted push that changes the branch makes every other
checkout stale, which is what keeps the second part. Most
actions move none of this: `Quiet(j)` collects what they have in common
and `QuietStep` proves it harmless once; the steps that claim, push, release or
check out have lemmas of their own.

**Reports.** `ReportInv` says the same of the branch and of every checkout with its process
(`Honest`): what was sent is queued or was posted (`Told`), what is queued was logged; a missed
session which a run record has passed is told of, or in the hands of the process that
wrote the record, which lets go of an incident only when it is in the outbox; and the process about to run a session holds all the earlier misses.

**Durable sends.** Three theorems about `PaperLoop` share one invariant, `Safe`.
Call an order open when it is at the broker, on its way, or about to be sent by a
runner whose push was accepted. The branch, and every checkout that is not
behind, has open orders reserved with their quantity, has a row for every order the
broker ever had, and has the fill line of those it released (`Known`). A
checkout that is not behind has every row of the branch (`Ahead`), so an order newly
reserved in it is unknown to the broker and to everyone else (`AtOrder`), and
pushing it changes the branch: every other checkout is then behind, and only
one runner can stand before a send. What is unanswered is in a current
run's list to look up, or made it stop, or was sent by the run itself (`Aware`).
`Follow` proves once that a copy that only adds reservations, or drops those of
orders that can fill no more and whose fills are recorded, stays `Known`; `Calm`
collects what all steps but `PersistIntent` have in common, and `CalmKeeps` proves them
harmless. The invariant was checked with TLC before it was proved.

**Promises.** The refinement of `OrderPromise` needs, in both loops, that an order in
hand is not yet one the market has seen. In `PaperLoop` `Told` adds to `Safe` that orders
have a quantity and that what the branch once reserved stays so in every checkout that may be
pushed; `Turn` is what a step of a runner may do to both, and each action is one. In
`FidelityLoop` `PromiseInv` follows one order through reservation, book and intent (`AtOrder`); a
checkout may be ahead of the branch in a single order, by a row, a line or an intent (`Leads`).

**One login.** `OneLoginPerSession` follows from `LoginInv`: a checkout at work has every
lease of the branch, and its own from `Claim` on; the branch has the lease before the login
and ever after; a session that has a lease to claim has not logged in. That needs every push
to publish a checkout that lost no lease, which `Calm` says of all steps but the claim, its
push, the login and the night, and `CalmKeeps` proves harmless once.

**The book of fills.** `BookInv`: a copy knows every order there is, has applied only
orders that have ended, and what it has applied is what it holds (`Books`); what a
reconciliation has collected has ended and was not applied before. A sum over the orders
changes by the one that is applied (`SumChange`).

**Nothing on top of a fill.** The bot compares its book with the account, ticker by ticker, and a
partial fill could be hidden by another of the opposite sign. `FillsInv` and
`SettledInv` show that it cannot while nobody else trades: of one session there is at
most one order a ticker, the account holds what all orders bought, and behind an order filled
in part no later session placed any. So when the comparison holds, the account and the book
differ by at most that one order, and it must be whole.

**Trial ledger.** All three properties rest on `LedgerInv`, whose parts are: exclusion (at most one
owner of the lock, and only it is between line and anchor), the life of a trial (start, then at
most one end, `Lives`), who owns a started trial (`Owners`), the one start of a holdout
(`Spent`), the looks behind a start (`Counted`), and what a run has checked before it writes (`Ready`).

**Cache.** `CacheInv`: a writer between two files has the earlier ones on disk as they are, a manifest was hashed
from files of one snapshot, and what a load has taken so far has the hashes its manifest names.

**Funded account.** `LedgerInv` has the account explained by its log of trades
(`Balanced`), the auditor's account as a mirror of it (`Mirrored`), and at each step of
a session nothing owed that is due before it (`Timely`). `StudyInv` adds that the frame's splits
explain its jumps in price (`SplitsExplain`), `TripsInv` that the trips to match are fixed.

**The day's cap and the decision.** `TradeInv` counts. The branch, and every checkout that is
not behind, has the intent of whatever the broker was sent, and in no session do the intents to buy
pass the cap (`Budget`). A run that is not behind affords what is left of its plan on top of that
(`Affords`), and each order it may still send leads no further than the decision while
nothing else trades the ticker (`Fits`). The broker's book has one order a ticker, of today, with
room for what is left of it (`Orderly`). A plan of another run, made on the same branch, is behind
as soon as the first push is accepted, and `Safe` keeps it from being sent.

**Nested study.** `StudyInv` ties the walk to the calendar: at any time it stands at some window k,
and its gaps are those of the non-empty windows before k (`WalkIn`); a fold's rows are then a
function of the calendar alone (`RawIn`). The purge is counted in positions of a sub-frame, the labels
reach over rows of the frame: the rows of a sub-frame are at least as far apart in the
frame as in it (`SortedRows`), so a purge as long as a label is enough. `SeenIn` and `ScanIn` say
that a prediction knows nothing after its own row, and that the scan holds what it wanted one close
earlier.

**Sweep.** `SweepInv`: every result is filed under its own unit, the parent's pairs are those a
serial run computes, and the file holds an earlier subset of them, whole (`FileIn`).

**Families.** `FamilyIsWhole` speaks of a program that ends, `FamilyInv` of every ledger and every
program on the way. The ledger: a baseline of the resumable family follows its completed
candidate, and the family's first configuration (`BaselinesFollow`), and is completed twice only when
the family was begun anew (`CompletedOnce`). The program: each series is still to be started, open, or
completed on its panel (`CoveredIn`); a baseline to be started has its candidate before it
(`OrderIn`); a series to be started is not open and, in a resumed program, was never completed
(`FreshIn`); a resumed program found each configuration begun once and completed, and has what
dangles in its hands (`ResumedIn`).

**Portfolio account.** `NeverOverdraws` relates a session to the one before. `AccountIn` is its
invariant: the last mark is the cash and the shares at their last marks, shares and waiting targets
are natural. A step keeps it because a mark moves by what the shares and the fills make of the new
prices (`BooksBalance`), and because the fills of an open are fair (`TradedFairly`): a sell is
filled in full; the buys share one cut, rounded down, of the funds that commissions and sells leave,
so together they cost no more than those. That the targets are natural goes back over every rule
and sizing (`WeightsAreABook`) to the panel, whose adjusted prices are natural because every
multiplier is a fraction of positive numbers (`PanelsAreTyped`); `back_adjust`'s refusal of a
dividend that leaves nothing of the close is what makes it so. `AccountInv` adds what the programs
do around it: a trial is of a known configuration, and begins with the whole capital.

**Sums.** Induction over data is out of reach, so `SumTheorems` proves what it says of sums
over finite sets by least counterexample: were a statement false of some finite set, it would
be of one with the fewest elements, and taking one out gives a smaller one
(`LeastNatural`, `LeastSet`). The sums are those of the community modules, unfolded. That
`Sorted` lists a finite set in order is proved in `ResearchProofs` in the same way.

**Model-checked only.** `DecisionsKnowNoTomorrow` and `PanelReturnsTheInvestors` of
`FamilyRun`. The first compares the books of the rules, the costs and the books that every
possible draw of the random baseline gives; the H5 rule and sub-universes are left out. Both compare adjusted prices, quotients that `Frame` rounds down: they are
facts about prices for which these come out even, as on the panels of `family_run`, and not of
all integers. Everything live is out of the prover's reach, and so is `ENABLED`: `MissIsPosted`,
`EveryRunEnds`, `EveryRunReturns`.

## 6. Plan

1. Done: gate, journal, traders and broker, operations runner and delivery, both
   submitting loops and their common promise, the trial ledger, the price cache and the
   funded account, the nested study, the family runs, the feature sweep.
2. Done: of the forty properties of the runs, all but three that are live and two of
   `FamilyRun`, which hold of prices that divide evenly, are theorems.
3. `ModelRegistry` (promotion and rollback) and `LossCapGuard`, once a program uses them.

## 7. Not modelled

Estimators, features and floating-point statistics, report and evidence writers,
plots, downloads, the adjusted-price cache and macro series (numeric or one-shot
code without a protocol), browser hosting and provisioning, the web interface, the drill
and preview modes of the runner, the trend planner of the paper prototype, the loss and mode
caps and the request guards of the Fidelity client, the backfill of old trials, the model
registry and `LossCapGuard` (no program calls them), the loop guard and the restore
drill. `PROJECT.json` gives the reason for each component.
