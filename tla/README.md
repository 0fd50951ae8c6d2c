# stonks-agent: a TLA+ model of its durable core and what surrounds it

`stonks-agent` researches instruments, turns the research into signals and
trades them on paper. Its language models, market data and reports are replaceable; its
authority is a PostgreSQL database and a versioned object store. Everything that has to survive
a crash, a late worker, a repeated call or an operator's stop is a row or an object version,
written by a short transaction or one conditional call. This directory models those steps and
the processes that take them, checks them with TLC on small instances, and proves with TLAPS, for
every instance, all but five of the safety properties that the runs check: about the queue and its audit
chain, the paper desk, the paper cycle, the outbox, the strategy registry, the artifact store, the
snapshot pipeline, the research lease, the API edge, service dispatch, outbound transport, the
deployment and its scripts, the console, its data and its page.

Contents: [inventory](#1-inventory), [the modules](#2-the-modules-and-the-code),
[the runs](#3-the-runs), [fairness](#4-fairness), [proofs](#5-proofs),
[findings](#6-findings-and-observations), [limits](#7-what-is-not-modelled), [plan](#8-plan).

Run a check with `tlc -config MCJobQueue_audit.cfg MCJobQueue` (in the same way for every
`.cfg`), and a proof with `tlapm JobQueueProofs.tla` (in the same way for every `*Proofs.tla`).

Paths below are relative to `src/stonks_agent/` of the repository, those of `scripts/`, `docs/` and `workers/` to its root.

## 1. Inventory

### Components, state, operations

| Component | State it keeps | Operations that change it | What makes it correct |
|---|---|---|---|
| Durable job queue (`adapters/postgres/job_queue.py`, `job_queue_audit.py`) | `job` rows: status, attempts, generation, nonce, owner, lease end, deadline, result | enqueue, claim (with the dead-letter pass), complete, fail, and the receipts a repeated call gets | one verdict per job; accepted only from the live lease; a lost answer can be asked for again; every job is settled |
| Run audit chain (`job_queue_audit.py`, `models/core.py`) | `workflow_run` head, `run_event` and `outbox` rows | one row per verdict or retry, in the transaction that decides it | no gap, no duplicate, head and rows agree, or every later transition is refused |
| Snapshot pipeline (`application/data`, `snapshot_*.py`) | run, job, archived raw answers and manifests | request, fetch, archive, materialize, complete, failure with retry | a snapshot holds what one attempt fetched in time, and is completed once |
| Research lease (`application/research`, `adapters/llm`) | tool-loop counters, budgets, evidence shown, `worker_late_result_audit` | turns, tool calls, repairs, report, completion, quarantine | spends within its budgets, cites what it was shown, ends |
| Risk authorization, execution, ledger (`application/{risk,execution,ledger}`, `trading_*.py`, `ledger_repository.py`) | decisions, orders, reservations, receipts, fills, journal, projections | authorize, execute, post, replay, reconcile | within the decision's authority, once, never while stopped; the books replay |
| Operations and kill switches (`application/operations`, `paper_operations.py`) | switch rows, operator actions | activate with mass cancellation, resume, reconcile, trip | a stop covers everything and is lifted over sound books only |
| Account arithmetic (`application/{portfolio,risk,ledger,monitoring}`, `adapters/execution/paper.py`) | cash, units, cost basis, reservations, valuations | build a target, judge it, reserve, fill, post, value | parts that round in different directions still agree |
| Paper cycle (`application/workflows/run_cycle.py`, `paper_cycle_store.py`, `adapters/paper_cycle`) | checkpoints in the run's events, the cycle's job | load, stage, checkpoint, fail, complete, cancel | progress is kept, belongs to the live attempt, and ends |
| Outbox delivery (`outbox.py`, `application/reporting/deliver.py`, `adapters/delivery`) | `outbox` leases, receipts in memory | claim, deliver, ack, nack | what is published was sent; repetition is bounded |
| Strategy registry (`application/{strategies,evaluation,signals,portfolio}`, `strategy_repository.py`) | registry rows, audit events, reports | register, evaluate, promote, suspend, retire, use | every promotion and every use rests on a report that was valid |
| Artifact store and maintenance (`adapters/artifacts/s3*.py`, `application/artifact_maintenance.py`) | object versions, locks, delete markers, the maintenance audit chain | finalize, extend, hold, collect, restore | one manifest per content; locks only tighten; every change has its audited command |
| API edge (`entrypoints/api`, `adapters/auth/oidc.py`) | window counters, signing keys | admit, authenticate, refresh | limits hold under a clock that is set back; one identity per request; keys are current |
| Service dispatch (`adapters/{forecast,research}`, `workers/`) | a service's slot, a lease's attempts | dispatch, retry, answer | an answer belongs to the request and the lease it is used for |
| Console data (`adapters/market_data`, `entrypoints/api/gui.py`) | caches, request budgets, gates | ask, refresh, fail over | answers are as recent as they say |
| Local console and its page (`entrypoints/gui*.py`, `api/gui*.py`, `composition/model_settings.py`, `gui/assets`) | start gate, jobs, event stream, containers, session setting, page views | start a run, follow it, serve, answer, stop; change settings; click | one run at a time; nothing is left behind; what it says of itself is so; a number names one setting; the page shows what was asked for last |
| Outbound transport (`adapters/artifacts/s3_http.py`, `s3_network.py`, `security/ssrf.py`) | pinned addresses, connection pool, credentials | check, sign, resolve, send | what is sent goes to an address of the one answer that was permitted |
| Deployment (`entrypoints/deployment.py`, `scripts/smoke_core_deployment.py`, `smoke_optional_profiles.py`, `drill_postgres_restore.py`) | schema revision, advisory lock, login and its secret; docker objects, reports | migrate, serve, rotate; drill; smoke; report | whoever says ready, passed or verified is right, and touches only its own |
| In-memory cycle, community platform, backtest engines | process memory, cursors, inbox | run; poll; compare | see the run `ops` |
| Inbox (`inbox.py`) | `inbox_dedup` rows | consume | not modelled, see section 7 |

### How they interact

* **Calls.** A worker (`entrypoints/worker.py`) polls `claim`, runs the handler of the job's
  type, and reports with `complete` or `fail`. Authorization hands an execution command
  to the executor; the executor posts to the ledger in its own transaction.
* **Shared rows.** The queue, the snapshot pipeline, the research lifecycle and the paper
  cycle all append to the event chain of a run and move its head. Authorization, execution and
  mass cancellation all move the projections of an account; switch rows are read by
  authorization and execution and written by operators and by failed checks.
* **Messages.** Each event row has an outbox row; a sender delivers those of its topic.
* **Late callers.** A lease, a registry row or a list of versions is a value that a caller keeps.
  Nothing recalls it: the only protection is what the next transaction or conditional call checks.

### What is hard

Leases that end while their holder still works; two claims that skip each other's rows; an
audit id that two transactions derive alike; several jobs of one run that a single pass buries; a
second decision between an order and its execution; an activation between an execution's reads and
its commit; a rolled back execution whose alarm is raised in another transaction; checks that read
with several statements; a report that expires between its validation and the update; versions that
are listed in one call and deleted in another; clock readings older than the lock they are used
under; answers that arrive in another order than they were asked for; repeated calls after a lost
answer. `PROJECT.json` lists each of them with its line and the properties that would catch it.

## 2. The modules and the code

Conventions. An action is one transaction of the code (or one call to an external service), with
everything it writes; transactions that others can interleave with are split where that can be
observed. Guards are the code's conditions; a refused call changes nothing and is no action unless it
changes the caller. Ids are model values or small numbers; payloads and hashes are left out, except
where an identity is derived from them, and then the derivation's arguments are kept. Operators that a
comment calls a mutant are faulty variants that no specification uses: each stands for a
plausible mistake, and replacing the definition after it by it violates one property. Constraints and
triggers of the database are stated as properties rather than as guards: `ExecutionIsBound`, `RegistryAudited` and
`AuditAgrees` say, among other things, that no step is one the schema would refuse.

### JobQueue, LeasedTask

| Model | Code |
|---|---|
| `job`, `run`, `events` | `JobRow`, `WorkflowRunRow`, `RunEventRow` with its `OutboxRow` |
| `leases` | every `JobLease` a claim returned: any may be presented again at any time |
| `quarantined` | `WorkerLateResultAuditRow` |
| `Tick` | `clock_timestamp()` of the database |
| `RequestRun`, `CreateRun`, `Enqueue` | snapshot and research requests, `PostgresWorkflowStore.create`, `_enqueue` |
| `Claim(w, locked)` | `_claim`: `dead_letter_unclaimable` and `_next_claimable_job` in one transaction; `locked` are the rows that `SKIP LOCKED` passes over |
| `Complete`, `CompletedReceipt`, `Quarantine` | `_complete_active_job`, `completed_job_receipt`, `complete_research_result` |
| `Fail` | `_fail_active_job`, `commit_job_failure` |
| `SnapshotFail`, `SnapshotComplete` | `record_snapshot_failure`, snapshot completion |

The audit id is `uuid5(job, generation)`; `AuditRowExists` is its primary key, and an insert that
violates it rolls back the transaction it is in, the claim of another job included.

`LeasedTask` is the abstract specification: a task is held by one holder at a time, for a time, is
taken from a holder only when that time is over, at most `MaxAttempts` times, is finished by its
holder in time and once, and then stays as it is. `JobQueue` is mapped to it row by row
(`QueueIsLeasedTask`), checked in the run `audit` and proved in `JobQueueProofs`.

### PaperTrading

Variables for the account and its projections, orders with their reservations, receipts, fills,
journal, switches and operator log, and for what is under way: an execution that holds the
switch rows' locks (`exec`), a check that has read part of what it compares (`check`), an
alarm that was raised by a rolled back transaction and has not tripped the switch (`alarm`).

| Model | Code |
|---|---|
| `Authorize` | `application/risk/authorize.py`, `evaluate.py` (the checks that read account state), `trading_repository.py` |
| `IssueCommand` | `build_execution_command` |
| `ExecuteBegin`, `ExecuteStale`, `ExecuteFault`, `ExecutePending`, `ExecuteExpired`, `ExecuteRejected`, `ExecuteFill` | `application/execution/execute.py`, the broker's answers in `adapters/execution/paper.py`, `apply_paper_execution`, the posting |
| `Trip` | `activate_global_kill_switch` of `ledger_repository.py` |
| `Activate`, `Resume`, `OperatorCheckFails` | `paper_operations.py`, `application/operations` |
| `CheckBegin`, `CheckPasses`, `CheckAlarms` | reconciliation and receipt replay, which read without locks |
| `Observe`, `ObservationAges` | the switch observation a caller of authorization brings along |
| `Expire`, `Crash`, `Damage` | time, a process that dies before its alarm is raised, rows damaged from outside |

Quantities are whole units; a fill's price stands for price and fee. `Unvalued` keeps the one
refusal of the cost-basis code that changes control flow.

### PaperCycle

A process is one call of `run_paper_fund_cycle`; two calls may share a lease. `Load`,
`BeginStage`, `Process`, `Checkpoint`, `Fail` and `Complete` are the steps of its loop, `Cancel` is
the operator's, `Claim` and `DeadLetterUnclaimable` are the queue's for this one job. A stage's
output is the process that produced it, so that two calls that perform the same stage never
agree by accident and the compare-and-swap on the state hash matters. `late` counts stages
that were performed after the run was settled. Worker and database clocks are one; lock
order is not modelled, an aborted transaction is `Stop`.

### Delivery

Rows count down to the end of their lease and to `not_before`, so time needs no bound. A sender
delivers each claimed lease once (`Begin`, `Deliver`, `Ack`, `Nack`), may fail before or after the
message left, and loses its leases and its channels' receipts in a `Crash`. The order of the claim
query is any order. A file that is already in place counts as sent again.

### Books

The same operations as PaperTrading without interleavings and with the numbers: targets, the gate's
limits, ceiled reservations, the broker's participation, costs and fees, cost basis and realized
result, valuation. Money and quantities are counted in quanta, prices over `Scale` and ratios over
`Unit`, so that what does not divide evenly is rounded by each part in its own direction. A unit may cost less than
a quantum of cash. `BasisAvailable` is the refusal of a sale whose share of the cost is rounded to nothing.

### Strategy, Access

`Access` is `domain/auth.py`: roles, permissions, assigned targets. `Strategy` is a strategy's way from
registration through evaluation reports and compare-and-swap transitions to signals and targets. A
caller reads a registry row in one statement (`loaded`) and uses it in later ones. The triggers of
migration 0009 are part of the property, not of the guards.

### Artifacts, Snapshot

`Artifacts` has one content hash with its two keys, object and manifest, each a sequence of versions
whose last is current. A `finalize` writes conditionally, reads back and may be repeated after a
lost answer; a maintenance command appends its request to the audit chain, finds its versions, changes them one
call at a time and appends its terminal event; each may die anywhere. `Restore` finds a delete marker in one
call and deletes it in another. `Snapshot` is one leased snapshot job from the fence through the
policy's providers and the archive to the completing transaction and its receipt.

### Research, Dispatch

`Research` is one research lease: a worker thread with a program counter, tool threads that answer late
or never, repairs and retries of the model call, and the budgets they share. `Dispatch` is the call to
an isolated service that goes on working after its client timed out, may answer for another request,
and may be deployed anew between two attempts.

### The edge: RequestGate, Gateway, KeyCache

`Gateway` has the fixed window counters and `RequestGate` the sliding ones, as values with pure operators.
`Gateway` is one HTTP request through the middlewares on one event loop, which gives way only
while it waits for the body. `KeyCache` is the issuer's key set behind a lock, used with clock
readings that were taken before the lock.

### Data and console: OfficialData, Quotes, Replay, ConsolePage, ConsoleRuns, ConsoleServe

Caches, gates, budgets and failover of the console's data (`OfficialData`, `Quotes`), recorded fixtures that
may change on disk between two reads (`Replay`), the page's single thread between two awaits (`ConsolePage`), the
start gate, snapshot wait and event stream of a run (`ConsoleRuns`), and in `ConsoleServe` the order in which the
console starts and stops what it needs, with an interrupt (Ctrl-C) at any step of the start, while it serves or during the
cleanup: the handlers of the start catch `Exception`, which an interrupt is not, so what the interrupted step made is
known to nobody. What it answers meanwhile: `AskConsole`, then `ProbeService` for one service after another, each of
which may fall before, between and after, then `ReadPaper`. A probe has a timeout or needs a connection of the pool, so it may
fail of a service that works. And settings that are tested outside of the lock.

`OfficialData` keeps the lists of the code with their limits: a report superseded by a later one of its period is left out, facts
stop at 12 entries (`FactLimit`) in the order of their periods' ends, filings at 20 (`FilingLimit`) and published
rows at 12 (`RowLimit`). `Linked` of `ConsoleRuns` is the snapshot link, which the wait looks at before the job's status.

### Deployment: Outbound, Deployment, RestoreDrill, Smoke

`Outbound` is the object store's client on the guarded transport: two threads share one guard and its pool, and the answers of the
DNS, connections and credentials change at any time. `Deployment` is several `migrate` and `serve` processes, of images that
package different heads, on one database. `RestoreDrill` should remove what is its own and nothing else; its cleanup takes three docker
commands for each resource, `InspectLabel`, `RemoveByName` and `ConfirmGone`, and other users may take or replace a name between any two.
`Smoke` has the core smoke, a fixed script of docker commands against a deployment that may have any one defect of
`Defects`, and the optional smoke, which watches the core while profiles are tried. The scripts' docker is external: what
other users do to it is any action between two commands.

### Operations: Platform, LocalRun, Backtest

The community platform's cursor and inbox, the in-memory cycle's idempotency keys and locks, and the plan of
fills that three backtest engines must agree on. The platform gives its replies numbers in any order: the adapter sorts a page by
time and number, and keeps the largest number as its cursor. A caller chooses its page size.

`Nothing` declares the model value `None`.

## 3. The runs

Every bound is a constant. Runs with a `part` variable hold several components side by side: the initial
state picks one and the others stand still, so the parts do not multiply. Deadlock is not checked:
every system here may come to rest with its work settled.

| Run | Instance | Shows |
|---|---|---|
| `audit` | a snapshot and two research jobs of another run that can expire together; 2 attempts, leases of 2 ticks, clock to 4, one worker (leases of all its attempts stay usable) | `TypeOK`, `AuditAgrees`, `AcceptedWhileLive`, `VerdictIsFinal`, `QueueIsLeasedTask` |
| `family` | three jobs of one run: a pipeline, whose results have the schema that the composed handler gives them, a research job of the other kind, and a feedback job; two workers, 2 attempts, clock to 5, one job per dead-letter pass | `ReceiptsReplay`, `OutcomesLast`, `Settles` |
| `retry` | one snapshot job, three attempts | violated: `Settles` |
| `stale` | one research pipeline, whose results have the schema that the composed handler gives them | violated: `OnlyStaleIsQuarantined` |
| `twin` | two accounts, two decisions of one of them, whose ledger may be damaged; two operator actions, four switch versions; one check at a time (`OneCheck`) | `LogAgrees`, `ExecutionIsBound` |
| `stop` | one account, two decisions | violated: `StopIsAvailable` |
| `flow` | two calls of a two-stage cycle; two senders, a report and a row of another topic; a desk with a purchase, a sale and a sale of what was bought, at two prices | `CycleIsConsistent`, `DeliveriesAgree`, `BooksReconcile`, `NoFillWhileStopped`, `ProgressIsKept`, `PublishedByHolder`, `FlowSettles` |
| `research` | a lease with three evidence items, one of them too late to be used; three iterations and calls, one repair, one retry. Two transfers and four addresses, one of them not permitted; two releases with two migrations, a new password and an outage; two other users' docker objects; every defect of the core smoke; one profile of each expectation and three disturbances | `SpendIsBounded`, `LeaseIsHonest`, `LeaseEnds`, `ScriptsAreHonest`, `OutboundHolds` |
| `edge` | three requests, two windows, a clock set back once; two threads and five fetches of keys; two generations of a job against one service. And what is stored: two finalizes and two commands, at most `MaxStarted` of the four in one behaviour; two workers, two attempts and two providers of a snapshot | `WindowsHold`, `ServedForOneIdentity`, `KeysAreCurrent`, `AnswerIsBound`, `OneStory`, `SnapshotIsSound`, `MutationsAreAccountable` |
| `data` | two callers per market, reports of two periods against lists of one and two entries, two readers of quotes, two fixtures, two runs and two selections on the page | `AnswerIsRecent`, `QuotesHold`, `ReplayIsRecorded`, `PageHolds` |
| `books` | two instruments, two decisions or one that is valued, or three about one instrument that may cost less than a quantum a unit; a strategy with two reports and two callers | `BooksAgree`, `RegistryAudited`, `UseIsBacked` |
| `ops` | the platform with two replies numbered in either order and pages of one and two, the in-memory cycle, the console's runs, its life and its settings, and the engines, two actors each | `FeedbackHolds`, `RunsReplay`, `ConsoleHolds`, `ParityHolds` |

Why these bounds are enough. The queue's facts involve a job, its successor lease and one neighbour in
the same run: three jobs, two runs and two attempts contain every pair, and a clock of
4 ticks lets a lease of 2 end before, at and after a deadline of 2 or 3. What a worker is told again, and what becomes of a
run's outcome, also depends on verdicts of siblings that come before and after: `family` has one run with all three jobs, so that two
opposite verdicts can follow a job's own, and 5 ticks for them. In PaperTrading the
interesting cases are a second decision between reservation and execution, a partial fill, a
price above the reserved one, and an activation or damage between two reads; each needs
at most two decisions and two units. In PaperCycle two stages are enough for one call to be
behind, level and ahead of another, and two attempts for a lease to be superseded. In Delivery a second
attempt gives late senders, expired leases and a repeated send. In the store a call racing another and a
command, or two commands following each other, are the cases; a fourth actor repeats one of them. At the edge a
limit of one or two requests puts every counter at its boundary, and a window of two ticks lets
requests fall before, at and after its end. A list of one entry is full after one report, and the second report belongs to
the same period or to another. Two replies are enough for one to be posted after another with a higher number. Three decisions in `books`
about one instrument let two partial sales follow a purchase, at prices above and below a quantum a unit. Prices that do not divide by `Scale` and fees that do not
divide by `Unit` make every rounding in Books happen. For the properties that are also proved (section 5) no bound matters.

Some properties deserve a reading. `CycleIsConsistent` includes what a cancellation is worth: a
call that is under way performs at most one more stage, because only its next checkpoint
tells it. `DeliveriesAgree` says what an outbox gives: at most one send per attempt, not
exactly one. `MutationsAreAccountable` ties each changed or deleted version to the one open request of the
audit chain. `BooksAgree` also compares what is filled with what the gate judged, across the
roundings in between. `ReceiptsReplay` has an exception that the code has, too: no receipt is given while the last event of the run is
a sibling's that left it with the opposite outcome. `AnswerIsRecent` counts a report as accounted for if the list has it, or a later one of its period, or is
full of entries that come before it. `FeedbackHolds` promises exactly one hand-over for replies whose numbers fit the order of
posting, and nothing about the others but that they exist; an event of the heartbeat is handed over at most once, and may be handed to nobody.
`ConsoleHolds`, `ScriptsAreHonest` and `QuotesHold` are conjunctions, one conjunct per part;
each part stands still while another moves.

## 4. Fairness

* `JobQueue!FairSpec` (`family`, `retry`): weak fairness of the clock and of a claim that skips no row. `_run_loop` of
  `entrypoints/worker.py` polls for ever, and every transaction that locks a row ends. Nothing
  is assumed of a worker that holds a lease.
* `MCFlow!FairSpec`: the clock and the queue's dead-letter pass for the cycle, for the same reason; time and some
  sender's claim for the outbox. No call has to go on, and a sender that claimed owes nothing.
* `Research!FairSpec`: the worker's thread takes its next step, and time passes. Tool threads and the model owe no
  answer: that the lease ends rests on timeouts and deadlines alone. In the run `research` the same fairness
  is part of `Spec`; it says nothing about the deployment's parts, which are checked for safety.

## 5. Proofs

Eight modules hold the proofs, one for each group of components that interact or that one run composes. Every theorem holds for all
values of the constants that satisfy the assumptions named in the module that declares them. These say that ids are distinct from
`None`, that limits are natural numbers, that sets are finite where the code counts them, and, where a theorem needs it, what the
code's own constants satisfy:

* `PageLifeAssumption`: a page of company data lives no longer than the list of tickers (300 and 3600 seconds in `official_instrument.py`);
* `AgeAssumption`: an age that is called current is not above one that is called delayed (`gui.py`);
* `GateAssumption`: a thread stalls for less than the minute that the gate looks back; the code has no such limit, and without it no limit of requests holds;
* `HeadAssumption`: an image packages one of the migrations that there are;
* `PeriodAssumption`: a report is about a period that has ended when it is dated, and the lists have room for one entry;
* `FixtureAssumption`, `PageAssumption`, `PaperStateAssumption`, `StartAssumption`, `DrillAssumption`: a name, number or state that was not given yet is none of those that are.

The runs evaluate all of them.

All proofs have the same outline. The state is a function of rows, and an action writes one or two of them, so each
module first proves what an action does to one row (a *step lemma*), then that
every kind of step preserves the row's part of the inductive invariant, then the invariant, and derives the
properties from it. The invariants the runs check are seldom inductive; what had to be added is below. Where a run holds several
parts side by side, a last lemma (`DataParts`, `ConsoleParts`, and the like) says that the composition is each part's own specification.

### The queue: `JobQueueProofs`

`TypeCorrect`, `QueueInvariant`, `AcceptedOnlyWhileLive` (`AcceptedWhileLive`), `VerdictsAreFinal` (`VerdictIsFinal`),
`QueueImplementsLeasedTask` (`QueueIsLeasedTask`).

`AcceptedWhileLive` speaks of leases and events, and a step is decided by the row. `JobInv` ties them together:
`RowInv` (a row that is not enqueued has generation 0, so no lease and no event names it; otherwise enqueueing, which sets
`createdAt`, could move the deadline under an accepted event), `LeaseInv` (no lease has a generation above its
row's, and a leased row's end is that of its last lease), `VerdictInv` and `AcceptedInv` (an accepted event belongs to a
row that has succeeded, written before the end of that lease and before the deadline). `JobSteps` lists what
`Next` may do to one job; a claim with its dead-letter pass may do it to several jobs at once. The refinement
is proved on the same list: each kind of step is a step of `LeasedTask` or leaves its variables alone
(`TaskSteps`), and the clock maps to the clock (`ClockSteps`).

The audit chain: `ChainInvariant`, `AuditHolds` (`AuditAgrees`), `ReceiptsCanBeReplayed` (`ReceiptsReplay`), `OutcomesStay` (`OutcomesLast`).

A dead-letter pass appends one event for each job it buries, in one transaction. The lemma about ranks says that numbering
a finite set of jobs in order is a bijection to an interval, so the events of a pass follow the run's head without gap or
repetition for any number of jobs; `RunStep` says what a step does to one run, and `ChainInv` is preserved by that.

None of them has a hypothesis about how many jobs a run has or which schema a result carries. A run as a snapshot or research
request creates it has one job; others, such as the feedback job, join it later, and the verdict of one then moves the run's head under the others. `ChainInv` therefore
also says that the event at the head gave the run the status it has. The receipt of a job is looked up
by that status, so what can take it away is exactly a head that belongs to a sibling with the opposite outcome (`Overruled`; `ReceiptsFollow`), and `LateInv`
says of every quarantined result why it can no longer become the accepted one, or that its job was overruled before. `EndedRunMoves`: a run that
has ended loses its status only to a job that was still open, because the job at its head no longer is. That a result under a live lease is
quarantined for its schema alone is the other half of `OutcomesStay`; that the composed handler produces such results is the run `stale`.

### The paper desk: `PaperTradingProofs`

`DeskInvariant`, `NothingFillsWhileStopped` (`NoFillWhileStopped`), `LogAlwaysAgrees` (`LogAgrees`),
`ExecutionsAreBound` (`ExecutionIsBound`).

An execution reads the switches in one step and books in another. `ExecInv` says what holds in between: the rows
it locked are as it read them, because activations wait for the locks and a check's alarm waits for
the trip. `OrderInv` relates an order's status with its reservation, receipt and fills, and makes the answer
recorded on the sequence of its authorization. `LogInv` gives the log its meaning although the system's own
trips raise the version without an entry. The step lemmas are `OrderStep`, `AccountStep` and `LogStep`.

### Outbox and paper cycle: `FlowProofs`

`DeliveryInvariant`, `DeliveriesAlwaysAgree` (`DeliveriesAgree`), `PublishedOnlyByHolder` (`PublishedByHolder`).
That a message is sent at most once per attempt is not inductive: what a sender has claimed and not yet sent must be counted as well.
`MessageInv` bounds what was sent together with the attempts outstanding; `OneHolder` says that no two senders
hold the same attempt of a message, which is why one send is subtracted for one that is made.

`CycleInvariant`, `CycleStaysConsistent` (`CycleIsConsistent`), `ProgressIsAlwaysKept` (`ProgressIsKept`).
`RowsStep` and `StateGrows` reduce the steps of all calls, the queue and the operator to what they do to the rows; `ProcInv` says that a
call holds a prefix of what is saved. The log must also stay readable (`ReadableLog`) for as long as the cycle may go on.

### Artifact store and snapshots: `StorageProofs`

`StoreInvariant`, `EveryCallTellsOneStory` (`OneStory`), `MutationsAreAlwaysAccountable` (`MutationsAreAccountable`).
Commands list versions in one call and change them in later ones. `IdsInv`: a version id is used once, so a deleted version is never
mistaken for a new one; `CommandInv`: a command under way is alone, is the open end of the audit chain, and what it
aims at is still of the kind it found (`Aimed`). `StoryInv` carries the manifest from the first conditional write through the
reads of every other call. An action changes the versions of a key by appending, tightening one or removing one
(`Tightens`, `Untouched`, `Accountable`).

`SnapshotTypes`, `SnapshotInvariant`, `SnapshotsAreSound` (`SnapshotIsSound`).
A worker that lost its lease goes on, with answers, archive and a manifest of its own attempt. `HolderInv` says what each of these
is worth at every stage: it belongs to an attempt that is not above the job's, its trace follows from the answers, and what it is about to
complete is what it archived (`ContentInv`). `AttemptInv` and `CompletionInv` tie receipts and failures to attempts, and
`LinkInv` says of the linked manifest what `SnapshotIsSound` asks for.

### The research lease and the deployment: `ResearchProofs`

`ResearchInvariant`, `SpendStaysBounded` (`SpendIsBounded`), `LeasesAreHonest` (`LeaseIsHonest`).
The provider's bill, the tracker and the loop's usage are counted at different moments. `SpendInv` says by how much they may
differ at each program counter, by one answer at most; `ScopeInv` follows evidence from the tools to the citations;
`PipeInv` says which stages are behind a result.

`OutboundInvariant`, `OutboundIsPinned` and, in the composition, `WorkersArePinned` (`OutboundHolds`). The pin is empty or one permitted answer as a whole,
idle connections lead to the pin (`OutboundInv`); `GuardFollowsClient` compares the two sets of rules operation by operation.

`DeploymentInvariant`, `DrillInvariant`, `SmokeInvariant`, `MatrixInvariant`; `SchemaStaysAsTold`, `DrillsAreHonest`,
`VerifiedDeploymentsAreSound`, `ReportsAreTrue`, `ReportsStay`, and of the composition `ReportsAreHonest` (`ScriptsAreHonest`).
A migrator's revision is read before it has the lock, so `MigrationIsSound` says what remains of it at each step, and `SchemaStays` that no other process
takes it back. `DrillInv` knows at each stage what is the drill's own in docker and what the copy can be compared to, and that between the look at a
label and the removal by name the name holds the drill's own, nothing, or what came in that very moment (`late`): only the last is not protected, and nothing else of another user's is ever removed. The core smoke's argument is a
table: `StackAt` says how each step of the script finds the stack, and `NotMet` which defects a script that got that far cannot have
met; at its end none is left. `Current` says what a profile's result rests on after each of its six steps.

### The edge: `EdgeProofs`

`KeyInvariant`, `KeysStayCurrent` (`KeysAreCurrent`), `GatewayInvariant`, `WindowsAlwaysHold` (`WindowsHold`),
`EveryAnswerHasOneIdentity` (`ServedForOneIdentity`), `DispatchInvariant`, `AnswersAreBound` (`AnswerIsBound`).

* Keys. A thread holds a clock reading from before the lock. `LookupInv` says what such a thread may conclude from the
  cache it then finds, `CacheInv` that the cache expires `CacheSeconds` after the reading of its last answer, `FetchInv` that the
  fetches for unknown keys are in order. The attempt to prove an earlier property, which spoke of any three
  fetches, failed for a good reason: it is false beyond the bound of the run (section 6). The property and
  the bound were corrected, and the corrected one is proved.
* Windows. `Fits` says that the counters of the live windows cover the requests that were granted, and that no key is over its
  limit. It is preserved by expiry, by a grant and by the two combined, for a clock that steps in either direction.
  `CallInv` says which checks are behind a request at each stage.
* Dispatch. `AnswerInv` is the core's side, `WorkInv` the service's, with at most one request in its hands (`OneHolds`);
  `MadeInv` says that a response was made by a service for the request it names. Since job and generation
  name one attempt, an answer that carries both came within that attempt's own deadline.

### The console's data and its page: `DataProofs`

`OfficialInvariant`, `AnswersAreRecent` (`AnswerIsRecent`), `QuoteInvariant`, `QuotesAreHonest` (`QuotesHold`), `ReplayInvariant`,
`ReplaysAreRecorded` (`ReplayIsRecorded`), `PageInvariant`, `PageIsInOrder` (`PageHolds`), and of the composition `DataIsTrue`.

* Official evidence. What a page says may have been read a timeout before it is stored and be served for its life. `PagesAreYoung` bounds
  that for what is kept, `IsRecent` for what a caller already has (it failed, or is at most `Slack` older than the caller's observation), and
  the same slack holds for a bundle that another caller made (`OverviewsAreRecent`). The longest life counts: hence `PageLifeAssumption`.
  A report that a list does not have was superseded or crowded out: `Superseded` looks at the last report of a period, and a list that dropped
  a report has `LimitOf` entries ahead of it, as a set cut at its leading elements does; so it `Covers` what it dropped.
* Quotes. A thread's reading of the clock is from before its requests. `ReadIsTimely`: it is at most one timeout old for each source asked so far; `CacheIsTimely`:
  what is kept was two timeouts old at most when it was stored; `SaysTruth`: what was said of an answer's age is so. For the gate, `GateInv` matches the readings it
  keeps with the requests really let through, from the last one backwards: a reading may be older than its request by a stall, so the window that is proved is shorter by a stall.
* Replay. A loaded adapter holds what was recorded; a snapshot reads the file again, and `Verified` is the only way to use it.
* The page. `AsksAreSound` and `SourceIsSound`: no request or stream is ahead of its serial, and one that is level is about what is
  shown; `PostIsAlone`: a post that starts a run is alone under its serial, so nothing else can end what it began.

### The console and the strategy registry: `OpsProofs`

`ConsoleInvariant`, `ConsoleRunsStayTold`, `ServeInvariant`, `ConsoleEndsClean`, `SettingInvariant`, `GenerationsNameViews`, and of the
composition `ConsoleAlwaysHolds` (`ConsoleHolds`).

* Runs. The gate forgets its run when the next start is let in, and the run is queued before its start is answered. `GateInv`
  says where the one open run is: no run is open while a request asks for its snapshot, then it is in that request's hands, then in the gate.
  A restart ends the life that an open run counts for. For the stream, a row only goes `Onward`, so the events of a row are
  the beginning of the events of any later one (`EventsStay`), which is why a retry may show `queued` in the status but not in the stream.
* Life. `OpenBBInv`, `KronosInv`, `PaperInv` and `ResearchPartInv` say at each stage, for each resource, that whoever takes it down
  knows of it, or a stop of it failed, or an interrupt came at a stage that is named. An interrupt during a start ends in the cleanup with what the step had made and nobody owns;
  one during the cleanup ends it. An answer under way is about what was composed, and a service it calls ready was up and had
  not fallen when the request came (`ReplyInv`); nothing that was composed goes before serving ends.
* Settings. A change of what is set takes a new number in the same step (`ViewsAreNumbered`), whoever tests meanwhile.

`RegistryInvariant`, `RegistryStaysAudited` (`RegistryAudited`), `UsesAreBacked` (`UseIsBacked`).
A caller uses a row it read some time ago. `SeenInv` says what is left of that: what it read is what the event of
that version says (`SaidBy`), for ever, since events are only appended; so the compare-and-swap on the version decides
whether it is still the row. `Backed` finds the promotion behind a version; `Moves` are the transitions the
table of the domain allows.

### What is only model-checked, and why

* Liveness: `Settles`, `FlowSettles`, `LeaseEnds`. Fairness and `ENABLED` are outside the prover's reach.
* Sums over orders, fills, runs and postings: `BooksReconcile`, `BooksAgree`, `ParityHolds`, `RunsReplay`. They are folds over
  data. That a fold over a set grows by what is added to the set takes an induction over sets with an operator as its parameter,
  which the installed provers cannot instantiate.
* `FeedbackHolds`: its order of replies is a sort (`SetToSortSeq`), whose result exists and is sorted by such an induction, and its score is a sum.
* That a queue implements `LeasedTask` is proved for its safety; that a task ends is `Settles`.

## 6. Findings and observations

Three runs expect a violation; `PROJECT.json` quotes the code and the document that disagree.

* `retry`: `record_snapshot_failure` uses the audit id of job and generation. If the deadline passes before the next
  claim, the dead-letter pass needs the same id; its transaction is rolled back, and so is every later claim, of any job.
* `stop`: a reservation is released only at the account sequence it was made at. After a second decision or a fill an
  activation is refused as a whole.
* `stale`: the research handler stamps its result `research-worker-result/1.1.0` (`process_research_lease.py:146`, `:160`), `complete` accepts
  `1.0.0` only (`job_queue.py:452`). The result of a live lease is refused and then kept as a late one, with the reason `stale_attempt`; as composed, no research
  pipeline can succeed. The run `family` has the same schemas; its other properties hold all the same.

Observations without a run of their own. They are places where the model follows the code and a reader of a comment
or a document might expect something else.

Queue and research
* Dead-lettering a feedback job sets its published, succeeded run to failed (`job_queue_audit.py:347`, against the table in
  `domain/workflow.py:60`).
* While the last event of the run is a sibling's with the opposite outcome, a worker that repeats its `complete` or `fail` is refused instead of given its
  receipt (`job_queue_audit.py:439`, `:483`), and a repeated, accepted research result is then also filed as a late one.
* A pipeline that stops before any research is accepted raises `ValueError`, reported as `CONFIGURATION_INVALID`
  (`docs/runbooks/llm-configuration.md:66`). TradingAgents is always unavailable on the worker's path. The loop's deadline is compared with `>`, the model call's with `>=`.
* A snapshot retry that fetches the same bytes later can never complete. An empty answer that was rejected as stale counts
  towards `SELECTED_BOTH_EMPTY`. `PolicySnapshotMaterializationSource` and the replay adapters are not composed in the package.

Trading and books
* A trip by the system leaves orders pending (`ledger_repository.py:330`, `docs/runbooks/ledger-mismatch.md:9`). A
  pending or partly filled answer is stored as the receipt and replayed, so the order neither fills nor expires (`execute.py:66`).
* Authorization accepts a switch observation up to 30 seconds old, so an order can be created just after an activation
  (`evaluate.py:265`, `docs/runbooks/kill-switch.md:11`); it cannot be filled. Reconciliation reads with several statements, so a
  commit in between is taken for damage and stops trading needlessly (`reconcile.py:91`).
* The sum of ceiled reservations can exceed the cash the gate approved; the authorization is then rolled back. A bar without
  volume is rejected as `reservation_insufficient`. Of an instrument bought for less than a quantum of cash a unit, a small sale has a cost that is rounded to nothing: it is refused
  and trips the switch (`post.py:174`); `BasisLasts` promises a sale only of what cost a quantum a unit or more.
* A partial fill that uses up its reservation leaves a partly filled order with a consumed reservation, which a later check refuses.
  `currently_authorized` is false once an account's own orders commit. `get_nav` takes the highest `as_of` and id and answers `stale` after a fill.

Cycle and delivery
* `cancel` of a paper cycle locks rows in the other order than every other transaction; the database would abort one of the two.
* The outbox claim does not look at the topic, and `deliver_outbox_lease` refuses a foreign row without a nack, which uses up its attempts;
  a row without attempts left is reported nowhere.

Store and drill
* Garbage collection lists manifests and deletes in two calls (`s3_maintenance.py:213`, `docs/runbooks/artifact-storage.md:31`). A restore lists a
  key's marker and deletes it later, so a version put in between stays current.
* After an extension a manifest's retention equality makes it unreadable; a partial extension leaves two retentions; a retry
  with another `finalized_at` over an orphaned object conflicts.
* The drill looks at a label and removes by name in two commands (`drill_postgres_restore.py:228`, `:231`): what another user puts under the name
  in between is removed. A failing `docker run` leaks an unregistered container; cleanup aborts when docker cannot be asked.

Deployment and transport
* `/readyz` answers 503 for good after the login's secret is replaced: the pool keeps the old password.
* The client lets a listing below any key of its prefix through that the guard's rules deny, so `EndpointDenied` leaves the client as an
  exception of another layer. `OutboundHolds` says that this is the only such request.
* The core smoke does not remove the image it built, and the optional smoke's report stays although its cleanup failed. Whether an
  actual runtime passed is only taken from an environment variable.

Edge and services
* The key cache uses readings from before its lock, so fetches can be made out of order of their readings and three fetches can fall within
  the refresh interval. Only fetches for unknown keys are always that far apart (`oidc.py:139-177`).
* After a jump of the clock the API's limiter denies until the clock catches up. A retry of Kronos or TradingAgents finds the service busy,
  and 429 is not transient.

Data and console
* A Taipei-dated report ahead of `as_of`, or a page without the company, raises (`instrument_bundle.py:113`, `official_instrument.py:822`). A daily bar of any
  age is `market_closed` and available. An OpenBB answer with one later-stamped bar is rejected whole.
* The feedback page raises for replies of equal time whose numeric and textual id orders differ, and for a reply created after `as_of`;
  a published thesis raises after its observation deadline; events accepted before a later record fails are never handed over
  (`ai_trader.py:269`). Pages are sorted by time and number but the cursor is a number: replies numbered out of time order are passed over or
  read again (`ai_trader.py:213-229`). In the in-memory cycle one key used for two accounts at once is not detected.
* An unreadable terminal artifact keeps the start gate closed until a restart; cancelled starts count towards the limit; `read()` shows `queued` again for a
  retry while the events say running. A start of the paper database that fails half way leaves its container; a worker thread that does not stop in 10 s leaves the runtime open.
* An interrupt while OpenBB, the database, the engine or the research runtime is started leaves what that step made running, because `started` is still
  false and the handlers catch `Exception` (`gui.py:188`, `:316`, `:470`); one during the cleanup leaves the rest. A probe that times out or finds no
  connection in the pool shows a working service as failed (`gui.py:482`, `:704`).
* The research capability stays `ready` after the worker's thread died, while the services say that it failed.
* Clearing the settings during a connection test is overwritten by it, and a run may use other settings than the ones verified.
* On the page, a failure leaves the evidence cards; an events answer that is no stream ends the `EventSource` for good
  (`research.js:266`); `unavailable()` hides finished results; capability and list answers carry no serial.
* Lean rejects a day order without a session where Nautilus answers; a native engine that splits a fill is refused.

## 7. What is not modelled

* Hashes, signatures, trace carriers and payloads, except as identities.
* Exact lock order and the database's deadlock detection; transactions are serializable per row, and split where READ COMMITTED
  shows. `OfficialData` takes clock and lock in one step.
* Clock skew between worker and database, except where the code uses the worker's clock (the cycle's handler, the outbox's retry time).
* Inbox: one insert under a unique key, with no caller in the package.
* The release and policy scripts, CI, CORS, and the service applications' own frameworks. The reference backtest engine is external.
* In-memory fakes are test doubles (`LocalRun` models the one the local cycle uses).
* `run_paper_fund_cycle` and `deliver_outbox_lease` have no caller in the package; their callers are modelled from the tests' use: a call
  may be repeated, overlap another, or stop.

## 8. Plan

The safety properties that are left to TLC need sums over sets. The next step is a lemma for one fold over a finite set, written for its one operator instead
of for any, with a recursive function in place of the community module's; `RunsReplay` and the part of `BooksReconcile` about one order would follow.
After that: the parity of the backtest engines for any number of orders, and the release and policy scripts, which keep no state between calls.
