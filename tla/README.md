# TLA+ models of buba-paint

TLA+ specifications, TLC configurations and TLAPS proofs for buba-paint: the
live-trading core of `bots/paint` (what stands between a strategy's decision and
real money at the venue), its market feeds, writers and replay engine, the
Polymarket sidecar, and the research job queue and artifact transfers of the
dashboard. Line numbers refer to `src/` at the modelled commit; the exact
correspondence of every definition is in `PROJECT.json` ("map"), which covers
about 30% of the implementation's lines.

    tlc -workers 2 -config LiveSubmission_crash.cfg MCLiveSubmission
    tlapm RuntimeDecisionProofs.tla

There are eight proof modules, and `tlapm` checks each on its own.

## The system

`bots/paint` is a trading bot for five-minute up/down markets. One process has

* a **main loop** (`live.rs`, `tokio::select!`) that owns the market state and
  the live-trading monitor, and takes feed events, timers and the outputs of
  the other parts from channels;
* **feeds** (Binance, Polymarket CLOB, Chainlink) with reconnects;
* a **strategy worker**, a thread that owns the decision engine (bankroll,
  pending orders, open trades, circuit breaker); it takes messages from a
  bounded mailbox and the latest evaluation request from a one-place slot, and
  answers on a bounded output channel;
* a **live submission worker**, a task with a bounded queue that takes one
  batch of orders at a time to the venue through the **sidecar** (TypeScript,
  HTTP), writing the **run database** (SQLite) before and after;
* one **detached verifier** per fill, which holds it against the chain;
* two **monitor workers**, tasks that run on a clone of the monitor: one
  applies the operator's durable commands, one refreshes the sidecar's view of
  account and venue;
* **writers** with bounded queues for feed events and decision evidence.

Outside it are the **agent** (starts bots, reads their databases), the
**dashboard** (server, React client), and the **research orchestration** of
the dashboard server (jobs, workers, transfers).

### Inventory

| component | state | operations | hard part | what makes it correct |
|---|---|---|---|---|
| live submission worker (`live.rs` 355-1600) | queue, batch in hand | persist intent, reserve attempt, mark submitting, post, persist answer, feedback | crash between any two writes; failed writes; answers that leave the outcome open; second spread leg | marks before the venue, one post per intent, caps, nothing silently filled, feedback settles each order once |
| on-chain verifier (`live.rs` 551-783) | read budget per fill | read balance, confirm, raise halt, mark failed | verifiers of one token race against one balance; give-up | no phantom confirmed; a verdict for every fill |
| monitor and controls (`live.rs` 3751-4919, `live_control.rs`) | state, blocked reason, degradation timer; clones; command rows | poll, apply command, refresh, halt, merge, feedback | stale clones merged or written back; failed workers; late feedback | terminal is terminal, commands in order, halts happen, what is shown is true |
| run database (`db/database.rs`) | intents, orders, events, sessions, markets, trades, balances | guarded updates, counts for startup | restart on a used database | startup refuses anything unresolved |
| strategy worker (`live_decision.rs`, `live.rs` 180-340, 1580-1721) | pending orders, open trades, mailbox, request slot, outputs | evaluate, window closed, resolution, feedback, release, rollback | messages and outputs dropped at full channels; answers after the settlement; evaluations that race the mailbox | a reservation is given back or settled once; no strategy is exposed twice |
| bankroll (`bankroll.rs`) | balance, reserves per family in two buckets, totals | reserve, release, to pending, settle, hydrate | clamped buckets beside clamped totals; releases that take another trade's bucket; discounts | totals add up, nothing negative, the ceiling holds, what is exposed is reserved |
| backtest engine, executor, position manager, circuit breaker (`backtest/`, `executor.rs`, `position_manager.rs`, `circuit_breaker.rs`) | queued orders, positions, due settlements, loss streak, the book | one turn per tick group: settle, process orders, advance the window, one strategy cycle; final drain | orders of one window meeting quotes of another; spread legs that part; several markets unsettled at once | reserve is exposure; legging counted; the result covers every closed market |
| writers (`live_persistence_writer.rs`, `live_feed_writer.rs`, `live_storage.rs`) | bounded channels, batches, counters | enqueue, flush, report, join | full channel, failing flush, terminal error, shutdown; one writer carries the health report of the other | no silent loss; lasting loss stops trading |
| feeds, discovery, resolution (`feeds/`, `market_discovery.rs`, `live.rs`) | connection, book, windows, timers, pending settlements | discover, activate, close, resolve and retry, reconnect, resubscribe | late or reordered resubscriptions, long pauses, fetches that find nothing | each window settled from one place; the book becomes the current window's; outages are known |
| sidecar (`polymarket-sidecar`) | answers by order id, credentials, market cache, user stream | submit, preflight, discovery, reads, close; stream attempts | posts that time out and are taken later; shared bootstrap; events of old sockets | one order per id, truthful answers, a stream that never stalls, every request answered |
| research jobs (`dashboard/server`: `db.rs`, `research_worker.rs`, `research_pipeline.rs`, `research_export.rs`, `api/research/jobs.rs`) | job and step rows, events, leases, reports, scratch, exported artifacts | lease, run, export, renew, complete, fail, block; operator commands | lease expiry against a late finish; lost requests and answers; commands under a running worker | the queue implements a plain ledger; a completed export is whole; an undisturbed job settles |
| artifact transfers (`research_transfer.rs`, `api/research/transfers.rs`, `artifacts.rs`, `machines.rs`) | transfer, artifact and machine rows; files | claim, copy, verify, relocate, complete, recover; commands, PATCH, DELETE | a stale copy handed on while it still runs; read-modify-write requests that overlap | rows point at whole copies |
| agent, configuration, data build, dashboard API and client, telemetry | - | - | - | not modelled (below) |

`PROJECT.json` lists the components with their status, and the hazards with
the line at which each bites and the properties that cover it.

## Modules

| module | models |
|---|---|
| `LiveSubmission` | submission worker, its ledger, venue, chain, verifiers, crash and bootstrap |
| `LiveSubmissionProofs` | its theorems |
| `LiveControl` | monitor, its two workers on clones, commands, feedback, shutdown |
| `LiveControlProofs` | its theorems |
| `Bankroll` | the bankroll's operations, as operators on one record |
| `RuntimeDecision` | strategy worker and decision engine over `Bankroll`, with the main loop's side of its channels |
| `RuntimeDecisionProofs` | the theorems of both |
| `Backtest` | the replay loop over `Bankroll`, with executor, position manager, circuit breaker and strategies |
| `MarketFeed` | window discovery and rotation, settlement retries, the CLOB feed and its book |
| `MarketFeedProofs` | its theorems |
| `CaptureWriters` | both writer threads, capture health, its reading by the monitor, shutdown |
| `CaptureWritersProofs` | its theorems |
| `Sidecar` | the sidecar's requests over one provider, composed with the user stream |
| `SidecarProofs` | its theorems |
| `JobLedger` | abstract: what the job queue promises |
| `ResearchJobs` | job queue, workers and commands; implements `JobLedger` |
| `ResearchJobsProofs` | its theorems, the refinement included |
| `ResearchTransfers` | artifact transfers, artifact and machine rows |
| `ResearchTransfersProofs` | its theorems |
| `MC...` | instances for TLC |

Definitions named as variants ("Variant: ...") are plausible bugs used to show
that each property can fail; no specification uses them. Every module has a
`TypeOK`; it is proved for the eight modules with proofs, and holds of `Backtest`
in its instance (it documents the state and is no property of a run).

### LiveSubmission

The state is the part of the run database that some later decision reads
(`intentStatus`, `attempted`, `accepted`, `reconcile`, `critical`,
`terminalRows`, ...), the process (`session`, `queue`, the worker's `pc`,
`batch`, `leg`, `iid`, `resp`, the feedback it builds), and what the outside
really did (`calls`, `venueFill`, `chain`). Each durable write of
`submit_one_live_order_from_worker` is an action of its own, with a second way
to end when the write fails, so that `Crash` can fall between any two.

    persist -> reserve -> mark -> send -> respond -> classify -> (next order | emit)
                      \-> dry                    \-> err_event -> err_state -> emit

`Bootstrap` starts the next session if `ensure_live_bootstrap_clean` lets it.
`SettleOnChain` and the verifier actions run beside the worker.

Sizes are whole units (an order asks for 2). The sidecar's answers are the
eight that the worker tells apart. `MatchedUnder` says what the venue may have
done under each: an ok answer may be a phantom, an unknown one may hide a fill.
`live_sessions.status` is left out: refreshes overwrite it, and without it
startup lets through *more* restarts than the code does, so the safety results
carry over.

### LiveControl

`mon` is the main loop's monitor, reduced to `state`, whether `blocked_reason`
is set, and the degradation tracker. `wmon[w]` is the clone of worker `w`,
`wpc[w]` where it is between awaits and database calls, `wres[w]` what it will
return. `ReadCommands`, `NextCommand`, `ChangeState`, `RecordCommand` are
`apply_pending_controls`: `todo` is the set of pending rows the worker has read,
of which it takes the oldest first (`InHand`, the `ORDER BY` of the query);
`CheckReconciliation`, `FetchFails`, `Evaluate`,
`Halt` are `refresh_remote_state`, run by either worker (Preflight and Arm run
it inside the Controls worker; `Return` goes back to the right caller).
`ApplyWorkerOutput` merges as `merge_live_monitor_state` and
`merge_live_remote_refresh_state` do, or drops the clone of a failed worker.
`LiveControlPoll` also is the armed feed-outage halt, which awaits in the main
loop itself and so is one step.

What the sidecar reports is one of: `healthy`; `soft` (issues that only block);
`degraded` (user stream or preflight not ok); `stream_failed` (the activity read
says so too, and `persist_activity_recovery` records a critical event);
`terminal` (geoblock, auth, clock, capture); `down` (a read fails). A breach
of a loss cap may happen at any refresh of an active monitor (`RiskBreaches`); the
figures of `LiveRiskMonitor`, from which it is measured, are not kept. The
degradation timer counts refreshes instead of milliseconds.
The runs use `healthy`, `terminal` and `down`. `soft` only sets the blocked
reason, as `terminal` does before arming; `degraded` and `stream_failed` lead to
the same halt by way of the tracker, which `down` exercises, and of a critical
event, which the alarm of a verifier and the halts themselves raise. They
more than double the state space; `control_critical` with `stream_failed` added
passes too (1,080,858 states, five minutes), and is not kept as a run.
Strategy and submission worker appear as `permits` (evaluations let through
with `live_trading_can_submit`, then batches) and `feedback`.

### Bankroll and RuntimeDecision

`Bankroll` keeps the active and the pending-settlement bucket of each strategy
family and the two totals, each clamped on its own as in the code
(`ConsumeActive`, `ConsumePending`, `Release`, `ToPending`, `ApplyTradeResult`).
`Affordable` is every limit an order's cost must obey: balance less the
discounted reserve, `max_position_usd`, the family's fraction, its sleeve, and
the headroom under the ceiling, over the undiscounted reserve. How much is
asked for within them (Kelly fraction, confidence) is open. In paper mode the
ceiling applies only if `enforce_open_exposure_caps` is set; `Ceiling` stands
for that configuration.

`RuntimeDecision` holds one bankroll and, by signal id, the order or the trade
it became: `queued`, `open`, `settling` (pending settlement), `removed`. The
worker drains the mailbox (`ReceiveMessage`), works through the orders of the
message one by one (`WindowClosed`, `AuthoritativeResolution`,
`ReleaseReservations`, `ApplyFeedback`), takes the request (`TakeRequest`),
processes due paper orders (`ProcessDueOrder`), lets each strategy submit once
(`SubmitSingle`, `SubmitSpread`) and forwards the output, or takes its orders
back if the channel is full (`ForwardDecision`, `RollbackOutput`). The engine
belongs to the worker's thread and a call of it touches no channel, so steps of
the other threads during a call are the same as steps before or after it, and
are taken there (`BetweenCalls`); the exception, an evaluation request that
comes while one is being decided, is kept. On the other side the main loop
closes and resolves windows, requests evaluations, submits or rolls back
outputs and passes on answers, with one `try_send` per step (`Post`,
`TrySend`), so that the worker may drain between the two messages of a handler
and either may find the mailbox full. `SubmissionAnswers` is what
`LiveSubmission` does to a batch, seen from here: filled at the limit or
better, rejected, or in doubt.

`dead` (orders that will never be a position, or no longer are one) and
`fillCost` (what the venue charged) are facts of the outside; no guard of the
engine reads `dead`. Signals, router, trend filter, circuit breaker, pauses,
`max_open_positions` and the monitor only keep a strategy from submitting, which
it may always do. A settled winner pays twice its cost (a price of one half).

### Backtest

One turn of `run_backtest`'s loop is a tick group (`NextGroup`, any times up to
the horizon), the orders that fall due (`ProcessDueOrders`), the window change
(`AdvanceWindow`), and one strategy cycle in the order of the code, one family at
a time (`SingleCandidate`, `BatchCandidate`, or `NoSubmission`); `Drain` is the
end of the replay. `pc` keeps the order of the calls. `LatencyArb`,
`CalmPersistence` and `SpreadCapture` keep what each strategy demands of the
book and of prices before it may order; its numerical thresholds are a free
choice, so every signal the code could raise is among those tried. `signals` is the table of signal rows, whose status follows the order
(`submitted`, `filled`, `missed`, `rejected`); `OutcomesAreCounted` holds it
against the trades and against the counters of the result. A quote carries the
market it was recorded for, which the code reads and never uses:
`ForeignQuoteOnlyAtBoundary` is about exactly this. Which market that may be follows
from the capture (`RecordedMarkets`): `build_live_clob_events` stamps a row with the
runtime's *current* window, and the feed is still on the old one until the change
has gone through the timer, the resubscription and the feed channel. So a row of the
new window may show the old market's book for up to `Lag` ticks after the start;
`Lag` bounds the delay of the feed, for which the code has no bound of its own.

### MarketFeed

The runtime handles one command at a time (`NewWindow`, `ActivateWindow`,
`WindowClosed`, `Resolved`, `Unresolved`) and feed messages (`HandleFeed`); around
it run the discovery poll, the timers, the settlement fetches, the tasks that
send a resubscription (`asks`) and the feed task itself. The start may be at any
tick, with markets that an earlier run left unsettled (`seeded`,
`seed_pending_resolutions`). The venue sends whole quotes and partial updates of
one side (`ProcessMessage`, with `apply_book_snapshot` and `apply_direct_tob`); a
quote is reduced to the window it was made in. `raced` remembers that two
resubscribe tasks were under way at once. An outcome is handed to the strategy
worker with `try_send`: a full mailbox refuses it (`dropped`), and the runtime warns
and does not try again.

### CaptureWriters

`feed` and `evidence` are the two writers: thread phase, channel, batches,
counters that are not zero (`dropped` stands for `queue_full`, `write_errors` and
the terminal ones, which never move without it). `BinanceMessage`,
`ChainlinkMessage` and `ClobMessage` enqueue the rows that `live_storage.rs` lets
through for one message. Evidence is the row of the market, opening and closing
a trade with its balance, notes, and once a minute the capture report; rows that
refer to a missing row fail (`Refers`: the bundled SQLite enforces foreign keys).
`Init` is any run database an earlier process may have left, with a trade open or
closed under the id (`Used`, `Seeded`). A process counts its ids from -1 again, so
`StoredOpen` (`INSERT OR REPLACE`) overwrites that row, and a close names the id and
not whose trade it was (`Whose`). `Modes` are paper and live: a live fill opens a trade in the engine and has no
event (`LiveFill`). A decision output that finds its channel full takes its events
with it (`Reports`), after which the engine decides nothing more
(`output_dropped`, `live.rs` 217). `trades` has the engine's own trades and those of an
earlier process by id, the mode, and the ids of dropped outputs. `LedgerGapIsVisible`
sets these ids aside, asks no row of a live fill, and none of a trade whose id an
earlier open trade had. In the model the engine may go on after a drop, which
is more than the code does.
A batch of evidence is drained event by event (`FlushEvent`), since each event is a
transaction of its own and the monitor may read between two. Only a live process has
a monitor; its refresh reads the report before it is merged (`RefreshWorker`), so a
row may be refused in between. A start has a fresh report because the startup
metadata is written with `?` (`live.rs` 2586). Shutdown stops the loop, joins the
evidence writer, then the feed writer, each with a timeout.

### Sidecar

Requests occupy slots and interleave at every await, which is what a step of
`RequestStep` is. They share the cached credentials (`auth`), the one bootstrap in
flight (`boot`), the last discovery and the answers given to order ids. The user
stream is a record (`us`) with its attempt, timer and old socket. Each venue call
answers, fails, fails as if the credentials were lost, or times out and may still
take effect. Assumed of the bot, as `LiveSubmission` shows: one id is not sent
twice at once; orders are buys. `StubSidecarProvider` has no state and is left out.

### ResearchJobs, JobLedger and ResearchTransfers

A database operation of the dashboard is one transaction under the connection
mutex and one action; interleavings are between them. A lease deadline is the
flag `stale`, raised by the environment and lowered by a renewal. Requests of a
worker over HTTP may be lost before or after they took effect (`RequestLost`,
`CompleteAnswerLost`, ...). `JobLedger` says what remains when all of that is
forgotten: a job is opened, its steps are finished once each and in order, the
last one closes it, and it may be removed. The refinement mapping reads `phase`
off the job row and `done` off the step rows. A backtest job runs verify, command
and report steps; an export job plans, copies a snapshot of the run database,
writes the manifest and verifies (`plan_export_step`, `export_runtime_files`,
`write_export_manifest`, `verify_artifact_step`), over `pack`, the artifact root
and its row. The workers of a job share a work root; the controller keeps the
uploaded documents of an artifact elsewhere and points the row there
(`store_artifact_documents`), so that a later verification may not find its
files. The event rows of a job are counted up to `MaxEvents`.

`ResearchTransfers` has one artifact that no job or report refers to, one worker
per machine with distinct work roots, and byte counts in files. Operator requests
that read a row and write it back later are two steps (`patch`, `del`).
`wiped` remembers that a DELETE removed the files. `ReportTransfer` is the operator's
progress request, which writes any status, count and checksum status into a row;
`told` remembers the transfers completed by one. A local copy goes through the whole
manifest and reports after every file (`CopyFile`), also after those it finds in
place: a report of less than the row has is refused and ends the attempt.

## Runs

The variant of the code that breaks each property is in `PROJECT.json`
("mutants"). `CHECK_DEADLOCK FALSE` is set wherever the process may stop for good
or bounded inputs run out; `backtest_replay` checks deadlock.

* **submission_crash**: orders alone or as a spread, three sessions on one run
  database of which the first is a rehearsal (`DryRun`), one database failure,
  order cap 2, fill cap 1, three intents. `DurableBeforeVenue`,
  `NoRestartPastVenue`, `OrderCapPerRunDb`, `FeedbackAccountsForBatch`,
  `NoSilentFill`. Three intents are a spread and one more, so that a cap is
  reached inside and between batches; two real sessions after the rehearsal are a
  crash and the restart it may or may not permit. The proofs cover any number
  of failures and sessions.
* **submission_onchain**: two fills of one token and their verifiers, no
  failures, fairness. `PhantomNeverHides`, `PendingFillIsSettled`. A verdict whose
  write fails is not written again (`live.rs` 635-640), so the second is claimed
  only without database failures.
* **control_operations**: any two of five commands against a sidecar that is
  healthy, reports a terminal gate or is unreachable, one database failure,
  fairness. `StateIsRecorded`, `CommandsInOrder`, `KillSwitchAnswered`,
  `TerminalGateHalts`. Two commands suffice for an order; each can be retried.
* **control_critical**: an arm, one batch with its feedback, a verifier's alarm,
  feed outages, one database failure; fairness. `MergeKeepsTerminal`,
  `CriticalStopsTrading`.
* **decision_reserves**: one live configuration with the discounting policy
  (family 0/4, global 1/4) and balance 5, two paper ones with the compatibility
  policy and balances 3 and 2, ceiling 3, two windows, three orders, a mailbox of
  one place, fee 1, and a startup trade of cost 1 or none. `BucketsAgree`,
  `ReservesCoverExposure`, `NothingLeaks`, `CommittedWithinCeiling`,
  `NoDoubleExposure`. One place in the mailbox makes every message the main loop
  sends fit or not; an order outlives its window, so two windows show everything
  one window does to the next.
* **backtest_replay**: four tick groups over two adjoining windows of either
  outcome, four signals, latency 1, a fee of 1, staleness limit 1 and a capture lag
  of 1, settlement delays within and past the replay, both settlement modes. `ReserveIsExposure`,
  `ForeignQuoteOnlyAtBoundary`, `OutcomesAreCounted`, `ResultCoversClosedMarkets`.
  Four signals are a spread and two singles beside it, one of which may be of
  the other window.
* **market_rotation**: two windows of two ticks, a start at any tick, one
  connection failure before the long pause, a feed channel of one place, fairness.
  `WindowInOnePlace`, `HealthFollowsFeed`, `WindowArrives`, `BookFollowsWindow`. Two
  windows give one rotation with both books and both subscriptions alive. A window
  arrives when its outcome is in the strategy worker's mailbox or was refused by it;
  this is claimed of windows whose end is before the last tick (`Horizon`), since a
  settlement takes time.
* **writers**: one-place channels, batches of two, blocks of two; any flush and any
  write of an event may fail, for good or not; fairness. `MCCaptureWriters` bounds a
  behaviour to one of two lives (`Bounded`): two feed rows, reports and arming in a
  live process (`LossIsVisible`, `CaptureLossStopsTrading`), or one trade id, paper or
  live, on a database that may have been used (`LedgerGapIsVisible`). The two meet only
  in the evidence channel, where notes and reports stand for each other's messages:
  they fill it, fail and end its thread. With one place, each enqueue may be refused;
  with batches of two, rows wait in memory when a thread ends. One id is enough, since
  a row depends on the events of its own id and of its market only; the proofs have
  neither bound.
* **sidecar**: three requests over two slots, one order id, two market lists, one
  fault. `OneOrderPerId`, `TakenIsReported`, `StreamNeverStalls`,
  `RequestsAnswered`. Two slots share a bootstrap or an attempt; the third request
  repeats the order id.
* **research_jobs**: one job, a backtest of a verify, a command and a report step
  or an export of four steps, two workers, two attempts, two commands, two faults.
  `WedgeTakesTwoCommands`, `ExportIsWhole`, `LedgerRefined`, `JobSettles`. Two
  faults are a lost answer and the lapse it leads to, or the last attempt.
  `CompletedIffStepsAre`, a consequence of the refinement and of the row's
  creation, is proved instead of checked.
* **research_transfers**: an artifact of two files, two machines, one transfer,
  three commands, one fault. `RootIsWhole`, `CompletedIsBacked`,
  `TransferSettles`. `TransferNamesMachines` is proved instead of checked. Three commands are the creation of a
  transfer between the two halves of a PATCH or a DELETE. `CompletedIsBacked` excepts
  transfers that an operator's progress request completed (`told`): the code looks at
  no copy there. `TransferSettles` excepts a local copy whose row counts more bytes
  than it will report (`Overcounted`); see below.

Violated, a disagreement between the code and what the repository says of it
(quote in `PROJECT.json`, "findings"):

* **halted_rearmed**: a late `disarmed` feedback overwrites `halted`, then a
  stale Controls clone arms. The critical event of the halt stops it again at
  the next refresh (`CriticalStopsTrading`).

### What else the modelling showed

Read off the code and the models; no run of the project is about these.

* `submit_live_orders_from_worker` consults no state before it takes the next
  queued batch, so batches queued before an unknown outcome are posted after it
  (`LIVE_READINESS_PLAN.md` 292 wants all further submission stopped).
* An order filled at the venue but answered with a blocking status has its
  reservation released (`live.rs` 1186).
* A full strategy queue drops the `unknown_order` update of a feedback (4808).
* The degradation timer of a failing refresh lives on a clone that is dropped
  (4870), so a lasting outage blocks orders and never halts.
* A clone taken while armed can write its state to the session row after a halt
  (4419), and later refreshes stop before they correct it.
* In the backtest the active and the pending bucket mix once a release takes from
  the active one first (`bankroll.rs` 920-935), although
  `docs/pending-settlement-modes.md` 7 keeps them apart; `ReserveIsExposure` is
  about their sum, which holds.
* `clob_feed.rs` 20-22 says a resubscription clears the book; the one taken at
  the top of the loop keeps the old book until the venue sends a new one.
* The sweep grade of a capture counts enqueued rows, not stored ones.
* A settlement that finds the strategy mailbox full is warned about and forgotten
  until a restart (`live.rs` 3524-3533); its open trades keep their reserve.
* Live fills have no row in `simulated_trades` (no event is made for them), and a
  paper process on a used run database replaces rows of the process before it, whose
  ids it counts again from -1.
* A dropped decision output takes the events of its trades with it and moves no
  writer counter; only the refused evaluations that follow show it.
* `copy_local_artifact` reports after each file the bytes on this machine as they are
  (`research_transfer.rs` 266; only the report before the loop takes the maximum with
  the row's), and a count below the row's is refused (`db.rs` 1897). When another
  machine's rsync has counted more for a transfer without a destination and gave the
  row back, each attempt of the source machine ends at its first file, against
  `docs/research-orchestration.md` 124 (a transfer reaches completed, failed or
  cancelled). TLC finds it when the exception `Overcounted` of `TransferSettles` is
  left out.
* An operator's progress request can complete a transfer of which there is no copy.
* After a restart, a window that was live and is not rediscovered before its end
  is not settled in that run unless it was among the seeded markets.
* A PATCH of an artifact or a machine undoes what changed in between; a DELETE
  with files that overlaps a new transfer leaves a row without its files.
* A report step that runs again after its scratch was archived replaces a full
  report by a missing one; pausing, blocking and retrying (two commands) can leave
  a job that counts as runnable and has nothing to run (`WedgeTakesTwoCommands`).
* `live_storage.rs` remembers a quote as stored before the enqueue, so a refused
  quote is not written until it changes.

## Fairness

* Submission, control: `WF` of the worker's and the verifiers' steps (tokio polls
  runnable tasks), of the two poll timers, and of the main loop taking worker
  outputs, decisions and feedback off its channels. Nothing is assumed of the
  operator, the venue, the chain, shutdown or crashes.
* `CaptureWriters`: time passes and the refresh worker answers; nothing of the
  writer threads.
* `MarketFeed`: the runtime serves its channels, timers fire, spawned tasks run,
  a market that is asked for again and again resolves in the end, and a venue
  that is connected again and again sends a whole quote of each side. Nothing
  makes a connection succeed or last.
* `Sidecar`: a request and the stream take their next step; every venue call has
  a timeout.
* `ResearchJobs`, `ResearchTransfers`: a worker that can step does (poll loop,
  supervised child, `restart: unless-stopped` of the container), a deadline that
  nobody renews passes, and a stale transfer is recovered when the worker can do
  so again and again.

Faults are finite in number in every run, which the code's retries assume too.

## Proofs

`LiveSubmissionProofs`, for all values of the constants allowed by
`ConstantsAssumption` (any batches of at least one order, any capacity, caps and
bounds; both modes):

* `TypeCorrect`: `Spec => []TypeOK`
* `DurableBeforeVenueHolds`: `Spec => []DurableBeforeVenue`
* `NoRestartPastVenueHolds`: `Spec => []NoRestartPastVenue`
* `OrderCapHolds`: `Spec => []OrderCapPerRunDb`
* `FeedbackAccountsHolds`: `Spec => []FeedbackAccountsForBatch`
* `NoSilentFillHolds`: `Spec => []NoSilentFill`
* `PhantomNeverHidesHolds`: `Spec => []PhantomNeverHides`

All rest on one inductive invariant, `IInv` (`IInvHolds`). Types alone are not
inductive: that a stored id is an intent and a stored token a leg follows from
what the worker holds at each control point, `AtWork`. `Boundary` says that an
order in hand is on the near side of the venue and carries its marks by the
time it is sent, and that rows not yet written are blank; with it, posting once
and posting marked are inductive. Restarts: an intent that was posted is
`submitting`, so at startup either it has no `live_orders` row and is an orphan,
or it has one and counts as a live order; both refuse `Bootstrap`. The cap then
follows because attempts of the latest session keep to it
(`AttemptsWithinCap`), posted intents are attempted, and all belong to the
latest session.

The account of a batch needs what the feedback holds on the way: `NamedSoFar`,
exactly the orders before the one in hand, each once; then one more is named
(`NextOrderNames`), or all behind it are (`BlockedNames`). No silent fill needs
`AnswerInHand`: the answer is about what the venue did and is stored as it came,
and nothing is matched that was not posted. An order can then end in three ways
only: nothing was matched, the fill is on record, or `unknown_order` is reported
(`OrderEnds`, `OrderSteps`). The verdicts need `VerdictsAreCovered`: a confirmed
fill has its expected position on chain. It stays so because a confirmed fill is
older than the order in hand (`NoEarlyVerdict`), so no row up to it changes any
more, and because the chain only gains (`RowsStay`, `CoverKept`). The newest
fill on a token is held against all of them, which is the theorem. Sizes are
added up unit by unit (`Units`, `Total`), so that a total is a cardinality and
grows with the sizes (`TotalGrows`).

`RuntimeDecisionProofs`, for all values allowed by `BankrollAssumption` and
`DecisionAssumption` (any balance, negative ones too, any policy, sleeves,
ceiling, capacity, costs and number of markets and orders; both modes):

* `DecisionTypes`: `Spec => []TypeOK`, so no bucket is ever negative
* `BucketsStayInStep`: `Spec => []BucketsAgree`
* `ReserveCeiling`: `Spec => []CommittedWithinCeiling`
* `SingleExposure`: `Spec => []NoDoubleExposure`
* `ReservesCover`: `Spec => []ReservesCoverExposure`
* `NothingIsLeaked`: `Spec => []NothingLeaks`

The first three are one invariant, `ReserveInv`. The ceiling is not inductive
alone: `ToPending` takes what the *family's* bucket holds and moves the totals by
it, each clamped at zero. Only because the totals are the sums of the buckets is
a total never clamped short, and the move leaves the committed sum as it was. The
lemmas on each operation of the bankroll (`ReleaseFact`, `ToPendingFact`, ...)
say this once; the actions cite them.

`SingleExposure` needs more than what the engine sees. An order leaves the
engine's memory when an answer says it was rejected, when it is rolled back, or
when its market is settled; a new order may then take its place. `ForgottenAreDead`
says that a removed order is dead, and to make that inductive it follows
the reports: whatever sits in the mailbox, among the messages still to be sent,
in the feedback channel or in the worker's hand is truthful (an order reported as
rejected is dead, one reported as filled has its price, and a release or an undo
is for dead orders). Lost messages only remove reports, so nothing is assumed
of delivery.

`ReservesCover` and `NothingIsLeaked` compare the reserve with a sum over orders.
`Cost` is that sum without recursion: the number of (order, unit) pairs, a
cardinality, about which the library has lemmas (`WeightSplit`, `WeightOne`,
`WeightMonotone`). The invariant behind both, `LedgerInv`, says where each
reservation is. An order on its way to the venue is in one place only, the draft,
an output or a submitted batch, and is alive (`OutboundOnce`); one whose
reservation comes back is in one message, feedback or job only, and is dead
(`ReturningOnce`). So no order is exposed and coming back at once, none comes back
twice, and the reserve of a family is the cost of its exposed and returning orders
(`ReserveIsOwed`), or at least that once a message was lost: a lost message takes
its orders out of `Returning` and leaves the reserve as it is. Each step of the
engine then frees one owed order, shrinks it to its fill, or moves it between the
buckets; `Release` never takes less than asked, because the family's two buckets
together hold at least what the order costs. `OrdersInOrder` keeps fills within
their reservation and new ids unused.

`ResearchJobsProofs`, for any set of jobs and workers, any plans (an export's as
in the code) and bounds:

* `QueueTypeCorrect`: `Spec => []TypeOK`
* `JobCompletedIffStepsAre`: `Spec => []CompletedIffStepsAre`
* `QueueImplementsLedger`: `Spec => LedgerRefined`
* `WedgeNeedsTwoCommands`: `Spec => []WedgeTakesTwoCommands`
* `ExportIsWholeHolds`: `Spec => []ExportIsWhole`

What a step does to the rows has one of six shapes (`DbStep`: nothing, one row
that is not completed changes, several are freed at once, an active row is
completed, the job is opened, or removed), and the invariant (`DbInv`: types, blank
rows of jobs that do not exist, `StepsInOrder`, `CompletedIffStepsAre`) and the
step of the ledger are proved once per shape. A row becomes active only when the
ones before it are completed (`Prior`), which is what makes the completion of the
last one close the job, and no other.

The last two count what it takes to break them, so their invariant, `HistoryInv`,
says what is possible while there was no command, at most one, or no fault. For
the wedge: without a command a job has at most one failed or blocked step, which
took the job with it (`HaltsAreSingle`); one command later all steps of a runnable
job are still queued, retryable, leased or done (`RunnableRuns`), and the least
step that is not done (`FirstOpen`) is leased or can be. A worker whose child was
killed may cancel a job that was reopened meanwhile, so this also needs that
nobody kills a child before the first command (`HandsAreReal`). For the export:
without a fault a leased row has its owner at work on it (`LeasesAreAttended`),
and with one command at most a worker past its lease still holds its step, or its
job is deleted or can no longer complete (`WorkersHold`, `Doomed`). So whoever
empties the artifact root again is the first to copy (`CopyIsFirst`), and what the
snapshot and the manifest step left stays (`FilesStay`). An action moves rows,
workers and files in one of thirteen ways (`Move`); each is shown to preserve each
conjunct, and each action to be one of them (`NextMoves`). `ExportPlanAssumption`
gives the four steps of an export as `step_templates_for_job` does; TLC finds
`IInvPlus` true in all states of `research_jobs` too.

`SidecarProofs`, for any slots, ids, markets and number of faults:

* `SidecarTypeCorrect`, `VenueTakesOnePerId` (`OneOrderPerId`),
  `TakenOrdersAreReported` (`TakenIsReported`), `WantedStreamIsPursued`
  (`StreamNeverStalls`)

The stream and the requests are two invariants that meet in the provider.
`StreamGood` relates phase, timer, attempt and the wish to be connected, and is
shown for each operator on the stream record. `RequestInv` says that an id is in
hand of one request at most, that a request about an answered id has not begun,
and that whatever is, or may yet be, at the venue was answered and reported as
submitted or unknown; `Follows` is
what a request may become while the answers stay as they are.

`MarketFeedProofs`, for any number of windows, ticks, attempts and channel sizes:

* `MarketFeedTypeCorrect`, `WindowsInOnePlace` (`WindowInOnePlace`),
  `HealthFollows` (`HealthFollowsFeed`)

`SettleInv` counts the places a window can be in. "Exactly one" is inductive only
together with: an unseen window is nowhere, a command is queued once, what a poll
holds is fresh, and a close is timed or queued for every open window (`Path`).
`HealthInv` adds that the newest announcement in the queue says what the feed is
(`NewestAnnounced`).

`LiveControlProofs`, for any number of commands, batches and faults:

* `ControlTypeCorrect`, `MonitorIsRecorded` (`StateIsRecorded`),
  `CommandsAnsweredInOrder` (`CommandsInOrder`), `TerminalIsKept`
  (`MergeKeepsTerminal`, an action property)

The monitor is merged from clones, so the recorded-row property is proved of
every monitor value there is, the clones included (`Good`), and is kept because
rows are only added. Order of commands: the rows are answered up to some point,
and `todo` holds rows beyond it (`AnsweredUpTo`), over any overlap of poll, failed
status write and new command.

`ResearchTransfersProofs`, for any machines, transfers, files and bounds:

* `TransferTypeCorrect`, `ArtifactRootIsWhole` (`RootIsWhole`),
  `CompletedTransferIsBacked` (`CompletedIsBacked`), `TransfersNameMachines`
  (`TransferNamesMachines`)

`CompletedIsBacked` leaves out the transfers an operator's progress request
completed, and only those: nothing else sets `told`. A copy is sound when it is
whole, or was on the dashboard's own disk, the only one a DELETE empties (`Sound`).
The roots in the artifact row, in a PATCH under way and of a completed transfer are
sound (`RootsAreSound`, `CompletedIsSound`), and no step makes a sound copy unsound
(`SoundKept`): a copy that is made again, by whomever, only adds to what is there.
Rows change in few ways (`RowChange`), and so do the workers' tasks, each of which
is for its own machine (`WorkerIsFor`).

`CaptureWritersProofs`, for all values allowed by `CaptureAssumption` (any
capacities, batch sizes, number of rows and finite set of trades):

* `TypeCorrect`: `Spec => []TypeOK`
* `LossIsVisibleHolds`: `Spec => []LossIsVisible`
* `LedgerGapIsVisibleHolds`: `Spec => []LedgerGapIsVisible`

`IInv` is an account and a ledger. The account (`RowsAccounted`): every accepted
row is stored, in the channel, in a batch, or counted. Rows in a channel are its
length, or one less behind a shutdown message (`QueuedIsRowsOf`), which holds
because that message is the last of its channel (`FeedStopsLast`,
`EvidenceStopsLast`); a thread that stops there leaves nothing behind
(`EndsClean`). The ledger (`LedgerKept`) relates the engine to the database *and*
the backlog, batch and channel taken as one sequence: a trade is what the row says
once the pending events are stored (`TradeKept`), for every id whose outputs all left
the engine; what is pending under an id, and how its two trades may stand, is
`IdKept`, which a dropped output leaves true. Taking an event moves it
within the backlog (`TakeSame`), offering one appends (`OfferKeeps`), storing one
takes the first away (`StoredKeepsLedger`), and an event that matters is there
only once (`OnceOnly`). All of it is claimed only while no counter has moved, so
every failure, refusal and timeout has to move one first.

Left to TLC: liveness (fairness and ENABLED are outside the prover) and `Backtest`,
whose invariants sum over the open orders and trades and count the
markets of a replay as they are closed.

## Not modelled, and why

* **Agent** (process manager, database reader): starts bots through the operating
  system and reads their databases; `LiveControl` has the command rows it writes.
* **Dashboard API, sessions, authentication, client, telemetry**: request
  handling and presentation.
* **Research**: job templates, comparison of reports and the text and figures of
  a report.
* **Binance and Chainlink loops**: reconnect without a subscription; what their
  messages store is in `CaptureWriters`, their outage an input of `LiveControl`.
* **Progress requests**: the total of bytes and the bytes per second an operator may
  give with one; the model has its status, count and checksum status.
* **Strategies' numbers, signal features, trend tracker, router, fees**:
  floating-point rules without interleaving; the models allow every signal that
  the conditions on book and price allow.
* **Data build, replay blocks, backtest preparation, upgrades, parameter
  sweeps**: conversion of files and tables, or the same loop with other numbers.
* **Loss caps**: the peak and the day's first equity that `LiveRiskMonitor` keeps;
  their breach is an input of `LiveControl`.
* **Configuration and CLI**: represented by the constants.
* **Read-only mode, closeout, fidelity reports**: they only report.

## Plan

1. `LiveSubmission`, `RuntimeDecision` and their proofs (done).
2. `LiveControl`, `Backtest`, `MarketFeed`, `CaptureWriters`, `Sidecar`, research
   modules (done, model-checked).
3. Proofs of safety for the strategy worker's reserves, the control plane, the
   market feed, the writers, the sidecar and the research modules, the
   refinement of `JobLedger` included (done).
4. Proofs next: `ReserveIsExposure` of `Backtest` with `Cost` counted as in `RuntimeDecision`.
5. `LiveTrading`: `LiveSubmission` and `LiveControl` shown to implement an
   abstract specification of the session (armed, stopped, posted orders).
6. The agent's process manager, if its exit and stop paths prove to race.
