---------------------------- MODULE CaptureWriters ----------------------------
(* The two writer threads of the live runtime and the capture health that the    *)
(* trading monitor reads back from the run database.                             *)
(*                                                                               *)
(* live_feed_writer.rs stores feed rows in two batches (plain rows and           *)
(* compressed CLOB blocks), live_persistence_writer.rs stores runtime evidence;  *)
(* both take from a bounded channel that the main loop never waits on. Once a    *)
(* minute the main loop classifies the feed writer's counters and sends the      *)
(* verdict through the evidence writer; a refresh of the trading monitor reads   *)
(* it from the database and decides whether orders may be submitted.             *)
(*                                                                               *)
(* A counter is told apart only from zero, so each writer keeps the set of its   *)
(* counters that are not zero. queue_full, write_errors and                      *)
(* terminal_write_errors never move without dropped, which stands for them.      *)
(* Rows are counted, not named.                                                  *)
EXTENDS Naturals, Sequences, FiniteSets

CONSTANTS
    FeedCap,       \* feed_event_writer_queue_capacity
    EvidenceCap,   \* live_runtime_persistence_queue_capacity
    BatchSize,     \* feed_event_writer_batch_size
    BlockRows,     \* clob_replay_block_max_rows
    Trades,        \* ids of the decision engine's trades: next_trade_id and below
    Modes,         \* execution_mode: TRUE where the process trades live
    MaxRows        \* bound: feed rows accepted by the feed writer

ASSUME CaptureAssumption ==
    /\ FeedCap \in Nat \ {0} /\ EvidenceCap \in Nat \ {0}
    /\ BatchSize \in Nat \ {0} /\ BlockRows \in Nat \ {0} /\ MaxRows \in Nat
    /\ IsFiniteSet(Trades) /\ Modes \subseteq BOOLEAN

VARIABLES
    stage,     \* the main loop, then the order of its shutdown
    feed,      \* FeedEventWriter: its thread, channel, batches and counters
    evidence,  \* LivePersistenceWriter: the same
    observed,  \* rows_by_source_event: classes accepted since the last report
    trades,    \* the trades as the decision engine holds them, and what it failed to report
    told,      \* the main loop has sent the row of the market
    db,        \* what the run database holds
    monitor,   \* LiveTradingMonitor: disarmed, or armed and with a blocked_reason or without
    refresh    \* a remote refresh under way: the blocked_reason it will merge

vars == << stage, feed, evidence, observed, trades, told, db, monitor, refresh >>

\* "generic" stands for the Binance and Chainlink classes, "clob" for best_bid_ask.
Classes == {"generic", "clob"}
Counters == {"dropped", "shutdown_timed_out"}
\* A thread that has taken no message yet opens its database; one that drains a
\* batch goes on after it ("flushing") or not ("stopping").
Phases == {"opening", "unopened", "running", "flushing", "stopping", "closing", "ended"}
Status == {"none", "open", "closed"}
NoRefresh == "none"
Verdicts == {"blocked", "clear"}

\* Ids start at -1 in every process: under one id the engine may hold a trade of its
\* own and one that an earlier process left in the database.
Whose == {"own", "earlier"}

\* Of a report's verdict the readers tell apart only whether it is sweep_grade.
Events == [kind : {"market", "note"}] \cup [kind : {"open"}, trade : Trades]
            \cup [kind : {"close"}, trade : Trades, result : Whose]
            \cup [kind : {"report"}, ready : BOOLEAN]
\* The Shutdown message of each channel.
Shutdown == "shutdown"
ShutdownEvent == [kind |-> "shutdown"]

Market == [kind |-> "market"]
Opened(t) == [kind |-> "open", trade |-> t]
Closed(t, w) == [kind |-> "close", trade |-> t, result |-> w]

\* The row of a trade: of one that an earlier process settled, of one it left open and
\* that this process may settle.
RowOf(status) ==
    CASE status \in {"none", "open"} -> status
      [] status \in {"settled", "closed"} -> "closed"

\* runtime_decision_seed: the trades left open are held again, with their ids, and the
\* ids to come start over; live is the execution mode of this process.
Seeded(left, live) ==
    [own |-> [t \in Trades |-> "none"], earlier |-> left, live |-> live, dropped |-> {}]

\* The database of a run that earlier processes may have used. A row that was replaced
\* is open although its id has a result.
Used(left) ==
    [market : BOOLEAN, trade : {[t \in Trades |-> RowOf(left[t])]},
     result : {r \in [Trades -> {"none", "before"}] :
                 \A t \in Trades : /\ left[t] = "none" => r[t] = "none"
                                   /\ left[t] = "settled" => r[t] = "before"},
     balance : {{}}, ready : BOOLEAN, fresh : BOOLEAN]

Init ==
    /\ stage = "running"
    /\ feed = [phase |-> "opening", queue |-> << >>, generic |-> 0, clob |-> 0,
               enqueued |-> 0, persisted |-> 0, counted |-> {}]
    /\ evidence = [phase |-> "opening", queue |-> << >>, batch |-> << >>, counted |-> {}]
    /\ observed = {}
    /\ told = FALSE
    /\ \E left \in [Trades -> {"none", "settled", "open"}], live \in Modes :
          trades = Seeded(left, live) /\ db \in Used(left)
    /\ monitor = "disarmed"
    /\ refresh = NoRefresh

-----------------------------------------------------------------------------
(* What the two writers share. *)

\* The receiver of a thread that has returned is gone, and what it held with it.
Connected(w) == w.phase \notin {"unopened", "ended"}
HasRoom(w, cap) == Len(w.queue) < cap

\* try_enqueue, when the channel refuses.
Refused(w) == [w EXCEPT !.counted = @ \cup {"dropped"}]

\* shutdown_with_timeout: the message is lost when the channel is full; dropping the
\* sender is what the thread then notices.
AskedToStop(w, cap, message) ==
    IF Connected(w) /\ HasRoom(w, cap) THEN [w EXCEPT !.queue = Append(@, message)] ELSE w

\* The runtime has dropped its sender.
FeedHungUp == stage \in {"feed", "exit"}
EvidenceHungUp == stage \in {"evidence", "feed", "exit"}

\* mark_live_submission_blocked. Before it is armed a monitor may have a
\* blocked_reason that nobody reads: arming puts its own in its place.
Blocked(refused) == IF refused /\ monitor = "clear" THEN "blocked" ELSE monitor

-----------------------------------------------------------------------------
(* Feed writer. *)

\* A flush writes one transaction: all of the batch or none of it.
Outcomes == {"ok", "failed", "terminal"}
Flushed(w, b, o) ==
    IF w[b] = 0 THEN w
    ELSE [w EXCEPT ![b] = 0,
                   !.persisted = IF o = "ok" THEN @ + w[b] ELSE @,
                   !.counted = IF o = "ok" THEN @ ELSE @ \cup {"dropped"}]

\* enqueue_counted_feed_event, row after row: as many of the n rows as there is room
\* for are taken.
Taken(n) ==
    LET room == FeedCap - Len(feed.queue)
    IN  IF ~Connected(feed) THEN 0 ELSE IF n <= room THEN n ELSE room

\* The n rows of one feed message, of one class: each is tried, whatever became of
\* the ones before it, and one refusal blocks the submissions.
FeedRows(class, n) ==
    /\ stage = "running" /\ feed.enqueued + Taken(n) <= MaxRows
    /\ feed' = [feed EXCEPT !.queue = @ \o [i \in 1..Taken(n) |-> class],
                           !.enqueued = @ + Taken(n),
                           !.counted = IF Taken(n) < n THEN @ \cup {"dropped"} ELSE @]
    /\ observed' = observed \cup (IF Taken(n) > 0 THEN {class} ELSE {})
    /\ monitor' = Blocked(Taken(n) < n)
    /\ UNCHANGED << stage, evidence, trades, told, db, refresh >>

\* FeedEventStorageState: what is stored of the n rows of a message. A quote that
\* repeats the last one, or what the storage profile leaves out, is no row.
Prepared(n) == 0..n

BinanceMessage == \E n \in Prepared(1) : FeedRows("generic", n)
ChainlinkMessage == FeedRows("generic", 1)

\* build_live_clob_events: a row of the side the message names, or of both.
ClobRows == 2
ClobMessage == \E n \in Prepared(ClobRows) : FeedRows("clob", n)

FeedOpens ==
    /\ feed.phase = "opening"
    /\ \/ feed' = [feed EXCEPT !.phase = "running"]
       \/ feed' = [feed EXCEPT !.phase = "unopened", !.queue = << >>]
    /\ UNCHANGED << stage, evidence, observed, trades, told, db, monitor, refresh >>

\* Flush the plain rows if full, then the CLOB block if due; a terminal failure ends
\* the loop, before the second flush if it is the first that fails.
FlushDue(w, full, due) ==
    LET first(o) == IF full THEN Flushed(w, "generic", o) ELSE w
        broken(o) == full /\ w.generic > 0 /\ o = "terminal"
        second(o1, o2) == IF due THEN Flushed(first(o1), "clob", o2) ELSE first(o1)
    IN  {[first(o) EXCEPT !.phase = "closing"] : o \in {p \in Outcomes : broken(p)}}
            \cup {[second(o1, o2) EXCEPT !.phase =
                     IF due /\ w.clob > 0 /\ o2 = "terminal" THEN "closing" ELSE @] :
                   o1 \in {p \in Outcomes : ~broken(p)}, o2 \in Outcomes}

\* One row: route it, then flush what is full, and what is old of the CLOB batch.
FeedTakes ==
    /\ feed.phase = "running" /\ feed.queue # << >> /\ Head(feed.queue) # Shutdown
    /\ LET w == [feed EXCEPT !.queue = Tail(@), ![Head(feed.queue)] = @ + 1]
       IN  \E aged \in BOOLEAN :
              feed' \in FlushDue(w, w.generic >= BatchSize, aged \/ w.clob >= BlockRows)
    /\ UNCHANGED << stage, evidence, observed, trades, told, db, monitor, refresh >>

\* recv_timeout passes with nothing to take.
FeedTimesOut ==
    /\ feed.phase = "running" /\ feed.queue = << >> /\ ~FeedHungUp
    /\ \E aged \in BOOLEAN : feed' \in FlushDue(feed, TRUE, aged)
    /\ UNCHANGED << stage, evidence, observed, trades, told, db, monitor, refresh >>

\* Variant: the thread stops after the plain rows.
LastFlushShort(w, o1, o2) ==
    IF w.generic > 0 THEN [Flushed(w, "generic", o1) EXCEPT !.phase = "closing"]
    ELSE [Flushed(w, "clob", o2) EXCEPT !.phase = "closing"]

\* The shutdown message, or a channel that is empty and disconnected: both batches
\* are flushed, the second also when the first fails.
LastFlush(w, o1, o2) ==
    [Flushed(Flushed(w, "generic", o1), "clob", o2) EXCEPT !.phase = "closing"]
FeedStops ==
    /\ feed.phase = "running"
    /\ IF feed.queue = << >> THEN FeedHungUp ELSE Head(feed.queue) = Shutdown
    /\ feed' \in {LastFlush(feed, o1, o2) : o1, o2 \in Outcomes}
    /\ UNCHANGED << stage, evidence, observed, trades, told, db, monitor, refresh >>

\* db.close() and the end of the thread, which drops the receiver.
FeedEnds ==
    /\ feed.phase = "closing"
    /\ feed' = [feed EXCEPT !.phase = "ended", !.queue = << >>]
    /\ UNCHANGED << stage, evidence, observed, trades, told, db, monitor, refresh >>

-----------------------------------------------------------------------------
(* Evidence writer. *)

\* An event takes up to two writes that do not share a transaction: a close and its
\* balance row, the health of a report and the rest of its metadata. "half" fails
\* between the two. A failure may be terminal or not.
EventOutcomes(e) ==
    [wrote : {"none"} \cup (IF e.kind \in {"close", "report"} THEN {"half"} ELSE {}),
     terminal : BOOLEAN]
        \cup {[wrote |-> "all", terminal |-> FALSE]}

\* upsert_market
StoredMarket(d, o) == IF o.wrote = "all" THEN [d EXCEPT !.market = TRUE] ELSE d

\* SQLite enforces the keys: a trade needs its market, a result its trade and an id
\* without a result.
Refers(d, e) ==
    CASE e.kind = "open" -> d.market
      [] e.kind = "close" -> d.trade[e.trade] # "none" /\ d.result[e.trade] = "none"
      [] OTHER -> TRUE

\* open_trade_with_id: INSERT OR REPLACE. The row of an earlier trade of the same id is
\* gone; its result stays.
StoredOpen(d, e, o) ==
    IF o.wrote = "all" /\ Refers(d, e) THEN [d EXCEPT !.trade[e.trade] = "open"] ELSE d

\* close_trade, one transaction for the row and its result, then log_balance_event;
\* balance holds the rows that this process has added.
StoredClose(d, e, o) ==
    IF o.wrote = "none" \/ ~Refers(d, e) THEN d
    ELSE [d EXCEPT !.trade[e.trade] = "closed", !.result[e.trade] = e.result,
                   !.balance = @ \cup
                       (IF o.wrote = "all" THEN {<< e.trade, e.result >>} ELSE {})]

\* set_run_metadata, key after key: the health comes before its time.
StoredReport(d, e, o) ==
    CASE o.wrote = "none" -> d
      [] o.wrote = "half" -> [d EXCEPT !.ready = e.ready]
      [] o.wrote = "all" -> [d EXCEPT !.ready = e.ready, !.fresh = TRUE]

\* A signal and its telemetry, the outcome of a signal, a feed-health event or the
\* rows of a rejection summary. Nothing the model keeps depends on them; they take
\* room in the channel, fail, and may end the thread.
StoredNote(d) == d

\* persist_event
Stored(d, e, o) ==
    CASE e.kind = "market" -> StoredMarket(d, o)
      [] e.kind = "note" -> StoredNote(d)
      [] e.kind = "open" -> StoredOpen(d, e, o)
      [] e.kind = "close" -> StoredClose(d, e, o)
      [] e.kind = "report" -> StoredReport(d, e, o)

\* Variant: the result of the second write is not looked at.
FailsFirst(d, e, o) == o.wrote = "none" \/ ~Refers(d, e)

Fails(d, e, o) == o.wrote # "all" \/ ~Refers(d, e)

\* try_enqueue
Accepting == Connected(evidence) /\ HasRoom(evidence, EvidenceCap)
Offer(e) ==
    IF Accepting THEN [evidence EXCEPT !.queue = Append(@, e)] ELSE Refused(evidence)

\* NewWindow: the row of a market comes before those of its trades.
MarketFound ==
    /\ stage = "running" /\ ~told
    /\ told' = TRUE
    /\ evidence' = Offer(Market)
    /\ monitor' = Blocked(~Accepting)
    /\ UNCHANGED << stage, feed, observed, trades, db, refresh >>

\* enqueue_feed_health_event, and the signals and summaries of a decision output.
Note ==
    /\ stage = "running"
    /\ evidence' = Offer([kind |-> "note"])
    /\ monitor' = Blocked(~Accepting)
    /\ UNCHANGED << stage, feed, observed, trades, told, db, refresh >>

\* handle_strategy_decision_output: an event that the writer refuses blocks submissions.
Handled(e) == evidence' = Offer(e) /\ monitor' = Blocked(~Accepting)

\* forward_strategy_output. An output that finds its channel full or closed takes its
\* events with it: the engine keeps what it did, and no counter of the writer moves.
Reports(engine, t, e) ==
    \/ trades' = engine /\ Handled(e)
    \/ /\ trades' = [engine EXCEPT !.dropped = @ \cup {t}]
       /\ UNCHANGED << evidence, monitor >>

\* process_due_orders
TradeOpens(t) ==
    /\ stage = "running" /\ told /\ ~trades.live /\ trades.own[t] = "none"
    /\ Reports([trades EXCEPT !.own[t] = "open"], t, Opened(t))
    /\ UNCHANGED << stage, feed, observed, told, db, refresh >>

\* apply_live_submission_feedback: the trade of a live fill is added to the exposure of
\* the engine, and no event says so.
LiveFill(t) ==
    /\ stage = "running" /\ told /\ trades.live /\ trades.own[t] = "none"
    /\ trades' = [trades EXCEPT !.own[t] = "open"]
    /\ UNCHANGED << stage, feed, evidence, observed, told, db, monitor, refresh >>

\* authoritative_resolution: a trade that is settled is reported as closed, however it
\* was opened.
TradeCloses(t, w) ==
    /\ stage = "running" /\ trades[w][t] = "open"
    /\ Reports([trades EXCEPT ![w][t] = "closed"], t, Closed(t, w))
    /\ UNCHANGED << stage, feed, observed, told, db, refresh >>

EvidenceOpens ==
    /\ evidence.phase = "opening"
    /\ \/ evidence' = [evidence EXCEPT !.phase = "running"]
       \/ evidence' = [evidence EXCEPT !.phase = "unopened", !.queue = << >>]
    /\ UNCHANGED << stage, feed, observed, trades, told, db, monitor, refresh >>

\* flush_batch, as far as its first event: each event is a transaction of its own,
\* between which the monitor may read. After a terminal failure the rest of the batch
\* is counted as failed and not tried, and the thread ends. A failure is counted here
\* with its event; the counters, which move when all is drained, are not read between.
FlushEvent(w) ==
    \E o \in EventOutcomes(Head(w.batch)) :
        LET rest == IF o.terminal THEN << >> ELSE Tail(w.batch)
        IN  /\ db' = Stored(db, Head(w.batch), o)
            /\ evidence' =
                 [w EXCEPT !.batch = rest,
                           !.counted = IF Fails(db, Head(w.batch), o)
                                       THEN @ \cup {"dropped"} ELSE @,
                           !.phase = IF rest # << >> THEN @
                                     ELSE IF o.terminal \/ @ = "stopping" THEN "closing"
                                     ELSE "running"]

EvidenceTakes ==
    /\ UNCHANGED << stage, feed, observed, trades, told, monitor, refresh >>
    /\ evidence.phase = "running"
    /\ evidence.queue # << >> /\ Head(evidence.queue) # ShutdownEvent
    /\ LET w == [evidence EXCEPT !.queue = Tail(@), !.batch = Append(@, Head(evidence.queue))]
       IN  IF Len(w.batch) >= BatchSize
           THEN FlushEvent([w EXCEPT !.phase = "flushing"])
           ELSE evidence' = w /\ UNCHANGED db

EvidenceTimesOut ==
    /\ UNCHANGED << stage, feed, observed, trades, told, monitor, refresh >>
    /\ evidence.phase = "running" /\ evidence.queue = << >> /\ ~EvidenceHungUp
    /\ evidence.batch # << >>
    /\ FlushEvent([evidence EXCEPT !.phase = "flushing"])

EvidenceStops ==
    /\ UNCHANGED << stage, feed, observed, trades, told, monitor, refresh >>
    /\ evidence.phase = "running"
    /\ IF evidence.queue = << >> THEN EvidenceHungUp ELSE Head(evidence.queue) = ShutdownEvent
    /\ IF evidence.batch # << >> THEN FlushEvent([evidence EXCEPT !.phase = "stopping"])
       ELSE evidence' = [evidence EXCEPT !.phase = "closing"] /\ UNCHANGED db

\* The next event of the batch.
EvidenceFlushes ==
    /\ UNCHANGED << stage, feed, observed, trades, told, monitor, refresh >>
    /\ evidence.phase \in {"flushing", "stopping"}
    /\ FlushEvent(evidence)

EvidenceEnds ==
    /\ evidence.phase = "closing"
    /\ evidence' = [evidence EXCEPT !.phase = "ended", !.queue = << >>]
    /\ UNCHANGED << stage, feed, observed, trades, told, db, monitor, refresh >>

-----------------------------------------------------------------------------
(* Capture health, and the monitor that depends on it. *)

\* writer_degraded: the counters of the feed writer that are looked at.
Degraded == "dropped" \in feed.counted

\* runtime_capture_health; stale is last_persisted_at_ms older than the lag allowed.
CaptureHealth(stale) ==
    CASE Degraded \/ (feed.persisted > 0 /\ stale) -> "degraded"
      [] OTHER -> IF observed = Classes THEN "sweep_grade"
                  ELSE IF feed.persisted > 0 THEN "observing" ELSE "empty"

\* The 60 s timer; oversize is the guard on the size of the database.
StorageReport ==
    /\ stage = "running"
    /\ \E stale, oversize \in BOOLEAN :
          /\ evidence' = Offer([kind |-> "report", ready |-> CaptureHealth(stale) = "sweep_grade"])
          /\ monitor' = Blocked(oversize \/ ~Accepting)
    /\ observed' = {}
    /\ UNCHANGED << stage, feed, trades, told, db, refresh >>

\* The recorded verdict grows older than the 60 s that arming accepts.
MetadataAges ==
    /\ stage = "running" /\ db.fresh
    /\ db' = [db EXCEPT !.fresh = FALSE]
    /\ UNCHANGED << stage, feed, evidence, observed, trades, told, monitor, refresh >>

\* Variant: the age of the verdict is not looked at.
CaptureIssuesAnyAge == ~db.ready

\* runtime_capture_issues_for_live
CaptureIssues == ~db.ready \/ ~db.fresh

\* The refresh worker reads the database, or fails on a remote read before it; other
\* gates may have issues of their own. Only a process that trades live has a monitor.
RefreshReads ==
    /\ stage = "running" /\ trades.live /\ refresh = NoRefresh
    /\ \E other \in BOOLEAN : refresh' = IF CaptureIssues \/ other THEN "blocked" ELSE "clear"
    /\ UNCHANGED << stage, feed, evidence, observed, trades, told, db, monitor >>

\* merge_live_remote_refresh_state puts the worker's answer over what the main loop
\* may have set in the meantime.
RefreshMerges ==
    /\ stage = "running" /\ refresh # NoRefresh
    /\ monitor' = IF monitor = "disarmed" THEN monitor ELSE refresh
    /\ refresh' = NoRefresh
    /\ UNCHANGED << stage, feed, evidence, observed, trades, told, db >>

\* arm: a refresh of its own, refused when it finds an issue. How control workers
\* interleave is LiveControl's subject; here the command is one step.
Arm ==
    /\ stage = "running" /\ trades.live /\ monitor = "disarmed" /\ ~CaptureIssues
    /\ monitor' = "clear"
    /\ UNCHANGED << stage, feed, evidence, observed, trades, told, db, refresh >>

\* can_submit_orders
CanSubmit == stage = "running" /\ monitor = "clear"

-----------------------------------------------------------------------------
(* Shutdown: the evidence writer is joined first, then the feed writer, then the  *)
(* process ends and takes a detached thread with it.                              *)

\* The main loop returns; its monitor and its workers go with it.
StopRuntime ==
    /\ stage = "running"
    /\ stage' = "evidence"
    /\ evidence' = AskedToStop(evidence, EvidenceCap, ShutdownEvent)
    /\ observed' = {} /\ monitor' = "disarmed" /\ refresh' = NoRefresh
    /\ UNCHANGED << feed, trades, told, db >>

Joined(w) == w.phase \in {"unopened", "ended"}
TimedOut(w) == IF Joined(w) THEN w ELSE [w EXCEPT !.counted = @ \cup {"shutdown_timed_out"}]

EvidenceJoined ==
    /\ stage = "evidence"
    /\ stage' = "feed"
    /\ evidence' = TimedOut(evidence)
    /\ feed' = AskedToStop(feed, FeedCap, Shutdown)
    /\ UNCHANGED << observed, trades, told, db, monitor, refresh >>

Gone(w) == [w EXCEPT !.phase = IF @ = "unopened" THEN @ ELSE "ended", !.queue = << >>]
FeedJoined ==
    /\ stage = "feed"
    /\ stage' = "exit"
    /\ feed' = Gone(TimedOut(feed))
    /\ evidence' = Gone(evidence)
    /\ UNCHANGED << observed, trades, told, db, monitor, refresh >>

FeedThread == FeedOpens \/ FeedTakes \/ FeedTimesOut \/ FeedStops \/ FeedEnds
EvidenceThread ==
    \/ EvidenceOpens \/ EvidenceTakes \/ EvidenceTimesOut \/ EvidenceStops
    \/ EvidenceFlushes \/ EvidenceEnds
RefreshWorker == RefreshReads \/ RefreshMerges

Next ==
    \/ BinanceMessage \/ ChainlinkMessage \/ ClobMessage
    \/ FeedThread
    \/ MarketFound \/ Note
    \/ \E t \in Trades : TradeOpens(t) \/ LiveFill(t) \/ \E w \in Whose : TradeCloses(t, w)
    \/ EvidenceThread
    \/ StorageReport \/ MetadataAges \/ RefreshWorker \/ Arm
    \/ StopRuntime \/ EvidenceJoined \/ FeedJoined

\* Time passes and the refresh worker answers. Nothing is assumed of the two writer
\* threads, nor of the reports: feed rows, trades, arming and the stop come from outside.
Fairness == WF_vars(RefreshWorker) /\ WF_vars(MetadataAges)

Spec == Init /\ [][Next]_vars /\ Fairness

-----------------------------------------------------------------------------
(* Properties. *)

FeedTypeOK ==
    /\ feed \in [phase : Phases, queue : Seq(Classes \cup {Shutdown}),
                 generic : 0..(BatchSize - 1), clob : 0..(BlockRows - 1),
                 enqueued : 0..MaxRows, persisted : 0..MaxRows, counted : SUBSET Counters]
    /\ Len(feed.queue) <= FeedCap

EvidenceTypeOK ==
    /\ evidence \in [phase : Phases, queue : Seq(Events \cup {ShutdownEvent}),
                     batch : Seq(Events), counted : SUBSET Counters]
    /\ Len(evidence.queue) <= EvidenceCap /\ Len(evidence.batch) < BatchSize
    /\ evidence.phase \in {"flushing", "stopping"} => evidence.batch # << >>

LedgerTypeOK ==
    /\ trades \in [own : [Trades -> Status], earlier : [Trades -> Status \cup {"settled"}],
                   live : BOOLEAN, dropped : SUBSET Trades]
    /\ told \in BOOLEAN
    /\ db \in [market : BOOLEAN, trade : [Trades -> Status],
               result : [Trades -> {"none", "before"} \cup Whose],
               balance : SUBSET (Trades \X Whose), ready : BOOLEAN, fresh : BOOLEAN]

\* Types of all variables; a batch that is being drained is not empty.
TypeOK ==
    /\ FeedTypeOK /\ EvidenceTypeOK /\ LedgerTypeOK
    /\ stage \in {"running", "evidence", "feed", "exit"}
    /\ observed \subseteq Classes
    /\ monitor \in {"disarmed"} \cup Verdicts
    /\ refresh \in {NoRefresh} \cup Verdicts

\* Rows accepted that are neither stored nor held by a thread that still runs.
Queued(w) == Cardinality({i \in DOMAIN w.queue : w.queue[i] # Shutdown})
Held(w) == IF Connected(w) THEN Queued(w) + w.generic + w.clob ELSE 0
Unwritten(w) == w.enqueued - w.persisted - Held(w)

\* The evidence writer has nothing left that it will ever store.
Settled(w) ==
    \/ ~Connected(w)
    \/ w.queue \in {<< >>, << ShutdownEvent >>} /\ w.batch = << >>

\* A feed row that the writer accepted and that is neither stored nor on its way is
\* seen in a counter: whatever order flush failures, a full channel, the end of the
\* thread and the shutdown come in, the only silent loss is that of a thread that
\* never opened its database (and is seen at the next row, which is refused).
LossIsVisible ==
    Unwritten(feed) > 0 => feed.counted # {} \/ feed.phase = "unopened"

\* What the rows under id t say when all is stored. Of two trades of one id the later
\* row replaces the earlier, so that a row can be that of a trade only if its id is new
\* or was settled before this process; but a close never goes unrecorded.
Recorded(t) ==
    LET own == trades.own[t]
        earlier == trades.earlier[t]
    IN  /\ own = "none" => db.trade[t] = RowOf(earlier)
        /\ (own # "none" /\ ~trades.live /\ earlier \in {"none", "settled"})
             => db.trade[t] = own
        /\ own = "closed" => db.result[t] = "own" /\ << t, "own" >> \in db.balance
        /\ earlier = "closed" => db.result[t] = "earlier" /\ << t, "earlier" >> \in db.balance
        /\ (trades.live /\ own = "closed") => earlier = "open"

\* Once the evidence writer has nothing left and none of its counters has moved, the
\* market and every trade no output of which was dropped are recorded: a trade whose
\* market row was lost, a close whose balance row fails, a close after a lost open, two
\* closes under one id, a thread that ends with events in its channel are all counted.
\* So is the settlement of a live fill, which has no row to refer to, unless it finds
\* that of an earlier open trade under its id and settles that one instead.
LedgerGapIsVisible ==
    (Settled(evidence) /\ evidence.counted = {} /\ evidence.phase # "unopened")
        => /\ told => db.market
           /\ \A t \in Trades \ trades.dropped : Recorded(t)

\* Once a feed row has been dropped, submissions end up blocked for good, through
\* whichever way is left: the degraded verdict reaching the database, or the age of
\* the last one when the evidence writer is gone. A refresh that was under way may
\* clear the block for a while, and only for a while.
CaptureLossStopsTrading == Degraded ~> []~CanSubmit

-----------------------------------------------------------------------------
(* The inductive invariant behind the two safety properties. *)

\* A Shutdown message is the last of its channel, and nobody sends any more; a writer
\* that was left behind is counted before the process ends.
FeedStopsLast ==
    /\ \A i \in DOMAIN feed.queue :
         feed.queue[i] = Shutdown => i = Len(feed.queue) /\ FeedHungUp
    /\ stage = "exit" => Joined(feed)

EvidenceStopsLast ==
    /\ \A i \in DOMAIN evidence.queue :
         evidence.queue[i] = ShutdownEvent => i = Len(evidence.queue) /\ EvidenceHungUp
    /\ FeedHungUp => Joined(evidence) \/ evidence.counted # {}
    /\ stage = "exit" => Joined(evidence)

\* Every row accepted is stored, in the channel, in a batch, or counted.
RowsAccounted ==
    /\ feed.persisted <= feed.enqueued
    /\ Connected(feed) => /\ Unwritten(feed) >= 0
                          /\ feed.counted = {} => Unwritten(feed) = 0
    /\ (feed.phase \in {"closing", "ended"} /\ feed.counted = {})
         => Unwritten(feed) = 0 /\ Held(feed) = 0 /\ FeedHungUp

\* The events that are still to be stored, and whether e is one of them.
Backlog == evidence.batch \o evidence.queue
Pending(e) == \E i \in DOMAIN Backlog : Backlog[i] = e

OnceOnly ==
    \A i, j \in DOMAIN Backlog :
        i # j /\ Backlog[i] = Backlog[j] => Backlog[i].kind \in {"note", "report"}

\* What an event that is pending and a row that is stored say of the engine, whatever
\* was dropped.
IdKept(t) ==
    LET own == trades.own[t]
        earlier == trades.earlier[t]
    IN  /\ own = "none" \/ trades.live => ~Pending(Opened(t))
        /\ Pending(Closed(t, "own")) => own = "closed"
        /\ Pending(Closed(t, "earlier")) => earlier = "closed"
        /\ earlier = "settled" => db.result[t] = "before"
        /\ db.result[t] # "none" => db.trade[t] # "none"
        /\ (earlier = "none" /\ (own = "none" \/ trades.live \/ Pending(Opened(t))))
             => db.trade[t] = "none"

\* The trades under id t are what the database says of them once the events that are
\* pending are stored.
TradeKept(t) ==
    LET own == trades.own[t]
        earlier == trades.earlier[t]
    IN  /\ own = "closed"
             => \/ Pending(Closed(t, "own"))
                \/ db.result[t] = "own" /\ << t, "own" >> \in db.balance
        /\ earlier = "closed"
             => \/ Pending(Closed(t, "earlier"))
                \/ db.result[t] = "earlier" /\ << t, "earlier" >> \in db.balance
        /\ own = "none"
             => db.trade[t] = IF Pending(Closed(t, "earlier")) THEN "open" ELSE RowOf(earlier)
        /\ (own # "none" /\ ~trades.live /\ earlier \in {"none", "settled"})
             => \/ Pending(Opened(t))
                \/ db.trade[t] = IF Pending(Closed(t, "own")) THEN "open" ELSE own

LedgerKept ==
    (evidence.counted = {} /\ evidence.phase # "unopened")
        => /\ OnceOnly
           /\ told => db.market \/ Pending(Market)
           /\ Pending(Market) => told
           /\ \A t \in Trades : IdKept(t)
           /\ \A t \in Trades \ trades.dropped : TradeKept(t)

\* A thread that ends without a counter has nothing left to store.
EndsClean ==
    (evidence.phase \in {"stopping", "closing", "ended"} /\ evidence.counted = {})
        => /\ EvidenceHungUp /\ evidence.queue \in {<< >>, << ShutdownEvent >>}
           /\ evidence.phase # "stopping" => evidence.batch = << >>

FeedInv == FeedStopsLast /\ RowsAccounted
EvidenceInv == EvidenceStopsLast /\ LedgerKept /\ EndsClean
IInv == TypeOK /\ FeedInv /\ EvidenceInv
=============================================================================
