------------------------------ MODULE Backtest ------------------------------
(***************************************************************************)
(* The replay engine of bots/paint: backtest/runner.rs drives one pass     *)
(* over recorded ticks through the feed state, the paper ExecutionEngine   *)
(* (executor.rs), the WindowManager, the PositionManager, the circuit      *)
(* breaker and one strategy cycle.  Each tick group is one turn of the     *)
(* loop; its calls are the actions below, in the order the code makes      *)
(* them (variable pc).                                                     *)
(*                                                                         *)
(* Abstractions.                                                           *)
(*  - The tick table is any sequence of groups with times that do not      *)
(*    decrease.  A quote carries, beside what the code keeps, the market   *)
(*    whose book it shows; the market_id of its row is never used.         *)
(*  - Which strategy signals, and with what size, is open: suppression by  *)
(*    the trend filter, the router and the spread budget only remove       *)
(*    signals.  A signal row is its decision_status.                       *)
(*  - Prices are whole units of a token that pays Par; the fee is one      *)
(*    amount per trade.  Telemetry, attribution and CSV are left out.      *)
(***************************************************************************)
EXTENDS Bankroll, Sequences, FiniteSets

LOCAL INSTANCE SequencesExt

CONSTANTS
    Windows,       \* the settled markets, in order of start_time: [start, end, outcome]
    Quotes,        \* [ask, size] a recorded top of book may show
    Par,           \* what one winning token pays
    Fee,           \* taker fee of one trade
    Limit,         \* single_order_limit_price of each family
    Sizes,         \* sizes an order may ask for
    Latency,       \* sim_order_latency_ms
    Lag,           \* bound: how long after its start a window's rows may show another market
    MaxStale,      \* max_book_staleness_ms
    MinBet,        \* min_bet_usd
    MaxOpen,       \* max_open_positions
    MaxLosses,     \* circuit_breaker_losses
    Pause,         \* circuit_breaker_pause_ms
    Delays,        \* observed delays between a market's end and its resolution
    Configs,       \* backtest_settlement_mode and pending-settlement policy:
                   \* [mode, family, global, counts]
    Balance,       \* starting balance
    Horizon,       \* bound: last tick time
    MaxGap,        \* bound: time between two groups
    MaxGroups,     \* bound: tick groups
    MaxSignals     \* bound: rows of signals

Sides == {"UP", "DOWN"}
Markets == 1..Len(Windows)
None == 0

\* A side of the book nobody quoted.
Unquoted == [market |-> None, ask |-> 0, size |-> 0, ts |-> 0]

ASSUME BacktestAssumption ==
    /\ Windows \in Seq([start : Nat, end : Nat, outcome : Sides])
    /\ \A m \in Markets : Windows[m].start < Windows[m].end
    /\ \A m, n \in Markets : m < n => Windows[m].end <= Windows[n].start
    /\ Quotes \subseteq [ask : 1..Par, size : Nat \ {0}]
    /\ Limit \in [Families -> 1..Par]
    /\ Sizes \subseteq Nat \ {0} /\ Delays \subseteq Nat
    /\ Configs \subseteq [mode : {"immediate", "observed"}, family : 0..Scale, global : 0..Scale, counts : BOOLEAN]
    /\ {Fee, Latency, Lag, MaxStale, MinBet, MaxOpen, Pause, Balance, Horizon, MaxGap, MaxGroups, MaxSignals} \subseteq Nat
    /\ MaxLosses \in Nat \ {0}

VARIABLES
    pc,            \* the call of the loop that is next
    now,           \* BacktestClock
    groups,        \* tick groups replayed
    feedBook,      \* FeedState.book_state
    signalBook,    \* FeedState.signal_state.book_state: what orders and strategies see
    cursor,        \* WindowManager.cursor
    current,       \* WindowManager.current, None or a market
    signals,       \* signals and signal_metrics: decision_status by signal id
    pending,       \* ExecutionEngine.pending_orders
    trades,        \* simulated_trades, in the order of their ids
    bankroll,      \* BankrollManager
    settlements,   \* pending_settlements: [at, market]
    breaker,       \* CircuitBreaker: [losses, until]
    stats,         \* ExecutionStats: [submitted, filled, missed, legging]
    config         \* settlement mode and pending-settlement policy of this run

vars == <<pc, now, groups, feedBook, signalBook, cursor, current, signals, pending, trades,
          bankroll, settlements, breaker, stats, config>>
books == <<feedBook, signalBook>>
windows == <<cursor, current>>

Orders == [id : 1..MaxSignals, market : Markets, family : Families, side : Sides,
           arrival : Nat, limit : 1..Par, size : Nat, reserved : Nat, group : 0..MaxSignals]
Trades == [order : Orders, price : 1..Par, size : Nat, at : Nat, quoted : Markets \cup {None},
           status : {"open", "closed"}]

Cost(t) == t.price * t.size

Total(seq, f(_)) == FoldLeft(LAMBDA sum, x : sum + f(x), 0, seq)

OpenIn(ts, m) == SelectSeq(ts, LAMBDA t : t.status = "open" /\ t.order.market = m)

Init ==
    /\ pc = "group" /\ now = 0 /\ groups = 0
    /\ feedBook = [s \in Sides |-> Unquoted] /\ signalBook = feedBook
    /\ cursor = 1 /\ current = None
    /\ signals = <<>> /\ pending = <<>> /\ trades = <<>>
    /\ bankroll = NewBankroll(Balance)
    /\ settlements = {}
    /\ breaker = [losses |-> 0, until |-> 0]
    /\ stats = [submitted |-> 0, filled |-> 0, missed |-> 0, legging |-> 0]
    /\ config \in Configs

-----------------------------------------------------------------------------
(* Settlement: PositionManager and CircuitBreaker.                           *)

\* CircuitBreaker::record_result
RecordResult(br, won, at) ==
    IF won THEN [br EXCEPT !.losses = 0]
    ELSE IF br.losses + 1 >= MaxLosses THEN [losses |-> 0, until |-> at + Pause]
    ELSE [br EXCEPT !.losses = @ + 1]

Payout(t) == IF t.order.side = Windows[t.order.market].outcome THEN t.size * Par ELSE 0

\* resolve_window_with_outcome, and the result handed to the breaker.
Resolve(st, m, at) ==
    LET settle(s, t) ==
            [s EXCEPT !.bankroll = ApplyTradeResult(@, t.order.family, Cost(t), Payout(t), Fee),
                      !.breaker = RecordResult(@, Payout(t) > Cost(t) + Fee, at)]
        paid == FoldLeft(settle, st, OpenIn(st.trades, m))
    IN [paid EXCEPT !.trades = [i \in DOMAIN @ |->
            IF @[i].order.market = m THEN [@[i] EXCEPT !.status = "closed"] ELSE @[i]]]

Ledger == [bankroll |-> bankroll, breaker |-> breaker, trades |-> trades]

Becomes(st) ==
    /\ bankroll' = st.bankroll
    /\ breaker' = st.breaker
    /\ trades' = st.trades

\* process_due_market_settlements: due times in order, each at its own clock time.
ProcessDueSettlements(st, due) ==
    LET order == SetToSortSeq(due, LAMBDA d, e : d.at < e.at \/ (d.at = e.at /\ d.market < e.market))
    IN FoldLeft(LAMBDA s, e : Resolve(s, e.market, e.at), st, order)

-----------------------------------------------------------------------------
(* One tick group.                                                           *)

\* The capture (live.rs, clob_feed.rs) writes a quote at the time the runtime received
\* it, under the id of the window that is current then, whatever it is a quote of: the
\* feed is asked to follow a window once that window has started, and quotes of the
\* last one are still queued. None is a market that is not replayed, or no market.
RecordedMarkets(t) ==
    {m \in Markets : Windows[m].start <= t /\ \A n \in Markets : n > m => t < Windows[n].start + Lag}
    \cup {m \in {None} : \A n \in Markets : ~(Windows[n].start + Lag <= t /\ t < Windows[n].end)}

\* FeedState::update: the sides quoted in the group replace those of feedBook, and
\* signalBook becomes a copy of the result.  A group with no quote leaves both.
Update(t, tick) ==
    /\ \E recorded \in [DOMAIN tick -> RecordedMarkets(t)] :
         feedBook' = [s \in Sides |->
             IF s \in DOMAIN tick
             THEN [market |-> recorded[s], ask |-> tick[s].ask, size |-> tick[s].size, ts |-> t]
             ELSE feedBook[s]]
    /\ signalBook' = IF DOMAIN tick = {} THEN signalBook ELSE feedBook'

\* load_ticks merges plain rows and CLOB blocks in the order of their times.
NextTimes == now..Least(now + MaxGap, Horizon)

\* What the rows of a group may show: a quote of some of the sides.
Ticks == UNION {[quoted -> Quotes] : quoted \in SUBSET Sides}

\* next_group, clock, settlements that are due, and FeedState::update.
NextGroup ==
    /\ pc = "group" /\ groups < MaxGroups
    /\ \E t \in NextTimes, tick \in Ticks :
         /\ now' = t
         /\ groups' = groups + 1
         /\ Becomes(ProcessDueSettlements(Ledger, {e \in settlements : e.at <= t}))
         /\ settlements' = {e \in settlements : e.at > t}
         /\ Update(t, tick)
    /\ pc' = "orders"
    /\ UNCHANGED <<windows, signals, pending, stats, config>>

-----------------------------------------------------------------------------
(* ExecutionEngine.                                                          *)

\* log_signal_with_optional_id: the id of the new row is its place.
LogSignal(rows) == Append(rows, "logged")

\* upsert_signal_metrics: what became of the signal.
UpsertSignalMetrics(rows, id, status) == [rows EXCEPT ![id] = status]

\* update_signal_execution_outcome: the queued order of the signal was processed.
UpdateOutcome(rows, id, status) == UpsertSignalMetrics(rows, id, status)

\* Variant: the age of the book is not looked at.
UnfillableAnyAge(o, book) ==
    \/ book.ask = 0
    \/ book.ask > o.limit
    \/ Least(o.size, book.size) * book.ask < MinBet

\* book_fill_rejection_reason, tick size and minimum fill: the order cannot fill.
Unfillable(o, book) ==
    \/ book.ask = 0
    \/ now - book.ts > MaxStale
    \/ book.ask > o.limit
    \/ Least(o.size, book.size) * book.ask < MinBet

\* Variant: the whole reserve stays.
FillKeepsReserve(st, o, book) ==
    LET size == Least(o.size, book.size)
    IN [st EXCEPT !.trades = Append(@, [order |-> o, price |-> book.ask, size |-> size, at |-> now,
                                        quoted |-> book.market, status |-> "open"]),
                  !.signals = UpdateOutcome(@, o.id, "filled"),
                  !.stats.filled = @ + 1,
                  !.seen = Append(@, [group |-> o.group, filled |-> TRUE])]

\* fill_due_order: what the limit price reserved beyond the cost goes back.
FillDueOrder(st, o, book) ==
    LET size == Least(o.size, book.size)
    IN [st EXCEPT !.bankroll = Release(@, o.family, Positive(o.reserved - size * book.ask)),
                  !.trades = Append(@, [order |-> o, price |-> book.ask, size |-> size, at |-> now,
                                        quoted |-> book.market, status |-> "open"]),
                  !.signals = UpdateOutcome(@, o.id, "filled"),
                  !.stats.filled = @ + 1,
                  !.seen = Append(@, [group |-> o.group, filled |-> TRUE])]

\* Variant: a miss is never counted against the group.
RejectUntracked(st, o, track) ==
    [st EXCEPT !.bankroll = Release(@, o.family, o.reserved), !.stats.missed = @ + 1,
               !.signals = UpdateOutcome(@, o.id, "missed")]

\* reject_order; a missing window is not counted against the group.
RejectOrder(st, o, track) ==
    [st EXCEPT !.bankroll = Release(@, o.family, o.reserved),
               !.stats.missed = @ + 1,
               !.signals = UpdateOutcome(@, o.id, "missed"),
               !.seen = IF track THEN Append(@, [group |-> o.group, filled |-> FALSE]) ELSE @]

\* process_due_order
ProcessDueOrder(st, o) ==
    IF o.arrival > now THEN [st EXCEPT !.remaining = Append(@, o)]
    ELSE IF current # o.market THEN RejectOrder(st, o, FALSE)
    ELSE IF Unfillable(o, signalBook[o.side]) THEN RejectOrder(st, o, TRUE)
    ELSE FillDueOrder(st, o, signalBook[o.side])

\* record_group_outcome and the tally of process_due_orders: a spread with one leg filled.
Legged(seen) ==
    {g \in 1..MaxSignals :
        LET legs == SelectSeq(seen, LAMBDA e : e.group = g)
        IN Len(legs) = 2 /\ Cardinality({i \in DOMAIN legs : legs[i].filled}) = 1}

\* process_due_orders, against the window that was current before this group.
ProcessDueOrders ==
    /\ pc = "orders"
    /\ LET st == FoldLeft(ProcessDueOrder,
                          [bankroll |-> bankroll, trades |-> trades, stats |-> stats,
                           signals |-> signals, remaining |-> <<>>, seen |-> <<>>], pending)
       IN /\ bankroll' = st.bankroll
          /\ trades' = st.trades
          /\ signals' = st.signals
          /\ pending' = st.remaining
          /\ stats' = [st.stats EXCEPT !.legging = @ + Cardinality(Legged(st.seen))]
    /\ pc' = "window"
    /\ UNCHANGED <<now, groups, books, windows, settlements, breaker, config>>

-----------------------------------------------------------------------------
(* WindowManager and the close of a market.                                  *)

Expired(m, t) == t >= Windows[m].end

\* The cursor of WindowManager::advance once expired windows are skipped.
NextWindow(from, t) ==
    CHOOSE m \in from..(Len(Windows) + 1) :
        /\ m \in Markets => ~Expired(m, t)
        /\ \A n \in from..(m - 1) : Expired(n, t)

\* close_market_and_reclassify_reserve
Reclassify(b, m) ==
    FoldLeft(LAMBDA acc, t : ToPending(acc, t.order.family, Cost(t)), b, OpenIn(trades, m))

Later(a, b) == IF a >= b THEN a ELSE b

\* Variant: a market replaces the one that settles at the same time.
ScheduleReplacing(at, m) == {e \in settlements : e.at # at} \cup {[at |-> at, market |-> m]}

\* schedule_pending_market_settlement
Schedule(at, m) == settlements \cup {[at |-> at, market |-> m]}

\* load_observed_resolution_schedule
ObservedResolutions(m) == {Windows[m].end + d : d \in Delays}

\* The closed arm of the loop: settle at once or queue for the observed time.
CloseMarket(m) ==
    LET closed == [Ledger EXCEPT !.bankroll = Reclassify(@, m)]
    IN \/ /\ config.mode = "immediate"
          /\ Becomes(Resolve(closed, m, now))
          /\ UNCHANGED settlements
       \/ /\ config.mode = "observed"
          /\ \E at \in ObservedResolutions(m) : settlements' = Schedule(Later(at, now), m)
          /\ Becomes(closed)

\* The opened arm: the strategies' view of the book is emptied.
OpenWindow(from) ==
    LET next == NextWindow(from, now)
        started == next \in Markets /\ now >= Windows[next].start
    IN \/ /\ started
          /\ current' = next /\ cursor' = next + 1
          /\ signalBook' = [s \in Sides |-> Unquoted]
       \/ /\ ~started
          /\ current' = None /\ cursor' = next
          /\ UNCHANGED signalBook

\* advance, the two arms, and the early continue of the loop: no window, or the
\* circuit breaker has paused trading.
AdvanceWindow ==
    /\ pc = "window"
    /\ \/ /\ current # None /\ ~Expired(current, now)
          /\ UNCHANGED <<books, windows, bankroll, breaker, trades, settlements>>
       \/ /\ current # None /\ Expired(current, now)
          /\ CloseMarket(current)
          /\ OpenWindow(cursor)
          /\ UNCHANGED feedBook
       \/ /\ current = None
          /\ OpenWindow(cursor)
          /\ UNCHANGED <<feedBook, bankroll, breaker, trades, settlements>>
    /\ pc' = IF current' = None \/ now < breaker'.until THEN "group" ELSE "latency_arb"
    /\ UNCHANGED <<now, groups, signals, pending, stats, config>>

-----------------------------------------------------------------------------
(* run_strategy_cycle: the strategies take turns, in the order of            *)
(* build_strategies.                                                         *)

NextTurn ==
    CASE pc = "latency_arb" -> "spread_capture"
      [] pc = "spread_capture" -> "calm_persistence"
      [] OTHER -> "group"

\* features_are_fresh: both legs quoted, the older one not too old.
FeaturesAreFresh == \A s \in Sides : signalBook[s].ask > 0 /\ now - signalBook[s].ts <= MaxStale

\* count_queue_relevant_open_trades
CountOpenTrades ==
    Len(SelectSeq(trades, LAMBDA t :
        t.status = "open" /\ (config.counts \/ now < Windows[t.order.market].end)))

\* The strategy has an open trade or a pending order on one of these sides of
\* the market.
Duplicate(f, sides) ==
    LET Same(o) == o.market = current /\ o.family = f /\ o.side \in sides
    IN \/ \E i \in DOMAIN trades : trades[i].status = "open" /\ Same(trades[i].order)
       \/ \E i \in DOMAIN pending : Same(pending[i])

HasSlots(n) == CountOpenTrades + Len(pending) + n <= MaxOpen

\* can_queue_order: a single order is alone of its strategy in its market.
CanQueueOrder(f) ==
    HasSlots(1) /\ ~Duplicate(f, Sides)

\* can_queue_spread: each leg is alone on its side.
CanQueueSpread(f) ==
    /\ HasSlots(2)
    /\ \A side \in Sides : ~Duplicate(f, {side})

\* PendingOrder
Order(n, f, side, limit, size, g) ==
    [id |-> Len(signals) + n, market |-> current, family |-> f, side |-> side,
     arrival |-> now + Latency, limit |-> limit, size |-> size,
     reserved |-> size * limit, group |-> g]

\* submission_size_rejection_reason: below the minimum bet at the quoted price.
SubmissionTooSmall(o) == o.size * signalBook[o.side].ask < MinBet

\* spread_submission_rejection_reason: either leg is.
SpreadTooSmall(orders) == \E i \in DOMAIN orders : SubmissionTooSmall(orders[i])

\* The reserved orders are queued, their rows marked submitted.
Queue(f, orders, rows) ==
    /\ bankroll' = AddReserved(bankroll, f, Total(orders, LAMBDA o : o.reserved))
    /\ pending' = pending \o orders
    /\ stats' = [stats EXCEPT !.submitted = @ + Len(orders)]
    /\ signals' = rows

\* What was reserved for a refused submission is released again.
Refuse(rows) == signals' = rows /\ UNCHANGED <<bankroll, pending, stats>>

\* What the strategies may signal. Of their conditions the model keeps those on the
\* book; the others (momentum, edge, cooldown, time left, volatility, skew) only
\* remove signals.
LatencyArb == {s \in Sides : FeaturesAreFresh /\ signalBook[s].ask < Limit["latency_arb"]}
CalmPersistence == {s \in Sides : FeaturesAreFresh /\ signalBook[s].ask <= Limit["calm_persistence"]}
SpreadCapture == FeaturesAreFresh /\ signalBook["UP"].ask + signalBook["DOWN"].ask + 2 * Fee < Par

\* reject_single_submission
RejectSingle(rows) == Refuse(UpsertSignalMetrics(rows, Len(rows), "rejected"))

\* submit_single; reserved at the limit price.
SubmitSingle(side, size) ==
    LET o == Order(1, pc, side, Limit[pc], size, 0)
        rows == LogSignal(signals)
        accepted == /\ CanQueueOrder(pc)
                    /\ Affordable(bankroll, pc, o.reserved, config)
                    /\ ~SubmissionTooSmall(o)
    IN IF accepted THEN Queue(pc, <<o>>, UpsertSignalMetrics(rows, o.id, "submitted"))
                   ELSE RejectSingle(rows)

\* handle_single_candidate
SingleCandidate ==
    /\ pc \in {"latency_arb", "calm_persistence"} /\ Len(signals) < MaxSignals
    /\ \E side \in IF pc = "latency_arb" THEN LatencyArb ELSE CalmPersistence, size \in Sizes :
         SubmitSingle(side, size)
    /\ pc' = NextTurn
    /\ UNCHANGED <<now, groups, books, windows, trades, settlements, breaker, config>>

\* build_spread_order: each leg at its own ask, one group.
SpreadOrder(n, side, size) ==
    Order(n, pc, side, signalBook[side].ask, size, stats.submitted + 1)

\* log_spread_signals
LogSpreadSignals(rows) == LogSignal(LogSignal(rows))

\* update_spread_signal_metrics: the two rows that were logged last.
UpdateSpreadSignalMetrics(rows, status) ==
    UpsertSignalMetrics(UpsertSignalMetrics(rows, Len(rows) - 1, status), Len(rows), status)

\* reject_spread_submission
RejectSpread(rows) == Refuse(UpdateSpreadSignalMetrics(rows, "rejected"))

\* spread_signal_pair: the up leg first.
SpreadPair(size) == <<SpreadOrder(1, "UP", size), SpreadOrder(2, "DOWN", size)>>

\* submit_spread
SubmitSpread(size) ==
    LET orders == SpreadPair(size)
        rows == LogSpreadSignals(signals)
        accepted == /\ CanQueueSpread(pc)
                    /\ Affordable(bankroll, pc, Total(orders, LAMBDA o : o.reserved), config)
                    /\ ~SpreadTooSmall(orders)
    IN IF accepted THEN Queue(pc, orders, UpdateSpreadSignalMetrics(rows, "submitted"))
                   ELSE RejectSpread(rows)

\* handle_batch_candidate
BatchCandidate ==
    /\ pc = "spread_capture" /\ SpreadCapture /\ Len(signals) + 2 <= MaxSignals
    /\ \E size \in Sizes : SubmitSpread(size)
    /\ pc' = NextTurn
    /\ UNCHANGED <<now, groups, books, windows, trades, settlements, breaker, config>>

\* No candidate, or one that a filter turned away.
NoSubmission ==
    /\ pc \in Families
    /\ pc' = NextTurn
    /\ UNCHANGED <<now, groups, books, windows, signals, pending, trades, bankroll,
                   settlements, breaker, stats, config>>

\* The ticks run out: every scheduled settlement is processed, whatever its time.
Drain ==
    /\ pc = "group"
    /\ Becomes(ProcessDueSettlements(Ledger, settlements))
    /\ settlements' = {}
    /\ pc' = "done"
    /\ UNCHANGED <<now, groups, books, windows, signals, pending, stats, config>>

Done == pc = "done" /\ UNCHANGED vars

Next ==
    \/ NextGroup \/ ProcessDueOrders \/ AdvanceWindow
    \/ SingleCandidate \/ BatchCandidate \/ NoSubmission
    \/ Drain \/ Done

Spec == Init /\ [][Next]_vars

-----------------------------------------------------------------------------
(* Properties.                                                               *)

\* Types of the loop's state.
TypeOK ==
    /\ pc \in Families \cup {"group", "orders", "window", "done"}
    /\ now \in 0..Horizon /\ groups \in 0..MaxGroups
    /\ cursor \in 1..(Len(Windows) + 1) /\ current \in Markets \cup {None}
    /\ signals \in Seq({"submitted", "rejected", "filled", "missed"})
    /\ pending \in Seq(Orders) /\ trades \in Seq(Trades)
    /\ bankroll \in Bankrolls
    /\ settlements \subseteq [at : Nat, market : Markets]
    /\ breaker \in [losses : 0..(MaxLosses - 1), until : Nat]
    /\ stats \in [submitted : Nat, filled : Nat, missed : Nat, legging : Nat]

\* What the bankroll holds back is, family by family, what the queued orders reserved
\* at their limit plus what the open trades cost: partial fills, fills below the limit,
\* misses, closes and settlements neither leak a reserve nor release one twice.
ReserveIsExposure ==
    \A f \in Families :
        Reserved(bankroll, f) =
            Total(pending, LAMBDA o : IF o.family = f THEN o.reserved ELSE 0)
            + Total(trades, LAMBDA t :
                IF t.status = "open" /\ t.order.family = f THEN Cost(t) ELSE 0)

\* A fill is priced from a book of another market only at the two boundaries of its
\* window: until max_book_staleness_ms after the capture's feed followed the window
\* (its last old quotes, and the feed state's copy of the book, which the runner does
\* not empty with the signal state's: the next quote of either side brings the other
\* one back), or in the group that closes it (orders are processed before the window
\* advances, so a quote of the next market may be on the book already).
ForeignQuoteOnlyAtBoundary ==
    \A i \in DOMAIN trades :
        LET t == trades[i]
            w == Windows[t.order.market]
        IN t.quoted # t.order.market => t.at < w.start + Lag + MaxStale \/ t.at >= w.end

\* The rows of the signals that are not suppressed tell what became of each: submitted while its order is
\* queued, filled when it became a trade, and the rest rejected or missed, as many as
\* the counters say.  The reported number of legging failures is the number of spreads
\* with exactly one leg filled, for spreads that have no leg still queued.
OutcomesAreCounted ==
    LET rows(status) == {i \in DOMAIN signals : signals[i] = status}
        filled(g) == {i \in DOMAIN trades : trades[i].order.group = g}
        queued == {pending[i].group : i \in DOMAIN pending}
    IN /\ rows("submitted") = {pending[i].id : i \in DOMAIN pending}
       /\ rows("filled") = {trades[i].order.id : i \in DOMAIN trades}
       /\ Cardinality(rows("filled")) = stats.filled
       /\ Cardinality(rows("missed")) = stats.missed
       /\ stats.legging = Cardinality({g \in (1..stats.submitted) \ queued :
                                          Cardinality(filled(g)) = 1})

\* When the run ends every trade of a market that closed is settled, and the balance
\* differs from the start by what the settled trades paid, cost and were charged.
ResultCoversClosedMarkets ==
    LET settled == SelectSeq(trades, LAMBDA t : t.status = "closed")
    IN /\ bankroll.balance = Balance + Total(settled, LAMBDA t : Payout(t) - Cost(t) - Fee)
       /\ pc = "done" => \A i \in DOMAIN trades :
            trades[i].status = "open" => trades[i].order.market = current
=============================================================================
