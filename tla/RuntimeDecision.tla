-------------------------- MODULE RuntimeDecision --------------------------
(***************************************************************************)
(* The strategy worker of bots/paint: RuntimeDecisionEngine                *)
(* (live_decision.rs) with its bankroll, pending orders and open trades,   *)
(* the thread that runs it (run_strategy_worker), and the main loop on the *)
(* other side of its bounded mailbox, its one-place slot for the latest    *)
(* evaluation request and its bounded output channel (live.rs).            *)
(*                                                                         *)
(* The worker drains the mailbox and then takes the request.  A call of    *)
(* the engine is a run of steps, one for each iteration of its loop over   *)
(* orders, trades or strategies.  Only the worker's thread touches the     *)
(* engine and nothing crosses a channel within a call, so what the other   *)
(* threads do during a call they do before or after it; only an evaluation *)
(* request, which depends on output_dropped, may come during an evaluation.*)
(*                                                                         *)
(* Abstractions.                                                           *)
(*  - A strategy may propose an order at any evaluation, or none: signals, *)
(*    router, trend filter, circuit breaker, pauses and max_open_positions *)
(*    only decide whether it does, and so does the monitor, which blocks   *)
(*    live orders for a while after a dropped message.  An order refused   *)
(*    after it was sized is released in the same call, which undoes the    *)
(*    reservation, and so is no step.                                      *)
(*  - The submission worker answers a batch in one step; LiveSubmission    *)
(*    models what is inside.  A limit order fills at its limit or better.  *)
(*  - The output channel also carries outputs without orders: whether it   *)
(*    is full is open.                                                     *)
(***************************************************************************)
EXTENDS Bankroll, Sequences, FiniteSets

CONSTANTS
    Strategies,        \* families whose strategy is enabled
    NumMarkets,        \* bound: market windows, one after the other
    MaxOrders,         \* bound: signal ids
    QueueCapacity,     \* live_decision_queue_capacity
    Directions,        \* sides that single signals take
    SingleCosts,       \* bound: costs that sizing gives single orders
    Fee,               \* taker fee of a settled trade
    SeedCosts,         \* cost of a trade found at startup, 0 for none
    Configs            \* [live, balance, family, global]: execution mode, starting
                       \* balance, pending-settlement fractions over Scale

ASSUME DecisionAssumption ==
    /\ Strategies \subseteq Families
    /\ NumMarkets \in Nat \ {0} /\ MaxOrders \in Nat \ {0}
    /\ QueueCapacity \in Nat \ {0} /\ Directions \subseteq {"up", "down"}
    /\ SingleCosts \subseteq Nat /\ Fee \in Nat
    /\ SeedCosts \subseteq 0..Ceiling
    /\ Configs \subseteq [live : BOOLEAN, balance : Int, family : 0..Scale, global : 0..Scale]

Ids     == 1..MaxOrders
Markets == 1..NumMarkets
Sides   == {"up", "down"}

VARIABLES
    config,         \* Config of this run
    bankroll,       \* BankrollManager
    orders,         \* by signal id: pending_orders and exposure.open; a trade keeps
                    \* the id of its order, cost is reserved_cost, then the trade's
    nextId,         \* next_signal_id
    wpc,            \* the worker: "drain", "work", "take", "decide"
    job,            \* the message, or the orders, it works through
    request,        \* the evaluation request in hand, a set of at most one market
    tried,          \* strategies already heard in this evaluation
    draft,          \* live_orders of this evaluation
    outputDropped,  \* metrics.output_dropped > 0
    mailbox,        \* StrategyWorkerMessage channel
    latest,         \* LatestStrategyEvaluation, a set of at most one market
    outputs,        \* decision outputs with orders, on their way to the main loop
    toSend,         \* messages the main loop's handler has still to send
    submitted,      \* batches at the live submission worker
    feedback,       \* LiveSubmissionFeedback on its way back
    phase,          \* market windows as the main loop knows them
    fillCost,       \* what the venue charged for an order, 0 if it did not fill
    dead,           \* orders that will never be, or no longer are, a position
    lost            \* a message did not fit into the mailbox

engine   == << bankroll, orders, nextId >>
worker   == << wpc, job, request, tried, draft, outputDropped >>
channels == << mailbox, latest, outputs, toSend, submitted, feedback >>
world    == << config, phase, fillCost, dead, lost >>
vars     == << engine, worker, channels, world >>

NoOrder == [strategy |-> "latency_arb", market |-> 1, side |-> "up", cost |-> 0, at |-> "none"]
NoJob   == [kind |-> "none", market |-> 1, ids |-> {}, outcome |-> "up", strict |-> FALSE]

Message(kind, ids, strict) == [NoJob EXCEPT !.kind = kind, !.ids = ids, !.strict = strict]
MarketMessage(kind, m, outcome) == [NoJob EXCEPT !.kind = kind, !.market = m, !.outcome = outcome]

Open(i)   == orders[i].at \in {"open", "settling"}
Queued(i) == orders[i].at = "queued"

\* current_window: the window activated last, until it is closed.
CurrentWindows ==
    {m \in Markets : phase[m] = "open" /\ \A n \in Markets : n > m => phase[n] = "future"}

\* runtime_decision_seed and RuntimeDecisionEngine::new: a run database may hold
\* an unresolved trade, whose market has ended or not (hydrate_trade_reserve).
\* Live fills are not stored as trades.
Init ==
    /\ config \in Configs
    /\ \E seed \in IF config.live THEN {0} ELSE SeedCosts :
       \E ended \in IF seed = 0 THEN {FALSE} ELSE BOOLEAN :
         /\ bankroll = LET b == NewBankroll(config.balance)
                       IN IF ended THEN AddPending(b, "latency_arb", seed)
                          ELSE AddReserved(b, "latency_arb", seed)
         /\ orders = [i \in Ids |->
                        IF i = 1 /\ seed > 0
                        THEN [NoOrder EXCEPT !.cost = seed, !.at = IF ended THEN "settling" ELSE "open"]
                        ELSE NoOrder]
         /\ nextId = IF seed > 0 THEN 2 ELSE 1
         /\ phase = [m \in Markets |-> IF m > 1 THEN "future" ELSE IF ended THEN "closed" ELSE "open"]
    /\ wpc = "drain" /\ job = NoJob /\ request = {}
    /\ tried = {} /\ draft = {} /\ outputDropped = FALSE
    /\ mailbox = << >> /\ latest = {} /\ outputs = << >> /\ toSend = << >>
    /\ submitted = << >> /\ feedback = << >>
    /\ fillCost = [i \in Ids |-> 0]
    /\ dead = {} /\ lost = FALSE

-----------------------------------------------------------------------------
(* The worker's loop (run_strategy_worker).                                  *)

\* rx.try_recv: a message; window_closed and authoritative_resolution go over
\* the open trades of the market.
ReceiveMessage ==
    /\ wpc = "drain" /\ mailbox # << >>
    /\ LET msg == Head(mailbox)
       IN job' = IF msg.kind \in {"feedback", "release"} THEN msg
                 ELSE [msg EXCEPT !.ids = {i \in Ids : Open(i) /\ orders[i].market = msg.market}]
    /\ mailbox' = Tail(mailbox)
    /\ wpc' = "work"
    /\ UNCHANGED << engine, request, tried, draft, outputDropped, latest, outputs, toSend,
                    submitted, feedback, world >>

\* rx.try_recv: TryRecvError::Empty.
MailboxEmpty ==
    /\ wpc = "drain" /\ mailbox = << >>
    /\ wpc' = "take"
    /\ UNCHANGED << engine, job, request, tried, draft, outputDropped, channels, world >>

\* slot.take() and the beginning of evaluate: paper orders first.
TakeRequest ==
    /\ wpc = "take"
    /\ \/ latest = {} /\ wpc' = "drain" /\ UNCHANGED job
       \/ latest # {} /\ config.live /\ wpc' = "decide" /\ UNCHANGED job
       \/ /\ latest # {} /\ ~config.live
          /\ wpc' = "work"
          /\ job' = Message("due", {i \in Ids : Queued(i)}, FALSE)
    /\ request' = latest /\ latest' = {}
    /\ UNCHANGED << engine, tried, draft, outputDropped, mailbox, outputs, toSend, submitted,
                    feedback, world >>

\* The loop of a call of this kind has come to order i.
Handles(i, kind) ==
    wpc = "work" /\ job.kind = kind /\ i \in job.ids /\ \A j \in job.ids : i <= j

\* The iteration has dealt with order i.
Done(i) ==
    /\ job' = [job EXCEPT !.ids = @ \ {i}]
    /\ UNCHANGED << nextId, wpc, request, tried, draft, outputDropped, channels,
                    config, phase, fillCost, lost >>

Leave(i, at) == orders' = [orders EXCEPT ![i].at = at]

\* Order i is gone and nothing of it is reserved or on its way.
Forget(i) == orders' = [orders EXCEPT ![i] = [NoOrder EXCEPT !.at = "removed"]]

\* window_closed, mark_pending_for_market: a trade moves to pending settlement.
WindowClosed(i) ==
    /\ Handles(i, "closed")
    /\ IF orders[i].at = "open"
       THEN /\ Leave(i, "settling")
            /\ bankroll' = ToPending(bankroll, orders[i].strategy, orders[i].cost)
       ELSE UNCHANGED << orders, bankroll >>
    /\ Done(i) /\ UNCHANGED dead

\* authoritative_resolution, remove_market: a trade is settled. A share won pays
\* one; at a price of one half that is twice the cost.
AuthoritativeResolution(i) ==
    /\ Handles(i, "resolved")
    /\ bankroll' = ApplyTradeResult(bankroll, orders[i].strategy, orders[i].cost,
                       IF orders[i].side = job.outcome THEN 2 * orders[i].cost ELSE 0, Fee)
    /\ Forget(i)
    /\ dead' = dead \cup {i}
    /\ Done(i)

\* release_reservations
ReleaseReservations(i) ==
    /\ Handles(i, "release")
    /\ bankroll' = Release(bankroll, orders[i].strategy, orders[i].cost)
    /\ IF Queued(i) THEN UNCHANGED orders ELSE Forget(i)
    /\ Done(i) /\ UNCHANGED dead

\* Variant: a fill gives back the whole reservation.
FillReleasesAll(i, cost) ==
    /\ bankroll' = Release(bankroll, orders[i].strategy, orders[i].cost)
    /\ orders' = [orders EXCEPT ![i].at = "open", ![i].cost = cost]

\* Variant: what a cheaper fill leaves over stays reserved.
FillKeepsDifference(i, cost) ==
    /\ orders' = [orders EXCEPT ![i].at = "open", ![i].cost = cost]
    /\ UNCHANGED bankroll

\* fill_order and the fills of apply_live_submission_feedback: the part of the
\* reservation the fill did not need is released.
Fill(i, cost) ==
    /\ bankroll' = Release(bankroll, orders[i].strategy, Positive(orders[i].cost - cost))
    /\ orders' = [orders EXCEPT ![i].at = "open", ![i].cost = cost]

\* apply_live_submission_feedback: rejected orders are removed, fills become
\* trades; an id that is no longer pending is skipped.
ApplyFeedback(i) ==
    /\ Handles(i, "feedback")
    /\ IF ~Queued(i) THEN UNCHANGED << bankroll, orders >>
       ELSE IF fillCost[i] > 0 THEN Fill(i, fillCost[i])
       ELSE Leave(i, "removed") /\ UNCHANGED bankroll
    /\ Done(i) /\ UNCHANGED dead

\* process_due_order: not yet arrived, missed, or filled from the book; an order
\* of another window than the request's is missed.
ProcessDueOrder(i) ==
    /\ Handles(i, "due")
    /\ \/ UNCHANGED << bankroll, orders, dead >>
       \/ /\ bankroll' = Release(bankroll, orders[i].strategy, orders[i].cost)
          /\ Forget(i)
          /\ dead' = dead \cup {i}
       \/ /\ orders[i].market \in request
          /\ \E cost \in 1..orders[i].cost : Fill(i, cost)
          /\ UNCHANGED dead
    /\ Done(i)

\* rollback_live_orders_after_worker_output_drop
RollbackOutput(i) ==
    /\ Handles(i, "undo")
    /\ bankroll' = Release(bankroll, orders[i].strategy, orders[i].cost)
    /\ Forget(i)
    /\ Done(i) /\ UNCHANGED dead

\* The loop is over: the output of window_closed and authoritative_resolution
\* is forwarded, a paper evaluation goes on to the strategies.
FinishJob ==
    /\ wpc = "work" /\ job.ids = {}
    /\ wpc' = IF job.kind = "due" THEN "decide" ELSE "drain"
    /\ outputDropped' \in IF job.kind \in {"closed", "resolved"} THEN {outputDropped, TRUE}
                          ELSE {outputDropped}
    /\ job' = NoJob
    /\ UNCHANGED << engine, request, tried, draft, channels, world >>

-----------------------------------------------------------------------------
(* Strategies (evaluate, handle_single_candidate, handle_batch_candidate).   *)

\* Variant: only pending orders are looked at.
DuplicatePendingOnly(f, sides) ==
    \E i \in Ids : /\ Queued(i)
                   /\ orders[i].market \in request /\ orders[i].strategy = f
                   /\ orders[i].side \in sides

\* duplicate_open, and the pending half of can_queue_single and can_queue_spread.
Duplicate(f, sides) ==
    \E i \in Ids : /\ Open(i) \/ Queued(i)
                   /\ orders[i].market \in request /\ orders[i].strategy = f
                   /\ orders[i].side \in sides

Order(f, m, side, cost) ==
    [strategy |-> f, market |-> m, side |-> side, cost |-> cost, at |-> "queued"]

\* A candidate of f was queued as n orders.
Decided(f, n) ==
    /\ tried' = tried \cup {f}
    /\ draft' = draft \cup nextId..(nextId + n - 1)
    /\ nextId' = nextId + n
    /\ UNCHANGED << wpc, job, request, outputDropped, channels, world >>

\* submit_single
SubmitSingle(f) ==
    /\ wpc = "decide" /\ f \in Strategies \ (tried \cup {"spread_capture"}) /\ nextId <= MaxOrders
    /\ ~Duplicate(f, Sides)
    /\ \E m \in request, side \in Directions, cost \in SingleCosts :
         /\ Affordable(bankroll, f, cost, config)
         /\ bankroll' = AddReserved(bankroll, f, cost)
         /\ orders' = [orders EXCEPT ![nextId] = Order(f, m, side, cost)]
    /\ Decided(f, 1)

\* submit_spread: one reservation for the pair, an order for each leg.
SubmitSpread(f) ==
    /\ wpc = "decide" /\ f \in (Strategies \cap {"spread_capture"}) \ tried /\ nextId < MaxOrders
    /\ ~Duplicate(f, Sides)
    /\ \E m \in request : \E up, down \in 1..MaxPosition :
         /\ Affordable(bankroll, f, up + down, config)
         /\ bankroll' = AddReserved(bankroll, f, up + down)
         /\ orders' = [orders EXCEPT ![nextId] = Order(f, m, "up", up),
                                     ![nextId + 1] = Order(f, m, "down", down)]
    /\ Decided(f, 2)

\* The end of evaluate and forward_strategy_output; a paper output has no
\* live_orders. If the channel is full the worker takes its orders back.
ForwardDecision ==
    /\ wpc = "decide"
    /\ LET live == IF config.live THEN draft ELSE {}
       IN \/ /\ outputs' = IF live = {} THEN outputs ELSE Append(outputs, live)
             /\ wpc' = "drain"
             /\ UNCHANGED << job, outputDropped, dead >>
          \/ /\ job' = Message("undo", live, FALSE)
             /\ wpc' = "work"
             /\ outputDropped' = TRUE
             /\ dead' = dead \cup live
             /\ UNCHANGED outputs
    /\ draft' = {} /\ tried' = {} /\ request' = {}
    /\ UNCHANGED << engine, mailbox, latest, toSend, submitted, feedback,
                    config, phase, fillCost, lost >>

-----------------------------------------------------------------------------
(* The main loop, which handles one command at a time.                       *)

\* The worker is not within a call of the engine.
BetweenCalls == wpc \in {"drain", "take"}

\* ... and the main loop is between two commands.
Idle == BetweenCalls /\ toSend = << >>

\* StrategyWorker::try_send of the first of a handler's messages; toSend keeps
\* the rest, unless the handler ends with a message that does not fit (strict).
Post(messages) ==
    IF messages = << >> THEN UNCHANGED << mailbox, toSend, lost >>
    ELSE IF Len(mailbox) < QueueCapacity
    THEN /\ mailbox' = Append(mailbox, Head(messages))
         /\ toSend' = Tail(messages)
         /\ UNCHANGED lost
    ELSE /\ toSend' = IF Head(messages).strict THEN << >> ELSE Tail(messages)
         /\ lost' = TRUE
         /\ UNCHANGED mailbox

\* activate_window
ActivateWindow(m) ==
    /\ Idle /\ phase[m] = "future" /\ (m > 1 => phase[m - 1] # "future")
    /\ phase' = [phase EXCEPT ![m] = "open"]
    /\ UNCHANGED << engine, worker, channels, config, fillCost, dead, lost >>

\* MarketDiscoveryEvent::WindowClosed: the worker is told, resolution scheduled.
CloseWindow(m) ==
    /\ Idle /\ phase[m] = "open"
    /\ phase' = [phase EXCEPT ![m] = "closed"]
    /\ Post(<< MarketMessage("closed", m, "up") >>)
    /\ UNCHANGED << engine, worker, latest, outputs, submitted, feedback, config, fillCost, dead >>

\* RuntimeCommand::ResolutionResult, Ok(Some(outcome)).
ResolutionResult(m, outcome) ==
    /\ Idle /\ phase[m] = "closed"
    /\ phase' = [phase EXCEPT ![m] = "resolved"]
    /\ Post(<< MarketMessage("resolved", m, outcome) >>)
    /\ UNCHANGED << engine, worker, latest, outputs, submitted, feedback, config, fillCost, dead >>

\* try_evaluate: the latest request replaces an older one.
TryEvaluate(m) ==
    /\ wpc # "work" /\ toSend = << >> /\ m \in CurrentWindows /\ ~outputDropped
    /\ latest' = {m}
    /\ UNCHANGED << engine, worker, mailbox, outputs, toSend, submitted, feedback, world >>

\* handle_strategy_decision_output hands the batch to the submission queue, or
\* rolls it back (a stale output, evidence refused, queue full):
\* rollback_live_orders_after_runtime_rejection tries both messages.
HandleOutput ==
    /\ Idle /\ outputs # << >>
    /\ LET ids == Head(outputs)
       IN \/ submitted' = Append(submitted, ids) /\ UNCHANGED << mailbox, toSend, lost, dead >>
          \/ /\ Post(<< Message("feedback", ids, FALSE), Message("release", ids, FALSE) >>)
             /\ dead' = dead \cup ids
             /\ UNCHANGED submitted
    /\ outputs' = Tail(outputs)
    /\ UNCHANGED << engine, worker, latest, feedback, config, phase, fillCost >>

\* apply_live_submission_feedback of the main loop: a message that does not fit
\* ends the handler (strict).
HandleFeedback ==
    /\ Idle /\ feedback # << >>
    /\ LET f == Head(feedback)
       IN Post((IF f.answered = {} THEN << >> ELSE << Message("feedback", f.answered, TRUE) >>)
               \o (IF f.released = {} THEN << >> ELSE << Message("release", f.released, TRUE) >>))
    /\ feedback' = Tail(feedback)
    /\ UNCHANGED << engine, worker, latest, outputs, submitted, config, phase, fillCost, dead >>

\* The handler in hand sends its next message.
TrySend ==
    /\ BetweenCalls /\ toSend # << >>
    /\ Post(toSend)
    /\ UNCHANGED << engine, worker, latest, outputs, submitted, feedback,
                    config, phase, fillCost, dead >>

\* submit_live_orders_from_worker: each order is filled or rejected; one whose
\* outcome is in doubt ends the batch, and those behind it are released.
SubmissionAnswers ==
    /\ BetweenCalls /\ submitted # << >>
    /\ LET ids == Head(submitted)
       IN \E filled \in SUBSET ids : \E doubt \in SUBSET (ids \ filled) :
            /\ Cardinality(doubt) <= 1
            /\ \A d \in doubt, i \in filled : i < d
            /\ \E cost \in [filled -> 1..(2 * MaxPosition)] :
                 /\ \A i \in filled : cost[i] <= orders[i].cost
                 /\ fillCost' = [i \in Ids |-> IF i \in filled THEN cost[i] ELSE fillCost[i]]
            /\ LET rejected == ids \ (filled \cup doubt)
               IN /\ feedback' = Append(feedback, [answered |-> filled \cup rejected,
                                                   released |-> rejected])
                  /\ dead' = dead \cup rejected
    /\ submitted' = Tail(submitted)
    /\ UNCHANGED << engine, worker, mailbox, latest, outputs, toSend, config, phase, lost >>

-----------------------------------------------------------------------------

EngineStep(i) ==
    \/ WindowClosed(i) \/ AuthoritativeResolution(i) \/ ReleaseReservations(i)
    \/ ApplyFeedback(i) \/ ProcessDueOrder(i) \/ RollbackOutput(i)

Next ==
    \/ ReceiveMessage \/ MailboxEmpty \/ TakeRequest \/ FinishJob \/ ForwardDecision
    \/ \E i \in Ids : EngineStep(i)
    \/ \E f \in Strategies : SubmitSingle(f) \/ SubmitSpread(f)
    \/ \E m \in Markets : \/ ActivateWindow(m) \/ CloseWindow(m) \/ TryEvaluate(m)
                          \/ \E outcome \in Sides : ResolutionResult(m, outcome)
    \/ HandleOutput \/ HandleFeedback \/ TrySend \/ SubmissionAnswers

Spec == Init /\ [][Next]_vars

-----------------------------------------------------------------------------
(* Properties. *)

Messages == [kind : {"none", "closed", "resolved", "feedback", "release", "due", "undo"},
             market : Markets, ids : SUBSET Ids, outcome : Sides, strict : BOOLEAN]
Orders   == [strategy : Families, market : Markets, side : Sides, cost : Nat,
             at : {"none", "queued", "open", "settling", "removed"}]

\* Types of all variables: in particular no bucket of the bankroll is negative.
TypeOK ==
    /\ config \in Configs
    /\ bankroll \in Bankrolls
    /\ orders \in [Ids -> Orders]
    /\ nextId \in 1..(MaxOrders + 1)
    /\ wpc \in {"drain", "work", "take", "decide"}
    /\ job \in Messages /\ request \subseteq Markets
    /\ tried \subseteq Families /\ draft \subseteq Ids
    /\ outputDropped \in BOOLEAN
    /\ mailbox \in Seq(Messages) /\ latest \subseteq Markets
    /\ outputs \in Seq(SUBSET Ids) /\ toSend \in Seq(Messages)
    /\ submitted \in Seq(SUBSET Ids)
    /\ feedback \in Seq([answered : SUBSET Ids, released : SUBSET Ids])
    /\ phase \in [Markets -> {"future", "open", "closed", "resolved"}]
    /\ fillCost \in [Ids -> Nat]
    /\ dead \subseteq Ids /\ lost \in BOOLEAN

\* add_reserved, consume_family_*_reserve and transition_family_reserve_to_pending
\* update family buckets and totals one by one, each clamped on its own: the
\* totals remain the sums of the buckets.
BucketsAgree ==
    /\ bankroll.activeTotal = AddUp(bankroll.active)
    /\ bankroll.pendingTotal = AddUp(bankroll.pending)

\* Capital out with these orders, counted unit by unit.
Cost(ids) == Cardinality(UNION {{i} \X (1..orders[i].cost) : i \in ids})

\* Orders that are, or may become, a position.
Exposed == {i \in Ids : orders[i].at # "none"} \ dead

Of(f, ids) == {i \in ids : orders[i].strategy = f}

\* release_from_family_buckets takes from whichever trade's reserve comes first:
\* whatever was settled, filled, missed, rolled back, lost or dropped before, a
\* family's reserve covers every order and trade it has out.
ReservesCoverExposure ==
    \A f \in Families : Reserved(bankroll, f) >= Cost(Of(f, Exposed))

\* Orders whose reservation the message gives back.
Returns(msg) == IF msg.kind \in {"release", "undo"} THEN msg.ids ELSE {}

Returned(messages)  == [k \in DOMAIN messages |-> Returns(messages[k])]
Released(feedbacks) == [k \in DOMAIN feedbacks |-> feedbacks[k].released]
All(sets)           == UNION {sets[k] : k \in DOMAIN sets}

\* Orders whose reservation is on its way back.
Returning ==
    Returns(job) \cup All(Returned(mailbox)) \cup All(Returned(toSend)) \cup All(Released(feedback))

\* apply_live_submission_feedback and the two rollbacks: as long as no message
\* was dropped at the full mailbox, each reservation is given back once, and
\* none is forgotten.
NothingLeaks ==
    ~lost => \A f \in Families :
               Reserved(bankroll, f) = Cost(Of(f, Exposed)) + Cost(Of(f, Returning))

\* The reserve itself keeps to the ceiling: open_exposure_headroom takes the
\* full reserve of both buckets, and no release, fill or move to pending
\* settlement, clamped as each of them is, makes it grow.
CommittedWithinCeiling == Committed(bankroll) <= Ceiling

\* can_queue_single and can_queue_spread decide from memory: however late or
\* lost the answers, no strategy is exposed twice to one side of a market.
NoDoubleExposure ==
    \A i, j \in Exposed :
        (/\ i # j /\ orders[i].market = orders[j].market
         /\ orders[i].strategy = orders[j].strategy)
          => orders[i].strategy = "spread_capture" /\ orders[i].side # orders[j].side

-----------------------------------------------------------------------------
(* The inductive invariant behind ReservesCoverExposure and NothingLeaks:    *)
(* no order is in two places on its way to the venue, none in two on its way *)
(* back, and the reserve of a family is what its orders out and coming back  *)
(* cost, or more once a message was lost.                                    *)

Once(sets) == \A j, k \in DOMAIN sets : j # k => sets[j] \cap sets[k] = {}

\* Orders on their way to the venue.
Outbound == draft \cup All(outputs) \cup All(submitted)

OutboundOnce ==
    /\ Once(outputs) /\ Once(submitted)
    /\ draft \cap All(outputs) = {} /\ draft \cap All(submitted) = {}
    /\ All(outputs) \cap All(submitted) = {}
    /\ \A i \in Outbound : Queued(i) /\ i \notin dead /\ fillCost[i] = 0
    /\ wpc # "decide" => draft = {}

ReturningOnce ==
    /\ Once(Returned(mailbox)) /\ Once(Returned(toSend)) /\ Once(Released(feedback))
    /\ All(Returned(mailbox)) \cap All(Returned(toSend)) = {}
    /\ Returns(job) \cap (All(Returned(mailbox)) \cup All(Returned(toSend))) = {}
    /\ All(Released(feedback)) \cap
         (Returns(job) \cup All(Returned(mailbox)) \cup All(Returned(toSend))) = {}
    /\ Returning \subseteq dead

\* What the main loop sends.
Sendable(messages) ==
    \A k \in DOMAIN messages : messages[k].kind \in {"closed", "resolved", "feedback", "release"}

\* What the worker works through is what it took up.
JobInHand ==
    /\ Sendable(mailbox) /\ Sendable(toSend)
    /\ wpc # "work" => job.ids = {}
    /\ job.kind \in {"closed", "resolved"} => \A i \in job.ids : Open(i)
    /\ job.kind = "due" => ~config.live /\ \A i \in job.ids : Queued(i)

\* Orders are dead for good, filled within their reservation, and new from nextId.
OrdersInOrder ==
    /\ \A i \in Ids : i >= nextId => orders[i].at = "none" /\ i \notin dead /\ fillCost[i] = 0
    /\ \A i \in Ids : Open(i) => i \notin dead
    /\ \A i \in Ids : Queued(i) /\ fillCost[i] > 0 => i \notin dead /\ fillCost[i] <= orders[i].cost
    /\ ~config.live => /\ outputs = << >> /\ submitted = << >>
                       /\ \A i \in Ids : Queued(i) => i \notin dead

Owed == Exposed \cup Returning

ReserveIsOwed ==
    \A f \in Families :
        /\ Reserved(bankroll, f) >= Cost(Of(f, Owed))
        /\ ~lost => Reserved(bankroll, f) = Cost(Of(f, Owed))

LedgerInv == OutboundOnce /\ ReturningOnce /\ JobInHand /\ OrdersInOrder /\ ReserveIsOwed

=============================================================================
