--------------------------- MODULE LiveSubmission ---------------------------
(***************************************************************************)
(* The live submission worker of bots/paint (live.rs), the durable ledger  *)
(* it writes (db/database.rs: live_order_intents, live_orders,             *)
(* live_reconciliation_events, live_control_state), the venue behind the   *)
(* sidecar, the detached on-chain verifier of every fill, and the process  *)
(* crashing and bootstrapping again on the same run database.              *)
(*                                                                         *)
(* One worker takes one batch (one or two orders) at a time from a bounded *)
(* queue.  Every durable write is a step of its own, so the process can    *)
(* die between any two of them, and every write may fail.                  *)
(*                                                                         *)
(* Abstractions.                                                           *)
(*  - Sizes are whole units: an order asks for Full; a venue may accept    *)
(*    nothing, part of it, all of it or more.                              *)
(*  - Whether the monitor lets a new batch in is LiveControl's subject:    *)
(*    here a batch may be queued whenever the process runs (PromptGate     *)
(*    restricts that to the strictest monitor imaginable).                 *)
(*  - live_orders rows are written by the one worker in intent order, so   *)
(*    the (created_at_ms, id) order of the rows is the order of the ids.   *)
(*  - live_sessions.status is overwritten by every monitor refresh and so  *)
(*    left out: the bootstrap check below reads the append-only control    *)
(*    rows only, which lets through more restarts than the code does.      *)
(*  - live_fills, audit and info rows are written and never read here.     *)
(***************************************************************************)
EXTENDS Integers, Sequences, FiniteSets, Functions

CONSTANTS
    Tokens,            \* outcome tokens an order can buy
    Batches,           \* batches the runtime may queue: [spread, legs]
    QueueCapacity,     \* live_submission_queue_capacity
    MaxIntents,        \* bound: rows of live_order_intents
    MaxSessions,       \* bound: process starts on this run database
    MaxFaults,         \* bound: database operations that fail
    MaxSessionOrders,  \* live_max_session_orders, 0 for no cap
    MaxSessionFills,   \* live_max_session_fills, 0 for no cap
    DryRun,            \* live_dry_run of each session: the operator may rehearse first
    ReconcileEnabled,  \* live_onchain_reconcile_enabled()
    PromptGate         \* no batch is queued once an unknown outcome was reported

ASSUME ConstantsAssumption ==
    /\ Batches \subseteq [spread : BOOLEAN, legs : Seq(Tokens)]
    /\ \A b \in Batches : b.legs # << >>
    /\ QueueCapacity \in Nat \ {0}
    /\ MaxIntents \in Nat
    /\ MaxSessions \in Nat
    /\ MaxFaults \in Nat
    /\ MaxSessionOrders \in Nat
    /\ MaxSessionFills \in Nat
    /\ DryRun \in [1..MaxSessions -> BOOLEAN]
    /\ ReconcileEnabled \in BOOLEAN
    /\ PromptGate \in BOOLEAN

Intents  == 1..MaxIntents
Sessions == 1..MaxSessions

Full  == 2    \* requested_size of every order
NoRow == -2   \* the intent has no live_orders row
Null  == -1   \* live_orders.accepted_size IS NULL

VARIABLES
    \* the run database
    intentStatus,   \* live_order_intents.status, "none" for no row
    intentSession,  \* live_order_intents.session_id, 0 for no row
    intentToken,    \* token of the order the intent was made for
    nextIntent,     \* next rowid of live_order_intents
    attempted,      \* intents with venue_attempted_at_ms set
    accepted,       \* live_orders.accepted_size of the intent's row
    reconcile,      \* live_orders.onchain_reconcile_status
    critical,       \* sessions with a critical reconciliation event
    terminalRows,   \* sessions with a terminal live_control_state row
    sessions,       \* rows of live_sessions
    \* the process
    session,        \* session of the running process, 0 when it is down
    queue,          \* LiveSubmissionQueue
    pc, batch, leg, \* worker: control point, batch in hand, order in hand
    iid, resp,      \* intent id and sidecar answer of the order in hand
    update, releases, fills,  \* LiveSubmissionFeedback under construction:
                    \* state_update, and the legs released and filled
    verifier,       \* detached on-chain verification of a filled intent
    \* the venue and the chain
    calls,          \* orders the sidecar posted for the intent
    venueFill,      \* size the venue really matched for the intent
    chain,          \* part of it settled on chain
    \* bookkeeping
    faults,         \* database failures left
    released,       \* intents whose reserved cost the worker gave back
    alarmed         \* sessions in which the worker reported unknown_order

ledger  == << intentStatus, intentSession, intentToken, nextIntent, attempted,
              accepted, reconcile, critical, terminalRows, sessions >>
feedback == << update, releases, fills >>
worker  == << pc, batch, leg, iid, resp, feedback >>
venue   == << calls, venueFill, chain >>
history == << faults, released, alarmed >>
vars    == << ledger, session, queue, worker, verifier, venue, history >>

-----------------------------------------------------------------------------
(* Types of the worker's data. *)

Pcs == {"idle", "persist", "reserve", "dry", "mark", "send", "respond",
        "classify", "err_event", "err_state", "emit"}
IntentStatuses ==
    {"none", "submitted", "rejected_before_submit", "submitting", "dry_run"}
Updates   == {"none", "disarmed", "unknown_order"}
Verifying == {"none", "reading", "halting", "failing"}

\* Sidecar answers, told apart by what the worker does with them: ok with the
\* requested size, with less, with more, with no size, with size zero; not ok
\* with an ordinary status; not ok with a status of
\* live_order_response_is_blocking; and no answer at all (transport, timeout).
Responses == {"matched", "partial", "over", "missing", "zero",
              "rejected", "blocking", "error"}

\* accepted_size in the answer.
AcceptedSize(r) == CASE r = "matched" -> Full
                     [] r = "partial" -> Full - 1
                     [] r = "over"    -> Full + 1
                     [] r = "zero"    -> 0
                     [] OTHER         -> Null

\* What the venue may really have matched when the sidecar answers r. An ok
\* answer may be a phantom; an unknown one may hide a fill; a refusal is one.
MatchedUnder(r) == CASE r \in {"matched", "partial", "over"} -> {0, AcceptedSize(r)}
                     [] r \in {"missing", "blocking", "error"} -> {0, Full}
                     [] OTHER -> {0}

ClearFeedback == update' = "none" /\ releases' = << >> /\ fills' = << >>

Idle == [spread |-> FALSE, legs |-> << >>]

-----------------------------------------------------------------------------
(* Initial state: a fresh run database and no process. *)

Init ==
    /\ intentStatus  = [i \in Intents |-> "none"]
    /\ intentSession = [i \in Intents |-> 0]
    /\ intentToken   = [i \in Intents |-> "none"]
    /\ nextIntent = 1
    /\ attempted = {}
    /\ accepted  = [i \in Intents |-> NoRow]
    /\ reconcile = [i \in Intents |-> "null"]
    /\ critical = {} /\ terminalRows = {} /\ sessions = 0
    /\ session = 0
    /\ queue = << >>
    /\ pc = "idle" /\ batch = Idle /\ leg = 0 /\ iid = 0
    /\ resp = "none"
    /\ update = "none" /\ releases = << >> /\ fills = << >>
    /\ verifier  = [i \in Intents |-> "none"]
    /\ calls     = [i \in Intents |-> 0]
    /\ venueFill = [i \in Intents |-> 0]
    /\ chain     = [i \in Intents |-> 0]
    /\ faults = MaxFaults
    /\ released = {} /\ alarmed = {}

-----------------------------------------------------------------------------
(* Database operations. *)

\* One database operation fails; one succeeds.
DbFails == faults > 0 /\ faults' = faults - 1
DbOk    == faults' = faults

Filled(i) == accepted[i] > 0

AttemptedIn(s) == {i \in attempted : intentSession[i] = s}
FilledIn(s)    == {i \in Intents : intentSession[i] = s /\ Filled(i)}

\* Variant: the order cap lets one attempt too many through.
ReserveOffByOne(i) ==
    IF i \in attempted THEN "AlreadyAttempted"
    ELSE IF /\ MaxSessionOrders = 0 \/ Cardinality(AttemptedIn(session)) <= MaxSessionOrders
            /\ MaxSessionFills = 0 \/ Cardinality(FilledIn(session)) < MaxSessionFills
         THEN "Reserved"
    ELSE "CapReached"

\* try_reserve_venue_attempt: one guarded UPDATE, then the reason it did nothing.
TryReserveVenueAttempt(i) ==
    IF i \in attempted THEN "AlreadyAttempted"
    ELSE IF /\ MaxSessionOrders = 0 \/ Cardinality(AttemptedIn(session)) < MaxSessionOrders
            /\ MaxSessionFills = 0 \/ Cardinality(FilledIn(session)) < MaxSessionFills
         THEN "Reserved"
    ELSE "CapReached"

\* persist_live_worker_state(.., "unknown_order", ..): a failure is only logged.
PersistUnknownOrder ==
    \/ DbOk    /\ terminalRows' = terminalRows \cup {session}
    \/ DbFails /\ terminalRows' = terminalRows

OrphanedVenueAttempts ==
    {i \in Intents : intentStatus[i] = "submitting" /\ accepted[i] = NoRow}

UnconfirmedOnchainFills ==
    {i \in Intents : Filled(i) /\ reconcile[i] \in
        {"pending", "failed"} \cup (IF ReconcileEnabled THEN {"null"} ELSE {})}

LiveOrders == {i \in Intents : accepted[i] # NoRow}

\* Variant: startup does not look for attempts without an outcome.
BootstrapIgnoringOrphans ==
    terminalRows = {} /\ UnconfirmedOnchainFills = {} /\ LiveOrders = {}

\* ensure_live_bootstrap_clean
BootstrapClean ==
    /\ terminalRows = {}
    /\ UnconfirmedOnchainFills = {}
    /\ LiveOrders = {}
    /\ OrphanedVenueAttempts = {}

\* Variant: each fill is held against its own size only.
ExpectedOwnFill(i) == accepted[i]

\* The total of a size over some intents, counted unit by unit.
Units(size, S) == UNION {{j} \X (1..size[j]) : j \in S}
Total(size, S) == Cardinality(Units(size, S))

\* matched_size_for_token_up_to_order and the account-wide balance it is held against.
MatchedUpTo(i) ==
    {j \in 1..i : intentSession[j] = intentSession[i]
                  /\ intentToken[j] = intentToken[i] /\ Filled(j)}
ExpectedRaw(i) == Total(accepted, MatchedUpTo(i))
OnchainPosition(t) == Total(chain, {j \in Intents : intentToken[j] = t})

-----------------------------------------------------------------------------
(* Process start, crash, and the runtime queueing a batch. *)

\* insert_live_session
InsertLiveSession ==
    /\ sessions' = sessions + 1
    /\ session' = sessions + 1

\* bootstrap_live_trading_runtime on this run database; it refuses to start
\* when ensure_live_bootstrap_clean does.
Bootstrap ==
    /\ session = 0 /\ sessions < MaxSessions
    /\ BootstrapClean
    /\ InsertLiveSession
    /\ UNCHANGED << intentStatus, intentSession, intentToken, nextIntent, attempted,
                    accepted, reconcile, critical, terminalRows,
                    queue, worker, verifier, venue, history >>

\* The process dies (or stops: its tasks are dropped where they are). Whatever
\* is not in the database is gone; an order already posted stays posted.
Crash ==
    /\ session # 0
    /\ session' = 0
    /\ queue' = << >>
    /\ pc' = "idle" /\ batch' = Idle /\ leg' = 0 /\ iid' = 0
    /\ resp' = "none" /\ ClearFeedback
    /\ verifier' = [i \in Intents |-> "none"]
    /\ UNCHANGED << ledger, venue, history >>

\* LiveSubmissionQueue::try_submit by handle_strategy_decision_output.
TrySubmit(b) ==
    /\ session # 0
    /\ Len(queue) < QueueCapacity
    /\ PromptGate => session \notin alarmed
    /\ queue' = Append(queue, b)
    /\ UNCHANGED << ledger, session, worker, verifier, venue, history >>

-----------------------------------------------------------------------------
(* The worker: submit_live_orders_from_worker and what it calls. *)

\* rx.recv() in LiveSubmissionQueue::start.
TakeBatch ==
    /\ session # 0 /\ pc = "idle" /\ queue # << >>
    /\ batch' = Head(queue) /\ queue' = Tail(queue)
    /\ leg' = 1 /\ ClearFeedback /\ pc' = "persist"
    /\ UNCHANGED << ledger, session, iid, resp, verifier, venue, history >>

\* The order in hand is done and does not block the batch: go on with the next.
NextOrder ==
    /\ pc' = IF leg < Len(batch.legs) THEN "persist" ELSE "emit"
    /\ leg' = leg + 1
    /\ iid' = 0 /\ resp' = "none"
    /\ UNCHANGED batch

\* Rejected and DryRun results: the reserved cost goes back.
Rejected(i) ==
    /\ releases' = Append(releases, leg) /\ UNCHANGED << update, fills >>
    /\ released' = released \cup {i}
    /\ NextOrder

\* Variant: the release of the orders behind a blocked one starts at index.
BlockedFromIndex(state, release) ==
    /\ update' = state
    /\ releases' = releases \o (IF release THEN << leg >> ELSE << >>)
                            \o [k \in 1..(Len(batch.legs) - leg + 1) |-> leg + k - 1]
    /\ UNCHANGED fills
    /\ released' = IF release /\ iid # 0 THEN released \cup {iid} ELSE released
    /\ pc' = "emit"
    /\ iid' = 0 /\ resp' = "none"
    /\ UNCHANGED << batch, leg >>

\* release_unsubmitted_orders_after_block
ReleaseUnsubmitted == [k \in 1..(Len(batch.legs) - leg) |-> leg + k]

\* Blocked result: the batch stops here, the orders behind this one are
\* released, the monitor is told.
Blocked(state, release) ==
    /\ update' = state
    /\ releases' = releases \o (IF release THEN << leg >> ELSE << >>)
                            \o ReleaseUnsubmitted
    /\ UNCHANGED fills
    /\ released' = IF release /\ iid # 0 THEN released \cup {iid} ELSE released
    /\ pc' = "emit"
    /\ iid' = 0 /\ resp' = "none"
    /\ UNCHANGED << batch, leg >>

\* persist_live_order_intent_from_worker: evidence and intent in one
\* transaction; the pre-submit checks decide the status it is stored with.
PersistIntent ==
    /\ pc = "persist" /\ nextIntent <= MaxIntents
    /\ DbOk
    /\ \E status \in {"submitted", "rejected_before_submit"} :
         /\ intentStatus' = [intentStatus EXCEPT ![nextIntent] = status]
         /\ \/ /\ status = "submitted"
               /\ pc' = "reserve" /\ iid' = nextIntent
               /\ UNCHANGED << batch, leg, resp, feedback, released >>
            \/ status = "rejected_before_submit" /\ Rejected(nextIntent)
    /\ intentSession' = [intentSession EXCEPT ![nextIntent] = session]
    /\ intentToken' = [intentToken EXCEPT ![nextIntent] = batch.legs[leg]]
    /\ nextIntent' = nextIntent + 1
    /\ UNCHANGED << attempted, accepted, reconcile, critical, terminalRows, sessions,
                    session, queue, verifier, venue, alarmed >>

PersistIntentFails ==
    /\ pc = "persist"
    /\ DbFails
    /\ Blocked("disarmed", TRUE)
    /\ UNCHANGED << ledger, session, queue, verifier, venue, alarmed >>

\* reserve_live_order_submission: an existing live_orders row or attempt marker
\* blocks, a reached cap rejects, else the marker is set by compare-and-set.
ReserveLiveOrderSubmission ==
    /\ pc = "reserve"
    /\ LET outcome == IF accepted[iid] # NoRow THEN "AlreadyAttempted"
                      ELSE TryReserveVenueAttempt(iid)
       IN CASE outcome = "Reserved" ->
                 /\ DbOk
                 /\ attempted' = attempted \cup {iid}
                 /\ pc' = IF DryRun[session] THEN "dry" ELSE "mark"
                 /\ UNCHANGED << batch, leg, iid, resp, feedback, terminalRows, released >>
            [] outcome = "CapReached" ->
                 /\ DbOk
                 /\ Rejected(iid)
                 /\ UNCHANGED << attempted, terminalRows >>
            [] OTHER ->
                 /\ PersistUnknownOrder
                 /\ Blocked("unknown_order", FALSE)
                 /\ UNCHANGED attempted
    /\ UNCHANGED << intentStatus, intentSession, intentToken, nextIntent, accepted,
                    reconcile, critical, sessions,
                    session, queue, verifier, venue, alarmed >>

ReserveFails ==
    /\ pc = "reserve"
    /\ DbFails
    /\ Blocked("unknown_order", FALSE)
    /\ UNCHANGED << ledger, session, queue, verifier, venue, alarmed >>

\* dry_run_live_order_outcome: no venue call; a failed marker is only logged.
DryRunLiveOrder ==
    /\ pc = "dry"
    /\ \/ DbOk    /\ intentStatus' = [intentStatus EXCEPT ![iid] = "dry_run"]
       \/ DbFails /\ UNCHANGED intentStatus
    /\ Rejected(iid)
    /\ UNCHANGED << intentSession, intentToken, nextIntent, attempted, accepted,
                    reconcile, critical, terminalRows, sessions,
                    session, queue, verifier, venue, alarmed >>

\* mark_intent_submitting_or_block
MarkIntentSubmitting ==
    /\ pc = "mark"
    /\ DbOk
    /\ intentStatus' = [intentStatus EXCEPT ![iid] = "submitting"]
    /\ pc' = "send"
    /\ UNCHANGED << intentSession, intentToken, nextIntent, attempted, accepted,
                    reconcile, critical, terminalRows, sessions,
                    session, queue, batch, leg, iid, resp, feedback, verifier, venue,
                    released, alarmed >>

\* Variant: a failed marker is logged and the order is posted all the same.
MarkerFailureIgnored ==
    /\ pc = "mark"
    /\ DbFails
    /\ pc' = "send"
    /\ UNCHANGED << ledger, session, queue, batch, leg, iid, resp, feedback, verifier,
                    venue, released, alarmed >>

MarkIntentSubmittingFails ==
    /\ pc = "mark"
    /\ DbFails
    /\ Blocked("disarmed", TRUE)
    /\ UNCHANGED << ledger, session, queue, verifier, venue, alarmed >>

\* sidecar.submit_order_intent: the order crosses the venue boundary; the
\* answer (or the lack of one) is what the worker will see.
SubmitOrderIntent ==
    /\ pc = "send"
    /\ \E r \in Responses : \E f \in MatchedUnder(r) :
         /\ resp' = r
         /\ venueFill' = [venueFill EXCEPT ![iid] = f]
    /\ calls' = [calls EXCEPT ![iid] = @ + 1]
    /\ pc' = "respond"
    /\ UNCHANGED << ledger, session, queue, batch, leg, iid, feedback, verifier, chain, history >>

\* log_live_order: the row of the intent in hand.
LogLiveOrder(size) == accepted' = [accepted EXCEPT ![iid] = size]

\* handle_live_order_response_from_worker up to persist_order_response_from_worker.
PersistOrderResponse ==
    /\ pc = "respond" /\ resp # "error"
    /\ DbOk
    /\ LogLiveOrder(AcceptedSize(resp))
    /\ pc' = "classify"
    /\ UNCHANGED << intentStatus, intentSession, intentToken, nextIntent, attempted,
                    reconcile, critical, terminalRows, sessions,
                    session, queue, batch, leg, iid, resp, feedback, verifier, venue,
                    released, alarmed >>

\* Variant: a response that cannot be stored is treated as a rejection.
LostResponseRejected ==
    /\ pc = "respond" /\ resp # "error"
    /\ DbFails
    /\ Rejected(iid)
    /\ UNCHANGED << ledger, session, queue, verifier, venue, alarmed >>

\* The database cannot be opened, or the row cannot be written.
PersistOrderResponseFails ==
    /\ pc = "respond" /\ resp # "error"
    /\ DbFails
    /\ Blocked("unknown_order", FALSE)
    /\ UNCHANGED << ledger, session, queue, verifier, venue, alarmed >>

\* Not ok with an ordinary status, or ok with nothing accepted.
ResponseRejected ==
    /\ pc = "classify" /\ resp \in {"rejected", "zero"}
    /\ DbOk
    /\ Rejected(iid)
    /\ UNCHANGED << ledger, session, queue, verifier, venue, alarmed >>

\* block_live_response_with_state: a blocking status gives the reserved cost
\* back, a size that is missing, partial or too large does not.
ResponseBlocks ==
    /\ pc = "classify" /\ resp \in {"blocking", "missing", "partial", "over"}
    /\ PersistUnknownOrder
    /\ Blocked("unknown_order", resp = "blocking")
    /\ UNCHANGED << intentStatus, intentSession, intentToken, nextIntent, attempted,
                    accepted, reconcile, critical, sessions,
                    session, queue, verifier, venue, alarmed >>

\* spawn_onchain_fill_verification
SpawnVerification ==
    verifier' = [verifier EXCEPT ![iid] = IF ReconcileEnabled THEN "reading" ELSE "none"]

\* A full fill: mark it pending on-chain reconciliation (a failure is only
\* logged), spawn the detached verifier.
ResponseFilled ==
    /\ pc = "classify" /\ resp = "matched"
    /\ \/ ReconcileEnabled /\ DbOk /\ reconcile' = [reconcile EXCEPT ![iid] = "pending"]
       \/ ReconcileEnabled /\ DbFails /\ UNCHANGED reconcile
       \/ ~ReconcileEnabled /\ DbOk /\ UNCHANGED reconcile
    /\ SpawnVerification
    /\ fills' = Append(fills, leg) /\ UNCHANGED << update, releases >>
    /\ NextOrder
    /\ UNCHANGED << intentStatus, intentSession, intentToken, nextIntent, attempted,
                    accepted, critical, terminalRows, sessions,
                    session, queue, venue, released, alarmed >>

\* handle_live_order_error_from_worker, first write: the unknown_submission row.
\* If the row cannot be written the event still is; if the database cannot be
\* opened neither is.
RecordUnknownSubmission ==
    /\ pc = "respond" /\ resp = "error"
    /\ \/ DbOk /\ LogLiveOrder(Null) /\ pc' = "err_event"
       \/ DbFails /\ UNCHANGED accepted /\ pc' \in {"err_event", "err_state"}
    /\ UNCHANGED << intentStatus, intentSession, intentToken, nextIntent, attempted,
                    reconcile, critical, terminalRows, sessions,
                    session, queue, batch, leg, iid, resp, feedback, verifier, venue,
                    released, alarmed >>

\* Second write: the critical reconciliation event.
RecordUnknownEvent ==
    /\ pc = "err_event"
    /\ \/ DbOk    /\ critical' = critical \cup {session}
       \/ DbFails /\ UNCHANGED critical
    /\ pc' = "err_state"
    /\ UNCHANGED << intentStatus, intentSession, intentToken, nextIntent, attempted,
                    accepted, reconcile, terminalRows, sessions,
                    session, queue, batch, leg, iid, resp, feedback, verifier, venue,
                    released, alarmed >>

\* Then cancel_all (its outcome only recorded) and the unknown_order state.
RecordUnknownState ==
    /\ pc = "err_state"
    /\ PersistUnknownOrder
    /\ Blocked("unknown_order", FALSE)
    /\ UNCHANGED << intentStatus, intentSession, intentToken, nextIntent, attempted,
                    accepted, reconcile, critical, sessions,
                    session, queue, verifier, venue, alarmed >>

\* One leg of a spread filled and the other did not, and nothing else blocked.
SpreadResidual ==
    /\ update = "none"
    /\ Len(batch.legs) = 2 /\ batch.spread
    /\ Len(fills) = 1

\* End of submit_live_orders_from_worker: feedback_tx.send(feedback).
EmitFeedback ==
    /\ pc = "emit"
    /\ IF SpreadResidual THEN PersistUnknownOrder ELSE DbOk /\ UNCHANGED terminalRows
    /\ alarmed' = IF SpreadResidual \/ update = "unknown_order"
                  THEN alarmed \cup {session} ELSE alarmed
    /\ pc' = "idle" /\ batch' = Idle /\ leg' = 0 /\ ClearFeedback
    /\ UNCHANGED << intentStatus, intentSession, intentToken, nextIntent, attempted,
                    accepted, reconcile, critical, sessions,
                    session, queue, iid, resp, verifier, venue, released >>

-----------------------------------------------------------------------------
(* The chain, and verify_onchain_fill for one filled intent. *)

\* External: what the venue matched for i settles on chain.
SettleOnChain(i) ==
    /\ chain[i] < venueFill[i]
    /\ chain' = [chain EXCEPT ![i] = venueFill[i]]
    /\ UNCHANGED << ledger, session, queue, worker, verifier, calls, venueFill, history >>

\* One of the bounded reads covers the expected cumulative position:
\* mark_onchain_reconcile_status(.., "confirmed"), left pending if every retry fails.
ConfirmFill(i) ==
    /\ verifier[i] = "reading"
    /\ OnchainPosition(intentToken[i]) >= ExpectedRaw(i)
    /\ \/ DbOk    /\ reconcile' = [reconcile EXCEPT ![i] = "confirmed"]
       \/ DbFails /\ UNCHANGED reconcile
    /\ verifier' = [verifier EXCEPT ![i] = "none"]
    /\ UNCHANGED << intentStatus, intentSession, intentToken, nextIntent, attempted,
                    accepted, critical, terminalRows, sessions,
                    session, queue, worker, venue, released, alarmed >>

\* Variant: the verifier gives up quietly.
ReadBudgetForgotten(i) ==
    /\ verifier[i] = "reading"
    /\ verifier' = [verifier EXCEPT ![i] = "none"]
    /\ UNCHANGED << ledger, session, queue, worker, venue, history >>

\* The read budget runs out on short, failed or unreadable reads, or the
\* expected position cannot be computed.
ReadBudgetSpent(i) ==
    /\ verifier[i] = "reading"
    /\ verifier' = [verifier EXCEPT ![i] = "halting"]
    /\ UNCHANGED << ledger, session, queue, worker, venue, history >>

\* raise_onchain_reconciliation_halt: the critical event, given up after
\* ONCHAIN_HALT_PERSIST_ATTEMPTS failures.
RaiseReconciliationHalt(i) ==
    /\ verifier[i] = "halting"
    /\ \/ DbOk    /\ critical' = critical \cup {session}
       \/ DbFails /\ UNCHANGED critical
    /\ verifier' = [verifier EXCEPT ![i] = "failing"]
    /\ UNCHANGED << intentStatus, intentSession, intentToken, nextIntent, attempted,
                    accepted, reconcile, terminalRows, sessions,
                    session, queue, worker, venue, released, alarmed >>

\* ... and the order marked failed for startup.
MarkFillFailed(i) ==
    /\ verifier[i] = "failing"
    /\ \/ DbOk    /\ reconcile' = [reconcile EXCEPT ![i] = "failed"]
       \/ DbFails /\ UNCHANGED reconcile
    /\ verifier' = [verifier EXCEPT ![i] = "none"]
    /\ UNCHANGED << intentStatus, intentSession, intentToken, nextIntent, attempted,
                    accepted, critical, terminalRows, sessions,
                    session, queue, worker, venue, released, alarmed >>

-----------------------------------------------------------------------------

SubmitOne ==
    \/ PersistIntent \/ PersistIntentFails
    \/ ReserveLiveOrderSubmission \/ ReserveFails
    \/ DryRunLiveOrder
    \/ MarkIntentSubmitting \/ MarkIntentSubmittingFails
    \/ SubmitOrderIntent
    \/ PersistOrderResponse \/ PersistOrderResponseFails
    \/ ResponseRejected \/ ResponseBlocks \/ ResponseFilled
    \/ RecordUnknownSubmission \/ RecordUnknownEvent \/ RecordUnknownState

WorkerStep == TakeBatch \/ SubmitOne \/ EmitFeedback

VerifierStep(i) ==
    ConfirmFill(i) \/ ReadBudgetSpent(i) \/ RaiseReconciliationHalt(i) \/ MarkFillFailed(i)

Next ==
    \/ Bootstrap
    \/ Crash
    \/ \E b \in Batches : TrySubmit(b)
    \/ WorkerStep
    \/ \E i \in Intents : SettleOnChain(i) \/ VerifierStep(i)

Spec == Init /\ [][Next]_vars

\* The worker task and the verifier tasks are polled by the tokio runtime while
\* the process lives; nothing obliges the venue, the chain or the operator.
FairSpec ==
    /\ Spec
    /\ WF_vars(WorkerStep)
    /\ \A i \in Intents : WF_vars(VerifierStep(i))

-----------------------------------------------------------------------------
(* Properties. *)

\* The parts of the type invariant, one per group of variables.
LedgerTypeOK ==
    /\ intentStatus \in [Intents -> IntentStatuses]
    /\ intentSession \in [Intents -> 0..MaxSessions]
    /\ intentToken \in [Intents -> Tokens \cup {"none"}]
    /\ nextIntent \in 1..(MaxIntents + 1)
    /\ attempted \subseteq Intents
    /\ accepted \in [Intents -> {NoRow, Null} \cup 0..(Full + 1)]
    /\ reconcile \in [Intents -> {"null", "pending", "confirmed", "failed"}]
    /\ critical \subseteq Sessions /\ terminalRows \subseteq Sessions
    /\ sessions \in 0..MaxSessions
    /\ session \in {0, sessions}

WorkerTypeOK ==
    /\ pc \in Pcs
    /\ batch \in Batches \cup {Idle}
    /\ leg \in Nat /\ iid \in 0..MaxIntents
    /\ resp \in Responses \cup {"none"}
    /\ update \in Updates

SequencesTypeOK == queue \in Seq(Batches) /\ releases \in Seq(Nat) /\ fills \in Seq(Nat)

VenueTypeOK ==
    /\ calls \in [Intents -> Nat]
    /\ venueFill \in [Intents -> 0..(Full + 1)]
    /\ chain \in [Intents -> 0..(Full + 1)]

HistoryTypeOK ==
    /\ verifier \in [Intents -> Verifying]
    /\ faults \in 0..MaxFaults
    /\ released \subseteq Intents
    /\ alarmed \subseteq Sessions

\* Types of all variables; in particular the running process uses the newest
\* row of live_sessions.
TypeOK == LedgerTypeOK /\ WorkerTypeOK /\ SequencesTypeOK /\ VenueTypeOK /\ HistoryTypeOK

\* live_order_intents is written before the sidecar is called, and keeps saying
\* so: an intent posted at the venue is durably marked attempted and
\* submitting, and was posted once (reserve_live_order_submission,
\* mark_intent_submitting_or_block).
DurableBeforeVenue ==
    \A i \in Intents : calls[i] > 0 =>
        calls[i] = 1 /\ i \in attempted /\ intentStatus[i] = "submitting"

\* ensure_live_bootstrap_clean: whatever crashed or failed to be written, no
\* session is ever started on a run database after any order of an earlier
\* session was posted, so a restart cannot double a position.
NoRestartPastVenue ==
    \A i \in Intents : calls[i] > 0 => intentSession[i] = sessions

\* The canary promise: a nonzero LIVE_MAX_SESSION_ORDERS bounds the orders
\* posted over the whole life of the run database, restarts included.
OrderCapPerRunDb ==
    MaxSessionOrders # 0 =>
        Cardinality({i \in Intents : calls[i] > 0}) <= MaxSessionOrders

\* The orders of the batch that the feedback releases or reports filled.
Named == Range(releases) \cup Range(fills)

NamedOnce ==
    IsInjective(releases) /\ IsInjective(fills) /\ Range(releases) \cap Range(fills) = {}

\* release_unsubmitted_orders_after_block and the result arms of
\* submit_live_orders_from_worker: feedback names every order of the batch at
\* most once, and leaves out none but the one whose outcome is unknown.
FeedbackAccountsForBatch ==
    pc = "emit" =>
        LET legs == 1..Len(batch.legs)
        IN /\ NamedOnce
           /\ Named \subseteq legs
           /\ IF update = "unknown_order" THEN \E k \in legs : legs \ {k} \subseteq Named
              ELSE Named = legs

\* While the process that posted an order lives and has gone on to other work,
\* a size the venue really matched is either on record as a fill, or the
\* monitor has been (or is being) told unknown_order.
NoSilentFill ==
    \A i \in Intents :
        venueFill[i] > 0 /\ i # iid /\ intentSession[i] = session =>
            \/ Filled(i)
            \/ session \in alarmed
            \/ pc = "emit" /\ update = "unknown_order"

\* matched_size_for_token_up_to_order: when every fill on a token has been
\* confirmed, the chain holds all of them; no phantom hides behind a real fill.
PhantomNeverHides ==
    \A t \in Tokens : \A s \in Sessions :
        LET onToken == {i \in FilledIn(s) : intentToken[i] = t}
        IN (\A i \in onToken : reconcile[i] = "confirmed" /\ verifier[i] = "none") =>
             OnchainPosition(t) >= Total(accepted, onToken)

\* verify_onchain_fill: as long as the process lives, a fill marked pending does
\* not stay pending.
PendingFillIsSettled ==
    \A i \in Intents :
        reconcile[i] = "pending" ~> reconcile[i] \in {"confirmed", "failed"} \/ session = 0

-----------------------------------------------------------------------------
(* The inductive invariant behind the safety properties. *)

\* Control points between the write of the intent row and the end of its order.
InHand == Pcs \ {"idle", "persist", "emit"}

\* What the worker holds at each control point; its verifiers die with it.
AtWork ==
    /\ pc # "idle" => session # 0 /\ batch \in Batches
    /\ session = 0 => \A i \in Intents : verifier[i] = "none"
    /\ pc \in InHand \cup {"persist"} => leg \in 1..Len(batch.legs)
    /\ pc \in InHand =>
         iid \in Intents /\ iid < nextIntent /\ intentSession[iid] = session

\* Rows that do not exist yet are blank; sessions are numbered as they start;
\* the order in hand is on the near side of the venue until it is sent, and by
\* then carries both durable marks.
Boundary ==
    /\ \A i \in Intents : i >= nextIntent => i \notin attempted /\ calls[i] = 0
    /\ \A i \in Intents : intentSession[i] <= sessions
    /\ pc \in {"reserve", "dry", "mark", "send"} => calls[iid] = 0
    /\ pc \in {"mark", "send"} => iid \in attempted
    /\ pc = "send" => intentStatus[iid] = "submitting"

\* The attempts of the latest session keep to its cap.
AttemptsWithinCap ==
    MaxSessionOrders # 0 => Cardinality(AttemptedIn(sessions)) <= MaxSessionOrders

\* What the feedback has named so far are the orders before the one in hand.
NamedSoFar ==
    pc \in InHand \cup {"persist"} => NamedOnce /\ Named = 1..(leg - 1)

\* The order in hand is the newest; its answer is about what the venue did, and
\* is stored as it came; nothing is matched that was not posted.
AnswerInHand ==
    /\ IF pc \in InHand THEN iid = nextIntent - 1 ELSE iid = 0
    /\ pc \in {"respond", "classify"} =>
         resp \in Responses /\ venueFill[iid] \in MatchedUnder(resp)
    /\ pc = "classify" => accepted[iid] = AcceptedSize(resp)
    /\ \A i \in Intents : calls[i] = 0 => venueFill[i] = 0
    /\ \A i \in Intents : i < nextIntent => intentSession[i] # 0

\* Only an order that is done has a verifier or a verdict.
NoEarlyVerdict ==
    \A i \in Intents : i >= nextIntent \/ i = iid => verifier[i] = "none" /\ reconcile[i] = "null"

\* A confirmed fill has its whole expected position on chain, and the chain
\* holds no more of an order than the venue matched.
VerdictsAreCovered ==
    /\ NoEarlyVerdict
    /\ \A i \in Intents : chain[i] <= venueFill[i]
    /\ \A i \in Intents : reconcile[i] = "confirmed" =>
         OnchainPosition(intentToken[i]) >= ExpectedRaw(i)

\* No step weakens any of these: the strengthening the proofs rest on.
IInv ==
    /\ TypeOK /\ AtWork /\ Boundary /\ DurableBeforeVenue /\ NoRestartPastVenue
    /\ AttemptsWithinCap
    /\ NamedSoFar /\ FeedbackAccountsForBatch
    /\ AnswerInHand /\ NoSilentFill
    /\ VerdictsAreCovered
=============================================================================
