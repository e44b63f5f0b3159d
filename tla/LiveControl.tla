----------------------------- MODULE LiveControl -----------------------------
(***************************************************************************)
(* The live control plane of bots/paint: LiveTradingMonitor in the main    *)
(* loop of live.rs, its two background workers, the operator's durable     *)
(* commands (live_control.rs), and the feedback of the submission worker.  *)
(*                                                                         *)
(* The main loop owns the monitor.  A Controls worker and a RemoteRefresh  *)
(* worker each run on a CLONE of it, taken when they are spawned, and the  *)
(* clone is merged back (or dropped, if the worker failed) when they are   *)
(* done.  Meanwhile the main loop, the submission worker's feedback and    *)
(* the other worker change the monitor too.  A step of a worker is what it *)
(* does between two awaits or database calls another actor could see.      *)
(*                                                                         *)
(* Abstractions.                                                           *)
(*  - blocked_reason is "some" or "none"; account, activity and risk       *)
(*    figures are what evaluate_terminal_remote_state makes of them.       *)
(*  - A degradation's age is counted in refreshes that note it; Threshold  *)
(*    of them stand for LIVE_TERMINAL_DEGRADATION_MS.                      *)
(*  - Strategy and submission worker appear as what the monitor sees of    *)
(*    them: how many decisions and batches are under way, and the feedback *)
(*    of each batch.  LiveSubmission is the detailed model.                *)
(*  - cancel_all and audit rows change nothing that is read here.          *)
(***************************************************************************)
EXTENDS Integers, Sequences, FiniteSets

CONSTANTS
    Actions,        \* LiveControlAction values the operator may queue
    MaxCommands,    \* bound: rows of live_control_commands
    MaxPermits,     \* bound: evaluations and batches under way
    MaxFeedback,    \* bound: feedback messages under way
    MaxFaults,      \* bound: database operations that fail
    FailureKinds,   \* which sidecar reads may fail: preflight, account, activity
    RemoteStates,   \* states the sidecar and what it reports may be in
    Threshold,      \* refreshes a degradation may last
    FeedOutages     \* may a critical feed be out past the armed limit?

ASSUME ControlAssumption ==
    /\ Actions \subseteq {"preflight", "arm", "disarm", "stop_after_flat",
                          "kill_switch", "cancel_all", "redeem_all"}
    /\ MaxCommands \in Nat /\ MaxPermits \in Nat /\ MaxFeedback \in Nat /\ MaxFaults \in Nat
    /\ FailureKinds \subseteq {"preflight", "account", "activity"}
    /\ RemoteStates \subseteq {"healthy", "soft", "degraded", "stream_failed", "terminal", "down"}
    /\ Threshold \in Nat \ {0}
    /\ FeedOutages \subseteq BOOLEAN

VARIABLES
    mon,        \* the main loop's LiveTradingMonitor: [state, blocked, kind, age]
    wpc,        \* control point of each worker, "off" when none is in flight
    wmon,       \* its clone of the monitor
    wres,       \* the result it will return
    todo,       \* ids of the pending commands the Controls worker has yet to apply
    commands,   \* live_control_commands: [action, status]
    critical,   \* a critical live_reconciliation_events row exists
    rows,       \* states with a live_control_state row
    status,     \* live_sessions.status
    mode,       \* "run", "drain" after the shutdown signal, "stopped"
    remote,     \* the sidecar and what it reports of venue and account
    permits,    \* evaluations let through with live_trading_can_submit, and
                \* the batches they became, until the worker is done with them
    feedback,   \* LiveSubmissionFeedback on its way: [update, cargo]
    filled,     \* some order filled, so a verifier may be at work
    faults      \* database failures left

workerVars == << wpc, wmon, wres, todo >>
ledger     == << commands, critical, rows, status >>
pipeline   == << permits, feedback, filled >>
vars == << mon, workerVars, ledger, mode, remote, pipeline, faults >>

Workers == {"controls", "refresh"}
States  == {"disarmed", "armed", "stop_after_flat", "halted", "unknown_order"}
Kinds   == FailureKinds \cup {"venue_or_user_stream"}

Terminal(s) == s \in {"halted", "unknown_order"}

\* can_submit_orders and terminal_risk_is_active
CanSubmit(m)  == m.state = "armed" /\ ~m.blocked
RiskActive(m) == m.state \in {"armed", "stop_after_flat"}

\* LiveDegradationTracker::note, and whether it returns a breach.
Note(m, k) ==
    IF m.kind = k THEN [m EXCEPT !.age = IF @ < Threshold THEN @ + 1 ELSE @]
    ELSE [m EXCEPT !.kind = k, !.age = 0]
Breach(m, k) == m.kind = k /\ m.age + 1 >= Threshold

\* A fresh monitor; also the clone of a worker that is off.
Blank == [state |-> "disarmed", blocked |-> FALSE, kind |-> "none", age |-> 0]

\* bootstrap_live_trading_runtime: disarmed, after a first refresh that may have
\* failed, found issues, or recorded a failed user stream.
Init ==
    /\ mon \in {Blank, [Blank EXCEPT !.blocked = TRUE]}
    /\ critical \in {FALSE, mon.blocked /\ "stream_failed" \in RemoteStates}
    /\ wpc = [w \in Workers |-> "off"]
    /\ wmon = [w \in Workers |-> Blank]
    /\ wres = [w \in Workers |-> "ok"]
    /\ todo = {}
    /\ commands = << >>
    /\ rows = {"disarmed"} /\ status = "disarmed"
    /\ mode = "run"
    /\ remote \in RemoteStates
    /\ permits = 0 /\ feedback = << >> /\ filled = FALSE
    /\ faults = MaxFaults

DbOk    == faults' = faults
DbFails == faults > 0 /\ faults' = faults - 1

-----------------------------------------------------------------------------
(* set_state and terminal_halt on a monitor value. *)

\* set_state in memory.
WithState(m, s) == [m EXCEPT !.state = s, !.blocked = Terminal(s)]

\* record_live_control_state: a control row, append-only.
RecordState(s) == rows' = rows \cup {s}

\* Variant: the memory changes whether or not the control row was written.
SetMemoryFirst(m, s, m2) ==
    \/ /\ DbOk /\ m2 = WithState(m, s)
       /\ rows' = rows \cup {s} /\ status' = s
    \/ /\ DbFails /\ m2 = WithState(m, s)
       /\ UNCHANGED << rows, status >>

\* set_state(m, s) of worker w or of the main loop, with result m2: the control
\* row, then the memory, then the session row; any write may fail.
SetState(m, s, m2) ==
    \/ /\ DbOk /\ m2 = WithState(m, s)
       /\ RecordState(s) /\ status' = s
    \/ /\ DbFails /\ UNCHANGED status
       /\ \/ m2 = m /\ rows' \in {rows, rows \cup {s}}
          \/ m2 = WithState(m, s) /\ RecordState(s)

\* Variant: a halt leaves no critical event behind.
HaltWithoutEvent(m, m2) ==
    /\ UNCHANGED critical
    /\ \/ /\ DbOk /\ m2 = WithState(m, "halted")
          /\ rows' = rows \cup {"halted"} /\ status' = "halted"
       \/ DbFails /\ m2 = m /\ UNCHANGED << rows, status >>

\* terminal_halt: set_state(halted), then the critical event, then the audit row.
TerminalHalt(m, m2) ==
    \/ /\ DbOk /\ m2 = WithState(m, "halted")
       /\ RecordState("halted") /\ status' = "halted" /\ critical' = TRUE
    \/ /\ DbFails /\ UNCHANGED << status, critical >>
       /\ \/ m2 = m /\ rows' \in {rows, rows \cup {"halted"}}
          \/ m2 = WithState(m, "halted") /\ RecordState("halted")
    \/ /\ DbFails /\ m2 = WithState(m, "halted")
       /\ RecordState("halted") /\ status' = "halted" /\ critical' \in {critical, TRUE}

-----------------------------------------------------------------------------
(* Timers of the main loop. *)

\* refresh_armed_feed_outage_halt on the main loop's own monitor: which feeds are
\* out, and for how long, is MarketFeed's subject.
ArmedFeedOutage ==
    \E outage \in FeedOutages :
        IF outage /\ mon.state = "armed" THEN TerminalHalt(mon, mon')
        ELSE DbOk /\ UNCHANGED << mon, rows, status, critical >>

\* LiveControlPoll: spawn the Controls worker unless one is in flight, then look
\* for a feed outage.
LiveControlPoll ==
    /\ mode = "run"
    /\ IF wpc["controls"] = "off"
       THEN /\ wpc' = [wpc EXCEPT !["controls"] = "read"]
            /\ wmon' = [wmon EXCEPT !["controls"] = mon]
       ELSE UNCHANGED << wpc, wmon >>
    /\ ArmedFeedOutage
    /\ UNCHANGED << wres, todo, commands, mode, remote, pipeline >>

\* LiveRemotePoll: spawn the RemoteRefresh worker unless one is in flight.
LiveRemotePoll ==
    /\ mode = "run" /\ wpc["refresh"] = "off"
    /\ wpc' = [wpc EXCEPT !["refresh"] = "check"]
    /\ wmon' = [wmon EXCEPT !["refresh"] = mon]
    /\ UNCHANGED << mon, wres, todo, ledger, mode, remote, pipeline, faults >>

-----------------------------------------------------------------------------
(* Steps of a worker on its clone. *)

Goto(w, p, m, r) ==
    /\ wpc'  = [wpc EXCEPT ![w] = p]
    /\ wmon' = [wmon EXCEPT ![w] = m]
    /\ wres' = [wres EXCEPT ![w] = r]

\* Variant: the newest command comes first.
NewestFirst == CHOOSE c \in todo : \A d \in todo : d <= c

\* ORDER BY requested_at_ms, id: of the commands read, the one in hand is the oldest.
InHand == CHOOSE c \in todo : \A d \in todo : c <= d
Action == commands[InHand].action

\* refresh_remote_state returns r to its caller: the RemoteRefresh worker is
\* done; a Preflight is applied or rejected; an Arm goes on only without issues.
Return(w, m, r) ==
    IF w = "refresh" THEN Goto(w, "done", m, r)
    ELSE IF Action = "arm"
         THEN IF r = "ok" THEN Goto(w, "arm", m, r) ELSE Goto(w, "status", m, "err")
         ELSE Goto(w, "status", m, IF r = "err" THEN "err" ELSE "ok")

\* pending_live_control_commands
PendingCommands == {c \in DOMAIN commands : commands[c].status = "pending"}

\* apply_pending_controls reads the pending commands.
ReadCommands ==
    /\ wpc["controls"] = "read"
    /\ \/ /\ DbOk
          /\ todo' = PendingCommands
          /\ Goto("controls", "next", wmon["controls"], "ok")
       \/ DbFails /\ UNCHANGED todo /\ Goto("controls", "done", wmon["controls"], "err")
    /\ UNCHANGED << mon, ledger, mode, remote, pipeline >>

\* cancel_all and redeem_all ask the sidecar and write audit rows: only whether
\* they succeed matters here.
VenueCommandResults == {"ok", "err"}

\* ensure_state_is and ensure_state_allows_disarm: which state an action needs.
Allowed(m, action) ==
    /\ action = "arm" => m.state = "disarmed"
    /\ action = "disarm" => RiskActive(m)
    /\ action = "stop_after_flat" => m.state = "armed"

\* apply_control_action up to its first await or write; no command left: done.
NextCommand ==
    LET goto(p, r) == Goto("controls", p, wmon["controls"], r)
    IN /\ wpc["controls"] = "next"
       /\ IF todo = {} THEN goto("done", "ok")
          ELSE IF ~Allowed(wmon["controls"], Action) THEN goto("status", "err")
          ELSE \/ Action \in {"preflight", "arm"} /\ goto("check", "ok")
               \/ Action = "kill_switch" /\ goto("halt", "ok")
               \/ Action = "disarm" /\ goto("disarm", "ok")
               \/ Action = "stop_after_flat" /\ goto("stop", "ok")
               \/ /\ Action \in {"cancel_all", "redeem_all"}
                  /\ \E r \in VenueCommandResults : goto("status", r)
       /\ UNCHANGED << mon, todo, ledger, mode, remote, pipeline, faults >>

\* The set_state of arm, disarm and stop-after-flat.
ChangeState ==
    /\ wpc["controls"] \in {"arm", "disarm", "stop"}
    /\ LET m == wmon["controls"]
           s == IF wpc["controls"] = "arm" THEN "armed"
                ELSE IF wpc["controls"] = "disarm" THEN "disarmed" ELSE "stop_after_flat"
       IN \E m2 \in {m, WithState(m, s)} :
            /\ SetState(m, s, m2)
            /\ Goto("controls", "status", m2, IF faults' = faults THEN "ok" ELSE "err")
    /\ UNCHANGED << mon, todo, commands, critical, mode, remote, pipeline >>

\* update_live_control_command_status; if that fails the worker gives up.
RecordCommand ==
    /\ wpc["controls"] = "status"
    /\ LET m == wmon["controls"]
           outcome == IF wres["controls"] = "ok" THEN "applied" ELSE "rejected"
       IN \/ /\ DbOk
             /\ commands' = [commands EXCEPT ![InHand].status = outcome]
             /\ todo' = todo \ {InHand}
             /\ Goto("controls", "next", m, "ok")
          \/ /\ DbFails
             /\ UNCHANGED << commands, todo >>
             /\ Goto("controls", "done", m, "err")
    /\ UNCHANGED << mon, critical, rows, status, mode, remote, pipeline >>

\* Variant: the check is left to the later evaluation, while trading is active.
CheckAfterRefresh(w) ==
    /\ wpc[w] = "check"
    /\ DbOk /\ Goto(w, "fetch", wmon[w], "ok")
    /\ UNCHANGED << mon, todo, ledger, mode, remote, pipeline >>

\* refresh_onchain_reconciliation_halt, first thing in every refresh.
CheckReconciliation(w) ==
    /\ wpc[w] = "check"
    /\ LET blocked == [wmon[w] EXCEPT !.blocked = TRUE]
       IN \/ /\ DbOk
             /\ IF ~critical THEN Goto(w, "fetch", wmon[w], "ok")
                ELSE IF wmon[w].state = "halted" THEN Return(w, blocked, "issues")
                ELSE Goto(w, "halt", blocked, "issues")
          \/ DbFails /\ Return(w, wmon[w], "err")
    /\ UNCHANGED << mon, todo, ledger, mode, remote, pipeline >>

\* update_session_metadata: the session row gets the state of the clone.
RecordSession(m) == status' = m.state

\* live_gate_issues over preflight, account and capture: anything but a healthy
\* report blocks.
GateIssues(reported) == reported # "healthy"

\* persist_activity_recovery: a failed user stream is a critical event.
AfterActivity(reported) == critical \/ reported = "stream_failed"

\* LiveRiskMonitor: at any refresh the account may show a drawdown or daily loss past
\* its cap, or not.
RiskBreaches == BOOLEAN

\* One of the three sidecar reads fails: record_remote_refresh_failure.
FetchFails(w) ==
    /\ wpc[w] = "fetch" /\ remote = "down"
    /\ \E k \in FailureKinds :
         LET m     == [wmon[w] EXCEPT !.blocked = TRUE]
             noted == IF RiskActive(m) THEN Note(m, k) ELSE m
         IN \/ /\ DbOk /\ RecordSession(m)
               /\ IF RiskActive(m) /\ Breach(m, k) THEN Goto(w, "halt", noted, "err")
                  ELSE Return(w, noted, "err")
            \/ DbFails /\ UNCHANGED status /\ Return(w, noted, "err")
    /\ UNCHANGED << mon, todo, commands, critical, rows, mode, remote, pipeline >>

\* Variant: terminal gate issues only block.
BreachesWithoutGate(m, reported, risk) ==
    \/ reported = "degraded" /\ Breach(m, "venue_or_user_stream")
    \/ AfterActivity(reported)
    \/ risk

\* evaluate_terminal_remote_state and LiveRiskMonitor::update_from_account. A
\* failed user stream has just been recorded as a critical event.
Breaches(m, reported, risk) ==
    \/ reported = "terminal"
    \/ reported = "degraded" /\ Breach(m, "venue_or_user_stream")
    \/ AfterActivity(reported)
    \/ risk

\* The tracker after evaluate_terminal_remote_state: a terminal gate returns
\* early, a degradation is noted, anything else clears it.
Tracked(m, reported) ==
    IF ~RiskActive(m) \/ reported = "terminal" THEN m
    ELSE IF reported \in {"degraded", "stream_failed"} THEN Note(m, "venue_or_user_stream")
    ELSE [m EXCEPT !.kind = "none", !.age = 0]

\* The sidecar reads succeed; the rest of refresh_remote_state: the activity
\* (a failed user stream is a critical event), issues, breach, session row.
Evaluate(w) ==
    /\ wpc[w] = "fetch" /\ remote # "down"
    /\ \E risk \in RiskBreaches :
         LET m == [wmon[w] EXCEPT !.blocked = GateIssues(remote)]
             r == IF GateIssues(remote) THEN "issues" ELSE "ok"
         IN \/ /\ DbOk /\ RecordSession(m) /\ critical' = AfterActivity(remote)
               /\ IF RiskActive(m) /\ Breaches(m, remote, risk)
                  THEN Goto(w, "halt", Tracked(m, remote), r)
                  ELSE Return(w, Tracked(m, remote), r)
            \/ /\ DbFails /\ UNCHANGED status /\ critical' \in {critical, AfterActivity(remote)}
               /\ \E n \in {wmon[w], m, Tracked(m, remote)} : Return(w, n, "err")
    /\ UNCHANGED << mon, todo, commands, rows, mode, remote, pipeline >>

\* terminal_halt of a worker, for a kill switch or a breach; its result is the
\* one decided before, unless a write fails.
Halt(w) ==
    /\ wpc[w] = "halt"
    /\ \E m2 \in {wmon[w], WithState(wmon[w], "halted")} :
         /\ TerminalHalt(wmon[w], m2)
         /\ Return(w, m2, IF faults' = faults THEN wres[w] ELSE "err")
    /\ UNCHANGED << mon, todo, commands, mode, remote, pipeline >>

-----------------------------------------------------------------------------
(* apply_live_monitor_worker_output: merging a clone into the monitor. *)

\* Variant: the clone of the Controls worker always wins.
OverwriteState(m, u) == u

\* merge_live_monitor_state for Controls.
MergeControls(m, u) ==
    IF Terminal(m.state) /\ ~Terminal(u.state)
    THEN [m EXCEPT !.kind = u.kind, !.age = u.age]
    ELSE u

\* merge_live_remote_refresh_state
MergeRefresh(m, u) ==
    [state   |-> IF Terminal(u.state) THEN u.state ELSE m.state,
     blocked |-> IF Terminal(u.state) \/ ~Terminal(m.state) THEN u.blocked ELSE m.blocked,
     kind    |-> u.kind,
     age     |-> u.age]

\* A failed worker's clone is dropped, and blocks an active monitor.
MergeError(m) == IF RiskActive(m) THEN [m EXCEPT !.blocked = TRUE] ELSE m

ApplyWorkerOutput(w) ==
    /\ wpc[w] = "done"
    /\ mode = "run" \/ (mode = "drain" /\ w = "controls")
    /\ mon' = IF wres[w] = "err" THEN MergeError(mon)
              ELSE IF w = "controls" THEN MergeControls(mon, wmon[w])
              ELSE MergeRefresh(mon, wmon[w])
    /\ Goto(w, "off", Blank, "ok")
    /\ todo' = IF w = "controls" THEN {} ELSE todo
    /\ UNCHANGED << ledger, mode, remote, pipeline, faults >>

-----------------------------------------------------------------------------
(* The operator, the sidecar, shutdown. *)

\* enqueue_live_control_command, while the session row is not ended.
EnqueueCommand(a) ==
    /\ mode # "stopped" /\ Len(commands) < MaxCommands
    /\ commands' = Append(commands, [action |-> a, status |-> "pending"])
    /\ UNCHANGED << mon, workerVars, critical, rows, status, mode, remote, pipeline, faults >>

\* External: the sidecar, the venue or the account change.
RemoteChanges ==
    /\ mode # "stopped"
    /\ remote' \in RemoteStates \ {remote}
    /\ UNCHANGED << mon, workerVars, ledger, mode, pipeline, faults >>

Shutdown ==
    /\ mode = "run" /\ mode' = "drain"
    /\ UNCHANGED << mon, workerVars, ledger, remote, pipeline, faults >>

\* finish_stopped; the background tasks die with the process.
FinishStopped ==
    /\ mode = "drain" /\ mode' = "stopped"
    /\ \/ DbOk /\ status' = IF Terminal(mon.state) THEN mon.state ELSE "live_stopped"
       \/ DbFails /\ UNCHANGED status
    /\ wpc' = [w \in Workers |-> "off"] /\ wmon' = [w \in Workers |-> Blank]
    /\ wres' = [w \in Workers |-> "ok"] /\ todo' = {}
    /\ permits' = 0 /\ feedback' = << >>
    /\ UNCHANGED << mon, commands, critical, rows, remote, filled >>

-----------------------------------------------------------------------------
(* Strategy decisions, submissions and their feedback. *)

\* enqueue_strategy_evaluation: live_trading_can_submit is read here, once.
EnqueueEvaluation ==
    /\ mode = "run" /\ permits < MaxPermits /\ CanSubmit(mon)
    /\ permits' = permits + 1
    /\ UNCHANGED << mon, workerVars, ledger, mode, remote, feedback, filled, faults >>

\* mark_live_submission_blocked
MarkBlocked(m) == IF RiskActive(m) THEN [m EXCEPT !.blocked = TRUE] ELSE m

\* A full capture, strategy or persistence queue blocks an active monitor.
Backpressure ==
    /\ mode # "stopped" /\ mon' = MarkBlocked(mon) /\ mon' # mon
    /\ UNCHANGED << workerVars, ledger, mode, remote, pipeline, faults >>

\* handle_strategy_decision_output, when nothing is submitted: no orders, a stale
\* decision, incomplete evidence, or a queue that is full. Otherwise the batch goes to the worker
\* without the monitor being asked again.
DecisionDropped ==
    /\ mode # "stopped" /\ permits > 0
    /\ permits' = permits - 1
    /\ mon' \in {mon, MarkBlocked(mon)}
    /\ UNCHANGED << workerVars, ledger, mode, remote, feedback, filled, faults >>

\* The submission worker is done with a batch (LiveSubmission!EmitFeedback).
\* disarmed follows a failed write; unknown_order is recorded if the write
\* succeeds, with a critical event if the sidecar did not answer. The feedback
\* carries fills or releases except for a lone order whose outcome is unknown.
FinishBatch ==
    /\ mode # "stopped" /\ permits > 0 /\ Len(feedback) < MaxFeedback
    /\ permits' = permits - 1
    /\ \E u \in {"none", "disarmed", "unknown_order"}, cargo \in BOOLEAN :
         /\ u # "unknown_order" => cargo
         /\ feedback' = Append(feedback, [update |-> u, cargo |-> cargo])
         /\ filled' \in IF u = "none" THEN {filled, TRUE} ELSE {filled}
         /\ \/ u = "none" /\ DbOk /\ UNCHANGED << critical, rows >>
            \/ u = "disarmed" /\ DbFails /\ UNCHANGED << critical, rows >>
            \/ /\ u = "unknown_order"
               /\ critical' \in {critical, TRUE}
               /\ \/ DbOk /\ RecordState("unknown_order")
                  \/ DbFails /\ UNCHANGED rows
    /\ UNCHANGED << mon, workerVars, commands, status, mode, remote >>

\* A detached verifier raises the critical event (LiveSubmission!RaiseReconciliationHalt).
VerifierAlarm ==
    /\ mode # "stopped" /\ filled /\ ~critical
    /\ critical' = TRUE
    /\ UNCHANGED << mon, workerVars, commands, rows, status, mode, remote, pipeline, faults >>

\* apply_live_submission_feedback: if the strategy worker's queue is full the
\* handler returns early and the state update is lost.
ApplyFeedback ==
    /\ mode # "stopped" /\ feedback # << >>
    /\ LET f == Head(feedback)
       IN \/ f.cargo /\ mon' = MarkBlocked(mon)
          \/ mon' = IF f.update = "none" THEN mon
                    ELSE [mon EXCEPT !.state = f.update, !.blocked = TRUE]
    /\ feedback' = Tail(feedback)
    /\ UNCHANGED << workerVars, ledger, mode, remote, permits, filled, faults >>

-----------------------------------------------------------------------------

\* A worker's task runs until the process stops.
RefreshStep(w) ==
    CheckReconciliation(w) \/ FetchFails(w) \/ Evaluate(w) \/ Halt(w)

WorkerStep(w) ==
    /\ mode # "stopped"
    /\ \/ RefreshStep(w)
       \/ w = "controls" /\ (ReadCommands \/ NextCommand \/ ChangeState \/ RecordCommand)

Next ==
    \/ LiveControlPoll \/ LiveRemotePoll
    \/ \E w \in Workers : WorkerStep(w) \/ ApplyWorkerOutput(w)
    \/ \E a \in Actions : EnqueueCommand(a)
    \/ RemoteChanges \/ Shutdown \/ FinishStopped
    \/ EnqueueEvaluation \/ Backpressure \/ DecisionDropped
    \/ FinishBatch \/ VerifierAlarm \/ ApplyFeedback

Spec == Init /\ [][Next]_vars

\* The two poll timers tick, tokio polls the workers, and the main loop takes
\* what the channels hold; nothing obliges the operator, the venue or shutdown.
FairSpec ==
    /\ Spec
    /\ WF_vars(LiveControlPoll) /\ WF_vars(LiveRemotePoll)
    /\ \A w \in Workers : WF_vars(WorkerStep(w)) /\ WF_vars(ApplyWorkerOutput(w))
    /\ WF_vars(DecisionDropped) /\ WF_vars(FinishBatch) /\ WF_vars(ApplyFeedback)

-----------------------------------------------------------------------------
(* Properties. *)

Monitors == [state : States, blocked : BOOLEAN, kind : Kinds \cup {"none"}, age : 0..Threshold]

\* Types of all variables; a Controls worker at work on a command has one.
WorkerTypeOK ==
    /\ wmon \in [Workers -> Monitors]
    /\ wpc \in [Workers -> {"off", "read", "next", "check", "fetch", "halt",
                            "arm", "disarm", "stop", "status", "done"}]
    /\ wpc["refresh"] \in {"off", "check", "fetch", "halt", "done"}
    /\ wpc["controls"] \notin {"off", "read", "next", "done"} => todo # {}
    /\ wres \in [Workers -> {"ok", "issues", "err"}]
QueueTypeOK ==
    /\ todo \subseteq DOMAIN commands
    /\ commands \in Seq([action : Actions, status : {"pending", "applied", "rejected"}])
LedgerTypeOK ==
    /\ critical \in BOOLEAN /\ rows \subseteq States
    /\ status \in States \cup {"live_stopped"}
    /\ faults \in 0..MaxFaults
PipelineTypeOK ==
    /\ mode \in {"run", "drain", "stopped"} /\ remote \in RemoteStates
    /\ permits \in 0..MaxPermits
    /\ feedback \in Seq([update : {"none", "disarmed", "unknown_order"}, cargo : BOOLEAN])
    /\ filled \in BOOLEAN
TypeOK ==
    mon \in Monitors /\ WorkerTypeOK /\ QueueTypeOK /\ LedgerTypeOK /\ PipelineTypeOK

\* set_state writes the control row before the memory: whatever clone was merged
\* over which, and whatever failed, a state the monitor is in has its row in the
\* run database, so that a restart finds a halt. Only unknown_order may come
\* from the submission worker with its row unwritten.
StateIsRecorded ==
    mon.state # "unknown_order" => mon.state \in rows

\* "without clearing terminal local state": no merge of a stale clone, no
\* command and no timer takes the monitor out of a terminal state.
MergeKeepsTerminal ==
    [][Terminal(mon.state) /\ ~Terminal(mon'.state) => ApplyFeedback]_vars

\* "Apply every queued operator command in durable request order": whatever
\* failed and however the workers overlapped, no command is answered while an
\* earlier one waits.
CommandsInOrder ==
    \A c, d \in DOMAIN commands :
        c < d /\ commands[c].status = "pending" => commands[d].status = "pending"

\* refresh_onchain_reconciliation_halt: a critical event, whoever wrote it and
\* whatever state the monitor is in, ends in a terminal state that stays, over
\* every stale clone and every late feedback. (Which of the two terminal states
\* is not settled: a stale Controls clone may put unknown_order back.)
CriticalStopsTrading ==
    critical ~> [](Terminal(mon.state) \/ mode # "run")

KillSwitches == {c \in DOMAIN commands : commands[c].action = "kill_switch"}

\* terminal_halt by the operator: a queued kill switch halts the monitor, or is
\* reported as rejected.
KillSwitchAnswered ==
    (\E c \in KillSwitches : commands[c].status = "pending")
        ~> \/ mon.state = "halted" \/ mode # "run"
           \/ \A c \in KillSwitches : commands[c].status = "rejected"

\* evaluate_terminal_remote_state: a monitor does not stay armed under a
\* terminal gate issue.
TerminalGateHalts ==
    ~<>[](remote = "terminal" /\ mon.state = "armed" /\ mode = "run")

\* docs/live-session-runbook.md, "A halted or `unknown_order` DB must not be
\* re-armed": a monitor that was halted is never armed again.
HaltedNotRearmed ==
    [](mon.state = "halted" => [](mon.state # "armed"))

-----------------------------------------------------------------------------
(* The inductive invariant behind StateIsRecorded and CommandsInOrder. *)

\* A clone may be merged later: its state needs a control row as well, and
\* bootstrap's row is the one a blank clone and a failed submission fall back on.
CloneIsRecorded ==
    /\ "disarmed" \in rows
    /\ \A w \in Workers : wmon[w].state # "unknown_order" => wmon[w].state \in rows

\* The first a commands are answered and the rest wait; of these the Controls
\* worker holds the first ones, up to b, however many came after its read.
AnsweredUpTo(a, b) ==
    /\ PendingCommands = (a + 1)..Len(commands)
    /\ todo = (a + 1)..b
QueueInOrder == \E b \in 0..Len(commands) : \E a \in 0..b : AnsweredUpTo(a, b)

IInv == TypeOK /\ StateIsRecorded /\ CloneIsRecorded /\ QueueInOrder

=============================================================================
