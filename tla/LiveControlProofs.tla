-------------------------- MODULE LiveControlProofs --------------------------
(***************************************************************************)
(* Proofs about LiveControl.                                               *)
(*                                                                         *)
(* Three groups of facts are carried along the steps.  A monitor value,    *)
(* the main loop's or a clone's, is Good when its state has a control row; *)
(* rows only grow, so a clone that was Good when it was taken is Good when *)
(* it is merged, whatever was merged in between.  The command queue is     *)
(* answered from its front, and what the Controls worker holds is a front  *)
(* part of what waits.  The rest is typing.                                *)
(***************************************************************************)
EXTENDS LiveControl, TLAPS

Good(m, r) == m \in Monitors /\ (m.state # "unknown_order" => m.state \in r)
Results == {"ok", "issues", "err"}

\* The main loop's monitor, the two clones with their tasks, and the queue.
MonGood == Good(mon, rows)
CloneGood == WorkerTypeOK /\ CloneIsRecorded
QueueGood == QueueTypeOK /\ QueueInOrder

LEMMA Parts == IInv <=> MonGood /\ CloneGood /\ QueueGood /\ LedgerTypeOK /\ PipelineTypeOK
BY DEF IInv, TypeOK, MonGood, Good, StateIsRecorded, CloneGood, QueueGood

-----------------------------------------------------------------------------
(* Monitor values. *)

LEMMA BlankGood ==
  ASSUME NEW r, "disarmed" \in r
  PROVE  Good(Blank, r)
BY ControlAssumption DEF Good, Blank, Monitors, States

LEMMA GoodGrows ==
  ASSUME NEW m, NEW r, NEW q, Good(m, r), r \subseteq q
  PROVE  Good(m, q)
BY DEF Good

\* A change of the other fields leaves a good monitor good.
LEMMA BlockedGood ==
  ASSUME NEW m, NEW r, Good(m, r), NEW b \in BOOLEAN
  PROVE  Good([m EXCEPT !.blocked = b], r)
BY DEF Good, Monitors

LEMMA TrackedGood ==
  ASSUME NEW m, NEW r, Good(m, r), NEW k \in Kinds \cup {"none"}, NEW a \in 0..Threshold
  PROVE  Good([m EXCEPT !.kind = k, !.age = a], r)
BY DEF Good, Monitors

LEMMA NoteGood ==
  ASSUME NEW m, NEW r, Good(m, r), NEW k \in Kinds
  PROVE  Good(Note(m, k), r)
<1>1. m.age \in 0..Threshold /\ Threshold \in Nat
  BY ControlAssumption DEF Good, Monitors
<1>2. CASE m.kind = k
  <2> DEFINE a == IF m.age < Threshold THEN m.age + 1 ELSE m.age
  <2>1. a \in 0..Threshold
    BY <1>1
  <2>2. Note(m, k) = [m EXCEPT !.age = a]
    BY <1>2 DEF Note
  <2> HIDE DEF a
  <2> QED BY <2>1, <2>2 DEF Good, Monitors
<1>3. CASE m.kind # k
  <2>1. 0 \in 0..Threshold /\ k \in Kinds \cup {"none"}
    BY <1>1
  <2>2. Note(m, k) = [m EXCEPT !.kind = k, !.age = 0]
    BY <1>3 DEF Note
  <2> QED BY <2>1, <2>2 DEF Good, Monitors
<1> QED BY <1>2, <1>3

LEMMA StateGood ==
  ASSUME NEW m, NEW r, NEW q, Good(m, r), NEW s \in States, s \in q
  PROVE  Good(WithState(m, s), q)
<1>1. Terminal(s) \in BOOLEAN
  BY DEF Terminal
<1> QED BY <1>1 DEF Good, Monitors, WithState

\* What set_state and terminal_halt do to the ledger.
DbGood == rows \subseteq rows' /\ LedgerTypeOK'

LEMMA DbStepGood ==
  ASSUME LedgerTypeOK, DbOk \/ DbFails
  PROVE  faults' \in 0..MaxFaults
BY ControlAssumption DEF LedgerTypeOK, DbOk, DbFails

LEMMA SetStateGood ==
  ASSUME LedgerTypeOK, NEW m, NEW m2, NEW s \in States, Good(m, rows), SetState(m, s, m2),
         UNCHANGED critical
  PROVE  DbGood /\ Good(m2, rows')
<1>1. DbGood
  BY DbStepGood DEF DbGood, SetState, RecordState, LedgerTypeOK
<1>2. m2 = m \/ (m2 = WithState(m, s) /\ s \in rows')
  BY DEF SetState, RecordState
<1> QED BY <1>1, <1>2, GoodGrows, StateGood DEF DbGood

LEMMA TerminalHaltGood ==
  ASSUME LedgerTypeOK, NEW m, NEW m2, Good(m, rows), TerminalHalt(m, m2)
  PROVE  DbGood /\ Good(m2, rows')
<1>1. "halted" \in States /\ "halted" \in States \cup {"live_stopped"}
  BY DEF States
<1>2. rows \subseteq rows' /\ rows' \subseteq States /\ status' \in States \cup {"live_stopped"}
      /\ critical' \in BOOLEAN
  BY <1>1 DEF TerminalHalt, RecordState, LedgerTypeOK
<1>3. faults' \in 0..MaxFaults
  BY DbStepGood DEF TerminalHalt
<1>4. m2 = m \/ (m2 = WithState(m, "halted") /\ "halted" \in rows')
  BY DEF TerminalHalt, RecordState
<1> QED BY <1>1, <1>2, <1>3, <1>4, GoodGrows, StateGood DEF DbGood, LedgerTypeOK

-----------------------------------------------------------------------------
(* The workers. *)

\* Where a worker may be, and what it then holds.
Points(w) ==
    IF w = "refresh" THEN {"off", "check", "fetch", "halt", "done"}
    ELSE {"off", "read", "next", "check", "fetch", "halt", "arm", "disarm", "stop", "status",
          "done"}
Between == {"off", "read", "next", "done"}

LEMMA WorkerForm ==
  CloneGood <=>
    /\ wmon \in [Workers -> Monitors] /\ wres \in [Workers -> Results]
    /\ DOMAIN wpc = Workers /\ wpc = [w \in Workers |-> wpc[w]]
    /\ \A w \in Workers : wpc[w] \in Points(w) /\ Good(wmon[w], rows)
    /\ wpc["controls"] \notin Between => todo # {}
    /\ "disarmed" \in rows
BY DEF CloneGood, WorkerTypeOK, CloneIsRecorded, Points, Results, Good, Between, Workers

LEMMA CloneSteady ==
  ASSUME CloneGood, UNCHANGED workerVars, rows \subseteq rows'
  PROVE  CloneGood'
BY DEF CloneGood, WorkerTypeOK, CloneIsRecorded, workerVars

LEMMA GotoGood ==
  ASSUME CloneGood, NEW w \in Workers, NEW p \in Points(w), NEW m, NEW r \in Results,
         Goto(w, p, m, r), Good(m, rows'), rows \subseteq rows',
         w = "controls" /\ p \notin Between => todo' # {},
         w = "controls" \/ todo' = todo
  PROVE  CloneGood'
<1>1. /\ wmon \in [Workers -> Monitors] /\ wres \in [Workers -> Results]
      /\ DOMAIN wpc = Workers /\ wpc = [v \in Workers |-> wpc[v]]
      /\ \A v \in Workers : wpc[v] \in Points(v) /\ Good(wmon[v], rows)
      /\ wpc["controls"] \notin Between => todo # {}
      /\ "disarmed" \in rows
  BY WorkerForm
<1>2. /\ wpc' = [wpc EXCEPT ![w] = p] /\ wmon' = [wmon EXCEPT ![w] = m]
      /\ wres' = [wres EXCEPT ![w] = r]
  BY DEF Goto
<1>3. m \in Monitors
  BY DEF Good
<1>4. wmon' \in [Workers -> Monitors] /\ wres' \in [Workers -> Results]
  BY <1>1, <1>2, <1>3
<1>5. DOMAIN wpc' = Workers /\ wpc' = [v \in Workers |-> wpc'[v]]
  BY <1>1, <1>2
<1>6. ASSUME NEW v \in Workers PROVE wpc'[v] \in Points(v) /\ Good(wmon'[v], rows')
  <2>1. CASE v = w
    <3>1. wpc'[w] = p /\ wmon'[w] = m
      BY <1>1, <1>2
    <3> QED BY <2>1, <3>1
  <2>2. CASE v # w
    <3>1. wpc'[v] = wpc[v] /\ wmon'[v] = wmon[v]
      BY <1>1, <1>2, <2>2
    <3> QED BY <1>1, <3>1, GoodGrows
  <2> QED BY <2>1, <2>2
<1>7. wpc'["controls"] \notin Between => todo' # {}
  <2>1. CASE w = "controls"
    BY <1>1, <1>2, <2>1
  <2>2. CASE w # "controls"
    <3>1. wpc'["controls"] = wpc["controls"] /\ todo' = todo
      BY <1>1, <1>2, <2>2
    <3> QED BY <1>1, <3>1
  <2> QED BY <2>1, <2>2
<1>8. "disarmed" \in rows'
  BY <1>1
<1> QED BY <1>4, <1>5, <1>6, <1>7, <1>8 DEF CloneGood, WorkerTypeOK, CloneIsRecorded, Points,
           Results, Good, Between, Workers

\* refresh_remote_state returns to its caller.
LEMMA ReturnGood ==
  ASSUME CloneGood, NEW w \in Workers, NEW m, NEW r \in Results, Return(w, m, r),
         Good(m, rows'), rows \subseteq rows', wpc[w] \notin Between, UNCHANGED todo
  PROVE  CloneGood'
<1>1. CASE w = "refresh"
  <2>1. Goto(w, "done", m, r) /\ "done" \in Points(w)
    BY <1>1 DEF Return, Points
  <2> QED BY <1>1, <2>1, GotoGood
<1>2. CASE w = "controls"
  <2>1. PICK p \in {"arm", "status"}, q \in Results : Goto(w, p, m, q)
    BY <1>2 DEF Return, Results
  <2>2. p \in Points(w)
    BY <1>2 DEF Points
  <2>3. todo' # {}
    BY <1>2 DEF CloneGood, WorkerTypeOK, Between
  <2> QED BY <1>2, <2>1, <2>2, <2>3, GotoGood
<1> QED BY <1>1, <1>2 DEF Workers

-----------------------------------------------------------------------------
(* What a step leaves alone. *)

LEMMA MonSteady ==
  ASSUME MonGood, mon' = mon, rows \subseteq rows'
  PROVE  MonGood'
BY DEF MonGood, Good

LEMMA QueueSteady ==
  ASSUME QueueGood, UNCHANGED << todo, commands >>
  PROVE  QueueGood'
BY DEF QueueGood, QueueTypeOK, QueueInOrder, AnsweredUpTo, PendingCommands

LEMMA LedgerSteady ==
  ASSUME LedgerTypeOK, UNCHANGED << critical, rows, status, faults >>
  PROVE  DbGood
BY DEF LedgerTypeOK, DbGood

LEMMA PipelineSteady ==
  ASSUME PipelineTypeOK, UNCHANGED << mode, remote, pipeline >>
  PROVE  PipelineTypeOK'
BY DEF PipelineTypeOK, pipeline

Safe == MonGood /\ CloneGood /\ QueueGood /\ LedgerTypeOK /\ PipelineTypeOK

-----------------------------------------------------------------------------
(* The timers of the main loop. *)

LEMMA LiveControlPollSafe ==
  ASSUME Safe, LiveControlPoll
  PROVE  Safe'
<1>1. DbGood /\ MonGood'
  <2>1. CASE TerminalHalt(mon, mon')
    BY <2>1, TerminalHaltGood DEF Safe, MonGood
  <2>2. CASE DbOk /\ UNCHANGED << mon, rows, status, critical >>
    BY <2>2, LedgerSteady, MonSteady DEF Safe, DbOk
  <2> QED BY <2>1, <2>2 DEF LiveControlPoll, ArmedFeedOutage
<1>2. CloneGood'
  <2>1. CASE UNCHANGED << wpc, wmon >>
    BY <1>1, <2>1, CloneSteady DEF Safe, LiveControlPoll, DbGood, workerVars
  <2>2. CASE /\ wpc' = [wpc EXCEPT !["controls"] = "read"]
             /\ wmon' = [wmon EXCEPT !["controls"] = mon]
    <3>1. wres["controls"] \in Results /\ wres = [wres EXCEPT !["controls"] = wres["controls"]]
      BY WorkerForm DEF Safe, Workers
    <3>2. Goto("controls", "read", mon, wres["controls"])
      BY <2>2, <3>1 DEF Goto, LiveControlPoll
    <3>3. Good(mon, rows')
      BY <1>1, GoodGrows DEF Safe, MonGood, DbGood
    <3> QED BY <1>1, <3>1, <3>2, <3>3, GotoGood DEF Safe, DbGood, Points, Between, Workers
  <2> QED BY <2>1, <2>2 DEF LiveControlPoll
<1> QED BY <1>1, <1>2, QueueSteady, PipelineSteady DEF Safe, LiveControlPoll, DbGood

LEMMA LiveRemotePollSafe ==
  ASSUME Safe, LiveRemotePoll
  PROVE  Safe'
<1>1. DbGood /\ MonGood'
  BY LedgerSteady, MonSteady DEF Safe, LiveRemotePoll, ledger
<1>2. CloneGood'
  <2>1. wres["refresh"] \in Results /\ wres = [wres EXCEPT !["refresh"] = wres["refresh"]]
    BY WorkerForm DEF Safe, Workers
  <2>2. Goto("refresh", "check", mon, wres["refresh"])
    BY <2>1 DEF Goto, LiveRemotePoll
  <2>3. Good(mon, rows') /\ todo' = todo
    BY <1>1, GoodGrows DEF Safe, MonGood, DbGood, LiveRemotePoll
  <2> QED BY <1>1, <2>1, <2>2, <2>3, GotoGood DEF Safe, DbGood, Points, Workers
<1> QED BY <1>1, <1>2, QueueSteady, PipelineSteady DEF Safe, LiveRemotePoll, DbGood, ledger

-----------------------------------------------------------------------------
(* The steps of a refresh. *)

LEMMA CheckReconciliationSafe ==
  ASSUME Safe, NEW w \in Workers, CheckReconciliation(w)
  PROVE  Safe'
<1> DEFINE blocked == [wmon[w] EXCEPT !.blocked = TRUE]
<1>1. DbGood
  <2>1. faults' \in 0..MaxFaults
    BY DbStepGood DEF Safe, CheckReconciliation
  <2> QED BY <2>1 DEF Safe, DbGood, LedgerTypeOK, CheckReconciliation, ledger
<1>2. Good(wmon[w], rows) /\ rows' = rows /\ UNCHANGED << todo, commands >> /\ wpc[w] = "check"
  BY WorkerForm DEF Safe, CheckReconciliation, ledger
<1>3. Good(blocked, rows) /\ Good(wmon[w], rows') /\ Good(blocked, rows')
  BY <1>2, BlockedGood
<1>4. "fetch" \in Points(w) /\ "halt" \in Points(w) /\ {"issues", "err", "ok"} \subseteq Results
      /\ "check" \notin Between
  BY DEF Points, Results, Between
<1>5. w = "controls" => todo' # {}
  BY <1>2, <1>4 DEF Safe, CloneGood, WorkerTypeOK, Between
<1> HIDE DEF blocked
<1>6. \/ Goto(w, "fetch", wmon[w], "ok") \/ Goto(w, "halt", blocked, "issues")
      \/ Return(w, blocked, "issues") \/ Return(w, wmon[w], "err")
  BY DEF CheckReconciliation, blocked
<1>7. CloneGood'
  BY <1>2, <1>3, <1>4, <1>5, <1>6, GotoGood, ReturnGood DEF Safe
<1> QED BY <1>1, <1>2, <1>7, MonSteady, QueueSteady, PipelineSteady
        DEF Safe, DbGood, CheckReconciliation

LEMMA FetchFailsSafe ==
  ASSUME Safe, NEW w \in Workers, FetchFails(w)
  PROVE  Safe'
<1>1. PICK k \in FailureKinds :
        LET m     == [wmon[w] EXCEPT !.blocked = TRUE]
            noted == IF RiskActive(m) THEN Note(m, k) ELSE m
        IN \/ /\ DbOk /\ RecordSession(m)
              /\ IF RiskActive(m) /\ Breach(m, k) THEN Goto(w, "halt", noted, "err")
                 ELSE Return(w, noted, "err")
           \/ DbFails /\ UNCHANGED status /\ Return(w, noted, "err")
  BY DEF FetchFails
<1> DEFINE m == [wmon[w] EXCEPT !.blocked = TRUE]
           noted == IF RiskActive(m) THEN Note(m, k) ELSE m
<1>2. Good(wmon[w], rows) /\ rows' = rows /\ UNCHANGED << todo, commands >> /\ wpc[w] = "fetch"
      /\ k \in Kinds
  BY WorkerForm DEF Safe, FetchFails, Kinds
<1>3. Good(m, rows)
  BY <1>2, BlockedGood
<1>4. "halt" \in Points(w) /\ "err" \in Results /\ "fetch" \notin Between
  BY DEF Points, Results, Between
<1>5. w = "controls" => todo' # {}
  BY <1>2, <1>4 DEF Safe, CloneGood, WorkerTypeOK, Between
<1>6. (DbOk /\ RecordSession(m)) \/ (DbFails /\ UNCHANGED status)
  BY <1>1
<1>7. Goto(w, "halt", noted, "err") \/ Return(w, noted, "err")
  BY <1>1
<1> HIDE DEF m
<1>8. Good(noted, rows')
  BY <1>2, <1>3, NoteGood
<1> HIDE DEF noted
<1>9. DbGood
  <2>1. faults' \in 0..MaxFaults
    BY <1>6, DbStepGood DEF Safe
  <2>2. m.state \in States
    BY <1>3 DEF Good, Monitors
  <2> QED BY <1>6, <2>1, <2>2 DEF Safe, DbGood, LedgerTypeOK, FetchFails, RecordSession
<1>10. CloneGood'
  BY <1>2, <1>4, <1>5, <1>7, <1>8, GotoGood, ReturnGood DEF Safe
<1> QED BY <1>2, <1>9, <1>10, MonSteady, QueueSteady, PipelineSteady DEF Safe, DbGood, FetchFails

LEMMA TrackerGood ==
  ASSUME NEW m, NEW r, Good(m, r), NEW reported
  PROVE  Good(Tracked(m, reported), r)
<1>1. "venue_or_user_stream" \in Kinds /\ "none" \in Kinds \cup {"none"} /\ 0 \in 0..Threshold
  BY ControlAssumption DEF Kinds
<1>2. Good(Note(m, "venue_or_user_stream"), r)
  BY <1>1, NoteGood
<1>3. Good([m EXCEPT !.kind = "none", !.age = 0], r)
  BY <1>1, TrackedGood
<1> QED BY <1>2, <1>3 DEF Tracked

LEMMA EvaluateSafe ==
  ASSUME Safe, NEW w \in Workers, Evaluate(w)
  PROVE  Safe'
<1>1. PICK risk \in RiskBreaches :
        LET m == [wmon[w] EXCEPT !.blocked = GateIssues(remote)]
            r == IF GateIssues(remote) THEN "issues" ELSE "ok"
        IN \/ /\ DbOk /\ RecordSession(m) /\ critical' = AfterActivity(remote)
              /\ IF RiskActive(m) /\ Breaches(m, remote, risk)
                 THEN Goto(w, "halt", Tracked(m, remote), r)
                 ELSE Return(w, Tracked(m, remote), r)
           \/ /\ DbFails /\ UNCHANGED status /\ critical' \in {critical, AfterActivity(remote)}
              /\ \E n \in {wmon[w], m, Tracked(m, remote)} : Return(w, n, "err")
  BY DEF Evaluate
<1> DEFINE m == [wmon[w] EXCEPT !.blocked = GateIssues(remote)]
           r == IF GateIssues(remote) THEN "issues" ELSE "ok"
<1>2. Good(wmon[w], rows) /\ rows' = rows /\ UNCHANGED << todo, commands >> /\ wpc[w] = "fetch"
  BY WorkerForm DEF Safe, Evaluate
<1>3. GateIssues(remote) \in BOOLEAN
  BY DEF GateIssues
<1>4. Good(m, rows)
  BY <1>2, <1>3, BlockedGood
<1>5. "halt" \in Points(w) /\ "err" \in Results /\ r \in Results /\ "fetch" \notin Between
  BY DEF Points, Results, Between
<1>6. w = "controls" => todo' # {}
  BY <1>2, <1>5 DEF Safe, CloneGood, WorkerTypeOK, Between
<1>7. \/ DbOk /\ RecordSession(m) /\ critical' = AfterActivity(remote)
      \/ DbFails /\ UNCHANGED status /\ critical' \in {critical, AfterActivity(remote)}
  BY <1>1
<1>8. \/ Goto(w, "halt", Tracked(m, remote), r) \/ Return(w, Tracked(m, remote), r)
      \/ \E n \in {wmon[w], m, Tracked(m, remote)} : Return(w, n, "err")
  BY <1>1
<1> HIDE DEF m, r
<1>9. Good(Tracked(m, remote), rows)
  BY <1>4, TrackerGood
<1>10. \A n \in {wmon[w], m, Tracked(m, remote)} : Good(n, rows')
  BY <1>2, <1>4, <1>9
<1>11. DbGood
  <2>1. faults' \in 0..MaxFaults
    BY <1>7, DbStepGood DEF Safe
  <2>2. m.state \in States
    BY <1>4 DEF Good, Monitors
  <2>3. status' \in States \cup {"live_stopped"}
    BY <1>7, <2>2 DEF Safe, LedgerTypeOK, RecordSession
  <2>4. AfterActivity(remote) \in BOOLEAN
    BY DEF AfterActivity, Safe, LedgerTypeOK
  <2>5. critical' \in BOOLEAN
    BY <1>7, <2>4 DEF Safe, LedgerTypeOK
  <2> QED BY <1>2, <2>1, <2>3, <2>5 DEF Safe, DbGood, LedgerTypeOK
<1>12. CloneGood'
  BY <1>2, <1>5, <1>6, <1>8, <1>10, GotoGood, ReturnGood DEF Safe
<1> QED BY <1>2, <1>11, <1>12, MonSteady, QueueSteady, PipelineSteady DEF Safe, DbGood, Evaluate

LEMMA HaltSafe ==
  ASSUME Safe, NEW w \in Workers, Halt(w)
  PROVE  Safe'
<1>1. PICK m2 : /\ TerminalHalt(wmon[w], m2)
                /\ Return(w, m2, IF faults' = faults THEN wres[w] ELSE "err")
  BY DEF Halt
<1>2. Good(wmon[w], rows) /\ wres[w] \in Results /\ "err" \in Results /\ "halt" \notin Between
  BY WorkerForm DEF Safe, Results, Between
<1>3. DbGood /\ Good(m2, rows')
  BY <1>1, <1>2, TerminalHaltGood DEF Safe
<1>4. UNCHANGED << mon, todo, commands >> /\ wpc[w] = "halt" /\ rows \subseteq rows'
  BY <1>3 DEF Halt, DbGood
<1>5. PICK r \in Results : Return(w, m2, r)
  BY <1>1, <1>2
<1>6. CloneGood'
  BY <1>2, <1>3, <1>4, <1>5, ReturnGood DEF Safe
<1> QED BY <1>3, <1>4, <1>6, MonSteady, QueueSteady, PipelineSteady DEF Safe, DbGood, Halt

-----------------------------------------------------------------------------
(* The steps of the Controls worker. *)

LEMMA ReadCommandsSafe ==
  ASSUME Safe, ReadCommands
  PROVE  Safe'
<1>1. /\ "controls" \in Workers /\ Good(wmon["controls"], rows) /\ rows' = rows
      /\ UNCHANGED << commands, mon, critical, status >> /\ (DbOk \/ DbFails)
  BY WorkerForm DEF Safe, ReadCommands, ledger, Workers
<1>2. DbGood
  BY <1>1, DbStepGood DEF Safe, DbGood, LedgerTypeOK
<1>3. CloneGood'
  <2>1. {"next", "done"} \subseteq Points("controls") \cap Between /\ {"ok", "err"} \subseteq Results
    BY DEF Points, Between, Results
  <2> QED BY <1>1, <2>1, GotoGood DEF Safe, ReadCommands
<1>4. QueueGood'
  <2>1. CASE todo' = todo
    BY <1>1, <2>1, QueueSteady DEF Safe
  <2>2. CASE todo' = PendingCommands
    <3>1. PICK b \in 0..Len(commands) : \E a \in 0..b : AnsweredUpTo(a, b)
      BY DEF Safe, QueueGood, QueueInOrder
    <3>2. PICK a \in 0..b : AnsweredUpTo(a, b)
      BY <3>1
    <3>3. Len(commands) \in 0..Len(commands) /\ a \in 0..Len(commands)
      BY <3>1, <3>2 DEF Safe, QueueGood, QueueTypeOK
    <3>4. AnsweredUpTo(a, Len(commands))'
      BY <1>1, <2>2, <3>2 DEF AnsweredUpTo, PendingCommands
    <3>5. QueueInOrder'
      BY <1>1, <3>3, <3>4 DEF QueueInOrder
    <3>6. QueueTypeOK'
      BY <1>1, <2>2 DEF Safe, QueueGood, QueueTypeOK, PendingCommands
    <3> QED BY <3>5, <3>6 DEF QueueGood
  <2> QED BY <2>1, <2>2 DEF ReadCommands
<1> QED BY <1>1, <1>2, <1>3, <1>4, MonSteady, PipelineSteady DEF Safe, DbGood, ReadCommands

LEMMA NextCommandSafe ==
  ASSUME Safe, NextCommand
  PROVE  Safe'
<1>1. /\ "controls" \in Workers /\ Good(wmon["controls"], rows) /\ rows' = rows
      /\ UNCHANGED << commands, todo, mon, critical, status, faults >>
  BY WorkerForm DEF Safe, NextCommand, ledger, Workers
<1>2. PICK p \in {"done", "status", "check", "halt", "disarm", "stop"}, r \in {"ok", "err"} :
        Goto("controls", p, wmon["controls"], r) /\ (p # "done" => todo # {})
  BY DEF NextCommand, VenueCommandResults
<1>3. p \in Points("controls") /\ r \in Results /\ (p \notin Between => p # "done")
  BY DEF Points, Results, Between
<1>4. CloneGood'
  BY <1>1, <1>2, <1>3, GotoGood DEF Safe
<1> QED BY <1>1, <1>4, MonSteady, QueueSteady, LedgerSteady, PipelineSteady
        DEF Safe, DbGood, NextCommand

LEMMA ChangeStateSafe ==
  ASSUME Safe, ChangeState
  PROVE  Safe'
<1>1. PICK s, m2 :
        /\ s \in {"armed", "disarmed", "stop_after_flat"}
        /\ SetState(wmon["controls"], s, m2)
        /\ Goto("controls", "status", m2, IF faults' = faults THEN "ok" ELSE "err")
  BY DEF ChangeState
<1>2. /\ "controls" \in Workers /\ Good(wmon["controls"], rows) /\ s \in States
      /\ UNCHANGED << commands, todo, mon, critical >>
      /\ wpc["controls"] \in {"arm", "disarm", "stop"}
  BY <1>1, WorkerForm DEF Safe, ChangeState, States, Workers
<1>3. DbGood /\ Good(m2, rows')
  BY <1>1, <1>2, SetStateGood DEF Safe
<1>4. "status" \in Points("controls") /\ {"ok", "err"} \subseteq Results /\ rows \subseteq rows'
  BY <1>3 DEF Points, Results, DbGood
<1>5. todo' # {}
  BY <1>2, WorkerForm DEF Safe, Between
<1>6. PICK r \in Results : Goto("controls", "status", m2, r)
  BY <1>1, <1>4
<1>7. CloneGood'
  BY <1>2, <1>3, <1>4, <1>5, <1>6, GotoGood DEF Safe
<1> QED BY <1>2, <1>3, <1>4, <1>7, MonSteady, QueueSteady, PipelineSteady
        DEF Safe, DbGood, ChangeState

Rows == [action : Actions, status : {"pending", "applied", "rejected"}]

\* The command in hand is the first that waits.
LEMMA InHandFact ==
  ASSUME NEW a \in Nat, NEW b \in Nat, a < b, todo = (a + 1)..b
  PROVE  InHand = a + 1
<1>1. a + 1 \in todo /\ \A d \in todo : a + 1 <= d
  OBVIOUS
<1>2. InHand \in todo /\ \A d \in todo : InHand <= d
  BY <1>1 DEF InHand
<1> QED BY <1>1, <1>2

\* Its answer moves the front of the queue by one.
LEMMA AnswerInOrder ==
  ASSUME QueueGood, todo # {}, NEW outcome \in {"applied", "rejected"},
         commands' = [commands EXCEPT ![InHand].status = outcome], todo' = todo \ {InHand}
  PROVE  QueueGood'
<1>1. PICK b \in 0..Len(commands) : \E a \in 0..b : AnsweredUpTo(a, b)
  BY DEF QueueGood, QueueInOrder
<1>2. PICK a \in 0..b : AnsweredUpTo(a, b)
  BY <1>1
<1>3. commands \in Seq(Rows) /\ Len(commands) \in Nat /\ DOMAIN commands = 1..Len(commands)
  BY DEF QueueGood, QueueTypeOK, Rows
<1>4. a \in Nat /\ b \in Nat /\ a < b /\ todo = (a + 1)..b
      /\ PendingCommands = (a + 1)..Len(commands)
  BY <1>1, <1>2, <1>3 DEF AnsweredUpTo
<1>5. InHand = a + 1 /\ a + 1 \in DOMAIN commands
  BY <1>1, <1>3, <1>4, InHandFact
<1> DEFINE row == [commands[a + 1] EXCEPT !.status = outcome]
<1>6. row \in Rows /\ row.status # "pending"
  <2>1. commands[a + 1] \in Rows
    BY <1>3, <1>5
  <2> QED BY <2>1 DEF Rows
<1>7. commands' = [commands EXCEPT ![a + 1] = row]
  BY <1>5
<1> HIDE DEF row
<1>8. commands' \in Seq(Rows) /\ Len(commands') = Len(commands)
      /\ DOMAIN commands' = DOMAIN commands
  BY <1>3, <1>5, <1>6, <1>7
<1>9. \A c \in DOMAIN commands : commands'[c] = IF c = a + 1 THEN row ELSE commands[c]
  BY <1>3, <1>7
<1>10. PendingCommands' = PendingCommands \ {a + 1}
  BY <1>6, <1>8, <1>9 DEF PendingCommands
<1>11. PendingCommands' = ((a + 1) + 1)..Len(commands') /\ todo' = ((a + 1) + 1)..b
  BY <1>3, <1>4, <1>5, <1>8, <1>10
<1>12. AnsweredUpTo(a + 1, b)'
  <2>1. PICK c : c = a + 1
    OBVIOUS
  <2>2. AnsweredUpTo(c, b)'
    BY <1>11, <2>1 DEF AnsweredUpTo
  <2> QED BY <2>1, <2>2
<1>13. b \in 0..Len(commands') /\ a + 1 \in 0..b
  BY <1>1, <1>4, <1>8
<1>14. QueueInOrder'
  BY <1>12, <1>13 DEF QueueInOrder
<1>15. QueueTypeOK'
  BY <1>8 DEF QueueGood, QueueTypeOK, Rows
<1> QED BY <1>14, <1>15 DEF QueueGood

LEMMA RecordCommandSafe ==
  ASSUME Safe, RecordCommand
  PROVE  Safe'
<1>1. /\ "controls" \in Workers /\ Good(wmon["controls"], rows) /\ rows' = rows
      /\ UNCHANGED << mon, critical, status >> /\ (DbOk \/ DbFails)
      /\ wpc["controls"] = "status"
  BY WorkerForm DEF Safe, RecordCommand, Workers
<1>2. DbGood
  BY <1>1, DbStepGood DEF Safe, DbGood, LedgerTypeOK
<1>3. CloneGood'
  <2>1. {"next", "done"} \subseteq Points("controls") \cap Between /\ {"ok", "err"} \subseteq Results
    BY DEF Points, Between, Results
  <2>2. \/ Goto("controls", "next", wmon["controls"], "ok")
        \/ Goto("controls", "done", wmon["controls"], "err")
    BY DEF RecordCommand
  <2> QED BY <1>1, <2>1, <2>2, GotoGood DEF Safe
<1>4. QueueGood'
  <2>1. CASE UNCHANGED << commands, todo >>
    BY <2>1, QueueSteady DEF Safe
  <2>2. ASSUME NEW outcome \in {"applied", "rejected"}, todo' = todo \ {InHand},
               commands' = [commands EXCEPT ![InHand].status = outcome]
        PROVE  QueueGood'
    <3>1. todo # {}
      BY <1>1, WorkerForm DEF Safe, Between
    <3> QED BY <2>2, <3>1, AnswerInOrder DEF Safe
  <2> QED BY <2>1, <2>2 DEF RecordCommand
<1> QED BY <1>1, <1>2, <1>3, <1>4, MonSteady, PipelineSteady DEF Safe, DbGood, RecordCommand

-----------------------------------------------------------------------------
(* The merge, the operator and the shutdown. *)

LEMMA EmptyQueue ==
  ASSUME QueueGood, commands' = commands, todo' = {}
  PROVE  QueueGood'
<1>1. PICK b \in 0..Len(commands) : \E a \in 0..b : AnsweredUpTo(a, b)
  BY DEF QueueGood, QueueInOrder
<1>2. PICK a \in 0..b : AnsweredUpTo(a, b)
  BY <1>1
<1>3. Len(commands) \in Nat
  BY DEF QueueGood, QueueTypeOK
<1>4. (a + 1)..a = {} /\ a \in 0..a /\ a \in 0..Len(commands)
  BY <1>1, <1>2, <1>3
<1>5. AnsweredUpTo(a, a)'
  BY <1>2, <1>4 DEF AnsweredUpTo, PendingCommands
<1> QED BY <1>4, <1>5 DEF QueueGood, QueueTypeOK, QueueInOrder

LEMMA MergeGood ==
  ASSUME NEW m, NEW u, NEW r, Good(m, r), Good(u, r)
  PROVE  Good(MergeControls(m, u), r) /\ Good(MergeRefresh(m, u), r) /\ Good(MergeError(m), r)
<1>1. Good(MergeControls(m, u), r)
  BY DEF Good, Monitors, MergeControls
<1>2. Good(MergeRefresh(m, u), r)
  BY DEF Good, Monitors, MergeRefresh
<1>3. Good(MergeError(m), r)
  BY BlockedGood DEF MergeError
<1> QED BY <1>1, <1>2, <1>3

LEMMA ApplyWorkerOutputSafe ==
  ASSUME Safe, NEW w \in Workers, ApplyWorkerOutput(w)
  PROVE  Safe'
<1>1. UNCHANGED << commands, critical, rows, status, faults >> /\ Good(wmon[w], rows)
  BY WorkerForm DEF Safe, ApplyWorkerOutput, ledger
<1>2. MonGood'
  BY <1>1, MergeGood DEF Safe, MonGood, ApplyWorkerOutput
<1>3. CloneGood'
  <2>1. "off" \in Points(w) /\ "off" \in Between /\ "ok" \in Results
    BY DEF Points, Between, Results
  <2>2. Good(Blank, rows') /\ Goto(w, "off", Blank, "ok") /\ (w = "controls" \/ todo' = todo)
    BY <1>1, BlankGood DEF Safe, CloneGood, CloneIsRecorded, ApplyWorkerOutput
  <2> QED BY <1>1, <2>1, <2>2, GotoGood DEF Safe
<1>4. QueueGood'
  BY <1>1, QueueSteady, EmptyQueue DEF Safe, ApplyWorkerOutput
<1> QED BY <1>1, <1>2, <1>3, <1>4, LedgerSteady, PipelineSteady DEF Safe, DbGood, ApplyWorkerOutput

LEMMA EnqueueCommandSafe ==
  ASSUME Safe, NEW a \in Actions, EnqueueCommand(a)
  PROVE  Safe'
<1> DEFINE row == [action |-> a, status |-> "pending"]
           n == Len(commands)
<1>1. UNCHANGED << mon, workerVars, critical, rows, status, mode, remote, pipeline, faults >>
      /\ commands' = Append(commands, row)
  BY DEF EnqueueCommand
<1>2. row \in Rows /\ row.status = "pending"
  BY DEF Rows
<1>3. commands \in Seq(Rows) /\ n \in Nat /\ DOMAIN commands = 1..n
  BY DEF Safe, QueueGood, QueueTypeOK, Rows
<1> HIDE DEF row
<1>4. /\ commands' \in Seq(Rows) /\ Len(commands') = n + 1 /\ DOMAIN commands' = 1..(n + 1)
      /\ commands'[n + 1] = row /\ \A c \in 1..n : commands'[c] = commands[c]
  BY <1>1, <1>2, <1>3
<1>5. PendingCommands' = PendingCommands \cup {n + 1}
  BY <1>2, <1>3, <1>4 DEF PendingCommands
<1>6. PICK b \in 0..Len(commands) : \E c \in 0..b : AnsweredUpTo(c, b)
  BY DEF Safe, QueueGood, QueueInOrder
<1>7. PICK c \in 0..b : AnsweredUpTo(c, b)
  BY <1>6
<1>8. PendingCommands' = (c + 1)..Len(commands') /\ todo' = (c + 1)..b
  BY <1>1, <1>3, <1>4, <1>5, <1>6, <1>7 DEF AnsweredUpTo, workerVars
<1>9. AnsweredUpTo(c, b)' /\ b \in 0..Len(commands')
  BY <1>3, <1>4, <1>6, <1>8 DEF AnsweredUpTo
<1>10. QueueTypeOK'
  BY <1>1, <1>3, <1>4 DEF Safe, QueueGood, QueueTypeOK, Rows, workerVars
<1>11. QueueGood'
  BY <1>9, <1>10 DEF QueueGood, QueueInOrder
<1> QED BY <1>1, <1>11, MonSteady, CloneSteady, LedgerSteady, PipelineSteady DEF Safe, DbGood

LEMMA RemoteAndShutdownSafe ==
  ASSUME Safe, RemoteChanges \/ Shutdown
  PROVE  Safe'
<1>1. UNCHANGED << mon, workerVars, ledger, pipeline, faults >>
  BY DEF RemoteChanges, Shutdown
<1>2. mode' \in {"run", "drain", "stopped"} /\ remote' \in RemoteStates
  BY DEF RemoteChanges, Shutdown, Safe, PipelineTypeOK
<1>3. PipelineTypeOK'
  BY <1>1, <1>2 DEF Safe, PipelineTypeOK, pipeline
<1> QED BY <1>1, <1>3, MonSteady, CloneSteady, QueueSteady, LedgerSteady
        DEF Safe, DbGood, ledger, workerVars

LEMMA FinishStoppedSafe ==
  ASSUME Safe, FinishStopped
  PROVE  Safe'
<1>1. UNCHANGED << mon, commands, critical, rows >> /\ (DbOk \/ DbFails) /\ todo' = {}
  BY DEF FinishStopped
<1>2. DbGood
  <2>1. faults' \in 0..MaxFaults
    BY <1>1, DbStepGood DEF Safe
  <2>2. mon.state \in States
    BY DEF Safe, MonGood, Good, Monitors
  <2>3. status' \in States \cup {"live_stopped"}
    BY <2>2 DEF FinishStopped, Safe, LedgerTypeOK
  <2> QED BY <1>1, <2>1, <2>3 DEF Safe, DbGood, LedgerTypeOK
<1>3. CloneGood'
  <2>1. Good(Blank, rows') /\ "disarmed" \in rows'
    BY <1>1, BlankGood DEF Safe, CloneGood, CloneIsRecorded
  <2> QED BY <2>1 DEF FinishStopped, CloneGood, CloneIsRecorded, WorkerTypeOK, Good, Workers
<1>4. PipelineTypeOK'
  BY ControlAssumption DEF FinishStopped, Safe, PipelineTypeOK
<1> QED BY <1>1, <1>2, <1>3, <1>4, MonSteady, EmptyQueue DEF Safe, DbGood

-----------------------------------------------------------------------------
(* Decisions, batches and feedback. *)

Updates == [update : {"none", "disarmed", "unknown_order"}, cargo : BOOLEAN]

LEMMA MarkBlockedGood ==
  ASSUME NEW m, NEW r, Good(m, r)
  PROVE  Good(MarkBlocked(m), r)
BY BlockedGood DEF MarkBlocked

\* An evaluation, a full queue or a dropped decision.
LEMMA DecisionsSafe ==
  ASSUME Safe, EnqueueEvaluation \/ Backpressure \/ DecisionDropped
  PROVE  Safe'
<1>1. UNCHANGED << workerVars, ledger, mode, remote, feedback, filled, faults >>
      /\ mon' \in {mon, MarkBlocked(mon)}
  BY DEF EnqueueEvaluation, Backpressure, DecisionDropped, pipeline
<1>2. permits' \in 0..MaxPermits
  BY ControlAssumption
     DEF EnqueueEvaluation, Backpressure, DecisionDropped, pipeline, Safe, PipelineTypeOK
<1>3. MonGood'
  BY <1>1, MarkBlockedGood DEF Safe, MonGood, ledger
<1>4. PipelineTypeOK'
  BY <1>1, <1>2 DEF Safe, PipelineTypeOK
<1> QED BY <1>1, <1>3, <1>4, CloneSteady, QueueSteady, LedgerSteady
        DEF Safe, DbGood, ledger, workerVars

LEMMA FinishBatchSafe ==
  ASSUME Safe, FinishBatch
  PROVE  Safe'
<1>1. PICK u \in {"none", "disarmed", "unknown_order"}, cargo \in BOOLEAN :
        /\ feedback' = Append(feedback, [update |-> u, cargo |-> cargo])
        /\ filled' \in IF u = "none" THEN {filled, TRUE} ELSE {filled}
        /\ \/ u = "none" /\ DbOk /\ UNCHANGED << critical, rows >>
           \/ u = "disarmed" /\ DbFails /\ UNCHANGED << critical, rows >>
           \/ /\ u = "unknown_order"
              /\ critical' \in {critical, TRUE}
              /\ \/ DbOk /\ RecordState("unknown_order")
                 \/ DbFails /\ UNCHANGED rows
  BY DEF FinishBatch
<1>2. UNCHANGED << mon, workerVars, commands, status, mode, remote >> /\ permits > 0
      /\ permits' = permits - 1
  BY DEF FinishBatch
<1>3. DbGood
  <2>1. faults' \in 0..MaxFaults
    BY <1>1, DbStepGood DEF Safe
  <2>2. "unknown_order" \in States
    BY DEF States
  <2> QED BY <1>1, <1>2, <2>1, <2>2 DEF Safe, DbGood, LedgerTypeOK, RecordState
<1>4. PipelineTypeOK'
  <2>1. feedback' \in Seq(Updates)
    <3>1. [update |-> u, cargo |-> cargo] \in Updates /\ feedback \in Seq(Updates)
      BY DEF Updates, Safe, PipelineTypeOK
    <3> QED BY <1>1, <3>1
  <2>2. filled' \in BOOLEAN
    BY <1>1 DEF Safe, PipelineTypeOK
  <2>3. permits' \in 0..MaxPermits
    BY <1>2, ControlAssumption DEF Safe, PipelineTypeOK
  <2> QED BY <1>2, <2>1, <2>2, <2>3 DEF Safe, PipelineTypeOK, Updates
<1> QED BY <1>2, <1>3, <1>4, MonSteady, CloneSteady, QueueSteady DEF Safe, DbGood, workerVars

LEMMA VerifierAlarmSafe ==
  ASSUME Safe, VerifierAlarm
  PROVE  Safe'
<1>1. UNCHANGED << mon, workerVars, commands, rows, status, mode, remote, pipeline, faults >>
      /\ critical' = TRUE
  BY DEF VerifierAlarm
<1>2. DbGood
  BY <1>1 DEF Safe, DbGood, LedgerTypeOK
<1> QED BY <1>1, <1>2, MonSteady, CloneSteady, QueueSteady, PipelineSteady
        DEF Safe, DbGood, workerVars

LEMMA ApplyFeedbackSafe ==
  ASSUME Safe, ApplyFeedback
  PROVE  Safe'
<1>1. UNCHANGED << workerVars, ledger, mode, remote, permits, filled, faults >>
      /\ feedback # << >> /\ feedback' = Tail(feedback) /\ feedback \in Seq(Updates)
  BY DEF ApplyFeedback, Safe, PipelineTypeOK, Updates
<1>2. Head(feedback) \in Updates /\ feedback' \in Seq(Updates)
  BY <1>1
<1>3. MonGood'
  <2>1. rows' = rows /\ "disarmed" \in rows
    BY <1>1 DEF ledger, Safe, CloneGood, CloneIsRecorded
  <2>2. CASE mon' \in {mon, MarkBlocked(mon)}
    BY <2>1, <2>2, MarkBlockedGood DEF Safe, MonGood
  <2>3. ASSUME NEW u \in {"disarmed", "unknown_order"},
               mon' = [mon EXCEPT !.state = u, !.blocked = TRUE]
        PROVE  MonGood'
    BY <2>1, <2>3 DEF Safe, MonGood, Good, Monitors, States
  <2> QED BY <1>2, <2>2, <2>3 DEF ApplyFeedback, Updates
<1>4. PipelineTypeOK'
  BY <1>1, <1>2 DEF Safe, PipelineTypeOK, Updates
<1> QED BY <1>1, <1>3, <1>4, CloneSteady, QueueSteady, LedgerSteady
        DEF Safe, DbGood, ledger, workerVars

-----------------------------------------------------------------------------

LEMMA WorkerStepSafe ==
  ASSUME Safe, NEW w \in Workers, WorkerStep(w)
  PROVE  Safe'
BY CheckReconciliationSafe, FetchFailsSafe, EvaluateSafe, HaltSafe, ReadCommandsSafe,
   NextCommandSafe, ChangeStateSafe, RecordCommandSafe DEF WorkerStep, RefreshStep

LEMMA NextSafe ==
  ASSUME Safe, [Next]_vars
  PROVE  Safe'
<1>1. CASE Next
  BY <1>1, LiveControlPollSafe, LiveRemotePollSafe, WorkerStepSafe, ApplyWorkerOutputSafe,
     EnqueueCommandSafe, RemoteAndShutdownSafe, FinishStoppedSafe, DecisionsSafe,
     FinishBatchSafe, VerifierAlarmSafe, ApplyFeedbackSafe DEF Next
<1>2. CASE UNCHANGED vars
  BY <1>2, MonSteady, CloneSteady, QueueSteady, LedgerSteady, PipelineSteady
     DEF vars, Safe, DbGood, ledger, workerVars
<1> QED BY <1>1, <1>2

LEMMA InitSafe ==
  ASSUME Init
  PROVE  Safe
<1>1. rows = {"disarmed"} /\ Good(Blank, rows)
  BY BlankGood DEF Init
<1>a. Good([Blank EXCEPT !.blocked = TRUE], rows)
  BY <1>1, BlockedGood
<1>2. MonGood
  BY <1>1, <1>a DEF Init, MonGood
<1>3. CloneGood
  BY <1>1 DEF Init, CloneGood, CloneIsRecorded, WorkerTypeOK, Good, Workers
<1>4. QueueGood
  <2>1. commands = << >> /\ Len(commands) = 0 /\ DOMAIN commands = {} /\ todo = {}
    BY DEF Init
  <2>2. AnsweredUpTo(0, 0) /\ 0 \in 0..0
    BY <2>1 DEF AnsweredUpTo, PendingCommands
  <2>3. QueueTypeOK
    BY <2>1 DEF QueueTypeOK
  <2> QED BY <2>1, <2>2, <2>3 DEF QueueGood, QueueInOrder
<1>5. LedgerTypeOK
  <2>1. critical \in BOOLEAN
    BY <1>2 DEF Init, MonGood, Good, Monitors
  <2> QED BY <2>1, ControlAssumption DEF Init, LedgerTypeOK, States
<1>6. PipelineTypeOK
  <2>1. << >> \in Seq(Updates) /\ 0 \in 0..MaxPermits
    BY ControlAssumption
  <2> QED BY <2>1 DEF Init, PipelineTypeOK, Updates
<1> QED BY <1>2, <1>3, <1>4, <1>5, <1>6 DEF Safe

LEMMA ControlInvariant == Spec => []Safe
<1>1. Init => Safe
  BY InitSafe
<1>2. Safe /\ [Next]_vars => Safe'
  BY NextSafe
<1> QED BY <1>1, <1>2, PTL DEF Spec

\* The monitor, the two clones, the command rows and the queues between the
\* main loop and its workers keep their types; a Controls worker that works on
\* a command holds one; no degradation is counted past its limit.
THEOREM ControlTypeCorrect == Spec => []TypeOK
<1>1. Safe => TypeOK
  BY DEF Safe, MonGood, Good, CloneGood, QueueGood, TypeOK
<1> QED BY <1>1, ControlInvariant, PTL

\* set_state, terminal_halt and the two merges: the state the monitor is in has
\* its live_control_state row, however clones and failures interleave.
THEOREM MonitorIsRecorded == Spec => []StateIsRecorded
<1>1. Safe => StateIsRecorded
  BY DEF Safe, MonGood, Good, StateIsRecorded
<1> QED BY <1>1, ControlInvariant, PTL

\* apply_pending_controls answers the operator's commands in request order, over
\* failed status writes, dropped workers and commands queued meanwhile.
THEOREM CommandsAnsweredInOrder == Spec => []CommandsInOrder
<1>1. Safe => CommandsInOrder
  <2> SUFFICES ASSUME Safe, NEW c \in DOMAIN commands, NEW d \in DOMAIN commands,
                      c < d, commands[c].status = "pending"
               PROVE  commands[d].status = "pending"
    BY DEF CommandsInOrder
  <2>1. PICK b \in 0..Len(commands) : \E a \in 0..b : AnsweredUpTo(a, b)
    BY DEF Safe, QueueGood, QueueInOrder
  <2>2. PICK a \in 0..b : AnsweredUpTo(a, b)
    BY <2>1
  <2>3. commands \in Seq(Rows)
    BY DEF Safe, QueueGood, QueueTypeOK, Rows
  <2>4. DOMAIN commands = 1..Len(commands) /\ Len(commands) \in Nat
    BY <2>3
  <2>5. c \in (a + 1)..Len(commands)
    BY <2>2 DEF AnsweredUpTo, PendingCommands
  <2>6. d \in (a + 1)..Len(commands)
    BY <2>1, <2>2, <2>4, <2>5
  <2> QED BY <2>2, <2>6 DEF AnsweredUpTo, PendingCommands
<1> QED BY <1>1, ControlInvariant, PTL

\* No poll, worker, merge, command or dropped decision takes the monitor out of
\* halted or unknown_order; only the feedback of a submission may
\* (merge_live_monitor_state, merge_live_remote_refresh_state).
THEOREM TerminalIsKept == Spec => MergeKeepsTerminal
<1>1. ASSUME Next, Terminal(mon.state), ~Terminal(mon'.state) PROVE ApplyFeedback
  <2>1. CASE LiveControlPoll
    BY <1>1, <2>1 DEF LiveControlPoll, ArmedFeedOutage, Terminal
  <2>2. ASSUME NEW w \in Workers, ApplyWorkerOutput(w) PROVE FALSE
    BY <1>1, <2>2 DEF ApplyWorkerOutput, MergeError, MergeControls, MergeRefresh, RiskActive,
                      Terminal
  <2>3. CASE Backpressure \/ DecisionDropped
    BY <1>1, <2>3 DEF Backpressure, DecisionDropped, MarkBlocked, RiskActive, Terminal
  <2>4. CASE mon' = mon
    BY <1>1, <2>4
  <2> QED BY <1>1, <2>1, <2>2, <2>3, <2>4
          DEF Next, LiveRemotePoll, WorkerStep, RefreshStep, CheckReconciliation, FetchFails,
              Evaluate, Halt, ReadCommands, NextCommand, ChangeState, RecordCommand,
              EnqueueCommand, RemoteChanges, Shutdown, FinishStopped, EnqueueEvaluation,
              FinishBatch, VerifierAlarm
<1>2. [Next]_vars => [Terminal(mon.state) /\ ~Terminal(mon'.state) => ApplyFeedback]_vars
  BY <1>1
<1> QED BY <1>2, PTL DEF Spec, MergeKeepsTerminal
=============================================================================
