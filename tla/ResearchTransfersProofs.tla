----------------------- MODULE ResearchTransfersProofs -----------------------
(***************************************************************************)
(* Proofs about ResearchTransfers.                                         *)
(*                                                                         *)
(* A step changes at most one transfer row, and never its destination      *)
(* while it exists; it changes at most one worker; and no step but a       *)
(* DELETE of the dashboard's files takes a whole copy away.  The safety    *)
(* invariants follow from these three, action by action.                   *)
(***************************************************************************)
EXTENDS ResearchTransfers, FiniteSetTheorems, TLAPS

RowsGood   == RowTypeOK /\ TransferNamesMachines
CopiesGood == DiskTypeOK /\ ArtifactTypeOK /\ RootsAreSound
TasksGood  == wk \in [Machines -> Tasks] /\ \A m \in Machines : WorkerIsFor(m)
Safe == RowsGood /\ CopiesGood /\ CompletedIsSound /\ TasksGood /\ CountTypeOK

LEMMA SafeIsInductiveInvariant == Safe <=> IInv
BY DEF Safe, IInv, TypeOK, RowsGood, CopiesGood, TasksGood

Resting == {"idle", "exited"}

-----------------------------------------------------------------------------
(* Changes of one row. *)

\* Row t, which was created before, becomes row.
RowChange(t, row) ==
  /\ t \in Transfers /\ row \in Rows
  /\ tr' = [tr EXCEPT ![t] = row]
  /\ tr[t].status # "none" /\ row.status # "none"
  /\ row.status # "gone" => Exists(t) /\ row.dest = tr[t].dest
  /\ row.status = "gone" => row.dest = NoMachine
RowStep == tr' = tr \/ \E t, row : RowChange(t, row)

\* What is completed after the step was so before it, is backed by a copy, or
\* was completed by a progress request of the operator.
Backed(t) == \E m \in Machines : Sound(m)' /\ (m = Dashboard \/ For(m, t))
CompletedStep ==
  \A t \in Transfers : tr'[t].status = "completed" /\ ~tr'[t].told =>
    \/ tr[t].status = "completed" /\ ~tr[t].told
       /\ tr'[t].sum = tr[t].sum /\ tr'[t].done = tr[t].done
    \/ tr'[t].sum = "verified" /\ tr'[t].done = Total /\ Backed(t)

SoundKept == \A m \in Machines : Sound(m) => Sound(m)'

LEMMA RowFact ==
  ASSUME RowTypeOK, NEW t \in Transfers
  PROVE  tr[t] \in Rows
BY DEF RowTypeOK

LEMMA RowChangeFact ==
  ASSUME RowTypeOK, NEW t, NEW row, RowChange(t, row)
  PROVE  /\ tr' \in [Transfers -> Rows] /\ tr'[t] = row
         /\ \A u \in Transfers : u # t => tr'[u] = tr[u]
BY DEF RowTypeOK, RowChange

LEMMA RowStepFact ==
  ASSUME RowTypeOK, RowStep, NEW t \in Transfers
  PROVE  /\ tr' \in [Transfers -> Rows]
         /\ tr[t].status # "none" => tr'[t].status # "none"
         /\ \A m \in Machines : For(m, t) => For(m, t)'
         /\ Exists(t)' => Exists(t) /\ tr'[t].dest = tr[t].dest
<1>1. CASE tr' = tr
  BY <1>1 DEF RowTypeOK, For, Exists
<1>2. ASSUME NEW u, NEW row, RowChange(u, row)
      PROVE  /\ tr' \in [Transfers -> Rows]
             /\ tr[t].status # "none" => tr'[t].status # "none"
             /\ \A m \in Machines : For(m, t) => For(m, t)'
             /\ Exists(t)' => Exists(t) /\ tr'[t].dest = tr[t].dest
  <2>1. tr' \in [Transfers -> Rows] /\ tr'[u] = row /\ (t # u => tr'[t] = tr[t])
    BY <1>2, RowChangeFact
  <2>2. CASE t = u
    BY <1>2, <2>1, <2>2 DEF RowChange, For, Exists
  <2>3. CASE t # u
    BY <2>1, <2>3 DEF For, Exists
  <2> QED BY <2>1, <2>2, <2>3
<1> QED BY <1>1, <1>2 DEF RowStep

LEMMA RowsKept ==
  ASSUME RowsGood, RowStep, machine' = machine
  PROVE  RowsGood'
<1>1. RowTypeOK /\ TransferNamesMachines
  BY DEF RowsGood
<1>2. tr' \in [Transfers -> Rows]
  <2>1. CASE tr' = tr
    BY <1>1, <2>1 DEF RowTypeOK
  <2>2. CASE \E t, row : RowChange(t, row)
    BY <1>1, <2>2, RowChangeFact
  <2> QED BY <2>1, <2>2 DEF RowStep
<1>3. TransferNamesMachines'
  <2> SUFFICES ASSUME NEW t \in Transfers, Exists(t)',
                      NEW m \in {Source, tr'[t].dest} \ {NoMachine}
               PROVE  Registered(m)'
    BY DEF TransferNamesMachines
  <2>1. Exists(t) /\ tr'[t].dest = tr[t].dest
    BY <1>1, RowStepFact
  <2> QED BY <1>1, <2>1 DEF TransferNamesMachines, Registered
<1> QED BY <1>1, <1>2, <1>3 DEF RowsGood, RowTypeOK

LEMMA CompletedKept ==
  ASSUME RowTypeOK, CompletedIsSound, RowStep, SoundKept, CompletedStep
  PROVE  CompletedIsSound'
<1> SUFFICES ASSUME NEW t \in Transfers, tr'[t].status = "completed", ~tr'[t].told
             PROVE  /\ tr'[t].sum = "verified" /\ tr'[t].done = Total
                    /\ \E m \in Machines : Sound(m)' /\ (m = Dashboard \/ For(m, t)')
  BY DEF CompletedIsSound
<1>1. \A m \in Machines : For(m, t) => For(m, t)'
  BY RowStepFact
<1>2. CASE /\ tr[t].status = "completed" /\ ~tr[t].told
           /\ tr'[t].sum = tr[t].sum /\ tr'[t].done = tr[t].done
  BY <1>1, <1>2 DEF CompletedIsSound, SoundKept
<1>3. CASE tr'[t].sum = "verified" /\ tr'[t].done = Total /\ Backed(t)
  BY <1>1, <1>3 DEF Backed
<1> QED BY <1>2, <1>3 DEF CompletedStep

-----------------------------------------------------------------------------
(* Changes of one worker. *)

LEMMA TasksKept ==
  ASSUME RowTypeOK, TasksGood, RowStep, SoundKept, wk' = wk
  PROVE  TasksGood'
<1>1. ASSUME NEW m \in Machines PROVE WorkerIsFor(m)'
  <2>1. WorkerIsFor(m) /\ wk'[m] = wk[m]
    BY DEF TasksGood
  <2>2. CASE wk[m].pc \notin Resting
    <3>1. wk[m].t \in Transfers /\ tr[wk[m].t].status # "none" /\ For(m, wk[m].t)
      BY <2>1, <2>2 DEF WorkerIsFor, Resting
    <3>2. PICK t : t = wk[m].t
      OBVIOUS
    <3>3. tr'[t].status # "none" /\ For(m, t)'
      BY <3>1, <3>2, RowStepFact
    <3>4. For(m, t)' <=> tr'[t].dest \in {m, NoMachine}
      BY DEF For
    <3> QED BY <2>1, <3>1, <3>2, <3>3, <3>4 DEF WorkerIsFor, SoundKept, For
  <2>3. CASE wk[m].pc \in Resting
    BY <2>1, <2>3 DEF WorkerIsFor, Resting
  <2> QED BY <2>2, <2>3
<1> QED BY <1>1 DEF TasksGood

\* Worker m, which was at a transfer, goes on with it or rests.
LEMMA TaskMoves ==
  ASSUME RowTypeOK, TasksGood, RowStep, SoundKept,
         NEW m \in Machines, NEW s \in Tasks, wk' = [wk EXCEPT ![m] = s],
         s.pc \notin Resting => wk[m].pc \notin Resting /\ s.t = wk[m].t,
         s.pc \in {"relocate", "finish"} => Sound(m)',
         s.pc = "copy" => s.file < Total
  PROVE  TasksGood'
<1>1. wk' \in [Machines -> Tasks] /\ wk'[m] = s /\ \A n \in Machines : n # m => wk'[n] = wk[n]
  BY DEF TasksGood
<1>2. ASSUME NEW n \in Machines PROVE WorkerIsFor(n)'
  <2>1. PICK t : t = wk'[n].t
    OBVIOUS
  <2>2. CASE wk'[n].pc \in Resting
    BY <2>2 DEF WorkerIsFor, Resting
  <2>3. CASE wk'[n].pc \notin Resting
    <3>1. t = wk[n].t /\ wk[n].pc \notin Resting /\ WorkerIsFor(n)
      BY <1>1, <2>1, <2>3 DEF TasksGood
    <3>2. t \in Transfers /\ tr[t].status # "none" /\ For(n, t)
      BY <3>1 DEF WorkerIsFor, Resting
    <3>3. tr'[t].status # "none" /\ For(n, t)'
      BY <3>2, RowStepFact
    <3>4. For(n, t)' <=> tr'[t].dest \in {n, NoMachine}
      BY DEF For
    <3>5. /\ wk'[n].pc \in {"relocate", "finish"} => Sound(n)'
          /\ wk'[n].pc = "copy" => wk'[n].file < Total
      BY <1>1, <3>1 DEF WorkerIsFor, SoundKept
    <3> QED BY <2>1, <3>2, <3>3, <3>4, <3>5 DEF WorkerIsFor, For
  <2> QED BY <2>2, <2>3
<1> QED BY <1>1, <1>2 DEF TasksGood

-----------------------------------------------------------------------------
(* Steps that leave the copies alone. *)

LEMMA CopiesKept ==
  ASSUME CopiesGood, UNCHANGED <<art, files, requests>>
  PROVE  CopiesGood' /\ SoundKept
BY DEF CopiesGood, DiskTypeOK, ArtifactTypeOK, RootsAreSound, SoundKept, Sound, Whole,
       verify_artifact, ArtifactExists, files, requests

\* A step of a worker or of the operator on one transfer row.
LEMMA QuietCopies ==
  ASSUME Safe, UNCHANGED <<art, files, requests, machine>>, RowStep, CompletedStep,
         CountTypeOK', SoundKept => TasksGood'
  PROVE  Safe'
BY CopiesKept, RowsKept, CompletedKept DEF Safe, RowsGood

\* A row that exists gets another status, and is not completed by it.
LEMMA Restated ==
  ASSUME RowTypeOK, NEW t \in Transfers, Exists(t), NEW row \in Rows, row.dest = tr[t].dest,
         row.status \notin {"none", "gone", "completed"}, tr' = [tr EXCEPT ![t] = row]
  PROVE  RowStep /\ CompletedStep
<1>1. RowChange(t, row)
  BY DEF RowChange, Exists
<1>2. tr'[t] = row /\ \A u \in Transfers : u # t => tr'[u] = tr[u]
  BY <1>1, RowChangeFact
<1> QED BY <1>1, <1>2 DEF RowStep, CompletedStep

LEMMA Untouched ==
  ASSUME tr' = tr
  PROVE  RowStep /\ CompletedStep
BY DEF RowStep, CompletedStep

LEMMA Acceptance ==
  ASSUME RowTypeOK, NEW t \in Transfers, NEW status \in Status, NEW done \in Nat,
         NEW sum \in Sums, Accepts(t, status, done)
  PROVE  /\ [tr[t] EXCEPT !.status = status, !.done = done, !.sum = sum] \in Rows
         /\ done \in 0..Total /\ Exists(t)
<1>1. tr[t] \in Rows
  BY RowFact
<1>2. done \in 0..Total
  BY TransferAssumption DEF Accepts
<1>3. Exists(t)
  BY DEF Accepts
<1> QED BY <1>1, <1>2, <1>3 DEF Rows, Sums

\* A progress call that is accepted and does not complete the row.
LEMMA ProgressAccepted ==
  ASSUME RowTypeOK, NEW t \in Transfers, NEW status \in {"running", "retryable"},
         NEW done \in Nat, NEW sum \in Sums, Accepts(t, status, done),
         Write(t, status, done, sum)
  PROVE  RowStep /\ CompletedStep
<1> DEFINE row == [tr[t] EXCEPT !.status = status, !.done = done, !.sum = sum]
<1>1. row \in Rows /\ Exists(t) /\ status \in Status
  BY Acceptance DEF Status
<1>2. tr[t] \in Rows
  BY RowFact
<1>3. row.dest = tr[t].dest /\ row.status = status
  BY <1>2 DEF Rows
<1>4. tr' = [tr EXCEPT ![t] = row]
  BY DEF Write
<1> HIDE DEF row
<1> QED BY <1>1, <1>3, <1>4, Restated

\* One that completes it, with a copy to back it.
LEMMA Completion ==
  ASSUME RowTypeOK, NEW t \in Transfers, Accepts(t, "completed", Total), Backed(t),
         tr' = [tr EXCEPT ![t] = [tr[t] EXCEPT !.status = "completed", !.done = Total,
                                               !.sum = "verified"]]
  PROVE  RowStep /\ CompletedStep
<1> DEFINE row == [tr[t] EXCEPT !.status = "completed", !.done = Total, !.sum = "verified"]
<1>1. row \in Rows /\ Exists(t)
  BY Acceptance, TransferAssumption DEF Status, Sums
<1>2. tr[t] \in Rows
  BY RowFact
<1>3. row.dest = tr[t].dest /\ row.status = "completed" /\ row.sum = "verified"
      /\ row.done = Total
  BY <1>2 DEF Rows
<1>4. tr' = [tr EXCEPT ![t] = row]
  OBVIOUS
<1> HIDE DEF row
<1>5. RowChange(t, row)
  BY <1>1, <1>3, <1>4 DEF RowChange, Exists
<1>6. tr'[t] = row /\ \A u \in Transfers : u # t => tr'[u] = tr[u]
  BY <1>5, RowChangeFact
<1>7. CompletedStep
  BY <1>3, <1>6 DEF CompletedStep
<1> QED BY <1>5, <1>7 DEF RowStep

-----------------------------------------------------------------------------
(* The worker of a machine. *)

LEMMA TaskFact ==
  ASSUME Safe, NEW m \in Machines
  PROVE  /\ wk[m] \in Tasks /\ disk[m] \subseteq Files /\ Idle \in Tasks /\ Stopped \in Tasks
         /\ wk[m].pc \notin Resting => wk[m].t \in Transfers /\ For(m, wk[m].t)
         /\ Idle.pc \in Resting /\ Stopped.pc \in Resting
         /\ \A pc \in Points : /\ [wk[m] EXCEPT !.pc = pc] \in Tasks
                               /\ [wk[m] EXCEPT !.pc = pc].pc = pc
                               /\ [wk[m] EXCEPT !.pc = pc].t = wk[m].t
<1>1. wk[m] \in Tasks /\ disk[m] \subseteq Files /\ WorkerIsFor(m)
  BY DEF Safe, TasksGood, CopiesGood, DiskTypeOK
<1>2. Idle \in Tasks /\ Idle.pc = "idle"
  BY TransferAssumption DEF Idle, Tasks, Points, Paths
<1>3. Stopped \in Tasks /\ Stopped.pc = "exited"
  BY TransferAssumption DEF Idle, Stopped, Tasks, Points, Paths
<1> QED BY <1>1, <1>2, <1>3 DEF WorkerIsFor, Resting, Tasks

\* Worker m goes to another point of its task.
LEMMA GotoKept ==
  ASSUME Safe, RowStep, SoundKept, NEW m \in Machines, wk[m].pc \notin Resting,
         NEW pc \in Points \ {"copy"}, Goto(m, pc), pc \in {"relocate", "finish"} => Sound(m)'
  PROVE  TasksGood'
<1> DEFINE s == [wk[m] EXCEPT !.pc = pc]
<1>1. s \in Tasks /\ s.pc = pc /\ s.t = wk[m].t /\ wk' = [wk EXCEPT ![m] = s]
  BY TaskFact DEF Goto
<1> HIDE DEF s
<1> QED BY <1>1, TaskMoves DEF Safe, RowsGood

\* ... or to rest.
LEMMA RestKept ==
  ASSUME Safe, RowStep, SoundKept, NEW m \in Machines, NEW s \in {Idle, Stopped},
         wk' = [wk EXCEPT ![m] = s]
  PROVE  TasksGood'
<1>1. s \in Tasks /\ s.pc \in Resting
  BY TaskFact
<1> QED BY <1>1, TaskMoves DEF Safe, RowsGood, Resting

LEMMA SteadyCount ==
  ASSUME CountTypeOK, UNCHANGED <<cmds, faults>> \/ (Fault /\ UNCHANGED cmds)
                        \/ (Command /\ UNCHANGED faults)
  PROVE  CountTypeOK'
BY TransferAssumption DEF CountTypeOK, Fault, Command

\* Worker m goes to another point of its task, having gone through some files.
GotoFile(m, pc, file) == wk' = [wk EXCEPT ![m] = [@ EXCEPT !.pc = pc, !.file = file]]

LEMMA GotoFileKept ==
  ASSUME Safe, RowStep, SoundKept, NEW m \in Machines, wk[m].pc \notin Resting,
         NEW pc \in Points \ {"relocate", "finish"}, NEW file \in 0..Total,
         GotoFile(m, pc, file), pc = "copy" => file < Total
  PROVE  TasksGood'
<1> DEFINE s == [wk[m] EXCEPT !.pc = pc, !.file = file]
<1>a. wk[m] \in Tasks
  BY TaskFact
<1>1. s \in Tasks /\ s.pc = pc /\ s.t = wk[m].t /\ s.file = file
  BY <1>a DEF Tasks
<1>b. wk' = [wk EXCEPT ![m] = s]
  BY DEF GotoFile
<1> HIDE DEF s
<1> QED BY <1>1, <1>b, TaskMoves DEF Safe, RowsGood

\* Where a report leaves worker m.
LEMMA ReportedKept ==
  ASSUME Safe, RowStep, SoundKept, NEW m \in Machines, wk[m].pc \notin Resting,
         NEW pc \in {"verify", "copy"}, NEW file \in 0..Total,
         GotoFile(m, pc, file) \/ Goto(m, "failed"), pc = "copy" => file < Total
  PROVE  TasksGood'
<1>1. pc \in Points \ {"relocate", "finish"} /\ "failed" \in Points \ {"copy"}
  BY DEF Points
<1>2. CASE GotoFile(m, pc, file)
  BY <1>1, <1>2, GotoFileKept
<1>3. CASE Goto(m, "failed")
  BY <1>1, <1>3, GotoKept
<1> QED BY <1>2, <1>3

LEMMA ReportKept ==
  ASSUME Safe, NEW m \in Machines, wk[m].pc \notin Resting, NEW done \in Nat,
         NEW pc \in Points, NEW file \in 0..Total, Report(m, done, pc, file)
  PROVE  RowStep /\ CompletedStep /\ (GotoFile(m, pc, file) \/ Goto(m, "failed"))
<1>1. wk[m].t \in Transfers /\ RowTypeOK
  BY TaskFact DEF Safe, RowsGood
<1>2. CASE Accepts(wk[m].t, "running", done)
  <2>1. Write(wk[m].t, "running", done, "verifying") /\ GotoFile(m, pc, file)
    BY <1>2 DEF Report, GotoFile
  <2> QED BY <1>1, <1>2, <2>1, ProgressAccepted DEF Sums
<1>3. CASE ~Accepts(wk[m].t, "running", done)
  BY <1>3, Untouched DEF Report
<1> QED BY <1>2, <1>3

\* A claim, with or without its answer.
LEMMA ClaimedRow ==
  ASSUME RowTypeOK, NEW t \in Transfers, Exists(t), NEW status \in {"running", "retryable"},
         NEW sum \in Sums, tr' = [tr EXCEPT ![t] = [@ EXCEPT !.status = status, !.sum = sum]]
  PROVE  RowStep /\ CompletedStep
<1> DEFINE row == [tr[t] EXCEPT !.status = status, !.sum = sum]
<1>1. tr[t] \in Rows /\ tr' = [tr EXCEPT ![t] = row]
  BY RowFact
<1>2. row \in Rows /\ row.dest = tr[t].dest /\ row.status = status
  BY <1>1 DEF Rows, Status, Sums
<1> HIDE DEF row
<1> QED BY <1>1, <1>2, Restated

LEMMA ClaimSafe ==
  ASSUME Safe, NEW m \in Machines, Claim(m)
  PROVE  Safe'
<1>1. PICK t \in Transfers :
        /\ Claimable(m, t)
        /\ tr' = [tr EXCEPT ![t] = [@ EXCEPT !.status = "running", !.sum = "pending"]]
        /\ wk' = [wk EXCEPT ![m] = [pc |-> "claimed", t |-> t, root |-> Export,
                                    done |-> tr[t].done, file |-> 0]]
  BY DEF Claim
<1>2. UNCHANGED <<art, files, machine, requests, cmds, faults>>
  BY DEF Claim
<1>3. RowTypeOK /\ tr[t] \in Rows /\ Exists(t) /\ For(m, t)
  BY <1>1, RowFact DEF Safe, RowsGood, Claimable, Exists
<1>4. RowStep /\ CompletedStep
  BY <1>1, <1>3, ClaimedRow DEF Sums
<1> DEFINE s == [pc |-> "claimed", t |-> t, root |-> Export, done |-> tr[t].done,
                  file |-> 0]
<1>5. s \in Tasks /\ s.pc = "claimed" /\ s.t = t
  BY <1>3, TransferAssumption DEF Tasks, Points, Paths, Rows
<1>6. wk' = [wk EXCEPT ![m] = s]
  BY <1>1
<1> HIDE DEF s
<1>7. ASSUME SoundKept PROVE TasksGood'
  <2>1. wk' \in [Machines -> Tasks] /\ wk'[m] = s /\ \A n \in Machines : n # m => wk'[n] = wk[n]
    BY <1>5, <1>6 DEF Safe, TasksGood
  <2>2. tr'[t].status # "none" /\ For(m, t)' /\ (For(m, t)' <=> tr'[t].dest \in {m, NoMachine})
    BY <1>3, <1>4, RowStepFact DEF Exists, For
  <2>3. WorkerIsFor(m)'
    BY <1>5, <2>1, <2>2 DEF WorkerIsFor, For
  <2>4. ASSUME NEW n \in Machines, n # m PROVE WorkerIsFor(n)'
    <3>1. WorkerIsFor(n) /\ wk'[n] = wk[n]
      BY <2>1, <2>4 DEF Safe, TasksGood
    <3>2. PICK u : u = wk[n].t
      OBVIOUS
    <3>3. CASE wk[n].pc \in Resting
      BY <3>1, <3>3 DEF WorkerIsFor, Resting
    <3>4. CASE wk[n].pc \notin Resting
      <4>1. u \in Transfers /\ tr[u].status # "none" /\ For(n, u)
        BY <3>1, <3>2, <3>4 DEF WorkerIsFor, Resting
      <4>2. tr'[u].status # "none" /\ For(n, u)' /\ (For(n, u)' <=> tr'[u].dest \in {n, NoMachine})
        BY <1>3, <1>4, <4>1, RowStepFact DEF For
      <4>3. wk[n].pc \in {"relocate", "finish"} => Sound(n)'
        BY <1>7, <3>1 DEF WorkerIsFor, SoundKept
      <4> QED BY <3>1, <3>2, <4>1, <4>2, <4>3 DEF WorkerIsFor, For
    <3> QED BY <3>3, <3>4
  <2> QED BY <2>1, <2>3, <2>4 DEF TasksGood
<1> QED BY <1>2, <1>4, <1>7, QuietCopies, SteadyCount DEF Safe

LEMMA ClaimAnswerLostSafe ==
  ASSUME Safe, NEW m \in Machines, ClaimAnswerLost(m)
  PROVE  Safe'
<1>1. PICK t \in Transfers :
        /\ Claimable(m, t)
        /\ tr' = [tr EXCEPT ![t] = [@ EXCEPT !.status = "running", !.sum = "pending"]]
  BY DEF ClaimAnswerLost
<1>2. UNCHANGED <<art, files, machine, requests, cmds, wk>> /\ Fault
  BY DEF ClaimAnswerLost
<1>3. RowTypeOK /\ Exists(t)
  BY <1>1 DEF Safe, RowsGood, Claimable, Exists
<1>4. RowStep /\ CompletedStep
  BY <1>1, <1>3, ClaimedRow DEF Sums
<1> QED BY <1>2, <1>3, <1>4, QuietCopies, TasksKept, SteadyCount DEF Safe

LEMMA RecoverStaleSafe ==
  ASSUME Safe, NEW m \in Machines, RecoverStale(m)
  PROVE  Safe'
<1>1. PICK t \in Transfers :
        /\ tr[t].status = "running"
        /\ tr' = [tr EXCEPT ![t] = [@ EXCEPT !.status = "retryable", !.sum = "failed"]]
        /\ UNCHANGED faults \/ Fault
  BY DEF RecoverStale, Fault
<1>2. UNCHANGED <<art, files, machine, requests, cmds, wk>>
  BY DEF RecoverStale
<1>3. RowTypeOK /\ Exists(t)
  BY <1>1 DEF Safe, RowsGood, Exists
<1>4. RowStep /\ CompletedStep
  BY <1>1, <1>3, ClaimedRow DEF Sums
<1> QED BY <1>1, <1>2, <1>3, <1>4, QuietCopies, TasksKept, SteadyCount DEF Safe

LEMMA ReadArtifactSafe ==
  ASSUME Safe, NEW m \in Machines, ReadArtifact(m)
  PROVE  Safe'
<1> DEFINE pc == IF ArtifactExists THEN "start" ELSE "failed"
           s == [wk[m] EXCEPT !.pc = pc, !.root = art.root]
<1>1. UNCHANGED <<tr, art, files, machine, requests, cmds, faults>> /\ wk[m].pc = "claimed"
      /\ wk' = [wk EXCEPT ![m] = s]
  BY DEF ReadArtifact
<1>2. RowStep /\ CompletedStep
  BY <1>1, Untouched
<1>3. pc \in {"start", "failed"} /\ pc \in Points
  BY DEF Points
<1>4. wk[m] \in Tasks /\ art.root \in Paths
  BY TaskFact DEF Safe, CopiesGood, ArtifactTypeOK
<1> HIDE DEF pc
<1>5. s \in Tasks /\ s.pc = pc /\ s.t = wk[m].t
  BY <1>3, <1>4 DEF Tasks
<1> HIDE DEF s
<1>6. ASSUME SoundKept PROVE TasksGood'
  BY <1>1, <1>2, <1>3, <1>5, <1>6, TaskMoves DEF Safe, RowsGood, Resting
<1> QED BY <1>1, <1>2, <1>6, QuietCopies, SteadyCount DEF Safe

\* The bytes that files on disk count for.
LEMMA BytesFact ==
  ASSUME NEW there \in SUBSET Files
  PROVE  Cardinality(there) \in 0..Total
<1>1. IsFiniteSet(Files) /\ Cardinality(Files) = Total
  BY TransferAssumption, FS_Interval DEF Files
<1>2. IsFiniteSet(there) /\ Cardinality(there) <= Total
  BY <1>1, FS_Subset
<1>3. Cardinality(there) \in Nat
  BY <1>2, FS_CardinalityType
<1> QED BY <1>2, <1>3, TransferAssumption

LEMMA StartCopySafe ==
  ASSUME Safe, NEW m \in Machines, StartCopy(m)
  PROVE  Safe'
<1>1. UNCHANGED <<art, files, machine, requests, cmds, faults>> /\ wk[m].pc = "start"
      /\ wk[m].pc \notin Resting /\ 0 \in 0..Total /\ 0 < Total
  BY TransferAssumption DEF StartCopy, Resting, Points
<1> DEFINE high == Higher(Bytes(m), wk[m].done)
           next == IF SamePath(m) THEN "verify" ELSE "copy"
<1>2. high \in Nat /\ next \in {"verify", "copy"} /\ next \in Points
  <2>a. wk[m] \in Tasks /\ disk[m] \in SUBSET Files
    BY TaskFact
  <2>1. Bytes(m) \in Nat /\ wk[m].done \in Nat
    BY <2>a, BytesFact, TransferAssumption DEF Tasks, Bytes
  <2> QED BY <2>1 DEF Higher, Points
<1>3. \/ Goto(m, "failed") /\ tr' = tr
      \/ Report(m, high, next, 0)
  BY DEF StartCopy
<1> HIDE DEF high, next
<1>4. RowStep /\ CompletedStep /\ (GotoFile(m, next, 0) \/ Goto(m, "failed"))
  BY <1>1, <1>2, <1>3, Untouched, ReportKept
<1>5. ASSUME SoundKept PROVE TasksGood'
  BY <1>1, <1>2, <1>4, <1>5, ReportedKept
<1> QED BY <1>1, <1>4, <1>5, QuietCopies, SteadyCount DEF Safe

\* Files are added under the work root of m, and a whole copy is left alone.
LEMMA FilesAdded ==
  ASSUME Safe, NEW m \in Machines, NEW there \in SUBSET Files,
         disk' = [disk EXCEPT ![m] = there], disk[m] = Files => there = Files, UNCHANGED <<bad, wiped, art, requests>>
  PROVE  CopiesGood' /\ SoundKept
<1>1. DiskTypeOK /\ ArtifactTypeOK /\ RootsAreSound
  BY DEF Safe, CopiesGood
<1>2. DiskTypeOK' /\ ArtifactTypeOK'
  BY <1>1 DEF DiskTypeOK, ArtifactTypeOK, requests
<1>3. SoundKept
  <2> SUFFICES ASSUME NEW k \in Machines, Sound(k) PROVE Sound(k)'
    BY DEF SoundKept
  <2>1. disk[k] = Files => disk'[k] = Files
    BY <1>1 DEF DiskTypeOK
  <2> QED BY <2>1 DEF Sound, Whole, verify_artifact
<1>4. RootsAreSound'
  BY <1>1, <1>3 DEF RootsAreSound, SoundKept, ArtifactExists, requests
<1> QED BY <1>1, <1>2, <1>3, <1>4 DEF CopiesGood

\* A step of a worker that also adds files.
LEMMA CopySafe ==
  ASSUME Safe, NEW m \in Machines, CopiesGood', SoundKept, RowStep, CompletedStep, CountTypeOK',
         TasksGood', machine' = machine
  PROVE  Safe'
BY RowsKept, CompletedKept DEF Safe, RowsGood

LEMMA CopyFileSafe ==
  ASSUME Safe, NEW m \in Machines, CopyFile(m)
  PROVE  Safe'
<1> DEFINE file == wk[m].file + 1
           there == disk[m] \cup {file}
           next == IF file = Total THEN "verify" ELSE "copy"
<1>1. UNCHANGED <<art, bad, wiped, machine, requests, cmds, faults>> /\ wk[m].pc \notin Resting
      /\ wk[m].pc = "copy" /\ disk' = [disk EXCEPT ![m] = there]
      /\ Report(m, Cardinality(there), next, file)
  BY DEF CopyFile, Resting
<1>2. wk[m].file < Total
  BY <1>1, TaskFact DEF Safe, TasksGood, WorkerIsFor
<1>a. wk[m] \in Tasks /\ disk[m] \subseteq Files
  BY TaskFact
<1>b. wk[m].file \in Nat /\ Total \in Nat
  BY <1>a, TransferAssumption DEF Tasks
<1>3. file \in 0..Total /\ file \in Files /\ there \in SUBSET Files
      /\ (disk[m] = Files => there = Files)
  BY <1>2, <1>a, <1>b DEF Files
<1>4. next \in {"verify", "copy"} /\ next \in Points /\ (next = "copy" => file < Total)
  BY <1>3, TransferAssumption DEF Points
<1> HIDE DEF file, there, next
<1>5. Cardinality(there) \in Nat
  BY <1>3, BytesFact, TransferAssumption
<1>6. CopiesGood' /\ SoundKept
  BY <1>1, <1>3, FilesAdded
<1>7. RowStep /\ CompletedStep /\ (GotoFile(m, next, file) \/ Goto(m, "failed"))
  BY <1>1, <1>3, <1>4, <1>5, ReportKept
<1>8. TasksGood'
  BY <1>1, <1>3, <1>4, <1>6, <1>7, ReportedKept
<1> QED BY <1>1, <1>6, <1>7, <1>8, CopySafe, SteadyCount DEF Safe

LEMMA RsyncSafe ==
  ASSUME Safe, NEW m \in Machines, Rsync(m)
  PROVE  Safe'
<1>1. UNCHANGED <<art, bad, wiped, machine, requests, cmds, faults>> /\ wk[m].pc \notin Resting
      /\ Total \in Nat /\ 0 \in 0..Total /\ Files \in SUBSET Files
      /\ {"verify", "failed"} \subseteq Points \ {"copy"}
  BY TransferAssumption DEF Rsync, Resting, Points
<1>2. CASE /\ disk' = [disk EXCEPT ![m] = Files]
           /\ Report(m, Total, "verify", 0)
  <2>1. CopiesGood' /\ SoundKept
    BY <1>1, <1>2, FilesAdded
  <2>2. RowStep /\ CompletedStep /\ (GotoFile(m, "verify", 0) \/ Goto(m, "failed"))
    BY <1>1, <1>2, ReportKept
  <2>3. TasksGood'
    BY <1>1, <2>1, <2>2, ReportedKept
  <2> QED BY <1>1, <2>1, <2>2, <2>3, CopySafe, SteadyCount DEF Safe
<1>3. CASE Goto(m, "failed") /\ UNCHANGED <<tr, disk>>
  <2>1. UNCHANGED files /\ RowStep /\ CompletedStep
    BY <1>1, <1>3, Untouched DEF files
  <2>2. ASSUME SoundKept PROVE TasksGood'
    BY <1>1, <1>3, <2>1, <2>2, GotoKept
  <2> QED BY <1>1, <2>1, <2>2, QuietCopies, SteadyCount DEF Safe
<1> QED BY <1>2, <1>3 DEF Rsync

LEMMA RsyncBreaksSafe ==
  ASSUME Safe, NEW m \in Machines, RsyncBreaks(m)
  PROVE  Safe'
<1>1. UNCHANGED <<tr, art, bad, wiped, machine, requests, cmds>> /\ wk[m].pc \notin Resting
      /\ Fault /\ Goto(m, "failed") /\ "failed" \in Points \ {"copy"}
  BY DEF RsyncBreaks, Resting, Fault, Points
<1>2. disk[m] \subseteq Files
  BY TaskFact
<1>3. PICK some \in SUBSET Files \ {Files} :
        disk[m] \subseteq some /\ disk' = [disk EXCEPT ![m] = some]
  BY DEF RsyncBreaks
<1>4. some \in SUBSET Files /\ (disk[m] = Files => some = Files)
  BY <1>3
<1>5. CopiesGood' /\ SoundKept
  BY <1>1, <1>3, <1>4, FilesAdded
<1>6. RowStep /\ CompletedStep
  BY <1>1, Untouched
<1>7. TasksGood'
  BY <1>1, <1>5, <1>6, GotoKept
<1> QED BY <1>1, <1>5, <1>6, <1>7, CopySafe, SteadyCount DEF Safe

LEMMA VerifySafe ==
  ASSUME Safe, NEW m \in Machines, Verify(m)
  PROVE  Safe'
<1>1. UNCHANGED <<tr, art, files, machine, requests, cmds, faults>> /\ wk[m].pc \notin Resting
      /\ {"relocate", "failed"} \subseteq Points \ {"copy"}
  BY DEF Verify, Resting, Points
<1>2. RowStep /\ CompletedStep
  BY <1>1, Untouched
<1>3. ASSUME SoundKept PROVE TasksGood'
  <2>1. CASE verify_artifact(m)
    <3>1. Sound(m)' /\ Goto(m, "relocate")
      BY <1>3, <2>1 DEF Sound, Whole, SoundKept, Verify
    <3> QED BY <1>1, <1>2, <1>3, <3>1, GotoKept
  <2>2. CASE ~verify_artifact(m)
    <3>1. Goto(m, "failed")
      BY <2>2 DEF Verify
    <3> QED BY <1>1, <1>2, <1>3, <3>1, GotoKept
  <2> QED BY <2>1, <2>2
<1> QED BY <1>1, <1>2, <1>3, QuietCopies, SteadyCount DEF Safe

\* The artifact row moves to a sound copy.
LEMMA RootMoves ==
  ASSUME Safe, UNCHANGED <<files, requests>>, NEW root \in Paths,
         NEW status \in {"available", "archived", "gone"},
         art' = [root |-> root, status |-> status], root \in Machines => Sound(root)
  PROVE  CopiesGood' /\ SoundKept
<1>1. DiskTypeOK /\ ArtifactTypeOK /\ RootsAreSound
  BY DEF Safe, CopiesGood
<1>2. DiskTypeOK'
  BY <1>1 DEF DiskTypeOK, files
<1>3. ArtifactTypeOK' /\ art'.root = root
  BY <1>1 DEF ArtifactTypeOK, requests
<1>4. SoundKept
  BY DEF SoundKept, Sound, Whole, verify_artifact, files
<1>5. RootsAreSound'
  BY <1>1, <1>3, <1>4 DEF RootsAreSound, SoundKept, requests, Paths
<1> QED BY <1>2, <1>3, <1>4, <1>5 DEF CopiesGood

LEMMA RelocateSafe ==
  ASSUME Safe, NEW m \in Machines, Relocate(m) \/ RelocateAnswerLost(m)
  PROVE  Safe'
<1>1. UNCHANGED <<tr, files, machine, requests, cmds>> /\ wk[m].pc = "relocate"
      /\ (UNCHANGED faults \/ Fault) /\ art' = [root |-> m, status |-> "available"]
      /\ (Goto(m, "finish") \/ Goto(m, "failed"))
  BY DEF Relocate, RelocateAnswerLost, upsert_research_artifact
<1>2. Sound(m) /\ m \in Paths /\ {"finish", "failed"} \subseteq Points \ {"copy"} /\ wk[m].pc \notin Resting
  BY <1>1 DEF Safe, TasksGood, WorkerIsFor, Paths, Points, Resting
<1>3. CopiesGood' /\ SoundKept
  BY <1>1, <1>2, RootMoves
<1>4. RowStep /\ CompletedStep /\ Sound(m)'
  BY <1>1, <1>2, <1>3, Untouched DEF SoundKept
<1>5. TasksGood'
  BY <1>1, <1>2, <1>3, <1>4, GotoKept
<1> QED BY <1>1, <1>3, <1>4, <1>5, CopySafe, SteadyCount DEF Safe

\* The last progress call of a worker past its verification.
LEMMA WorkerCompletes ==
  ASSUME Safe, NEW m \in Machines, wk[m].pc = "finish", UNCHANGED <<art, files, requests>>,
         Accepts(wk[m].t, "completed", Total), Write(wk[m].t, "completed", Total, "verified")
  PROVE  RowStep /\ CompletedStep
<1>1. PICK t : t = wk[m].t
  OBVIOUS
<1>2. t \in Transfers /\ For(m, t) /\ Sound(m)
  BY <1>1, TaskFact DEF Safe, TasksGood, WorkerIsFor, Resting
<1>3. Sound(m)'
  BY <1>2, CopiesKept DEF Safe, SoundKept
<1>4. Backed(t)
  BY <1>2, <1>3 DEF Backed
<1>5. tr' = [tr EXCEPT ![t] = [tr[t] EXCEPT !.status = "completed", !.done = Total,
                                            !.sum = "verified"]]
  BY <1>1 DEF Write
<1> QED BY <1>1, <1>2, <1>4, <1>5, Completion DEF Safe, RowsGood

LEMMA CompleteSafe ==
  ASSUME Safe, NEW m \in Machines, Complete(m)
  PROVE  Safe'
<1>1. UNCHANGED <<art, files, machine, requests, cmds, faults>> /\ wk[m].pc = "finish"
      /\ wk[m].pc \notin Resting /\ "failed" \in Points \ {"copy"}
  BY DEF Complete, Resting, Points
<1>2. CASE Accepts(wk[m].t, "completed", Total)
  <2>1. Write(wk[m].t, "completed", Total, "verified") /\ wk' = [wk EXCEPT ![m] = Idle]
    BY <1>2 DEF Complete
  <2>2. RowStep /\ CompletedStep
    BY <1>1, <1>2, <2>1, WorkerCompletes
  <2>3. ASSUME SoundKept PROVE TasksGood'
    BY <2>1, <2>2, <2>3, RestKept
  <2> QED BY <1>1, <2>2, <2>3, QuietCopies, SteadyCount DEF Safe
<1>3. CASE ~Accepts(wk[m].t, "completed", Total)
  <2>1. Goto(m, "failed") /\ tr' = tr
    BY <1>3 DEF Complete
  <2>2. RowStep /\ CompletedStep
    BY <2>1, Untouched
  <2>3. ASSUME SoundKept PROVE TasksGood'
    BY <1>1, <2>1, <2>2, <2>3, GotoKept
  <2> QED BY <1>1, <2>2, <2>3, QuietCopies, SteadyCount DEF Safe
<1> QED BY <1>2, <1>3

LEMMA ReadFailedSafe ==
  ASSUME Safe, NEW m \in Machines, ReadFailed(m)
  PROVE  Safe'
<1>1. UNCHANGED <<tr, art, files, machine, requests, cmds, faults>> /\ wk[m].pc \notin Resting
  BY DEF ReadFailed, Resting
<1>2. RowStep /\ CompletedStep
  BY <1>1, Untouched
<1>3. ASSUME SoundKept PROVE TasksGood'
  <2>1. CASE wk' = [wk EXCEPT ![m] = Idle]
    BY <1>2, <1>3, <2>1, RestKept
  <2>2. CASE wk' = [wk EXCEPT ![m] = [@ EXCEPT !.pc = "giveback", !.done = tr[wk[m].t].done]]
    <3> DEFINE s == [wk[m] EXCEPT !.pc = "giveback", !.done = tr[wk[m].t].done]
    <3>1. wk[m] \in Tasks /\ tr[wk[m].t] \in Rows
      BY <1>1, TaskFact, RowFact DEF Safe, RowsGood
    <3>2. s \in Tasks /\ s.pc = "giveback" /\ s.t = wk[m].t
      BY <3>1 DEF Tasks, Rows, Points
    <3>3. wk' = [wk EXCEPT ![m] = s]
      BY <2>2
    <3> HIDE DEF s
    <3> QED BY <1>1, <1>2, <1>3, <3>2, <3>3, TaskMoves DEF Safe, RowsGood
  <2> QED BY <2>1, <2>2 DEF ReadFailed
<1> QED BY <1>1, <1>2, <1>3, QuietCopies, SteadyCount DEF Safe

\* The call that gives the row back.
LEMMA WorkerGivesBack ==
  ASSUME Safe, NEW m \in Machines, wk[m].pc = "giveback",
         Accepts(wk[m].t, "retryable", wk[m].done),
         Write(wk[m].t, "retryable", wk[m].done, "failed")
  PROVE  RowStep /\ CompletedStep
<1>a. wk[m] \in Tasks /\ wk[m].t \in Transfers
  BY TaskFact DEF Resting
<1>1. wk[m].t \in Transfers /\ wk[m].done \in Nat
  BY <1>a, TransferAssumption DEF Tasks
<1> QED BY <1>1, ProgressAccepted DEF Safe, RowsGood, Sums

LEMMA GiveBackSafe ==
  ASSUME Safe, NEW m \in Machines, GiveBack(m)
  PROVE  Safe'
<1>1. UNCHANGED <<art, files, machine, requests, cmds, faults>> /\ wk[m].pc = "giveback"
  BY DEF GiveBack
<1>2. RowStep /\ CompletedStep
  <2>1. CASE Accepts(wk[m].t, "retryable", wk[m].done)
    BY <1>1, <2>1, WorkerGivesBack DEF GiveBack
  <2>2. CASE ~Accepts(wk[m].t, "retryable", wk[m].done)
    BY <2>2, Untouched DEF GiveBack
  <2> QED BY <2>1, <2>2
<1>3. \E s \in {Idle, Stopped} : wk' = [wk EXCEPT ![m] = s]
  BY DEF GiveBack
<1>4. ASSUME SoundKept PROVE TasksGood'
  BY <1>2, <1>3, <1>4, RestKept
<1> QED BY <1>1, <1>2, <1>4, QuietCopies, SteadyCount DEF Safe

LEMMA CallLostSafe ==
  ASSUME Safe, NEW m \in Machines, CallLost(m)
  PROVE  Safe'
<1>1. UNCHANGED <<tr, art, files, machine, requests, cmds>> /\ Fault /\ "failed" \in Points \ {"copy"}
      /\ wk[m].pc \notin Resting
      /\ (wk' = [wk EXCEPT ![m] = Idle] \/ Goto(m, "failed"))
  BY DEF CallLost, Resting, Points, Goto
<1>2. RowStep /\ CompletedStep
  BY <1>1, Untouched
<1>3. ASSUME SoundKept PROVE TasksGood'
  BY <1>1, <1>2, <1>3, RestKept, GotoKept
<1> QED BY <1>1, <1>2, <1>3, QuietCopies, SteadyCount DEF Safe

LEMMA ProgressAnswerLostSafe ==
  ASSUME Safe, NEW m \in Machines, ProgressAnswerLost(m)
  PROVE  Safe'
<1>1. UNCHANGED <<art, files, machine, requests, cmds>> /\ Fault /\ "failed" \in Points \ {"copy"}
      /\ wk[m].pc \notin Resting /\ (wk' = [wk EXCEPT ![m] = Idle] \/ Goto(m, "failed"))
  BY DEF ProgressAnswerLost, Resting, Points
<1>2. RowStep /\ CompletedStep
  BY <1>1, WorkerCompletes, WorkerGivesBack DEF ProgressAnswerLost
<1>3. ASSUME SoundKept PROVE TasksGood'
  BY <1>1, <1>2, <1>3, RestKept, GotoKept
<1> QED BY <1>1, <1>2, <1>3, QuietCopies, SteadyCount DEF Safe

LEMMA CrashSafe ==
  ASSUME Safe, NEW m \in Machines, Crash(m)
  PROVE  Safe'
<1>1. UNCHANGED <<tr, art, disk, wiped, machine, requests, cmds>> /\ Fault
      /\ wk' = [wk EXCEPT ![m] = Stopped]
      /\ (bad' = bad \/ (bad' = bad \cup {m} /\ disk[m] # Files))
  BY DEF Crash
<1>2. RowStep /\ CompletedStep
  BY <1>1, Untouched
<1>3. SoundKept
  <2> SUFFICES ASSUME NEW k \in Machines, Sound(k) PROVE Sound(k)'
    BY DEF SoundKept
  <2> QED BY <1>1 DEF Sound, Whole, verify_artifact
<1>4. CopiesGood'
  <2>1. DiskTypeOK' /\ ArtifactTypeOK'
    BY <1>1 DEF Safe, CopiesGood, DiskTypeOK, ArtifactTypeOK, requests
  <2>2. RootsAreSound'
    BY <1>1, <1>3 DEF Safe, CopiesGood, RootsAreSound, SoundKept, ArtifactExists, requests
  <2> QED BY <2>1, <2>2 DEF CopiesGood
<1>5. TasksGood'
  BY <1>1, <1>2, <1>3, RestKept
<1> QED BY <1>1, <1>2, <1>3, <1>4, <1>5, CopySafe, SteadyCount DEF Safe

LEMMA RestartSafe ==
  ASSUME Safe, NEW m \in Machines, Restart(m)
  PROVE  Safe'
<1>1. UNCHANGED <<tr, art, files, machine, requests, cmds, faults>>
      /\ wk' = [wk EXCEPT ![m] = Idle]
  BY DEF Restart
<1>2. RowStep /\ CompletedStep
  BY <1>1, Untouched
<1>3. ASSUME SoundKept PROVE TasksGood'
  BY <1>1, <1>2, <1>3, RestKept
<1> QED BY <1>1, <1>2, <1>3, QuietCopies, SteadyCount DEF Safe

-----------------------------------------------------------------------------
(* The operator's commands on a transfer. *)

LEMMA CreateTransferSafe ==
  ASSUME Safe, NEW t \in Transfers, NEW dest \in Machines \cup {NoMachine},
         CreateTransfer(t, dest)
  PROVE  Safe'
<1> DEFINE row == [NoRow EXCEPT !.status = "queued", !.dest = dest]
<1>1. UNCHANGED <<art, files, wk, machine, requests, cmds, faults>>
      /\ tr[t].status = "none" /\ tr' = [tr EXCEPT ![t] = row]
      /\ \A m \in {Source, dest} \ {NoMachine} : Registered(m)
  BY DEF CreateTransfer
<1>2. row \in Rows /\ row.status = "queued" /\ row.dest = dest
  <2>1. 0 \in 0..Total
    BY TransferAssumption
  <2>2. NoRow \in Rows
    BY <2>1 DEF NoRow, Rows, Status, Sums
  <2> QED BY <2>2 DEF Rows, Status
<1> HIDE DEF row
<1>3. tr \in [Transfers -> Rows] /\ tr' \in [Transfers -> Rows] /\ tr'[t] = row
      /\ \A u \in Transfers : u # t => tr'[u] = tr[u]
  BY <1>1, <1>2 DEF Safe, RowsGood, RowTypeOK
<1>4. CopiesGood' /\ SoundKept
  BY <1>1, CopiesKept DEF Safe
<1>5. RowsGood'
  <2>1. ASSUME NEW u \in Transfers, Exists(u)' PROVE
          \A m \in {Source, tr'[u].dest} \ {NoMachine} : Registered(m)'
    <3>1. CASE u = t
      BY <1>1, <1>2, <1>3, <3>1 DEF Registered
    <3>2. CASE u # t
      BY <1>1, <1>3, <2>1, <3>2 DEF Safe, RowsGood, TransferNamesMachines, Registered, Exists
    <3> QED BY <3>1, <3>2
  <2>2. RowTypeOK'
    BY <1>1, <1>3 DEF Safe, RowsGood, RowTypeOK
  <2> QED BY <2>1, <2>2 DEF RowsGood, TransferNamesMachines
<1>6. CompletedIsSound'
  <2> SUFFICES ASSUME NEW u \in Transfers, tr'[u].status = "completed", ~tr'[u].told
               PROVE  /\ tr'[u].sum = "verified" /\ tr'[u].done = Total
                      /\ \E m \in Machines : Sound(m)' /\ (m = Dashboard \/ For(m, u)')
    BY DEF CompletedIsSound
  <2>1. tr'[u] = tr[u]
    BY <1>2, <1>3
  <2> QED BY <1>4, <2>1 DEF Safe, CompletedIsSound, SoundKept, For
<1>7. TasksGood'
  <2>1. ASSUME NEW m \in Machines PROVE WorkerIsFor(m)'
    <3>1. WorkerIsFor(m) /\ wk'[m] = wk[m]
      BY <1>1 DEF Safe, TasksGood
    <3>2. CASE wk[m].pc \in Resting
      BY <3>1, <3>2 DEF WorkerIsFor, Resting
    <3>3. CASE wk[m].pc \notin Resting
      <4>1. wk[m].t \in Transfers /\ wk[m].t # t /\ tr[wk[m].t].status # "none"
            /\ For(m, wk[m].t)
        BY <1>1, <3>1, <3>3 DEF WorkerIsFor, Resting
      <4>2. tr'[wk[m].t] = tr[wk[m].t]
        BY <1>3, <4>1
      <4> QED BY <1>4, <3>1, <4>1, <4>2 DEF WorkerIsFor, For, SoundKept
    <3> QED BY <3>2, <3>3
  <2> QED BY <1>1, <2>1 DEF Safe, TasksGood
<1> QED BY <1>1, <1>4, <1>5, <1>6, <1>7, SteadyCount DEF Safe

\* Cancel, pause, resume and retry keep the destination.
LEMMA CommandSafe ==
  ASSUME Safe, NEW t \in Transfers, NEW From, NEW row, OnRow(t, From, row),
         RowStep, CompletedStep
  PROVE  Safe'
<1>1. UNCHANGED <<art, files, wk, machine, requests, faults>> /\ Command
  BY DEF OnRow
<1> QED BY <1>1, QuietCopies, TasksKept, SteadyCount DEF Safe, RowsGood

LEMMA RestatedRow ==
  ASSUME Safe, NEW t \in Transfers, NEW From \in SUBSET (Status \ {"none", "gone"}), NEW row,
         OnRow(t, From, row), tr[t] \in Rows => row \in Rows /\ row.dest = tr[t].dest,
         tr[t] \in Rows => row.status \in {"cancelled", "paused", "queued"}
  PROVE  Safe'
<1>1. RowTypeOK /\ tr[t] \in Rows
  BY RowFact DEF Safe, RowsGood
<1>2. Exists(t) /\ tr' = [tr EXCEPT ![t] = row]
  BY DEF OnRow, Exists
<1>3. RowStep /\ CompletedStep
  BY <1>1, <1>2, Restated
<1> QED BY <1>3, CommandSafe

LEMMA TransferCommandsSafe ==
  ASSUME Safe, NEW t \in Transfers,
         \/ CancelTransfer(t) \/ PauseTransfer(t) \/ ResumeTransfer(t)
         \/ \E resume \in BOOLEAN : RetryTransfer(t, resume)
  PROVE  Safe'
<1>1. tr[t] \in Rows
  BY RowFact DEF Safe, RowsGood
<1>2. CASE CancelTransfer(t)
  <2> DEFINE row == [tr[t] EXCEPT !.status = "cancelled"]
  <2>1. row \in Rows /\ row.dest = tr[t].dest /\ row.status = "cancelled"
    BY <1>1 DEF Rows, Status
  <2>2. OnRow(t, {"queued", "running", "paused", "retryable", "failed"}, row)
    BY <1>2 DEF CancelTransfer
  <2> HIDE DEF row
  <2>3. {"queued", "running", "paused", "retryable", "failed"} \in SUBSET (Status \ {"none", "gone"})
    BY DEF Status
  <2> QED BY <2>1, <2>2, <2>3, RestatedRow
<1>3. CASE PauseTransfer(t)
  <2> DEFINE row == [tr[t] EXCEPT !.status = "paused"]
  <2>1. row \in Rows /\ row.dest = tr[t].dest /\ row.status = "paused"
    BY <1>1 DEF Rows, Status
  <2>2. OnRow(t, {"queued", "running", "retryable"}, row)
    BY <1>3 DEF PauseTransfer
  <2> HIDE DEF row
  <2>3. {"queued", "running", "retryable"} \in SUBSET (Status \ {"none", "gone"})
    BY DEF Status
  <2> QED BY <2>1, <2>2, <2>3, RestatedRow
<1>4. CASE ResumeTransfer(t)
  <2> DEFINE row == [tr[t] EXCEPT !.status = "queued", !.sum = "none"]
  <2>1. row \in Rows /\ row.dest = tr[t].dest /\ row.status = "queued"
    BY <1>1 DEF Rows, Status, Sums
  <2>2. OnRow(t, {"paused"}, row)
    BY <1>4 DEF ResumeTransfer
  <2> HIDE DEF row
  <2>3. {"paused"} \in SUBSET (Status \ {"none", "gone"})
    BY DEF Status
  <2> QED BY <2>1, <2>2, <2>3, RestatedRow
<1>5. ASSUME NEW resume \in BOOLEAN, RetryTransfer(t, resume) PROVE Safe'
  <2> DEFINE done == IF resume THEN tr[t].done ELSE 0
             row == [tr[t] EXCEPT !.status = "queued", !.sum = "none", !.done = done]
  <2>1. done \in 0..Total
    BY <1>1, TransferAssumption DEF Rows
  <2>2. OnRow(t, {"retryable", "failed", "cancelled"}, row)
    BY <1>5 DEF RetryTransfer
  <2> HIDE DEF done
  <2>3. row \in Rows /\ row.dest = tr[t].dest /\ row.status = "queued"
    BY <1>1, <2>1 DEF Rows, Status, Sums
  <2> HIDE DEF row
  <2>4. {"retryable", "failed", "cancelled"} \in SUBSET (Status \ {"none", "gone"})
    BY DEF Status
  <2> QED BY <2>2, <2>3, <2>4, RestatedRow
<1> QED BY <1>2, <1>3, <1>4, <1>5

LEMMA DeleteTransferSafe ==
  ASSUME Safe, NEW t \in Transfers, DeleteTransfer(t)
  PROVE  Safe'
<1> DEFINE row == [NoRow EXCEPT !.status = "gone"]
<1>a. 0 \in 0..Total
  BY TransferAssumption
<1>b. NoRow \in Rows /\ NoRow.dest = NoMachine
  BY <1>a DEF NoRow, Rows, Status, Sums
<1>1. row \in Rows /\ row.status = "gone" /\ row.dest = NoMachine
  BY <1>b DEF Rows, Status
<1>2. OnRow(t, {"completed", "failed", "cancelled"}, row) /\ tr' = [tr EXCEPT ![t] = row]
      /\ tr[t].status # "none"
  BY DEF DeleteTransfer, OnRow
<1> HIDE DEF row
<1>3. RowChange(t, row)
  BY <1>1, <1>2 DEF RowChange
<1>4. tr'[t] = row /\ \A u \in Transfers : u # t => tr'[u] = tr[u]
  BY <1>3, RowChangeFact DEF Safe, RowsGood
<1>5. RowStep /\ CompletedStep
  BY <1>1, <1>3, <1>4 DEF RowStep, CompletedStep
<1> QED BY <1>2, <1>5, CommandSafe

LEMMA VerifyTransferSafe ==
  ASSUME Safe, NEW t \in Transfers, VerifyTransfer(t)
  PROVE  Safe'
<1> DEFINE row == [tr[t] EXCEPT !.status = "completed", !.done = Total, !.sum = "verified"]
<1>1. verify_artifact(Dashboard) /\ Accepts(t, "completed", Total) /\ OnRow(t, Status, row)
      /\ UNCHANGED <<art, files, requests>> /\ tr' = [tr EXCEPT ![t] = row]
  BY DEF VerifyTransfer, OnRow
<1>2. Sound(Dashboard)'
  <2>1. Sound(Dashboard) /\ Dashboard \in Machines
    BY <1>1, TransferAssumption DEF Sound, Whole
  <2> QED BY <1>1, <2>1, CopiesKept DEF Safe, SoundKept
<1>3. Backed(t)
  BY <1>2, TransferAssumption DEF Backed
<1>4. RowStep /\ CompletedStep
  BY <1>1, <1>3, Completion DEF Safe, RowsGood
<1> HIDE DEF row
<1> QED BY <1>1, <1>4, CommandSafe

\* A progress request that completes the row says so in told; the row of one
\* that was completed before keeps its sum and its count.
LEMMA ReportTransferSafe ==
  ASSUME Safe, NEW t \in Transfers, NEW report \in Reports, ReportTransfer(t, report)
  PROVE  Safe'
<1> DEFINE told == tr[t].told \/ (report.status = "completed" /\ ~Terminal(t))
           sum == IF report.sum = "none" THEN tr[t].sum ELSE report.sum
           done == report.done
           row == [tr[t] EXCEPT !.status = report.status, !.done = done,
                                !.sum = sum, !.told = told]
<1>1. Accepts(t, report.status, done) /\ OnRow(t, Status, row)
      /\ tr' = [tr EXCEPT ![t] = row] /\ (report.status = "completed" => report.sum = "verified")
  BY DEF ReportTransfer, OnRow
<1>2. tr[t] \in Rows /\ RowTypeOK /\ Exists(t)
  BY <1>1, RowFact DEF Safe, RowsGood, Accepts
<1>3. /\ report.status \in Status \ {"none", "gone"} /\ report.sum \in Sums
      /\ done \in 0..Total
  BY TransferAssumption
<1>4. told \in BOOLEAN /\ sum \in Sums /\ (report.status = "completed" => sum = "verified")
  BY <1>1, <1>2, <1>3 DEF Rows
<1>5. report.status = "completed" /\ ~told =>
        tr[t].status = "completed" /\ ~tr[t].told /\ done >= tr[t].done
  BY <1>1, <1>2 DEF Accepts, Terminal
<1> HIDE DEF told, sum, done
<1>6. row \in Rows /\ row.dest = tr[t].dest /\ row.status = report.status
      /\ row.told = told /\ row.sum = sum /\ row.done = done
  BY <1>2, <1>3, <1>4 DEF Rows
<1> HIDE DEF row
<1>7. RowChange(t, row)
  BY <1>1, <1>2, <1>3, <1>6 DEF RowChange, Exists
<1>8. tr'[t] = row /\ \A u \in Transfers : u # t => tr'[u] = tr[u]
  BY <1>2, <1>7, RowChangeFact
<1>9. CompletedStep
  <2>1. report.status = "completed" /\ ~told =>
          /\ tr[t].sum = "verified" /\ tr[t].done = Total
          /\ row.sum = "verified" /\ row.done = Total
    BY <1>3, <1>4, <1>5, <1>6, TransferAssumption DEF Safe, CompletedIsSound
  <2> QED BY <1>5, <1>6, <1>8, <2>1 DEF CompletedStep
<1> QED BY <1>1, <1>7, <1>9, CommandSafe DEF RowStep

-----------------------------------------------------------------------------
(* The operator's commands on the artifact. *)

\* A step that leaves the rows, the workers and the counters' types alone.
LEMMA ArtifactSafe ==
  ASSUME Safe, UNCHANGED <<tr, wk, machine>>, CopiesGood', SoundKept, CountTypeOK'
  PROVE  Safe'
<1>1. RowStep /\ CompletedStep
  BY Untouched
<1> QED BY <1>1, RowsKept, CompletedKept, TasksKept DEF Safe, RowsGood

LEMMA OnArtifactSafe ==
  ASSUME Safe, \/ ArchiveArtifact \/ RestoreArtifact \/ RetentionArtifact \/ RegisterArtifact
  PROVE  Safe'
<1>1. PICK next : OnArtifact(next) /\ \/ next = [root |-> Export, status |-> "available"]
                                      \/ /\ ArtifactExists
                                         /\ \E s \in {"archived", "available"} :
                                              next = [art EXCEPT !.status = s]
  BY DEF ArchiveArtifact, RestoreArtifact, RetentionArtifact, RegisterArtifact
<1>2. UNCHANGED <<tr, files, wk, machine, requests, faults>> /\ Command /\ art' = next
  BY <1>1 DEF OnArtifact
<1>3. art \in [root : Paths, status : {"available", "archived", "gone"}] /\ RootsAreSound
  BY DEF Safe, CopiesGood, ArtifactTypeOK
<1>4. CASE art' = [root |-> Export, status |-> "available"]
  <2>1. Export \in Paths /\ Export \notin Machines
    BY TransferAssumption DEF Paths
  <2>2. CopiesGood' /\ SoundKept
    BY <1>2, <1>4, <2>1, RootMoves
  <2> QED BY <1>2, <2>2, ArtifactSafe, SteadyCount DEF Safe
<1>5. ASSUME NEW s \in {"archived", "available"}, ArtifactExists, art' = [art EXCEPT !.status = s]
      PROVE  Safe'
  <2>1. art' = [root |-> art.root, status |-> s] /\ art.root \in Paths
    BY <1>3, <1>5
  <2>2. art.root \in Machines => Sound(art.root)
    BY <1>3, <1>5 DEF RootsAreSound
  <2>3. CopiesGood' /\ SoundKept
    BY <1>2, <2>1, <2>2, RootMoves
  <2> QED BY <1>2, <2>3, ArtifactSafe, SteadyCount DEF Safe
<1> QED BY <1>1, <1>2, <1>4, <1>5

LEMMA ImportArtifactSafe ==
  ASSUME Safe, ImportArtifact
  PROVE  Safe'
<1>1. UNCHANGED <<tr, disk, bad, wk, machine, requests, faults>> /\ Command /\ wiped' = FALSE
      /\ verify_artifact(Dashboard) /\ art' = [root |-> Dashboard, status |-> "available"]
  BY DEF ImportArtifact, upsert_research_artifact
<1>2. SoundKept
  BY <1>1 DEF SoundKept, Sound, Whole, verify_artifact
<1>3. CopiesGood'
  <2>1. DiskTypeOK' /\ ArtifactTypeOK'
    BY <1>1, TransferAssumption
       DEF Safe, CopiesGood, DiskTypeOK, ArtifactTypeOK, requests, Paths
  <2>2. Sound(Dashboard) /\ Sound(Dashboard)' /\ art'.root = Dashboard
    BY <1>1, <1>2, TransferAssumption DEF Sound, Whole, SoundKept
  <2>3. RootsAreSound'
    BY <1>1, <1>2, <2>2 DEF Safe, CopiesGood, RootsAreSound, SoundKept, requests
  <2> QED BY <2>1, <2>3 DEF CopiesGood
<1> QED BY <1>1, <1>2, <1>3, ArtifactSafe, SteadyCount DEF Safe

LEMMA PatchArtifactSafe ==
  ASSUME Safe, PatchArtifact
  PROVE  Safe'
<1>1. UNCHANGED <<tr, art, files, wk, machine, del, faults>> /\ Command /\ ArtifactExists
      /\ patch' = [of |-> Source, root |-> art.root, status |-> art.status]
  BY DEF PatchArtifact
<1>2. SoundKept
  BY <1>1 DEF SoundKept, Sound, Whole, verify_artifact, files
<1>3. CopiesGood'
  <2>1. art.root \in Paths /\ art.status \in {"available", "archived"}
    BY <1>1 DEF Safe, CopiesGood, ArtifactTypeOK, ArtifactExists
  <2>2. patch' \in Patches /\ patch'.root = art.root
    BY <1>1, <2>1, TransferAssumption DEF Patches
  <2>3. DiskTypeOK' /\ ArtifactTypeOK'
    BY <1>1, <2>2 DEF Safe, CopiesGood, DiskTypeOK, ArtifactTypeOK, files
  <2>4. RootsAreSound'
    BY <1>1, <1>2, <2>2
       DEF Safe, CopiesGood, RootsAreSound, SoundKept, ArtifactExists
  <2> QED BY <2>3, <2>4 DEF CopiesGood
<1> QED BY <1>1, <1>2, <1>3, ArtifactSafe, SteadyCount DEF Safe

LEMMA NoPatchFact == NoPatch \in Patches /\ NoPatch.status = "none"
BY TransferAssumption DEF NoPatch, Patches, Paths

LEMMA PatchArtifactWriteSafe ==
  ASSUME Safe, PatchArtifactWrite
  PROVE  Safe'
<1>1. UNCHANGED <<tr, files, wk, machine, del, cmds, faults>> /\ patch' = NoPatch
      /\ patch.status \in {"available", "archived"}
      /\ (art' = [root |-> patch.root, status |-> patch.status] \/ art' = art)
  BY DEF PatchArtifactWrite, upsert_research_artifact
<1>2. SoundKept
  BY <1>1 DEF SoundKept, Sound, Whole, verify_artifact, files
<1>3. CopiesGood'
  <2>1. patch.root \in Paths
    BY DEF Safe, CopiesGood, ArtifactTypeOK, Patches
  <2>2. patch' \in Patches /\ patch'.status = "none"
    BY <1>1, NoPatchFact
  <2>3. DiskTypeOK' /\ ArtifactTypeOK'
    BY <1>1, <2>1, <2>2 DEF Safe, CopiesGood, DiskTypeOK, ArtifactTypeOK, files
  <2>4. RootsAreSound'
    BY <1>1, <1>2, <2>1, <2>2
       DEF Safe, CopiesGood, RootsAreSound, SoundKept, ArtifactExists
  <2> QED BY <2>3, <2>4 DEF CopiesGood
<1> QED BY <1>1, <1>2, <1>3, ArtifactSafe, SteadyCount DEF Safe

LEMMA DeleteArtifactSafe ==
  ASSUME Safe, DeleteArtifact
  PROVE  Safe'
<1>1. UNCHANGED <<tr, art, files, wk, machine, patch, faults>> /\ Command /\ del' = art.root
  BY DEF DeleteArtifact
<1>2. SoundKept
  BY <1>1 DEF SoundKept, Sound, Whole, verify_artifact, files
<1>3. CopiesGood'
  <2>1. DiskTypeOK' /\ ArtifactTypeOK'
    BY <1>1 DEF Safe, CopiesGood, DiskTypeOK, ArtifactTypeOK, files
  <2>2. RootsAreSound'
    BY <1>1, <1>2 DEF Safe, CopiesGood, RootsAreSound, SoundKept, ArtifactExists
  <2> QED BY <2>1, <2>2 DEF CopiesGood
<1> QED BY <1>1, <1>2, <1>3, ArtifactSafe, SteadyCount DEF Safe

LEMMA DeleteArtifactRowSafe ==
  ASSUME Safe, DeleteArtifactRow
  PROVE  Safe'
<1>1. UNCHANGED <<tr, wk, machine, patch, cmds, faults>> /\ del' = NoMachine
      /\ (UNCHANGED files \/ delete_artifact_files)
      /\ (art' = [art EXCEPT !.status = "gone"] \/ art' = art)
  BY DEF DeleteArtifactRow
<1>2. SoundKept
  <2>1. CASE UNCHANGED files
    BY <2>1 DEF SoundKept, Sound, Whole, verify_artifact, files
  <2>2. CASE delete_artifact_files
    <3> SUFFICES ASSUME NEW m \in Machines, Sound(m) PROVE Sound(m)'
      BY DEF SoundKept
    <3>1. wiped' = TRUE /\ bad' = bad \ {Dashboard} /\ (m # Dashboard => disk'[m] = disk[m])
      BY <2>2 DEF delete_artifact_files, Safe, CopiesGood, DiskTypeOK
    <3> QED BY <3>1 DEF Sound, Whole, verify_artifact
  <2> QED BY <1>1, <2>1, <2>2
<1>3. CopiesGood'
  <2>a. {} \in SUBSET Files /\ DiskTypeOK
    BY DEF Safe, CopiesGood
  <2>b. UNCHANGED files => DiskTypeOK'
    BY <2>a DEF DiskTypeOK, files
  <2>c. delete_artifact_files => DiskTypeOK'
    BY <2>a DEF DiskTypeOK, delete_artifact_files
  <2>1. DiskTypeOK'
    BY <1>1, <2>b, <2>c
  <2>2. ArtifactTypeOK' /\ art'.root = art.root /\ (ArtifactExists' => ArtifactExists)
    BY <1>1 DEF Safe, CopiesGood, ArtifactTypeOK, ArtifactExists
  <2>3. RootsAreSound'
    BY <1>1, <1>2, <2>2 DEF Safe, CopiesGood, RootsAreSound, SoundKept
  <2> QED BY <2>1, <2>2, <2>3 DEF CopiesGood
<1> QED BY <1>1, <1>2, <1>3, ArtifactSafe, SteadyCount DEF Safe

-----------------------------------------------------------------------------
(* The operator's commands on a machine, and heartbeats. *)

\* Rows of machines change, and none goes that a transfer needs.
LEMMA MachineSafe ==
  ASSUME Safe, UNCHANGED <<tr, wk, art, files, del>>, CountTypeOK', patch' \in Patches,
         patch' = patch \/ patch'.status \notin {"available", "archived"},
         machine' \in [Machines -> {"up", "disabled", "absent"}],
         \A t \in Transfers : Exists(t) =>
            \A m \in {Source, tr[t].dest} \ {NoMachine} : Registered(m) => Registered(m)'
  PROVE  Safe'
<1>1. RowStep /\ CompletedStep
  BY Untouched
<1>2. SoundKept
  BY DEF SoundKept, Sound, Whole, verify_artifact, files
<1>3. CopiesGood'
  <2>1. DiskTypeOK' /\ ArtifactTypeOK'
    BY DEF Safe, CopiesGood, DiskTypeOK, ArtifactTypeOK, files
  <2>2. RootsAreSound'
    BY <1>2 DEF Safe, CopiesGood, RootsAreSound, SoundKept, ArtifactExists
  <2> QED BY <2>1, <2>2 DEF CopiesGood
<1>4. RowsGood'
  <2>1. RowTypeOK'
    BY DEF Safe, RowsGood, RowTypeOK
  <2>2. TransferNamesMachines'
    <3> SUFFICES ASSUME NEW t \in Transfers, Exists(t)',
                        NEW m \in {Source, tr'[t].dest} \ {NoMachine}
                 PROVE  Registered(m)'
      BY DEF TransferNamesMachines
    <3>1. Exists(t) /\ m \in {Source, tr[t].dest} \ {NoMachine}
      BY DEF Exists
    <3>2. Registered(m)
      BY <3>1 DEF Safe, RowsGood, TransferNamesMachines
    <3> QED BY <3>1, <3>2
  <2> QED BY <2>1, <2>2 DEF RowsGood
<1> QED BY <1>1, <1>2, <1>3, <1>4, CompletedKept, TasksKept DEF Safe, RowsGood

LEMMA MachineFact ==
  ASSUME Safe
  PROVE  /\ machine \in [Machines -> {"up", "disabled", "absent"}] /\ patch \in Patches
         /\ \A t \in Transfers : {Source, tr[t].dest} \ {NoMachine} \subseteq Machines
<1>1. machine \in [Machines -> {"up", "disabled", "absent"}] /\ patch \in Patches
  BY DEF Safe, RowsGood, RowTypeOK, CopiesGood, ArtifactTypeOK
<1>2. \A t \in Transfers : tr[t].dest \in Machines \cup {NoMachine}
  BY DEF Safe, RowsGood, RowTypeOK, Rows
<1> QED BY <1>1, <1>2, TransferAssumption

LEMMA OnMachineSafe ==
  ASSUME Safe, NEW m \in Machines,
         DisableMachine(m) \/ EnableMachine(m) \/ CreateMachine(m) \/ Heartbeat(m)
  PROVE  Safe'
<1>1. UNCHANGED <<tr, wk, art, files, requests>> /\ CountTypeOK'
  BY SteadyCount DEF Safe, DisableMachine, EnableMachine, CreateMachine, OnMachine, Heartbeat
<1>2. \E s \in {"up", "disabled"} : machine' = [machine EXCEPT ![m] = s]
  BY DEF DisableMachine, EnableMachine, CreateMachine, OnMachine, Heartbeat
<1>3. machine' \in [Machines -> {"up", "disabled", "absent"}]
      /\ \A n \in Machines : Registered(n) => Registered(n)'
  BY <1>2, MachineFact DEF Registered
<1> QED BY <1>1, <1>3, MachineFact, MachineSafe DEF requests

LEMMA DeleteMachineSafe ==
  ASSUME Safe, NEW m \in Machines, DeleteMachine(m)
  PROVE  Safe'
<1>1. UNCHANGED <<tr, wk, art, files, requests>> /\ CountTypeOK'
      /\ machine' = [machine EXCEPT ![m] = "absent"]
  BY SteadyCount DEF Safe, DeleteMachine, OnMachine
<1>2. \A t \in Transfers : Exists(t) => m \notin {Source, tr[t].dest}
  BY DEF DeleteMachine, DependencyFree
<1>3. machine' \in [Machines -> {"up", "disabled", "absent"}]
      /\ \A n \in Machines : n # m /\ Registered(n) => Registered(n)'
  BY <1>1, MachineFact DEF Registered
<1>4. \A t \in Transfers : Exists(t) =>
         \A n \in {Source, tr[t].dest} \ {NoMachine} : Registered(n) => Registered(n)'
  BY <1>2, <1>3, MachineFact
<1> QED BY <1>1, <1>3, <1>4, MachineFact, MachineSafe DEF requests

LEMMA PatchMachineSafe ==
  ASSUME Safe, NEW m \in Machines, PatchMachine(m)
  PROVE  Safe'
<1>1. UNCHANGED <<tr, wk, art, files, machine, del>> /\ CountTypeOK' /\ Registered(m)
      /\ patch' = [NoPatch EXCEPT !.of = m, !.status = machine[m]]
  BY SteadyCount DEF Safe, PatchMachine
<1>2. machine[m] \in {"up", "disabled"}
  BY <1>1, MachineFact DEF Registered
<1>3. patch' \in Patches /\ patch'.status \notin {"available", "archived"}
  BY <1>1, <1>2, NoPatchFact DEF Patches
<1> QED BY <1>1, <1>3, MachineFact, MachineSafe DEF Registered

LEMMA PatchMachineWriteSafe ==
  ASSUME Safe, PatchMachineWrite
  PROVE  Safe'
<1>1. UNCHANGED <<tr, wk, art, files, del>> /\ CountTypeOK' /\ patch' = NoPatch
      /\ patch.status \in {"up", "disabled"}
  BY SteadyCount DEF Safe, PatchMachineWrite
<1>2. machine' = machine \/ machine' = [machine EXCEPT ![patch.of] = patch.status]
  BY DEF PatchMachineWrite
<1>3. machine' \in [Machines -> {"up", "disabled", "absent"}]
      /\ \A n \in Machines : Registered(n) => Registered(n)'
  BY <1>1, <1>2, MachineFact DEF Registered
<1> QED BY <1>1, <1>3, MachineFact, MachineSafe, NoPatchFact

-----------------------------------------------------------------------------

LEMMA OperatorSafe ==
  ASSUME Safe, Operator
  PROVE  Safe'
BY CreateTransferSafe, TransferCommandsSafe, DeleteTransferSafe, VerifyTransferSafe,
   ReportTransferSafe,
   OnArtifactSafe, ImportArtifactSafe, PatchArtifactSafe, PatchArtifactWriteSafe,
   DeleteArtifactSafe, DeleteArtifactRowSafe, PatchMachineWriteSafe, OnMachineSafe,
   DeleteMachineSafe, PatchMachineSafe DEF Operator

LEMMA MachineStepSafe ==
  ASSUME Safe, NEW m \in Machines,
         \/ WorkerStep(m) \/ RecoverStale(m) \/ RsyncBreaks(m) \/ Crash(m)
         \/ ClaimAnswerLost(m) \/ CallLost(m) \/ ProgressAnswerLost(m)
         \/ RelocateAnswerLost(m) \/ Heartbeat(m)
  PROVE  Safe'
BY ClaimSafe, ReadArtifactSafe, StartCopySafe, CopyFileSafe, RsyncSafe,
   VerifySafe, RelocateSafe, CompleteSafe, ReadFailedSafe, GiveBackSafe, RestartSafe,
   RecoverStaleSafe, RsyncBreaksSafe, CrashSafe, ClaimAnswerLostSafe, CallLostSafe,
   ProgressAnswerLostSafe, OnMachineSafe DEF WorkerStep

LEMMA InitSafe ==
  ASSUME Init
  PROVE  Safe
<1>1. 0 \in 0..Total /\ 0 \in 0..MaxCommands /\ 0 \in 0..MaxFaults
  BY TransferAssumption
<1>2. NoRow \in Rows /\ NoRow.status = "none"
  BY <1>1 DEF NoRow, Rows, Status, Sums
<1>3. Idle \in Tasks /\ Idle.pc = "idle"
  BY <1>1 DEF Idle, Tasks, Points, Paths
<1>4. RowsGood
  BY <1>2 DEF Init, RowsGood, RowTypeOK, TransferNamesMachines, Exists
<1>5. CopiesGood
  <2>1. DiskTypeOK
    BY <1>1 DEF Init, DiskTypeOK
  <2>2. ArtifactTypeOK
    BY NoPatchFact DEF Init, ArtifactTypeOK, Paths
  <2>3. RootsAreSound
    BY NoPatchFact, TransferAssumption DEF Init, RootsAreSound
  <2> QED BY <2>1, <2>2, <2>3 DEF CopiesGood
<1>6. CompletedIsSound
  BY <1>2 DEF Init, CompletedIsSound
<1>7. TasksGood
  BY <1>3 DEF Init, TasksGood, WorkerIsFor
<1>8. CountTypeOK
  BY <1>1 DEF Init, CountTypeOK
<1> QED BY <1>4, <1>5, <1>6, <1>7, <1>8 DEF Safe

LEMMA TransferInvariant == Spec => []Safe
<1>1. Init => Safe
  BY InitSafe
<1>2. Safe /\ [Next]_vars => Safe'
  <2>1. ASSUME Safe, Next PROVE Safe'
    BY <2>1, OperatorSafe, MachineStepSafe DEF Next
  <2>2. ASSUME Safe, UNCHANGED vars PROVE Safe'
    <3>1. UNCHANGED <<tr, wk, machine, cmds, faults>> /\ UNCHANGED <<art, files, requests>>
      BY <2>2 DEF vars, files, requests
    <3> QED BY <2>2, <3>1, CopiesKept, ArtifactSafe, SteadyCount DEF Safe
  <2> QED BY <2>1, <2>2
<1> QED BY <1>1, <1>2, PTL DEF Spec

\* Transfer, artifact and machine rows, the files on disk and the workers keep
\* their types: in particular no progress call passes the size of the artifact.
THEOREM TransferTypeCorrect == Spec => []TypeOK
<1>1. Safe => TypeOK
  BY SafeIsInductiveInvariant DEF IInv
<1> QED BY <1>1, TransferInvariant, PTL

\* update_artifact_transfer_progress, upsert_local_artifact, the PATCH, the
\* import and the DELETE of an artifact, in any order with crashes and lost
\* answers: the artifact row never points at an incomplete or damaged copy,
\* unless a DELETE removed the files.
THEOREM ArtifactRootIsWhole == Spec => []RootIsWhole
<1>1. Safe => RootIsWhole
  BY DEF Safe, CopiesGood, RootsAreSound, Sound, RootIsWhole
<1> QED BY <1>1, TransferInvariant, PTL

\* A completed transfer is backed by a whole copy on its destination or on the
\* dashboard's disk, unless update_transfer_progress completed it: whatever else
\* research_transfer.rs, verify_transfer and the operator's progress requests did
\* to its row, in any order.
THEOREM CompletedTransferIsBacked == Spec => []CompletedIsBacked
<1>1. Safe => CompletedIsBacked
  BY DEF Safe, CompletedIsSound, Sound, CompletedIsBacked
<1> QED BY <1>1, TransferInvariant, PTL

\* create_artifact_transfer and delete_research_machine: a transfer that exists
\* names machines that have a row, whatever PATCH was under way.
THEOREM TransfersNameMachines == Spec => []TransferNamesMachines
<1>1. Safe => TransferNamesMachines
  BY DEF Safe, RowsGood
<1> QED BY <1>1, TransferInvariant, PTL
=============================================================================
