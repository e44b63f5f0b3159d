-------------------------- MODULE ResearchTransfers --------------------------
(***************************************************************************)
(* Artifact transfers: the rows of artifact_transfers, run_artifacts and   *)
(* research_machines (db.rs), the operator's commands                      *)
(* (api/research/transfers.rs, artifacts.rs, machines.rs, retention.rs),   *)
(* some of which read a row, let go of the database and write it back      *)
(* later, and one transfer worker per machine                              *)
(* (research_transfer.rs), which claims a transfer, copies the artifact    *)
(* under its own work root, verifies it, moves the artifact row to the     *)
(* copy and completes the transfer.  Each of these is a call of its own,   *)
(* and the row can change between any two.                                 *)
(*                                                                         *)
(* There is one artifact, which no job or report refers to.  A byte count  *)
(* is a number of files, and every bytes_total is that of the artifact (a  *)
(* request that gives another is left out).  A path is the machine whose   *)
(* work root it is under, or Export for the directory the artifact was     *)
(* exported to on its source machine.  Names, roles and telemetry of       *)
(* machines are left out.                                                  *)
(***************************************************************************)
EXTENDS Integers, FiniteSets

CONSTANTS
  Transfers,     \* transfer numbers, in creation order
  Machines,      \* machines with a transfer worker
  Custom,        \* the machines that are not the default ones
  Source,        \* the machine the artifact was exported on
  Dashboard,     \* the machine whose work root the dashboard server sees
  Export,        \* the path it was exported to
  NoMachine,     \* a transfer for whichever machine claims it first
  Total,         \* files of the artifact
  Reports,       \* what an operator's progress request may say: [status, done, sum]
  MaxCommands,   \* bound: operator commands after creation
  MaxFaults      \* bound: crashes, failed copies and stale deadlines

Status == {"none", "queued", "running", "paused", "retryable", "failed", "cancelled",
           "completed", "gone"}
Sums == {"none", "pending", "verifying", "verified", "failed", "skipped"}

ASSUME TransferAssumption ==
  /\ Transfers \subseteq Nat \ {0}
  /\ {Source, Dashboard} \subseteq Machines /\ Custom \subseteq Machines
  /\ Export \notin Machines /\ NoMachine \notin Machines
  /\ Reports \subseteq [status : Status \ {"none", "gone"}, done : 0..Total, sum : Sums]
  /\ Total \in Nat \ {0} /\ MaxCommands \in Nat /\ MaxFaults \in Nat

VARIABLES
  tr,        \* tr[t]: the transfer row; its field told is history: a progress
             \* request of the operator completed it
  art,       \* the artifact row: its root path and status, "gone" without it
  disk,      \* disk[m]: files present under machine m's work root
  bad,       \* machines whose files have the right size and wrong content
  wk,        \* wk[m]: where m's worker is, the transfer it claimed, the
             \* artifact root and the byte count it last read, and the files
             \* its copy has gone through
  machine,   \* machine[m]: the status of the machine row, "absent" without it
  patch,     \* what a PATCH of the artifact or of a machine has read
  del,       \* the artifact root a DELETE has checked
  wiped,     \* a DELETE removed the files since the row was last verified
  cmds, faults

files == <<disk, bad, wiped>>
requests == <<patch, del>>
vars == <<tr, art, disk, bad, wk, machine, patch, del, wiped, cmds, faults>>

Paths == Machines \cup {Export}
Files == 1..Total
NoPatch == [of |-> NoMachine, root |-> Export, status |-> "none"]
NoRow == [status |-> "none", done |-> 0, sum |-> "none", dest |-> NoMachine, told |-> FALSE]
Idle == [pc |-> "idle", t |-> 0, root |-> Export, done |-> 0, file |-> 0]
Stopped == [Idle EXCEPT !.pc = "exited"]

Init ==
  /\ tr = [t \in Transfers |-> NoRow]
  /\ art = [root |-> Export, status |-> "available"]
  /\ disk = [m \in Machines |-> {}]
  /\ bad = {}
  /\ wk = [m \in Machines |-> Idle]
  /\ machine = [m \in Machines |-> "up"]
  /\ patch = NoPatch /\ del = NoMachine /\ wiped = FALSE
  /\ cmds = 0
  /\ faults = 0

Registered(m) == machine[m] # "absent"
ArtifactExists == art.status # "gone"
Exists(t) == tr[t].status \notin {"none", "gone"}
Terminal(t) == tr[t].status \in {"completed", "cancelled"}
For(m, t) == tr[t].dest \in {m, NoMachine}
Higher(a, b) == IF a > b THEN a ELSE b
-----------------------------------------------------------------------------
(***************************************************************************)
(* update_artifact_transfer_progress: refused once the row is completed or *)
(* cancelled, and when the byte count would go down.  Any other status,    *)
(* paused and queued included, is overwritten.                             *)
(***************************************************************************)

Accepts(t, status, done) ==
  /\ Exists(t)
  /\ Terminal(t) => tr[t].status = status
  /\ done >= tr[t].done
  /\ done <= Total

Write(t, status, done, sum) ==
  tr' = [tr EXCEPT ![t] = [@ EXCEPT !.status = status, !.done = done, !.sum = sum]]

Goto(m, pc) == wk' = [wk EXCEPT ![m] = [@ EXCEPT !.pc = pc]]

\* A progress call of m's worker: on acceptance it goes on at pc, having gone
\* through that many files, otherwise the error goes to mark_retryable.
Report(m, done, pc, file) ==
  LET t == wk[m].t IN
  IF Accepts(t, "running", done)
    THEN /\ Write(t, "running", done, "verifying")
         /\ wk' = [wk EXCEPT ![m] = [@ EXCEPT !.pc = pc, !.file = file]]
    ELSE Goto(m, "failed") /\ UNCHANGED tr
-----------------------------------------------------------------------------
(***************************************************************************)
(* The worker of machine m.                                                *)
(***************************************************************************)
Claimable(m, t) == tr[t].status \in {"queued", "retryable"} /\ For(m, t)

research_machine_accepts_work(m) == machine[m] = "up"

\* The oldest queued or retryable transfer for the machine is claimed.
Claim(m) ==
  /\ wk[m].pc = "idle"
  /\ research_machine_accepts_work(m)
  /\ \E t \in Transfers :
       /\ Claimable(m, t)
       /\ \A u \in Transfers : Claimable(m, u) => t <= u
       /\ tr' = [tr EXCEPT ![t] = [@ EXCEPT !.status = "running", !.sum = "pending"]]
       /\ wk' = [wk EXCEPT ![m] = [pc |-> "claimed", t |-> t, root |-> Export,
                                   done |-> tr[t].done, file |-> 0]]
  /\ UNCHANGED <<art, files, machine, requests, cmds, faults>>

\* The poll loop asks before every tick; a machine without a row goes on.
machine_work_disabled(m) == machine[m] = "disabled"

\* Variant: a worker recovers its own stale transfers only.
RecoverOwnStale(m) ==
  /\ wk[m].pc = "idle"
  /\ ~machine_work_disabled(m)
  /\ \E t \in Transfers :
       /\ tr[t].status = "running" /\ tr[t].dest = m
       /\ \A n \in Machines : wk[n].t # t
       /\ tr' = [tr EXCEPT ![t] = [@ EXCEPT !.status = "retryable", !.sum = "failed"]]
  /\ UNCHANGED <<art, files, wk, machine, requests, cmds, faults>>

\* A running row whose last update is older than the stale age is given back
\* at the start of a tick of any worker it is for.
RecoverStale(m) ==
  /\ wk[m].pc = "idle"
  /\ ~machine_work_disabled(m)
  /\ \E t \in Transfers :
       /\ tr[t].status = "running" /\ For(m, t)
       /\ LET attended == \E n \in Machines : wk[n].t = t IN
          /\ attended => faults < MaxFaults
          /\ faults' = IF attended THEN faults + 1 ELSE faults
       /\ tr' = [tr EXCEPT ![t] = [@ EXCEPT !.status = "retryable", !.sum = "failed"]]
  /\ UNCHANGED <<art, files, wk, machine, requests, cmds>>

ReadArtifact(m) ==
  /\ wk[m].pc = "claimed"
  /\ wk' = [wk EXCEPT ![m] = [@ EXCEPT !.pc = IF ArtifactExists THEN "start" ELSE "failed",
                                       !.root = art.root]]
  /\ UNCHANGED <<tr, art, files, machine, requests, cmds, faults>>

\* The files are read on the artifact's source machine, at the root the
\* artifact row held.
Local(m) == m = Source
SamePath(m) == Local(m) /\ wk[m].root = m
Readable(m) == wk[m].root \in {Export, Source}

\* payload_bytes_from_manifest: the bytes under the destination root.
Bytes(m) == Cardinality(disk[m])

\* The first progress report of a copy never goes below the count claimed.
\* A local copy opens the manifest at the source root before it.
StartCopy(m) ==
  /\ wk[m].pc = "start"
  /\ IF Local(m) /\ ~Readable(m)
       THEN Goto(m, "failed") /\ UNCHANGED tr
       ELSE Report(m, Higher(Bytes(m), wk[m].done),
                   IF SamePath(m) THEN "verify" ELSE "copy", 0)
  /\ UNCHANGED <<art, files, machine, requests, cmds, faults>>

\* A local copy goes through the files of the manifest: one that is there is
\* skipped, any other is appended, and after each one the bytes on disk are
\* reported as they are.
CopyFile(m) ==
  /\ wk[m].pc = "copy"
  /\ Local(m)
  /\ LET file == wk[m].file + 1
         there == disk[m] \cup {file}
     IN /\ disk' = [disk EXCEPT ![m] = there]
        /\ Report(m, Cardinality(there), IF file = Total THEN "verify" ELSE "copy", file)
  /\ UNCHANGED <<art, bad, wiped, machine, requests, cmds, faults>>

\* rsync runs to its end without a report in between; it fails when the
\* source machine has nothing at that path.
Rsync(m) ==
  /\ wk[m].pc = "copy"
  /\ ~Local(m)
  /\ IF Readable(m)
       THEN /\ disk' = [disk EXCEPT ![m] = Files]
            /\ Report(m, Total, "verify", 0)
       ELSE Goto(m, "failed") /\ UNCHANGED <<tr, disk>>
  /\ UNCHANGED <<art, bad, wiped, machine, requests, cmds, faults>>

\* The connection drops: --partial keeps what was copied.
RsyncBreaks(m) ==
  /\ wk[m].pc = "copy"
  /\ ~Local(m) /\ Readable(m)
  /\ faults < MaxFaults
  /\ faults' = faults + 1
  /\ \E some \in SUBSET Files \ {Files} :
       disk[m] \subseteq some /\ disk' = [disk EXCEPT ![m] = some]
  /\ Goto(m, "failed")
  /\ UNCHANGED <<tr, art, bad, wiped, machine, requests, cmds>>

\* The checksums of every file under the destination root.
verify_artifact(m) == disk[m] = Files /\ m \notin bad

\* Variant: the copy is checked by its size only.
VerifySize(m) ==
  /\ wk[m].pc = "verify"
  /\ Goto(m, IF disk[m] = Files THEN "relocate" ELSE "failed")
  /\ UNCHANGED <<tr, art, files, machine, requests, cmds, faults>>

Verify(m) ==
  /\ wk[m].pc = "verify"
  /\ Goto(m, IF verify_artifact(m) THEN "relocate" ELSE "failed")
  /\ UNCHANGED <<tr, art, files, machine, requests, cmds, faults>>

\* The row is inserted or overwritten as a whole.
upsert_research_artifact(root, status) == art' = [root |-> root, status |-> status]

\* upsert_local_artifact: the row now points at the verified copy.
Relocate(m) ==
  /\ wk[m].pc = "relocate"
  /\ upsert_research_artifact(m, "available")
  /\ Goto(m, "finish")
  /\ UNCHANGED <<tr, files, machine, requests, cmds, faults>>

Complete(m) ==
  /\ wk[m].pc = "finish"
  /\ LET t == wk[m].t IN
     IF Accepts(t, "completed", Total)
       THEN /\ Write(t, "completed", Total, "verified")
            /\ wk' = [wk EXCEPT ![m] = Idle]
       ELSE Goto(m, "failed") /\ UNCHANGED tr
  /\ UNCHANGED <<art, files, machine, requests, cmds, faults>>

\* mark_retryable reads the row; a deleted row is a transient poll error and
\* a finished one is left alone.
ReadFailed(m) ==
  /\ wk[m].pc = "failed"
  /\ LET t == wk[m].t IN
     wk' = [wk EXCEPT ![m] =
              IF ~Exists(t) \/ Terminal(t) THEN Idle
              ELSE [@ EXCEPT !.pc = "giveback", !.done = tr[t].done]]
  /\ UNCHANGED <<tr, art, files, machine, requests, cmds, faults>>

\* ... and gives it back; a refusal here is fatal and ends the process.
GiveBack(m) ==
  /\ wk[m].pc = "giveback"
  /\ LET t == wk[m].t IN
     IF Accepts(t, "retryable", wk[m].done)
       THEN /\ Write(t, "retryable", wk[m].done, "failed")
            /\ wk' = [wk EXCEPT ![m] = Idle]
       ELSE /\ wk' = [wk EXCEPT ![m] = IF Exists(t) THEN Stopped ELSE Idle]
            /\ UNCHANGED tr
  /\ UNCHANGED <<art, files, machine, requests, cmds, faults>>

Fault == faults < MaxFaults /\ faults' = faults + 1

\* The claim is granted and its answer is lost: the row runs with nobody at it.
ClaimAnswerLost(m) ==
  /\ wk[m].pc = "idle" /\ research_machine_accepts_work(m)
  /\ Fault
  /\ \E t \in Transfers :
       /\ Claimable(m, t)
       /\ \A u \in Transfers : Claimable(m, u) => t <= u
       /\ tr' = [tr EXCEPT ![t] = [@ EXCEPT !.status = "running", !.sum = "pending"]]
  /\ UNCHANGED <<art, files, wk, machine, requests, cmds>>

\* A call of the worker, or its answer, is lost: an error of the copy goes to
\* mark_retryable, an error of mark_retryable to the poll loop.
CallLost(m) ==
  /\ wk[m].pc \in {"claimed", "start", "copy", "relocate", "finish", "failed",
                   "giveback"}
  /\ Fault
  /\ wk' = [wk EXCEPT ![m] = IF @.pc \in {"failed", "giveback"} THEN Idle
                             ELSE [@ EXCEPT !.pc = "failed"]]
  /\ UNCHANGED <<tr, art, files, machine, requests, cmds>>

\* The last progress call, or the one that gives the row back, is applied and
\* its answer lost.
ProgressAnswerLost(m) ==
  LET t == wk[m].t IN
  /\ Fault
  /\ \/ /\ wk[m].pc = "finish" /\ Accepts(t, "completed", Total)
        /\ Write(t, "completed", Total, "verified")
        /\ Goto(m, "failed")
     \/ /\ wk[m].pc = "giveback" /\ Accepts(t, "retryable", wk[m].done)
        /\ Write(t, "retryable", wk[m].done, "failed")
        /\ wk' = [wk EXCEPT ![m] = Idle]
  /\ UNCHANGED <<art, files, machine, requests, cmds>>

\* The row is moved to the copy and the worker does not learn of it.
RelocateAnswerLost(m) ==
  /\ wk[m].pc = "relocate"
  /\ Fault
  /\ upsert_research_artifact(m, "available")
  /\ Goto(m, "failed")
  /\ UNCHANGED <<tr, files, machine, requests, cmds>>

\* The process or the machine stops.  A local copy is not synced to disk, so
\* its files may come back with the right length and the wrong content.
Crash(m) ==
  /\ wk[m].pc \notin {"idle", "exited"}
  /\ Fault
  /\ \/ bad' = bad
     \/ /\ wk[m].pc = "copy" /\ Local(m) /\ disk[m] \notin {{}, Files}
        /\ bad' = bad \cup {m}
  /\ wk' = [wk EXCEPT ![m] = Stopped]
  /\ UNCHANGED <<tr, art, disk, wiped, machine, requests, cmds>>

Restart(m) ==
  /\ wk[m].pc = "exited"
  /\ wk' = [wk EXCEPT ![m] = Idle]
  /\ UNCHANGED <<tr, art, files, machine, requests, cmds, faults>>
-----------------------------------------------------------------------------
(***************************************************************************)
(* Operator commands.  A command the code rejects changes nothing.         *)
(***************************************************************************)
Command == cmds < MaxCommands /\ cmds' = cmds + 1

CreateTransfer(t, dest) ==
  /\ tr[t].status = "none"
  /\ \A u \in Transfers : u < t => tr[u].status # "none"
  /\ art.status = "available"
  /\ \A m \in {Source, dest} \ {NoMachine} : Registered(m)
  /\ tr' = [tr EXCEPT ![t] = [NoRow EXCEPT !.status = "queued", !.dest = dest]]
  /\ UNCHANGED <<art, files, wk, machine, requests, cmds, faults>>

\* One command on one transfer row.
OnRow(t, From, row) ==
  /\ Command
  /\ tr[t].status \in From
  /\ tr' = [tr EXCEPT ![t] = row]
  /\ UNCHANGED <<art, files, wk, machine, requests, faults>>

CancelTransfer(t) ==
  OnRow(t, {"queued", "running", "paused", "retryable", "failed"},
        [tr[t] EXCEPT !.status = "cancelled"])

PauseTransfer(t) ==
  OnRow(t, {"queued", "running", "retryable"}, [tr[t] EXCEPT !.status = "paused"])

ResumeTransfer(t) ==
  OnRow(t, {"paused"}, [tr[t] EXCEPT !.status = "queued", !.sum = "none"])

\* Without resume the byte count starts again; the files stay where they are.
RetryTransfer(t, resume) ==
  OnRow(t, {"retryable", "failed", "cancelled"},
        [tr[t] EXCEPT !.status = "queued", !.sum = "none",
                      !.done = IF resume THEN @ ELSE 0])

DeleteTransfer(t) ==
  OnRow(t, {"completed", "failed", "cancelled"}, [NoRow EXCEPT !.status = "gone"])

\* update_transfer_progress: an operator may post what a worker posts, and no
\* copy is looked at.  completed asks for verified, and for nothing else; a
\* request that names no checksum status keeps the row's.
ReportTransfer(t, report) ==
  /\ Accepts(t, report.status, report.done)
  /\ report.status = "completed" => report.sum = "verified"
  /\ OnRow(t, Status, [tr[t] EXCEPT !.status = report.status, !.done = report.done,
                        !.sum = IF report.sum = "none" THEN @ ELSE report.sum,
                        !.told = @ \/ (report.status = "completed" /\ ~Terminal(t))])

\* Variant: the operator's verification does not read the copy.
VerifyUnread(t) ==
  /\ Accepts(t, "completed", Total)
  /\ OnRow(t, Status, [tr[t] EXCEPT !.status = "completed", !.done = Total,
                                    !.sum = "verified"])

\* verify_transfer checks the artifact on the dashboard's own disk and
\* completes the row, whatever its destination and whoever is copying.
VerifyTransfer(t) ==
  /\ art.root = Dashboard /\ verify_artifact(Dashboard)
  /\ Accepts(t, "completed", Total)
  /\ OnRow(t, Status, [tr[t] EXCEPT !.status = "completed", !.done = Total,
                                    !.sum = "verified"])

\* One command on the artifact row.
OnArtifact(next) ==
  /\ Command
  /\ art' = next /\ art' # art
  /\ UNCHANGED <<tr, files, wk, machine, requests, faults>>

\* set_research_artifact_archive_state; retention archives it too, when no
\* transfer of it is under way.
ArchiveArtifact == ArtifactExists /\ OnArtifact([art EXCEPT !.status = "archived"])
RestoreArtifact == ArtifactExists /\ OnArtifact([art EXCEPT !.status = "available"])
RetentionArtifact ==
  /\ \A t \in Transfers : Exists(t) => tr[t].status \in {"completed", "failed", "cancelled"}
  /\ ArchiveArtifact

\* The copy on the dashboard's disk is verified and becomes the artifact.
ImportArtifact ==
  /\ Command
  /\ verify_artifact(Dashboard) /\ Registered(Source)
  /\ upsert_research_artifact(Dashboard, "available")
  /\ wiped' = FALSE
  /\ UNCHANGED <<tr, disk, bad, wk, machine, requests, faults>>

RegisterArtifact ==
  /\ Registered(Source)
  /\ OnArtifact([root |-> Export, status |-> "available"])

\* update_artifact reads the row and later writes all of it back, with the
\* metadata asked for: whatever changed it in between is undone.
PatchArtifact ==
  /\ Command
  /\ patch = NoPatch /\ ArtifactExists
  /\ patch' = [of |-> Source, root |-> art.root, status |-> art.status]
  /\ UNCHANGED <<tr, art, files, wk, machine, del, faults>>

PatchArtifactWrite ==
  /\ patch.status \in {"available", "archived"}
  /\ IF Registered(Source) THEN upsert_research_artifact(patch.root, patch.status)
     ELSE UNCHANGED art
  /\ patch' = NoPatch
  /\ UNCHANGED <<tr, files, wk, machine, del, cmds, faults>>

\* update_machine does the same to a machine row, its status included.
PatchMachine(m) ==
  /\ Command
  /\ patch = NoPatch /\ Registered(m)
  /\ patch' = [NoPatch EXCEPT !.of = m, !.status = machine[m]]
  /\ UNCHANGED <<tr, art, files, wk, machine, del, faults>>

PatchMachineWrite ==
  /\ patch.status \in {"up", "disabled"}
  /\ machine' = IF Registered(patch.of)
                  THEN [machine EXCEPT ![patch.of] = patch.status] ELSE machine
  /\ patch' = NoPatch
  /\ UNCHANGED <<tr, art, files, wk, del, cmds, faults>>

\* delete_artifact: the check, then the files, then the check again with the
\* row.  The files go when the root read at the first check is the
\* dashboard's own; any other root is an error that ends the request.
ensure_research_artifact_deletable ==
  ArtifactExists /\ \A t \in Transfers : ~Exists(t)

DeleteArtifact ==
  /\ Command
  /\ del = NoMachine /\ ensure_research_artifact_deletable
  /\ del' = art.root
  /\ UNCHANGED <<tr, art, files, wk, machine, patch, faults>>

delete_artifact_files ==
  /\ disk' = [disk EXCEPT ![Dashboard] = {}]
  /\ bad' = bad \ {Dashboard}
  /\ wiped' = TRUE

DeleteArtifactRow ==
  /\ del # NoMachine
  /\ del' = NoMachine
  /\ \E withFiles \in BOOLEAN :
       /\ IF withFiles /\ del = Dashboard THEN delete_artifact_files
          ELSE UNCHANGED files
       /\ art' = IF /\ withFiles => del = Dashboard
                    /\ ensure_research_artifact_deletable
                   THEN [art EXCEPT !.status = "gone"] ELSE art
  /\ UNCHANGED <<tr, wk, machine, patch, cmds, faults>>

\* One command on the row of machine m.
OnMachine(m, From, status) ==
  /\ Command
  /\ machine[m] \in From
  /\ machine' = [machine EXCEPT ![m] = status]
  /\ UNCHANGED <<tr, art, files, wk, requests, faults>>

DisableMachine(m) == OnMachine(m, {"up"}, "disabled")
EnableMachine(m) == OnMachine(m, {"disabled"}, "up")
CreateMachine(m) == OnMachine(m, {"absent"}, "up")

\* A heartbeat sets the status of its machine, unless it is disabled; it does
\* not bring a deleted row back.
Heartbeat(m) ==
  /\ wk[m].pc # "exited" /\ Registered(m)
  /\ machine' = [machine EXCEPT ![m] = IF @ = "disabled" THEN @ ELSE "up"]
  /\ UNCHANGED <<tr, art, files, wk, requests, cmds, faults>>

\* No artifact, and no transfer from or to it, may refer to a machine that is
\* deleted.
DependencyFree(m) ==
  /\ m = Source => ~ArtifactExists
  /\ \A t \in Transfers : Exists(t) => m \notin {Source, tr[t].dest}

DeleteMachine(m) ==
  /\ m \in Custom /\ DependencyFree(m)
  /\ OnMachine(m, {"up", "disabled"}, "absent")
-----------------------------------------------------------------------------
Operator ==
  \/ \E t \in Transfers :
       \/ \E dest \in Machines \cup {NoMachine} : CreateTransfer(t, dest)
       \/ CancelTransfer(t) \/ PauseTransfer(t) \/ ResumeTransfer(t)
       \/ \E resume \in BOOLEAN : RetryTransfer(t, resume)
       \/ DeleteTransfer(t) \/ VerifyTransfer(t)
       \/ \E report \in Reports : ReportTransfer(t, report)
  \/ ArchiveArtifact \/ RestoreArtifact \/ RetentionArtifact
  \/ ImportArtifact \/ RegisterArtifact
  \/ PatchArtifact \/ PatchArtifactWrite \/ DeleteArtifact \/ DeleteArtifactRow
  \/ PatchMachineWrite
  \/ \E m \in Machines : \/ DisableMachine(m) \/ EnableMachine(m)
                          \/ CreateMachine(m) \/ DeleteMachine(m)
                          \/ PatchMachine(m)

WorkerStep(m) ==
  \/ Claim(m) \/ ReadArtifact(m) \/ StartCopy(m) \/ CopyFile(m)
  \/ Rsync(m) \/ Verify(m) \/ Relocate(m) \/ Complete(m)
  \/ ReadFailed(m) \/ GiveBack(m) \/ Restart(m)

Next ==
  \/ Operator
  \/ \E m \in Machines :
       \/ WorkerStep(m) \/ RecoverStale(m) \/ RsyncBreaks(m) \/ Crash(m)
       \/ ClaimAnswerLost(m) \/ CallLost(m) \/ ProgressAnswerLost(m)
       \/ RelocateAnswerLost(m) \/ Heartbeat(m)

\* The poll loop runs, the container restarts it, and every tick of it looks
\* for stale transfers before it claims one.
Fairness ==
  \A m \in Machines : WF_vars(WorkerStep(m)) /\ SF_vars(RecoverStale(m))

Spec == Init /\ [][Next]_vars /\ Fairness
-----------------------------------------------------------------------------
Rows == [status : Status, done : 0..Total, sum : Sums, dest : Machines \cup {NoMachine},
         told : BOOLEAN]
Points == {"idle", "claimed", "start", "copy", "verify", "relocate", "finish", "failed",
           "giveback", "exited"}
Tasks == [pc : Points, t : Transfers \cup {0}, root : Paths, done : 0..Total,
          file : 0..Total]
Patches == [of : Machines \cup {NoMachine}, root : Paths,
            status : {"none", "up", "disabled", "available", "archived"}]

RowTypeOK == tr \in [Transfers -> Rows] /\ machine \in [Machines -> {"up", "disabled", "absent"}]
DiskTypeOK == disk \in [Machines -> SUBSET Files] /\ bad \subseteq Machines /\ wiped \in BOOLEAN
ArtifactTypeOK ==
  /\ art \in [root : Paths, status : {"available", "archived", "gone"}]
  /\ patch \in Patches /\ del \in Paths \cup {NoMachine}
CountTypeOK == cmds \in 0..MaxCommands /\ faults \in 0..MaxFaults
TypeOK ==
  RowTypeOK /\ DiskTypeOK /\ ArtifactTypeOK /\ CountTypeOK /\ wk \in [Machines -> Tasks]

Whole(m) == verify_artifact(m)

\* The artifact row never points at a copy that is incomplete or damaged,
\* whatever crashed, was cancelled or was copied twice on the way.  Only a
\* delete_artifact with its files can leave it so, when a transfer is created
\* between its checks or a PATCH or a late worker brings the row back.
RootIsWhole ==
  ArtifactExists /\ art.root \in Machines => Whole(art.root) \/ wiped

\* A completed transfer says verified and all of its bytes, and the whole
\* artifact is on its destination, or on the dashboard's disk where
\* verify_transfer looked; without a destination, on some machine.  Again
\* only a DELETE of the files that overlaps the transfer takes it away, and
\* only a transfer that a progress request of the operator completed was
\* never backed: any other request of the operator, or a refusal, a stale
\* recovery or a second worker, leaves the promise standing.
CompletedIsBacked ==
  \A t \in Transfers : tr[t].status = "completed" /\ ~tr[t].told =>
    /\ tr[t].sum = "verified" /\ tr[t].done = Total
    /\ wiped \/ \E m \in Machines : Whole(m) /\ (m = Dashboard \/ For(m, t))

\* Every transfer goes from and to a machine that has a row, so that its
\* worker can claim it: delete_research_machine counts the references and
\* create_artifact_transfer asks for the row, each under the connection lock.
TransferNamesMachines ==
  \A t \in Transfers : Exists(t) =>
    \A m \in {Source, tr[t].dest} \ {NoMachine} : Registered(m)

\* A local copy of a row that counts more bytes than the copy has reached: they
\* were counted on another machine, by an operator, or were deleted since.
Overcounted(m) ==
  wk[m].pc = "copy" /\ Local(m) /\ Bytes(m) < tr[wk[m].t].done

\* A transfer that can be claimed or is running is eventually completed, or
\* stopped by a command, unless its machine is disabled, the copy is damaged,
\* the artifact row has moved off its source machine, or a local copy is
\* overcounted: its reports are refused, each time it is tried.
TransferSettles ==
  \A t \in Transfers :
    tr[t].status \in {"queued", "running", "retryable"} ~>
      \/ tr[t].status \notin {"queued", "running", "retryable"}
      \/ \E m \in Machines : wk[m].t = t /\ Overcounted(m)
      \/ art.root \notin {Export, Source}
      \/ bad # {}
      \/ \E m \in Machines : ~research_machine_accepts_work(m)
-----------------------------------------------------------------------------
(***************************************************************************)
(* The inductive invariant behind the three safety properties.  A copy is  *)
(* sound when it is whole, or was on the dashboard's own disk, the only    *)
(* one a DELETE empties.                                                   *)
(***************************************************************************)
Sound(m) == Whole(m) \/ (m = Dashboard /\ wiped)

\* The root in the artifact row, and the one a PATCH will put back.
RootsAreSound ==
  /\ ArtifactExists /\ art.root \in Machines => Sound(art.root)
  /\ patch.status \in {"available", "archived"} /\ patch.root \in Machines => Sound(patch.root)

CompletedIsSound ==
  \A t \in Transfers : tr[t].status = "completed" /\ ~tr[t].told =>
    /\ tr[t].sum = "verified" /\ tr[t].done = Total
    /\ \E m \in Machines : Sound(m) /\ (m = Dashboard \/ For(m, t))

\* A worker is at a transfer that was created and is for its machine; past the
\* verification its copy is sound, whatever became of the transfer.  A copy
\* still has a file to go through.
WorkerIsFor(m) ==
  /\ wk[m].pc \notin {"idle", "exited"} =>
       wk[m].t \in Transfers /\ tr[wk[m].t].status # "none" /\ For(m, wk[m].t)
  /\ wk[m].pc \in {"relocate", "finish"} => Sound(m)
  /\ wk[m].pc = "copy" => wk[m].file < Total

IInv ==
  /\ TypeOK /\ TransferNamesMachines /\ RootsAreSound /\ CompletedIsSound
  /\ \A m \in Machines : WorkerIsFor(m)

=============================================================================
