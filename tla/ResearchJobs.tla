---------------------------- MODULE ResearchJobs ----------------------------
(***************************************************************************)
(* The research control plane's job queue: the rows of research_jobs and   *)
(* research_job_steps in the dashboard database (db.rs), the operator's    *)
(* commands on them (api/research/jobs.rs, reports.rs, retention.rs) and   *)
(* the workers that lease and run steps (research_worker.rs,               *)
(* research_pipeline.rs, research_export.rs, the poll loop of              *)
(* bin/buba-research-worker.rs), over the HTTP backend whose requests and  *)
(* answers can be lost (research_controller_client.rs).                    *)
(*                                                                         *)
(* Every database operation runs in one transaction under the connection   *)
(* mutex, so it is one atomic step; the awaits between two of them are     *)
(* where the interleavings are.                                            *)
(*                                                                         *)
(* Simplified: priority and creation time are the order of the job         *)
(* numbers; a lease deadline is the flag "stale", raised by the            *)
(* environment and lowered by a renewal; timeline events, titles and all   *)
(* parameters but archive_scratch, dry_run, confirm_export and run_mode    *)
(* carry no control and are left out.                                      *)
(***************************************************************************)
EXTENDS Naturals, FiniteSets, Sequences

CONSTANTS
  Jobs,          \* job numbers, in the order the queue serves them
  Workers,       \* worker ids
  Plans,         \* Plans[t]: the kinds of the steps of a job of type t
  MaxAttempts,   \* RESEARCH_STEP_MAX_ATTEMPTS
  MaxCommands,   \* bound: operator commands after creation
  MaxFaults,     \* bound: crashes, lost answers and lease expiries
  MaxEvents      \* bound: commands and faults together

ASSUME JobsAssumption == Jobs \subseteq Nat \ {0}
ASSUME PlansAssumption ==
  \A t \in DOMAIN Plans :
    /\ Plans[t] \in Seq({"plan", "snapshot", "manifest", "verify", "command",
                        "report"})
    /\ Len(Plans[t]) > 0
\* The steps of an export, in the order step_templates_for_job gives them.
ASSUME ExportPlanAssumption ==
  "export" \in DOMAIN Plans =>
    Plans["export"] = <<"plan", "snapshot", "manifest", "verify">>
ASSUME BoundsAssumption ==
  /\ MaxAttempts \in Nat /\ MaxCommands \in Nat
  /\ MaxFaults \in Nat /\ MaxEvents \in Nat

VARIABLES
  job,       \* job[j]: status of the job row, "none" before, "gone" after it
  step,      \* step[j][i]: status, lease owner, stale lease, attempts
  type,      \* type[j]: its job type
  params,    \* params[j]: its parameters
  scratch,   \* scratch[j]: the backtest database: "none", "kept", "archived"
  report,    \* report[j]: what the report was computed from
  shelved,   \* the jobs whose report row is archived
  pack,      \* pack[j]: what an export job has put in its artifact root
  wk,        \* wk[w]: where worker w is, and the step it holds
  cmds,      \* operator commands so far
  faults     \* faults so far

dbVars == <<job, step>>
reportVars == <<report, shelved>>
askedVars == <<type, params>>
fileVars == <<askedVars, scratch, reportVars, pack>>
vars == <<job, step, type, params, scratch, report, shelved, pack, wk, cmds,
          faults>>

Kinds(j) == Plans[type[j]]
StepIx(j) == 1..Len(Kinds(j))
AnyStep == UNION {DOMAIN Plans[t] : t \in DOMAIN Plans}
NoOwner == "nobody"
Active == {"leased", "running"}
Retriable == {"failed", "blocked", "retryable", "cancelled"}
JobStatus == {"none", "queued", "running", "paused", "retryable", "failed",
              "blocked", "cancelled", "completed", "gone"}
StepStatus == {"queued", "leased", "running", "paused", "retryable",
               "failed", "blocked", "cancelled", "completed"}
Reports == {"none", "full", "missing", "steps_only"}

\* The worker's program counter.
\*   leased     has a lease, next marks it running
\*   work       a verify or export step, or the supervised child of a command step
\*   killed     the child was terminated because the job read as cancelled
\*   copy       snapshot_or_copy_runtime has emptied its destination
\*   upsert, attach   the calls of write_artifact_manifest_step
\*   gen .. publish   the stages of write_report_step
\*   ok, err    the result goes to complete_or_block_pipeline_step
\*   block      the cancellation check passed, the step is to be blocked
\*   exited     the process stopped on a fatal poll error or crashed
PCs == {"idle", "leased", "work", "copy", "upsert", "attach", "killed",
        "report", "gen", "archcheck", "arch", "pubcheck", "publish", "ok", "err", "block", "exited"}

Idle == [pc |-> "idle", job |-> 0, step |-> 0]
FreshStep == [status |-> "queued", owner |-> NoOwner, stale |-> FALSE,
              attempts |-> 0]

\* A backtest job keeps or archives its scratch; an export job is a dry run, a
\* confirmed real one, or one its plan blocks (unconfirmed, or live_trading).
ParamsOf(t) == IF t = "export" THEN {"dry", "real", "blocked"}
                               ELSE {"keep", "archive"}

\* The artifact root of an export job and its row: the copied database and
\* logs, the manifest and whether it describes them, the artifact row.
EmptyPack == [files |-> "none", manifest |-> "none", row |-> "none"]

Init ==
  /\ job = [j \in Jobs |-> "none"]
  /\ type \in [Jobs -> DOMAIN Plans]
  /\ params \in [Jobs -> UNION {ParamsOf(t) : t \in DOMAIN Plans}]
  /\ \A j \in Jobs : params[j] \in ParamsOf(type[j])
  /\ step = [j \in Jobs |-> [i \in StepIx(j) |-> FreshStep]]
  /\ scratch = [j \in Jobs |-> "none"]
  /\ report = [j \in Jobs |-> "none"]
  /\ shelved = {}
  /\ pack = [j \in Jobs |-> EmptyPack]
  /\ wk = [w \in Workers |-> Idle]
  /\ cmds = 0
  /\ faults = 0

Exists(j) == job[j] \notin {"none", "gone"}

\* A step row that gives its lease up.
Freed(s, status) == [status |-> status, owner |-> NoOwner, stale |-> FALSE,
                     attempts |-> s.attempts]

\* Every step of job j whose status is in From gives its lease up for To.
FreeAll(j, From, To) ==
  step' = [step EXCEPT ![j] =
             [i \in StepIx(j) |-> IF step[j][i].status \in From
                                 THEN Freed(step[j][i], To)
                                 ELSE step[j][i]]]

\* One step and its job change status together.
FreeOne(j, i, stepTo, jobTo) ==
  /\ step' = [step EXCEPT ![j][i] = Freed(@, stepTo)]
  /\ job' = [job EXCEPT ![j] = jobTo]

\* The lease check shared by complete, fail, block, renew and mark running.
Holds(w, j, i) ==
  /\ Exists(j)
  /\ step[j][i].owner = w
  /\ step[j][i].status \in Active
-----------------------------------------------------------------------------
(***************************************************************************)
(* The queue as the workers see it.                                        *)
(***************************************************************************)

\* Variant: the lease query skips leased and running rows, stale or not.
LeasableNeverTaken(j, i) ==
  /\ job[j] \in {"queued", "running", "retryable"}
  /\ step[j][i].status \in {"queued", "retryable"}
  /\ \A k \in 1..(i - 1) : step[j][k].status = "completed"

Leasable(j, i) ==
  /\ job[j] \in {"queued", "running", "retryable"}
  /\ \/ step[j][i].status \in {"queued", "retryable"}
     \/ step[j][i].status \in Active /\ step[j][i].stale
  /\ \A k \in 1..(i - 1) : step[j][k].status = "completed"

\* The row the lease query returns: first job in order, then first step.
Candidate(j, i) ==
  /\ Leasable(j, i)
  /\ \A k \in Jobs : \A h \in StepIx(k) :
       Leasable(k, h) => j < k \/ (j = k /\ i <= h)

Poisoned(j, i) == step[j][i].attempts >= MaxAttempts

LeaseRow(w, j, i) ==
  /\ step' = [step EXCEPT ![j][i] =
                [status |-> "leased", owner |-> w, stale |-> FALSE,
                 attempts |-> @.attempts + 1]]
  /\ job' = [job EXCEPT ![j] = "running"]

\* A worker polls and the query's row has no attempts left.
LeasePoisoned(w) ==
  /\ wk[w].pc = "idle"
  /\ \E j \in Jobs : \E i \in StepIx(j) :
       /\ Candidate(j, i)
       /\ Poisoned(j, i)
       /\ FreeOne(j, i, "failed", "failed")
  /\ UNCHANGED <<fileVars, wk, cmds, faults>>

LeaseNext(w) ==
  /\ wk[w].pc = "idle"
  /\ \E j \in Jobs : \E i \in StepIx(j) :
       /\ Candidate(j, i)
       /\ ~Poisoned(j, i)
       /\ LeaseRow(w, j, i)
       /\ wk' = [wk EXCEPT ![w] = [pc |-> "leased", job |-> j, step |-> i]]
  /\ UNCHANGED <<fileVars, cmds, faults>>

Fault ==
  /\ faults < MaxFaults /\ cmds + faults < MaxEvents
  /\ faults' = faults + 1

\* The controller grants a lease and its answer never arrives: the poll
\* fails as transient, the row stays leased until it expires.
LeaseAnswerLost(w) ==
  /\ wk[w].pc = "idle"
  /\ Fault
  /\ \E j \in Jobs : \E i \in StepIx(j) :
       /\ Candidate(j, i)
       /\ ~Poisoned(j, i)
       /\ LeaseRow(w, j, i)
  /\ UNCHANGED <<fileVars, wk, cmds>>

\* Some worker is still at work on the step, with or without its lease.
Attended(j, i) == \E w \in Workers : wk[w].job = j /\ wk[w].step = i

\* A deadline passes under a worker that did not renew it in time.
LeaseExpires(j, i) ==
  /\ Fault
  /\ Attended(j, i)
  /\ step[j][i].status \in Active
  /\ ~step[j][i].stale
  /\ step' = [step EXCEPT ![j][i].stale = TRUE]
  /\ UNCHANGED <<job, fileVars, wk, cmds>>

\* The deadline of a lease nobody works under passes.
LeaseLapses(j, i) ==
  /\ i \in StepIx(j)
  /\ ~Attended(j, i)
  /\ step[j][i].status \in Active
  /\ ~step[j][i].stale
  /\ step' = [step EXCEPT ![j][i].stale = TRUE]
  /\ UNCHANGED <<job, fileVars, wk, cmds, faults>>
-----------------------------------------------------------------------------
(***************************************************************************)
(* One worker running one step.                                            *)
(***************************************************************************)
Goto(w, pc) == wk' = [wk EXCEPT ![w].pc = pc]
Leave(w) == wk' = [wk EXCEPT ![w] = Idle]

\* A refused call is a BadRequest, which ends the poll loop as fatal; a row
\* that is gone is NotFound, which is transient.
Refused(w, j) ==
  wk' = [wk EXCEPT ![w] = IF Exists(j) THEN [Idle EXCEPT !.pc = "exited"]
                                       ELSE Idle]

RunRow(j, i) == step' = [step EXCEPT ![j][i].status = "running"]

MarkRunning(w) ==
  /\ wk[w].pc = "leased"
  /\ LET j == wk[w].job
         i == wk[w].step IN
     IF Holds(w, j, i)
       THEN /\ RunRow(j, i)
            /\ Goto(w, IF Kinds(j)[i] = "report" THEN "report" ELSE "work")
       ELSE Refused(w, j) /\ UNCHANGED step
  /\ UNCHANGED <<job, fileVars, cmds, faults>>

fail_step(j, i) == FreeOne(j, i, "failed", "failed")

\* A worker older than the controller leases a step whose name it does not
\* know, and fails it for good.
FailStep(w) ==
  /\ wk[w].pc = "leased"
  /\ Fault
  /\ LET j == wk[w].job
         i == wk[w].step IN
     IF Holds(w, j, i)
       THEN fail_step(j, i) /\ Leave(w)
       ELSE Refused(w, j) /\ UNCHANGED dbVars
  /\ UNCHANGED <<fileVars, cmds>>

Working(w, kind) ==
  wk[w].pc = "work" /\ Kinds(wk[w].job)[wk[w].step] = kind

\* Every file the manifest lists is there with its length and digest.
verify_artifact(j) ==
  pack[j].files = "copied" /\ pack[j].manifest = "matches"

\* The artifact of a backtest job was made elsewhere and may be bad.  That of
\* an export job is the one it attached; it fails when it is bad, and also when
\* the upload of the documents has pointed its row at a directory of the
\* controller that this worker does not have.  Without one (a dry run) there is
\* nothing to verify.
verify_artifact_step(w, ok) ==
  /\ Working(w, "verify")
  /\ LET j == wk[w].job IN
       type[j] = "export" =>
         IF pack[j].row = "attached" THEN ok => verify_artifact(j) ELSE ok
  /\ Goto(w, IF ok THEN "ok" ELSE "err")
  /\ UNCHANGED <<dbVars, fileVars, cmds, faults>>

CommandStep(w) == Working(w, "command")

\* The supervised child of a command step ends; one that succeeds has written
\* the backtest database.
run_command_step(w, ok) ==
  /\ CommandStep(w)
  /\ scratch' = IF ok THEN [scratch EXCEPT ![wk[w].job] = "kept"] ELSE scratch
  /\ Goto(w, IF ok THEN "ok" ELSE "err")
  /\ UNCHANGED <<dbVars, askedVars, reportVars, pack, cmds, faults>>

-----------------------------------------------------------------------------
(***************************************************************************)
(* The steps of an export job.  Each of them makes the plan again from the *)
(* parameters, which must parse and name files that are there.  The        *)
(* workers share a work root; one that does not finds no files.            *)
(***************************************************************************)
PathsReadable == BOOLEAN

plan_export(j, readable) ==
  IF ~readable THEN "error" ELSE IF params[j] = "blocked" THEN "blocked" ELSE "safe"

is_dry_run(j) == params[j] = "dry"
ensure_real_export_allowed(j) == params[j] = "real"

plan_export_step(w, readable) ==
  /\ Working(w, "plan")
  /\ Goto(w, IF plan_export(wk[w].job, readable) = "safe" THEN "ok" ELSE "err")
  /\ UNCHANGED <<dbVars, fileVars, cmds, faults>>

\* The files of the artifact root are replaced; a manifest that is there
\* describes the earlier ones.
remove_sqlite_family(j) ==
  pack' = [pack EXCEPT ![j] =
             [files |-> "none", row |-> @.row,
              manifest |-> IF @.manifest = "none" THEN "none" ELSE "differs"]]

snapshot_or_copy_runtime_step(w, readable) ==
  /\ Working(w, "snapshot")
  /\ LET j == wk[w].job IN
     IF plan_export(j, readable) = "error" \/ is_dry_run(j)
          \/ ~ensure_real_export_allowed(j)
       THEN /\ Goto(w, IF readable /\ is_dry_run(j) THEN "ok" ELSE "err")
            /\ UNCHANGED pack
       ELSE /\ Goto(w, "copy")
            /\ remove_sqlite_family(j)
  /\ UNCHANGED <<dbVars, askedVars, scratch, reportVars, cmds, faults>>

\* Of a source that runs on, or was started meanwhile, the bytes are not those
\* of an earlier backup.
backup_sqlite_db(j, same) ==
  pack' = [pack EXCEPT ![j] =
             [files |-> "copied", row |-> @.row,
              manifest |-> IF same /\ @.manifest = "differs" THEN "matches"
                           ELSE @.manifest]]

\* The backup of the source database, and the copies of its logs.
export_runtime_files(w) ==
  /\ wk[w].pc = "copy"
  /\ \/ /\ \E same \in BOOLEAN : backup_sqlite_db(wk[w].job, same)
        /\ Goto(w, "ok")
     \/ /\ Goto(w, "err")
        /\ UNCHANGED pack
  /\ UNCHANGED <<dbVars, askedVars, scratch, reportVars, cmds, faults>>

\* Every listed file must be there to be digested.
build_manifest(j) == pack[j].files = "copied"

\* The manifest describes what is there now.
write_export_manifest(j) ==
  pack' = [pack EXCEPT ![j] = [@ EXCEPT !.manifest = "matches"]]

write_artifact_manifest_step(w, readable) ==
  /\ Working(w, "manifest")
  /\ LET j == wk[w].job
         real == /\ plan_export(j, readable) # "error" /\ ~is_dry_run(j)
                 /\ ensure_real_export_allowed(j)
                 /\ build_manifest(j) IN
     /\ IF real THEN write_export_manifest(j) ELSE UNCHANGED pack
     /\ Goto(w, IF real THEN "upsert"
                ELSE IF readable /\ is_dry_run(j) THEN "ok" ELSE "err")
  /\ UNCHANGED <<dbVars, askedVars, scratch, reportVars, cmds, faults>>

\* Its calls: the artifact row, then its attachment to the job, which needs
\* both rows, and the upload of the documents.
RegisterExport(j) ==
  pack' = [pack EXCEPT ![j] =
             [files |-> @.files, manifest |-> @.manifest,
              row |-> IF @.row = "none" THEN "registered" ELSE @.row]]
attach_research_job_artifact(j) ==
  /\ Exists(j)
  /\ pack' = [pack EXCEPT ![j] = [@ EXCEPT !.row = "attached"]]

AttachArtifact(w) ==
  /\ LET j == wk[w].job IN
     \/ wk[w].pc = "upsert" /\ Goto(w, "attach") /\ RegisterExport(j)
     \/ wk[w].pc = "attach" /\ Goto(w, "ok") /\ attach_research_job_artifact(j)
     \/ wk[w].pc = "attach" /\ ~Exists(j) /\ Goto(w, "err") /\ UNCHANGED pack
  /\ UNCHANGED <<dbVars, askedVars, scratch, reportVars, cmds, faults>>

ExportStep(w) ==
  \/ \E readable \in PathsReadable :
       \/ plan_export_step(w, readable)
       \/ snapshot_or_copy_runtime_step(w, readable)
       \/ write_artifact_manifest_step(w, readable)
  \/ export_runtime_files(w)
  \/ AttachArtifact(w)

is_job_cancelled(j) == ~Exists(j) \/ job[j] = "cancelled"

renew_step_lease(j, i) == step' = [step EXCEPT ![j][i].stale = FALSE]

\* The supervision loop renews the lease of a live child; a refusal is only
\* logged.
RenewLease(w) ==
  /\ CommandStep(w)
  /\ ~is_job_cancelled(wk[w].job)
  /\ Holds(w, wk[w].job, wk[w].step)
  /\ step[wk[w].job][wk[w].step].stale
  /\ renew_step_lease(wk[w].job, wk[w].step)
  /\ UNCHANGED <<job, fileVars, wk, cmds, faults>>

\* The supervision loop sees the job cancelled or gone and kills the child.
KillChild(w) ==
  /\ CommandStep(w)
  /\ is_job_cancelled(wk[w].job)
  /\ Goto(w, "killed")
  /\ UNCHANGED <<dbVars, fileVars, cmds, faults>>

Cancellable(j) == Exists(j) /\ job[j] \notin {"completed", "cancelled"}

CancelRows(j) ==
  /\ job' = [job EXCEPT ![j] = "cancelled"]
  /\ FreeAll(j, StepStatus \ {"completed", "cancelled"}, "cancelled")

\* After a kill the worker cancels the job if its row does not say so (any
\* more); a completed job refuses, which is an error like any other.
AfterKill(w) ==
  /\ wk[w].pc = "killed"
  /\ IF Cancellable(wk[w].job) THEN CancelRows(wk[w].job) ELSE UNCHANGED dbVars
  /\ Goto(w, "err")
  /\ UNCHANGED <<fileVars, cmds, faults>>

ReportCancelled(j, i) ==
  is_job_cancelled(j) \/ step[j][i].status = "cancelled"

\* The three cancellation checks of write_report_step.
ReportCheck(w) ==
  /\ wk[w].pc \in {"report", "archcheck", "pubcheck"}
  /\ Goto(w, IF ReportCancelled(wk[w].job, wk[w].step) THEN "err"
             ELSE CASE wk[w].pc = "report" -> "gen"
                    [] wk[w].pc = "archcheck" -> "arch"
                    [] wk[w].pc = "pubcheck" -> "publish")
  /\ UNCHANGED <<dbVars, fileVars, cmds, faults>>

\* The report a backtest database gives: without one the document says
\* analysis_missing_backtest_db and carries no metrics.
ReportFrom(j) == IF scratch[j] = "kept" THEN "full" ELSE "missing"

\* create_or_update_research_report: a worker's report is available again,
\* even when the operator had archived or deleted it.
PersistReport(j, of) ==
  /\ report' = [report EXCEPT ![j] = of]
  /\ shelved' = shelved \ {j}

\* The row is refused without its job.
persist_research_report_metadata(j, of) ==
  IF Exists(j) THEN PersistReport(j, of) ELSE UNCHANGED reportVars

\* Build the documents, write them and persist the report row.
GenerateReport(w) ==
  /\ wk[w].pc = "gen"
  /\ LET j == wk[w].job IN
     /\ persist_research_report_metadata(j, ReportFrom(j))
     /\ Goto(w, IF ~Exists(j) THEN "err"
                ELSE IF params[j] = "archive" THEN "archcheck" ELSE "pubcheck")
  /\ UNCHANGED <<dbVars, askedVars, scratch, pack, cmds, faults>>

\* The plan does not fit the parameters, or the files cannot be written.
PlanFails(w) ==
  /\ wk[w].pc = "gen"
  /\ Goto(w, "err")
  /\ UNCHANGED <<dbVars, fileVars, cmds, faults>>

\* The backtest database is moved away, or cannot be; the row is persisted
\* again with the outcome.
ArchiveScratch(w, ok) ==
  /\ wk[w].pc = "arch"
  /\ LET j == wk[w].job IN
     /\ persist_research_report_metadata(j,
          IF report[j] = "none" THEN ReportFrom(j) ELSE report[j])
     /\ scratch' = IF ok THEN [scratch EXCEPT ![j] = "archived"] ELSE scratch
     /\ Goto(w, IF ok /\ Exists(j) THEN "pubcheck" ELSE "err")
  /\ UNCHANGED <<dbVars, askedVars, pack, cmds, faults>>

\* update_research_report_paths finds no row when it was deleted meanwhile.
store_report_documents(j) == report[j] # "none"

PublishReport(w) ==
  /\ wk[w].pc = "publish"
  /\ Goto(w, IF store_report_documents(wk[w].job) THEN "ok" ELSE "err")
  /\ UNCHANGED <<dbVars, fileVars, cmds, faults>>

AllCompleted(s) == \A i \in DOMAIN s : s[i].status = "completed"

\* complete_research_step: a step already completed answers as a success.
CompleteRow(j, i) ==
  LET s == [step[j] EXCEPT ![i] = Freed(@, "completed")] IN
  /\ step' = [step EXCEPT ![j] = s]
  /\ job' = IF AllCompleted(s) THEN [job EXCEPT ![j] = "completed"] ELSE job

\* The answer to the worker: done (now or before), or refused.
complete_step(w, j, i) ==
  \/ /\ Exists(j) /\ step[j][i].status = "completed"
     /\ Leave(w)
     /\ UNCHANGED dbVars
  \/ /\ Holds(w, j, i)
     /\ CompleteRow(j, i)
     /\ Leave(w)
  \/ /\ ~Holds(w, j, i)
     /\ Exists(j) => step[j][i].status # "completed"
     /\ Refused(w, j)
     /\ UNCHANGED dbVars

FinishOk(w) ==
  /\ wk[w].pc = "ok"
  /\ complete_step(w, wk[w].job, wk[w].step)
  /\ UNCHANGED <<fileVars, cmds, faults>>

\* A line of the job's timeline needs its row.
append_research_job_event(j) == Exists(j)

\* An error on a cancelled step is the cancellation; a deleted job ends the
\* attempt at its next event; any other error is to block the step.  A verify
\* step (complete_or_block_step) makes no cancellation check.
FinishErr(w) ==
  /\ wk[w].pc = "err"
  /\ LET j == wk[w].job
         i == wk[w].step
         seen == /\ Kinds(j)[i] # "verify"
                 /\ job[j] = "cancelled"
                 /\ step[j][i].status = "cancelled" IN
     IF ~append_research_job_event(j) \/ seen THEN Leave(w) ELSE Goto(w, "block")
  /\ UNCHANGED <<dbVars, fileVars, cmds, faults>>

\* Variant: the job is left as it is when its step is blocked.
BlockStepOnly(w) ==
  /\ wk[w].pc = "block"
  /\ LET j == wk[w].job
         i == wk[w].step IN
     IF Holds(w, j, i)
       THEN FreeOne(j, i, "blocked", job[j]) /\ Leave(w)
       ELSE Refused(w, j) /\ UNCHANGED dbVars
  /\ UNCHANGED <<fileVars, cmds, faults>>

BlockStep(w) ==
  /\ wk[w].pc = "block"
  /\ LET j == wk[w].job
         i == wk[w].step IN
     IF Holds(w, j, i)
       THEN FreeOne(j, i, "blocked", "blocked") /\ Leave(w)
       ELSE Refused(w, j) /\ UNCHANGED dbVars
  /\ UNCHANGED <<fileVars, cmds, faults>>

(***************************************************************************)
(* A call of the worker whose request, or whose answer, is lost.  The      *)
(* client does not send it again.  An error of the lease, run, complete or *)
(* block call ends the attempt; an error inside the action is its result.  *)
(***************************************************************************)
RequestLost(w) ==
  /\ wk[w].pc \in {"leased", "ok", "err", "block"}
  /\ Fault
  /\ Leave(w)
  /\ UNCHANGED <<dbVars, fileVars, cmds>>

RunAnswerLost(w) ==
  /\ wk[w].pc = "leased" /\ Holds(w, wk[w].job, wk[w].step)
  /\ Fault
  /\ RunRow(wk[w].job, wk[w].step)
  /\ Leave(w)
  /\ UNCHANGED <<job, fileVars, cmds>>

CompleteAnswerLost(w) ==
  /\ wk[w].pc = "ok" /\ Holds(w, wk[w].job, wk[w].step)
  /\ Fault
  /\ CompleteRow(wk[w].job, wk[w].step)
  /\ Leave(w)
  /\ UNCHANGED <<fileVars, cmds>>

BlockAnswerLost(w) ==
  /\ wk[w].pc = "block" /\ Holds(w, wk[w].job, wk[w].step)
  /\ Fault
  /\ FreeOne(wk[w].job, wk[w].step, "blocked", "blocked")
  /\ Leave(w)
  /\ UNCHANGED <<fileVars, cmds>>

\* The cancellation checks of a report and its document upload.
ReportCallLost(w) ==
  /\ wk[w].pc \in {"report", "gen", "archcheck", "pubcheck", "publish"}
  /\ Fault
  /\ Goto(w, "err")
  /\ \/ UNCHANGED reportVars
     \/ /\ wk[w].pc = "gen"
        /\ persist_research_report_metadata(wk[w].job, ReportFrom(wk[w].job))
  /\ UNCHANGED <<dbVars, askedVars, scratch, pack, cmds>>

\* The scratch database is moved, and the row that should say so is not.
ArchiveCallLost(w) ==
  /\ wk[w].pc = "arch"
  /\ Fault
  /\ Goto(w, "err")
  /\ scratch' = [scratch EXCEPT ![wk[w].job] = "archived"]
  /\ UNCHANGED <<dbVars, askedVars, reportVars, pack, cmds>>

CancelCallLost(w) ==
  /\ wk[w].pc = "killed"
  /\ Fault
  /\ Goto(w, "err")
  /\ \/ UNCHANGED dbVars
     \/ Cancellable(wk[w].job) /\ CancelRows(wk[w].job)
  /\ UNCHANGED <<fileVars, cmds>>

\* A call of the manifest step, and the read of the artifact to verify.
ExportCallLost(w) ==
  /\ \/ wk[w].pc \in {"upsert", "attach"}
     \/ Working(w, "verify") /\ type[wk[w].job] = "export"
  /\ Fault
  /\ Goto(w, "err")
  /\ \/ UNCHANGED pack
     \/ wk[w].pc = "upsert" /\ RegisterExport(wk[w].job)
     \/ wk[w].pc = "attach" /\ attach_research_job_artifact(wk[w].job)
  /\ UNCHANGED <<dbVars, askedVars, scratch, reportVars, cmds>>

\* The process dies anywhere, and the container restarts it.
Crash(w) ==
  /\ wk[w].pc \notin {"idle", "exited"}
  /\ Fault
  /\ wk' = [wk EXCEPT ![w] = [Idle EXCEPT !.pc = "exited"]]
  /\ UNCHANGED <<dbVars, fileVars, cmds>>

Restart(w) ==
  /\ wk[w].pc = "exited"
  /\ Leave(w)
  /\ UNCHANGED <<dbVars, fileVars, cmds, faults>>
-----------------------------------------------------------------------------
(***************************************************************************)
(* Operator commands.  A command the code rejects changes nothing.         *)
(***************************************************************************)
Command ==
  /\ cmds < MaxCommands /\ cmds + faults < MaxEvents
  /\ cmds' = cmds + 1

CreateJob(j) ==
  /\ job[j] = "none"
  /\ job' = [job EXCEPT ![j] = "queued"]
  /\ UNCHANGED <<step, fileVars, wk, cmds, faults>>

\* The parameters of a job change only before any of its steps was leased.
UpdateQueuedJob(j) ==
  /\ Command
  /\ job[j] = "queued"
  /\ \A i \in StepIx(j) : step[j][i].status = "queued" /\ step[j][i].attempts = 0
  /\ \E p \in ParamsOf(type[j]) \ {params[j]} :
       params' = [params EXCEPT ![j] = p]
  /\ UNCHANGED <<dbVars, type, scratch, reportVars, pack, wk, faults>>

\* A running step keeps running under a paused job.
PauseJob(j) ==
  /\ Command
  /\ job[j] \in {"queued", "running", "retryable"}
  /\ job' = [job EXCEPT ![j] = "paused"]
  /\ FreeAll(j, {"queued", "retryable", "leased"}, "paused")
  /\ UNCHANGED <<fileVars, wk, faults>>

RetryRows(j) ==
  /\ job' = [job EXCEPT ![j] = "queued"]
  /\ FreeAll(j, Retriable, "queued")

\* Resuming a job that is not paused is a retry.
ResumeJob(j) ==
  /\ Command
  /\ \/ /\ job[j] = "paused"
        /\ job' = [job EXCEPT ![j] = "queued"]
        /\ FreeAll(j, {"paused"}, "queued")
     \/ /\ job[j] \in Retriable
        /\ RetryRows(j)
  /\ UNCHANGED <<fileVars, wk, faults>>

RetryJob(j) ==
  /\ Command
  /\ job[j] \in Retriable
  /\ RetryRows(j)
  /\ UNCHANGED <<fileVars, wk, faults>>

CancelJob(j) ==
  /\ Command
  /\ Cancellable(j)
  /\ CancelRows(j)
  /\ UNCHANGED <<fileVars, wk, faults>>

DeleteJob(j) ==
  /\ Command
  /\ Exists(j)
  /\ job[j] \notin {"queued", "running"}
  /\ report[j] = "none"
  /\ job' = [job EXCEPT ![j] = "gone"]
  /\ step' = [step EXCEPT ![j] = [i \in StepIx(j) |-> FreshStep]]
  /\ UNCHANGED <<fileVars, wk, faults>>

\* Variant: a completed step can be retried too.
RetryAnyStep(j, i) ==
  /\ Command
  /\ Exists(j)
  /\ step[j][i].status \in Retriable \cup {"paused", "completed"}
  /\ FreeOne(j, i, "queued", "queued")
  /\ UNCHANGED <<fileVars, wk, faults>>

RetryStep(j, i) ==
  /\ Command
  /\ Exists(j)
  /\ step[j][i].status \in Retriable \cup {"paused"}
  /\ FreeOne(j, i, "queued", "queued")
  /\ UNCHANGED <<fileVars, wk, faults>>

CancelStep(j, i) ==
  /\ Command
  /\ Exists(j)
  /\ step[j][i].status \notin {"completed", "cancelled"}
  /\ FreeOne(j, i, "cancelled", "cancelled")
  /\ UNCHANGED <<fileVars, wk, faults>>

ClearStaleLease(j, i) ==
  /\ Command
  /\ Exists(j)
  /\ step[j][i].status \in Active
  /\ step[j][i].stale
  /\ FreeOne(j, i, "retryable", "retryable")
  /\ UNCHANGED <<fileVars, wk, faults>>

ResolveBlocker(j, i) ==
  /\ Command
  /\ Exists(j)
  /\ step[j][i].status = "blocked"
  /\ FreeOne(j, i, "queued", "queued")
  /\ UNCHANGED <<fileVars, wk, faults>>

\* The report is rebuilt from the backtest database, or from the step rows
\* with an analysis_warning when there is none.
RegenerateReport(j) ==
  /\ Command
  /\ Exists(j)
  /\ \/ report[j] # "none"
     \/ job[j] \in Retriable \cup {"completed"}
  /\ report' = [report EXCEPT ![j] =
                   IF scratch[j] = "kept" THEN "full" ELSE "steps_only"]
  /\ UNCHANGED <<dbVars, askedVars, scratch, shelved, pack, wk, faults>>

ArchiveJobScratch(j) ==
  /\ Command
  /\ job[j] = "completed"
  /\ report[j] # "none"
  /\ scratch' = [scratch EXCEPT ![j] = "archived"]
  /\ UNCHANGED <<dbVars, askedVars, reportVars, pack, wk, faults>>

\* One command on the report row of job j.
OnReport(j, of, shelf) ==
  /\ Command
  /\ report[j] # "none"
  /\ report' = [report EXCEPT ![j] = of]
  /\ shelved' = shelf
  /\ UNCHANGED <<dbVars, askedVars, scratch, pack, wk, faults>>

\* The report files may be deleted with the row.
delete_report(j) == OnReport(j, "none", shelved \ {j})
ArchiveReport(j) == OnReport(j, report[j], shelved \cup {j})
RestoreReport(j) == OnReport(j, report[j], shelved \ {j})
update_report(j) == ArchiveReport(j) \/ RestoreReport(j)

\* The bulk cleanup archives the scratch of the completed jobs and the
\* reports it was given, one after another, each under its own conditions.
RetentionReport(j) == j \notin shelved /\ ArchiveReport(j)
RetentionJob(j) == ArchiveJobScratch(j)
archive_retention(j) == RetentionReport(j) \/ RetentionJob(j)
-----------------------------------------------------------------------------
StepRequest(j) ==
  \E i \in StepIx(j) : \/ RetryStep(j, i) \/ CancelStep(j, i)
                       \/ ClearStaleLease(j, i) \/ ResolveBlocker(j, i)

Operator ==
  \E j \in Jobs :
    \/ CreateJob(j) \/ UpdateQueuedJob(j) \/ PauseJob(j) \/ ResumeJob(j) \/ RetryJob(j)
    \/ CancelJob(j) \/ DeleteJob(j)
    \/ RegenerateReport(j) \/ ArchiveJobScratch(j) \/ delete_report(j)
    \/ ArchiveReport(j) \/ RestoreReport(j) \/ update_report(j)
    \/ archive_retention(j)
    \/ StepRequest(j)

Supervise(w) == RenewLease(w) \/ KillChild(w)
WorkerStep(w) ==
  \/ LeasePoisoned(w) \/ LeaseNext(w) \/ MarkRunning(w)
  \/ \E ok \in BOOLEAN : verify_artifact_step(w, ok) \/ run_command_step(w, ok)
  \/ ExportStep(w)
  \/ AfterKill(w) \/ ReportCheck(w) \/ GenerateReport(w) \/ PlanFails(w)
  \/ \E ok \in BOOLEAN : ArchiveScratch(w, ok)
  \/ PublishReport(w)
  \/ FinishOk(w) \/ FinishErr(w) \/ BlockStep(w) \/ Restart(w)

Environment ==
  \/ \E j \in Jobs : \E i \in StepIx(j) :
       LeaseExpires(j, i) \/ LeaseLapses(j, i)
  \/ \E w \in Workers :
       \/ LeaseAnswerLost(w) \/ RequestLost(w) \/ RunAnswerLost(w)
       \/ CompleteAnswerLost(w) \/ BlockAnswerLost(w) \/ ReportCallLost(w)
       \/ ArchiveCallLost(w) \/ CancelCallLost(w) \/ ExportCallLost(w)
       \/ FailStep(w) \/ Crash(w)

Next ==
  \/ Operator
  \/ Environment
  \/ \E w \in Workers : WorkerStep(w) \/ Supervise(w)

\* A worker that can run does: the poll loop, the supervised child, and the
\* container's restart policy.  The supervision loop polls until the child
\* ends.  A deadline that nobody renews passes.  Operators need do nothing.
Fairness ==
  /\ \A w \in Workers : WF_vars(WorkerStep(w)) /\ WF_vars(Supervise(w))
  /\ \A j \in Jobs, i \in AnyStep : WF_vars(LeaseLapses(j, i))

Spec == Init /\ [][Next]_vars /\ Fairness
-----------------------------------------------------------------------------
StepRows == [status : StepStatus, owner : Workers \cup {NoOwner},
             stale : BOOLEAN, attempts : 0..MaxAttempts]

DbTypeOK ==
  /\ job \in [Jobs -> JobStatus]
  /\ type \in [Jobs -> DOMAIN Plans]
  /\ DOMAIN step = Jobs
  /\ \A j \in Jobs : step[j] \in [StepIx(j) -> StepRows]

Packs == [files : {"none", "copied"}, manifest : {"none", "matches", "differs"},
          row : {"none", "registered", "attached"}]

FileTypeOK ==
  /\ DOMAIN params = Jobs
  /\ \A j \in Jobs : params[j] \in ParamsOf(type[j])
  /\ pack \in [Jobs -> Packs]
  /\ scratch \in [Jobs -> {"none", "kept", "archived"}]
  /\ report \in [Jobs -> Reports]
  /\ shelved \subseteq Jobs

WorkTypeOK ==
  /\ wk \in [Workers -> [pc : PCs, job : Jobs \cup {0}, step : Nat]]
  /\ \A w \in Workers :
       wk[w].pc \notin {"idle", "exited"} =>
         wk[w].job \in Jobs /\ wk[w].step \in StepIx(wk[w].job)
  /\ cmds \in 0..MaxCommands /\ faults \in 0..MaxFaults

\* Types of all variables; a worker that is not idle has a step in hand.
TypeOK == DbTypeOK /\ FileTypeOK /\ WorkTypeOK

\* The job still counts as runnable and nothing can run: no step is leased
\* and the next one is not queued.
Wedged(j) ==
  /\ job[j] \in {"queued", "running", "retryable"}
  /\ \A i \in StepIx(j) : ~Leasable(j, i) /\ step[j][i].status \notin Active

\* No fault, no failure of the workers and no single operator command wedges
\* a job: it takes two, such as a pause whose running step then blocks and a
\* retry, or a retry of another step than the one that is blocked.
WedgeTakesTwoCommands == \A j \in Jobs : Wedged(j) => cmds >= 2

\* A completed real export has its artifact attached, and the files under it
\* are those its manifest describes and its last step verified: they can be
\* other ones only when a lease ran out under a worker, or the operator took a
\* step from one and gave it out again, so that it copied once more behind the
\* worker that followed.
ExportIsWhole ==
  \A j \in Jobs :
    job[j] = "completed" /\ params[j] = "real" =>
      /\ pack[j].row = "attached"
      /\ verify_artifact(j) \/ faults >= 1 \/ cmds >= 2

\* A runnable job is eventually settled: completed, or failed, blocked,
\* paused, cancelled or deleted, or left for the operator by a command that
\* stopped one of its steps.  A lease whose worker died never holds it.
JobSettles ==
  \A j \in Jobs :
    job[j] \in {"queued", "running", "retryable"} ~>
      \/ job[j] \notin {"queued", "running", "retryable"}
      \/ Wedged(j)

Ledger == INSTANCE JobLedger WITH
  phase <- [j \in Jobs |-> IF ~Exists(j) THEN job[j]
                           ELSE IF job[j] = "completed" THEN "closed" ELSE "open"],
  done <- [j \in Jobs |-> {i \in StepIx(j) : step[j][i].status = "completed"}],
  size <- [j \in Jobs |-> Len(Kinds(j))]

\* The queue implements the ledger of JobLedger: steps are done once, in
\* order, one at a time, and a completed job is never reopened by a late
\* worker or an operator.
LedgerRefined == Ledger!LedgerSpec

-----------------------------------------------------------------------------
(***************************************************************************)
(* The inductive invariant behind the refinement.                          *)
(***************************************************************************)

\* A job that was not created yet, or was deleted, has blank step rows.
BlankRows ==
  \A j \in Jobs : ~Exists(j) => \A i \in StepIx(j) : step[j][i] = FreshStep

\* A step is leased, runs or is completed only after the steps before it.
StepsInOrder ==
  \A j \in Jobs : \A i \in StepIx(j) :
    step[j][i].status \in Active \cup {"completed"} =>
      \A k \in 1..(i - 1) : step[j][k].status = "completed"

\* A job is completed when and only when all of its steps are, whatever the
\* workers, the operator and lost answers do between them
\* (complete_research_step, retry_research_step, cancel_research_step).
CompletedIffStepsAre ==
  \A j \in Jobs : Exists(j) =>
    (job[j] = "completed" <=> AllCompleted(step[j]))

IInv == TypeOK /\ BlankRows /\ StepsInOrder /\ CompletedIffStepsAre

-----------------------------------------------------------------------------
(***************************************************************************)
(* The inductive invariant behind WedgeTakesTwoCommands and ExportIsWhole: *)
(* what the rows, the workers and the files of a job can be while there    *)
(* was no operator command, at most one, or no fault.                      *)
(***************************************************************************)
Runnable(j) == job[j] \in {"queued", "running", "retryable"}
Halted == {"failed", "blocked"}
InHand(w) == wk[w].pc \notin {"idle", "exited"}
At(w, j, i) == InHand(w) /\ wk[w].job = j /\ wk[w].step = i

\* The steps at which a worker can be at a stage.
ReportPCs == {"report", "gen", "archcheck", "arch", "pubcheck", "publish"}
StageOfKind(pc, kind) ==
  /\ pc = "copy" => kind = "snapshot"
  /\ pc \in {"upsert", "attach"} => kind = "manifest"
  /\ pc \in ReportPCs => kind = "report"

\* A worker works on a job that was created, on a step that was leased, and
\* kills a child only after a command.
HandIsReal(w, j, i) ==
  /\ job[j] # "none"
  /\ Exists(j) => step[j][i].attempts >= 1
  /\ StageOfKind(wk[w].pc, Kinds(j)[i])
  /\ wk[w].pc = "killed" => cmds >= 1

HandsAreReal ==
  \A w \in Workers : InHand(w) => HandIsReal(w, wk[w].job, wk[w].step)

\* Without a command, one step at most failed or was blocked, after the ones
\* before it, and its job is no longer runnable.
HaltIsSingle(j) ==
  /\ job[j] \in {"none", "queued", "running", "completed"} \cup Halted
  /\ \A i \in StepIx(j) :
       /\ step[j][i].status \in {"queued", "completed"} \cup Active \cup Halted
       /\ step[j][i].status \in Halted =>
            /\ ~Runnable(j)
            /\ \A k \in 1..(i - 1) : step[j][k].status = "completed"

HaltsAreSingle == cmds = 0 => \A j \in Jobs : HaltIsSingle(j)

\* After one command, the steps of a runnable job can all run.
StepsRun(j) ==
  Runnable(j) => \A i \in StepIx(j) :
    step[j][i].status \in {"queued", "retryable", "completed"} \cup Active

RunnableRuns == cmds <= 1 => \A j \in Jobs : StepsRun(j)

\* Without a fault, a leased or running row has its owner at work on it, and
\* its lease is not stale.
LeaseIsAttended(j, i) ==
  step[j][i].status \in Active =>
    /\ step[j][i].owner \in Workers
    /\ ~step[j][i].stale
    /\ At(step[j][i].owner, j, i)
    /\ step[j][i].status = "leased" => wk[step[j][i].owner].pc = "leased"

LeasesAreAttended ==
  faults = 0 => \A j \in Jobs : \A i \in StepIx(j) : LeaseIsAttended(j, i)

\* One command that takes a step from its worker leaves the job unable to
\* complete.
Doomed(j) == \E i \in StepIx(j) : step[j][i].status = "cancelled"

HoldsOn(w, j, i) == Holds(w, j, i) \/ ~Exists(j) \/ Doomed(j)

WorkersHold ==
  faults = 0 /\ cmds <= 1 => \A w \in Workers :
    InHand(w) /\ wk[w].pc # "leased" => HoldsOn(w, wk[w].job, wk[w].step)

\* The manifest step of a real export has attached the artifact.
Real(j) == params[j] = "real"
Attached(j) == pack[j].row = "attached"
ManifestAttaches ==
  \A j \in Jobs : Real(j) =>
    /\ step[j][3].status = "completed" => Attached(j)
    /\ \A w \in Workers : At(w, j, 3) /\ wk[w].pc = "ok" => Attached(j)

\* What a step of a real export did stays done until the job is completed.
Untouched(j) == Exists(j) /\ ~Doomed(j)
Copied(j) == pack[j].files = "copied"
FilesStay ==
  faults = 0 /\ cmds <= 1 => \A j \in Jobs : Real(j) /\ Untouched(j) =>
    /\ step[j][2].status = "completed" => Copied(j)
    /\ step[j][3].status = "completed" => verify_artifact(j)
    /\ \A w \in Workers :
         /\ At(w, j, 2) /\ wk[w].pc = "ok" => Copied(j)
         /\ At(w, j, 3) /\ wk[w].pc \in {"upsert", "attach", "ok"} => verify_artifact(j)

HistoryInv ==
  /\ HandsAreReal /\ HaltsAreSingle /\ RunnableRuns
  /\ LeasesAreAttended /\ WorkersHold /\ ManifestAttaches /\ FilesStay

IInvPlus == IInv /\ HistoryInv

=============================================================================
