----------------------------- MODULE JobLedger -----------------------------
(***************************************************************************)
(* What the research queue promises of a job, whatever the workers, the    *)
(* leases and the operator do: steps are done once, in order, one at a     *)
(* time; a job is closed when and only when its last step is done; a       *)
(* closed job never changes again, except that its rows may be deleted.    *)
(* ResearchJobs implements this specification.                             *)
(***************************************************************************)
EXTENDS Naturals

CONSTANTS Jobs      \* job identifiers

VARIABLES phase,    \* phase[j]: "none", "open", "closed" or "gone"
          done,     \* done[j]: the indices of the completed steps
          size      \* size[j]: number of steps, which the type of the job fixes

ledgerVars == <<phase, done, size>>

LedgerInit ==
  /\ phase = [j \in Jobs |-> "none"]
  /\ done = [j \in Jobs |-> {}]
  /\ size \in [Jobs -> Nat \ {0}]

Open(j) ==
  /\ phase[j] = "none"
  /\ phase' = [phase EXCEPT ![j] = "open"]
  /\ UNCHANGED <<done, size>>

\* The next step of the job is done; the last one closes the job.
Finish(j, i) ==
  /\ phase[j] = "open"
  /\ done[j] = 1..(i - 1)
  /\ done' = [done EXCEPT ![j] = 1..i]
  /\ phase' = [phase EXCEPT ![j] = IF i = size[j] THEN "closed" ELSE "open"]
  /\ UNCHANGED size

Remove(j) ==
  /\ phase[j] \in {"open", "closed"}
  /\ phase' = [phase EXCEPT ![j] = "gone"]
  /\ done' = [done EXCEPT ![j] = {}]
  /\ UNCHANGED size

LedgerNext ==
  \E j \in Jobs :
    \/ Open(j)
    \/ \E i \in 1..size[j] : Finish(j, i)
    \/ Remove(j)

LedgerSpec == LedgerInit /\ [][LedgerNext]_ledgerVars
=============================================================================
