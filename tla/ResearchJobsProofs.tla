------------------------- MODULE ResearchJobsProofs -------------------------
(***************************************************************************)
(* The job queue is well typed and implements JobLedger, is wedged by two  *)
(* commands only, and completes whole exports only, for any number of      *)
(* jobs, workers and steps, any plans and any bounds.                      *)
(*                                                                         *)
(* Every action changes the rows of one job in one of six ways (DbStep).   *)
(* That each of these preserves the invariant of the rows and is a step of *)
(* the ledger is shown once; each action is then shown to be one of them.  *)
(* The second half does the same for the rows, the workers and the files   *)
(* together (Move, HistoryInv).                                            *)
(***************************************************************************)
EXTENDS ResearchJobs, WellFoundedInduction, TLAPS

\* The statuses of a job that exists and is not completed.
OpenStatus == JobStatus \ {"none", "gone", "completed"}

\* The statuses a step can be put in when its lease ends or before it has one.
Waiting == StepStatus \ {"leased", "running", "completed"}

Prior(j, i) == \A k \in 1..(i - 1) : step[j][k].status = "completed"

\* One row that is not completed changes.
RowStep(j, i, row, to) ==
  /\ Exists(j) /\ step[j][i].status # "completed"
  /\ row \in StepRows /\ row.status # "completed" /\ to \in OpenStatus
  /\ row.status \in Active => Prior(j, i)
  /\ step' = [step EXCEPT ![j] = [step[j] EXCEPT ![i] = row]]
  /\ job' = [job EXCEPT ![j] = to]

\* Some rows that are not completed are freed.
BulkStep(j, From, To, to) ==
  /\ Exists(j) /\ job[j] # "completed" /\ "completed" \notin From
  /\ To \in Waiting /\ to \in OpenStatus
  /\ FreeAll(j, From, To)
  /\ job' = [job EXCEPT ![j] = to]

\* A leased or running row is completed.
DoneStep(j, i) ==
  /\ Exists(j) /\ step[j][i].status \in Active
  /\ CompleteRow(j, i)

OpenStep(j) ==
  /\ job[j] = "none" /\ job' = [job EXCEPT ![j] = "queued"]
  /\ UNCHANGED step

RemoveStep(j) ==
  /\ Exists(j) /\ job' = [job EXCEPT ![j] = "gone"]
  /\ step' = [step EXCEPT ![j] = [i \in StepIx(j) |-> FreshStep]]

DbStep ==
  /\ UNCHANGED type
  /\ \/ UNCHANGED <<job, step>>
     \/ \E j \in Jobs : \E i \in StepIx(j) : \E row, to : RowStep(j, i, row, to)
     \/ \E j \in Jobs : \E From, To, to : BulkStep(j, From, To, to)
     \/ \E j \in Jobs : \E i \in StepIx(j) : DoneStep(j, i)
     \/ \E j \in Jobs : OpenStep(j) \/ RemoveStep(j)

DbInv == DbTypeOK /\ BlankRows /\ StepsInOrder /\ CompletedIffStepsAre

\* What the ledger sees of the rows.
Phase == [j \in Jobs |-> IF ~Exists(j) THEN job[j]
                         ELSE IF job[j] = "completed" THEN "closed" ELSE "open"]
DoneSet == [j \in Jobs |-> {i \in StepIx(j) : step[j][i].status = "completed"}]
Size == [j \in Jobs |-> Len(Kinds(j))]

LedgerStep == Ledger!LedgerNext \/ UNCHANGED Ledger!ledgerVars

USE JobsAssumption, PlansAssumption

\* Every plan has steps.
LEMMA PlanFact ==
  ASSUME DbTypeOK, NEW j \in Jobs
  PROVE  /\ Len(Kinds(j)) \in Nat \ {0}
         /\ StepIx(j) = 1..Len(Kinds(j))
         /\ 1 \in StepIx(j)
<1>1. type[j] \in DOMAIN Plans
  BY DEF DbTypeOK
<1>2. Kinds(j) \in Seq({"plan", "snapshot", "manifest", "verify", "command", "report"})
      /\ Len(Kinds(j)) > 0
  BY <1>1 DEF Kinds
<1> QED BY <1>2 DEF StepIx

\* A job with a step that is not completed is not completed.
LEMMA OpenFact ==
  ASSUME DbInv, NEW j \in Jobs, Exists(j), NEW i \in StepIx(j),
         step[j][i].status # "completed"
  PROVE  job[j] \in OpenStatus
<1>1. DOMAIN step[j] = StepIx(j)
  BY DEF DbInv, DbTypeOK
<1>2. ~AllCompleted(step[j])
  BY <1>1 DEF AllCompleted
<1>3. job[j] # "completed" /\ job[j] \in JobStatus
  BY <1>2 DEF DbInv, CompletedIffStepsAre, DbTypeOK
<1> QED BY <1>3 DEF OpenStatus, Exists

\* The plans do not change: neither do the indices of the steps.
LEMMA IndexFact ==
  ASSUME UNCHANGED type, NEW j
  PROVE  StepIx(j)' = StepIx(j) /\ Kinds(j)' = Kinds(j)
BY DEF StepIx, Kinds

\* A change of the rows that completes nothing and closes nothing is invisible
\* to the ledger.
LEMMA SteadyFact ==
  ASSUME DbInv, DbTypeOK', UNCHANGED type,
         \A k \in Jobs : \A h \in StepIx(k) :
           step'[k][h].status = "completed" <=> step[k][h].status = "completed",
         \A k \in Jobs : \/ job'[k] = job[k]
                         \/ job[k] \in OpenStatus /\ job'[k] \in OpenStatus
  PROVE  CompletedIffStepsAre' /\ UNCHANGED Ledger!ledgerVars
<1>1. \A k \in Jobs : StepIx(k)' = StepIx(k) /\ Kinds(k)' = Kinds(k)
  BY IndexFact
<1>2. \A k \in Jobs : DOMAIN step[k] = StepIx(k) /\ DOMAIN step'[k] = StepIx(k)
  BY <1>1 DEF DbInv, DbTypeOK
<1>3. \A k \in Jobs : AllCompleted(step[k])' <=> AllCompleted(step[k])
  BY <1>1, <1>2 DEF AllCompleted
<1>4. \A k \in Jobs : /\ Exists(k)' <=> Exists(k)
                      /\ job'[k] = "completed" <=> job[k] = "completed"
  BY DEF Exists, OpenStatus
<1>5. CompletedIffStepsAre'
  BY <1>3, <1>4 DEF CompletedIffStepsAre, DbInv
<1>6. DoneSet' = DoneSet /\ Size' = Size
  BY <1>1 DEF DoneSet, Size
<1>7. Phase' = Phase
  BY <1>4 DEF Phase, Exists, OpenStatus
<1>8. UNCHANGED Ledger!ledgerVars
  BY <1>6, <1>7 DEF Ledger!ledgerVars, Phase, DoneSet, Size
<1> QED BY <1>5, <1>8

LEMMA RowStepSafe ==
  ASSUME DbInv, UNCHANGED type, NEW j \in Jobs, NEW i \in StepIx(j),
         NEW row, NEW to, RowStep(j, i, row, to)
  PROVE  DbInv' /\ UNCHANGED Ledger!ledgerVars
<1>1. \A k \in Jobs : StepIx(k)' = StepIx(k)
  BY IndexFact
<1>2. /\ DOMAIN step = Jobs /\ job \in [Jobs -> JobStatus]
      /\ \A k \in Jobs : step[k] \in [StepIx(k) -> StepRows]
  BY DEF DbInv, DbTypeOK
<1>3. /\ DOMAIN step' = Jobs /\ DOMAIN job' = Jobs
      /\ step'[j] = [step[j] EXCEPT ![i] = row] /\ job'[j] = to
      /\ \A k \in Jobs : k # j => step'[k] = step[k] /\ job'[k] = job[k]
  BY <1>2 DEF RowStep
<1>4. step'[j] \in [StepIx(j) -> StepRows]
  BY <1>2, <1>3 DEF RowStep
<1>5. /\ step'[j][i] = row
      /\ \A h \in StepIx(j) : h # i => step'[j][h] = step[j][h]
  BY <1>2, <1>3
<1>6. DbTypeOK'
  <2>1. job' \in [Jobs -> JobStatus]
    BY <1>2 DEF RowStep, OpenStatus
  <2>2. \A k \in Jobs : step'[k] \in [StepIx(k) -> StepRows]
    BY <1>2, <1>3, <1>4
  <2> QED BY <1>1, <1>3, <2>1, <2>2 DEF DbTypeOK, DbInv
<1>7. \A k \in Jobs : \A h \in StepIx(k) :
        step'[k][h].status = "completed" <=> step[k][h].status = "completed"
  BY <1>3, <1>5 DEF RowStep
<1>8. job[j] \in OpenStatus
  BY OpenFact DEF RowStep
<1>9. CompletedIffStepsAre' /\ UNCHANGED Ledger!ledgerVars
  BY <1>3, <1>6, <1>7, <1>8, SteadyFact DEF RowStep
<1>10. BlankRows'
  BY <1>1, <1>3 DEF BlankRows, DbInv, RowStep, Exists, OpenStatus
<1>11. StepsInOrder'
  <2> SUFFICES ASSUME NEW k \in Jobs, NEW h \in StepIx(k),
                      step'[k][h].status \in Active \cup {"completed"}
               PROVE  \A g \in 1..(h - 1) : step'[k][g].status = "completed"
    BY <1>1 DEF StepsInOrder
  <2>1. 1..(h - 1) \subseteq StepIx(k)
    BY PlanFact DEF DbInv
  <2>2. step[k][h].status \in Active \cup {"completed"} \/ (k = j /\ h = i)
    BY <1>3, <1>5
  <2>3. \A g \in 1..(h - 1) : step[k][g].status = "completed"
    BY <2>2, <1>5 DEF RowStep, Prior, StepsInOrder, DbInv
  <2> QED BY <2>1, <2>3, <1>7
<1> QED BY <1>6, <1>9, <1>10, <1>11 DEF DbInv

LEMMA BulkStepSafe ==
  ASSUME DbInv, UNCHANGED type, NEW j \in Jobs, NEW From, NEW To, NEW to,
         BulkStep(j, From, To, to)
  PROVE  DbInv' /\ UNCHANGED Ledger!ledgerVars
<1>1. \A k \in Jobs : StepIx(k)' = StepIx(k)
  BY IndexFact
<1>2. /\ DOMAIN step = Jobs /\ job \in [Jobs -> JobStatus]
      /\ \A k \in Jobs : step[k] \in [StepIx(k) -> StepRows]
  BY DEF DbInv, DbTypeOK
<1>3. /\ DOMAIN step' = Jobs /\ DOMAIN job' = Jobs /\ job'[j] = to
      /\ step'[j] = [h \in StepIx(j) |-> IF step[j][h].status \in From
                                          THEN Freed(step[j][h], To) ELSE step[j][h]]
      /\ \A k \in Jobs : k # j => step'[k] = step[k] /\ job'[k] = job[k]
  BY <1>2 DEF BulkStep, FreeAll
<1>4. \A h \in StepIx(j) : /\ Freed(step[j][h], To) \in StepRows
                           /\ Freed(step[j][h], To).status = To
  BY <1>2 DEF StepRows, Freed, BulkStep, Waiting, NoOwner
<1>5. \A h \in StepIx(j) :
        /\ step'[j][h] \in StepRows
        /\ \/ step'[j][h] = step[j][h]
           \/ step'[j][h].status = To /\ step[j][h].status # "completed"
  <2> SUFFICES ASSUME NEW h \in StepIx(j)
               PROVE  /\ step'[j][h] \in StepRows
                      /\ \/ step'[j][h] = step[j][h]
                         \/ step'[j][h].status = To /\ step[j][h].status # "completed"
    OBVIOUS
  <2>1. step[j][h] \in StepRows
    BY <1>2
  <2>2. step'[j][h] = IF step[j][h].status \in From
                      THEN Freed(step[j][h], To) ELSE step[j][h]
    BY <1>3
  <2>3. CASE step[j][h].status \in From
    BY <2>2, <2>3, <1>4 DEF BulkStep
  <2>4. CASE step[j][h].status \notin From
    BY <2>1, <2>2, <2>4
  <2> QED BY <2>3, <2>4
<1>6. DbTypeOK'
  <2>1. job' \in [Jobs -> JobStatus]
    BY <1>2 DEF BulkStep, OpenStatus
  <2>2. \A k \in Jobs : step'[k] \in [StepIx(k) -> StepRows]
    BY <1>2, <1>3, <1>5
  <2> QED BY <1>1, <1>3, <2>1, <2>2 DEF DbTypeOK, DbInv
<1>7. To # "completed" /\ To \notin Active
  BY DEF BulkStep, Waiting, Active
<1>8. \A k \in Jobs : \A h \in StepIx(k) :
        step'[k][h].status = "completed" <=> step[k][h].status = "completed"
  BY <1>3, <1>5, <1>7
<1>9. job[j] \in OpenStatus
  BY <1>2 DEF BulkStep, Exists, OpenStatus
<1>10. CompletedIffStepsAre' /\ UNCHANGED Ledger!ledgerVars
  BY <1>3, <1>6, <1>8, <1>9, SteadyFact DEF BulkStep
<1>11. BlankRows'
  BY <1>1, <1>3 DEF BlankRows, DbInv, BulkStep, Exists, OpenStatus
<1>12. StepsInOrder'
  <2> SUFFICES ASSUME NEW k \in Jobs, NEW h \in StepIx(k),
                      step'[k][h].status \in Active \cup {"completed"}
               PROVE  \A g \in 1..(h - 1) : step'[k][g].status = "completed"
    BY <1>1 DEF StepsInOrder
  <2>1. 1..(h - 1) \subseteq StepIx(k)
    BY PlanFact DEF DbInv
  <2>2. step[k][h].status \in Active \cup {"completed"}
    BY <1>3, <1>5, <1>7
  <2>3. \A g \in 1..(h - 1) : step[k][g].status = "completed"
    BY <2>2 DEF StepsInOrder, DbInv
  <2> QED BY <2>1, <2>3, <1>8
<1> QED BY <1>6, <1>10, <1>11, <1>12 DEF DbInv

\* complete_research_step does the next step of the ledger's job.
LEMMA DoneStepSafe ==
  ASSUME DbInv, UNCHANGED type, NEW j \in Jobs, NEW i \in StepIx(j), DoneStep(j, i)
  PROVE  DbInv' /\ Ledger!LedgerNext
<1> DEFINE N == Len(Kinds(j))
           row == Freed(step[j][i], "completed")
           s == [step[j] EXCEPT ![i] = row]
<1>1. \A k \in Jobs : StepIx(k)' = StepIx(k) /\ Kinds(k)' = Kinds(k)
  BY IndexFact
<1>2. /\ DOMAIN step = Jobs /\ job \in [Jobs -> JobStatus]
      /\ \A k \in Jobs : step[k] \in [StepIx(k) -> StepRows]
  BY DEF DbInv, DbTypeOK
<1>3. N \in Nat \ {0} /\ StepIx(j) = 1..N /\ i \in 1..N
  BY PlanFact DEF DbInv
<1>4. step[j][i].status # "completed" /\ job[j] \in OpenStatus
  BY OpenFact DEF DoneStep, Active
<1>5. row \in StepRows /\ row.status = "completed"
  BY <1>2 DEF Freed, StepRows, StepStatus, NoOwner
<1>6. /\ DOMAIN step' = Jobs /\ step'[j] = s
      /\ \A k \in Jobs : k # j => step'[k] = step[k] /\ job'[k] = job[k]
      /\ s \in [StepIx(j) -> StepRows] /\ s[i] = row
      /\ \A h \in StepIx(j) : h # i => s[h] = step[j][h]
  BY <1>2, <1>5 DEF DoneStep, CompleteRow
<1>7. \A k \in 1..(i - 1) : step[j][k].status = "completed"
  BY DEF DbInv, StepsInOrder, DoneStep
<1>8. \A h \in StepIx(j) : step[j][h].status = "completed" => h < i
  <2> SUFFICES ASSUME NEW h \in StepIx(j), step[j][h].status = "completed", ~(h < i)
               PROVE  FALSE
    OBVIOUS
  <2>1. h # i
    BY <1>4
  <2>2. i \in 1..(h - 1)
    BY <1>3, <2>1
  <2>3. step[j][i].status = "completed"
    BY <2>2 DEF DbInv, StepsInOrder
  <2> QED BY <2>3, <1>4
<1>9. \A h \in StepIx(j) : s[h].status = "completed" <=> h \in 1..i
  BY <1>3, <1>5, <1>6, <1>7, <1>8
<1>10. AllCompleted(s) <=> i = N
  <2>1. DOMAIN s = 1..N
    BY <1>3, <1>6
  <2> QED BY <2>1, <1>3, <1>9 DEF AllCompleted
<1>11. /\ job' \in [Jobs -> JobStatus]
       /\ job'[j] = IF i = N THEN "completed" ELSE job[j]
  BY <1>2, <1>6, <1>10 DEF DoneStep, CompleteRow, JobStatus
<1>12. DbTypeOK'
  <2>1. \A k \in Jobs : step'[k] \in [StepIx(k) -> StepRows]
    BY <1>2, <1>6
  <2> QED BY <1>1, <1>6, <1>11, <2>1 DEF DbTypeOK, DbInv
<1>13. BlankRows'
  <2>1. \A k \in Jobs : k # j => (Exists(k)' <=> Exists(k))
    BY <1>6 DEF Exists
  <2>2. Exists(j)'
    BY <1>4, <1>11 DEF Exists, OpenStatus
  <2> QED BY <1>1, <1>6, <2>1, <2>2 DEF BlankRows, DbInv
<1>14. StepsInOrder'
  <2> SUFFICES ASSUME NEW k \in Jobs, NEW h \in StepIx(k),
                      step'[k][h].status \in Active \cup {"completed"}
               PROVE  \A g \in 1..(h - 1) : step'[k][g].status = "completed"
    BY <1>1 DEF StepsInOrder
  <2>1. CASE k # j
    BY <2>1, <1>6 DEF StepsInOrder, DbInv
  <2>2. CASE k = j
    <3>1. 1..(h - 1) \subseteq StepIx(j)
      BY <2>2, <1>3
    <3>2. \A g \in 1..(h - 1) : step[j][g].status = "completed" \/ g = i
      BY <2>2, <1>6, <1>7 DEF StepsInOrder, DbInv
    <3> QED BY <2>2, <3>1, <3>2, <1>5, <1>6
  <2> QED BY <2>1, <2>2
<1>15. CompletedIffStepsAre'
  <2> SUFFICES ASSUME NEW k \in Jobs, Exists(k)'
               PROVE  job'[k] = "completed" <=> AllCompleted(step'[k])
    BY DEF CompletedIffStepsAre, AllCompleted
  <2>1. CASE k # j
    BY <2>1, <1>6 DEF CompletedIffStepsAre, DbInv, Exists
  <2>2. CASE k = j
    BY <2>2, <1>4, <1>6, <1>10, <1>11 DEF OpenStatus
  <2> QED BY <2>1, <2>2
<1>16. /\ DoneSet[j] = 1..(i - 1)
       /\ DoneSet' = [DoneSet EXCEPT ![j] = 1..i]
  <2>1. DoneSet[j] = 1..(i - 1)
    BY <1>3, <1>7, <1>8 DEF DoneSet
  <2>2. DoneSet'[j] = 1..i
    <3>1. DoneSet'[j] = {h \in StepIx(j) : s[h].status = "completed"}
      BY <1>1, <1>6 DEF DoneSet
    <3>2. 1..i \subseteq StepIx(j)
      BY <1>3
    <3> HIDE DEF s
    <3> QED BY <3>1, <3>2, <1>9
  <2>3. \A k \in Jobs : k # j => DoneSet'[k] = DoneSet[k]
    BY <1>1, <1>6 DEF DoneSet
  <2> QED BY <2>1, <2>2, <2>3 DEF DoneSet
<1>17. /\ Phase[j] = "open"
       /\ Phase' = [Phase EXCEPT ![j] = IF i = Size[j] THEN "closed" ELSE "open"]
  <2>1. Phase[j] = "open" /\ Size[j] = N
    BY <1>4 DEF Phase, Size, OpenStatus, Exists
  <2>2. Phase'[j] = IF i = N THEN "closed" ELSE "open"
    BY <1>4, <1>11 DEF Phase, OpenStatus, Exists
  <2>3. \A k \in Jobs : k # j => Phase'[k] = Phase[k]
    BY <1>6 DEF Phase, Exists
  <2> QED BY <2>1, <2>2, <2>3 DEF Phase
<1>18. Size' = Size /\ i \in 1..Size[j]
  BY <1>1, <1>3 DEF Size
<1>19. Ledger!Finish(j, i)
  BY <1>16, <1>17, <1>18 DEF Ledger!Finish, Phase, DoneSet, Size
<1>20. Ledger!LedgerNext
  BY <1>18, <1>19 DEF Ledger!LedgerNext, Size
<1> QED BY <1>12, <1>13, <1>14, <1>15, <1>20 DEF DbInv

LEMMA OpenStepSafe ==
  ASSUME DbInv, UNCHANGED type, NEW j \in Jobs, OpenStep(j)
  PROVE  DbInv' /\ Ledger!LedgerNext
<1>1. \A k \in Jobs : StepIx(k)' = StepIx(k) /\ Kinds(k)' = Kinds(k)
  BY IndexFact
<1>2. job \in [Jobs -> JobStatus] /\ DOMAIN step[j] = StepIx(j)
  BY DEF DbInv, DbTypeOK
<1>3. /\ job' \in [Jobs -> JobStatus] /\ job'[j] = "queued" /\ job[j] = "none"
      /\ \A k \in Jobs : k # j => job'[k] = job[k]
      /\ step' = step
  BY <1>2 DEF OpenStep, JobStatus
<1>4. \A i \in StepIx(j) : step[j][i].status = "queued"
  BY <1>3 DEF BlankRows, DbInv, Exists, FreshStep
<1>5. DbTypeOK'
  BY <1>1, <1>3 DEF DbTypeOK, DbInv
<1>6. BlankRows' /\ StepsInOrder'
  BY <1>1, <1>3 DEF BlankRows, StepsInOrder, DbInv, Exists
<1>7. CompletedIffStepsAre'
  <2>1. 1 \in DOMAIN step[j] /\ ~AllCompleted(step[j])
    BY <1>2, <1>4, PlanFact DEF AllCompleted, DbInv
  <2> QED BY <1>3, <2>1 DEF CompletedIffStepsAre, DbInv, Exists
<1>8. DoneSet' = DoneSet /\ Size' = Size
  BY <1>1, <1>3 DEF DoneSet, Size
<1>9. Phase[j] = "none" /\ Phase' = [Phase EXCEPT ![j] = "open"]
  BY <1>3 DEF Phase, Exists
<1>10. Ledger!Open(j)
  BY <1>8, <1>9 DEF Ledger!Open, Phase, DoneSet, Size
<1> QED BY <1>5, <1>6, <1>7, <1>10 DEF DbInv, Ledger!LedgerNext

LEMMA RemoveStepSafe ==
  ASSUME DbInv, UNCHANGED type, NEW j \in Jobs, RemoveStep(j)
  PROVE  DbInv' /\ Ledger!LedgerNext
<1>1. \A k \in Jobs : StepIx(k)' = StepIx(k) /\ Kinds(k)' = Kinds(k)
  BY IndexFact
<1>2. job \in [Jobs -> JobStatus] /\ DOMAIN step = Jobs
  BY DEF DbInv, DbTypeOK
<1>3. /\ job' \in [Jobs -> JobStatus] /\ job'[j] = "gone" /\ Exists(j)
      /\ \A k \in Jobs : k # j => job'[k] = job[k] /\ step'[k] = step[k]
      /\ DOMAIN step' = Jobs /\ step'[j] = [i \in StepIx(j) |-> FreshStep]
  BY <1>2 DEF RemoveStep, JobStatus
<1>4. FreshStep \in StepRows /\ FreshStep.status = "queued"
  BY BoundsAssumption DEF FreshStep, StepRows, StepStatus, NoOwner
<1>5. DbTypeOK'
  <2>1. step'[j] \in [StepIx(j) -> StepRows]
    BY <1>3, <1>4
  <2>2. \A k \in Jobs : k # j => step'[k] \in [StepIx(k) -> StepRows]
    BY <1>3 DEF DbTypeOK, DbInv
  <2>3. \A k \in Jobs : step'[k] \in [StepIx(k) -> StepRows]
    BY <2>1, <2>2
  <2> QED BY <1>1, <1>3, <2>3 DEF DbTypeOK, DbInv
<1>6. BlankRows'
  BY <1>1, <1>3 DEF BlankRows, DbInv, Exists
<1>7. StepsInOrder'
  BY <1>1, <1>3, <1>4 DEF StepsInOrder, DbInv, Active
<1>8. CompletedIffStepsAre'
  BY <1>3 DEF CompletedIffStepsAre, DbInv, Exists, AllCompleted
<1>9. DoneSet' = [DoneSet EXCEPT ![j] = {}] /\ Size' = Size
  <2>1. DoneSet'[j] = {}
    BY <1>1, <1>3, <1>4 DEF DoneSet
  <2>2. \A k \in Jobs : k # j => DoneSet'[k] = DoneSet[k]
    BY <1>1, <1>3 DEF DoneSet
  <2> QED BY <2>1, <2>2, <1>1 DEF DoneSet, Size
<1>10. Phase[j] \in {"open", "closed"} /\ Phase' = [Phase EXCEPT ![j] = "gone"]
  BY <1>3 DEF Phase, Exists
<1>11. Ledger!Remove(j)
  BY <1>9, <1>10 DEF Ledger!Remove, Phase, DoneSet, Size
<1> QED BY <1>5, <1>6, <1>7, <1>8, <1>11 DEF DbInv, Ledger!LedgerNext

\* Every change of the rows preserves their invariant and is a step of the
\* ledger or leaves it as it is.
LEMMA DbStepSafe ==
  ASSUME DbInv, DbStep
  PROVE  DbInv' /\ LedgerStep
<1>0. UNCHANGED type
  BY DEF DbStep
<1>1. CASE UNCHANGED <<job, step>>
  <2>1. \A k \in Jobs : StepIx(k)' = StepIx(k) /\ Kinds(k)' = Kinds(k)
    BY <1>0, IndexFact
  <2>2. DbInv'
    BY <1>0, <1>1, <2>1 DEF DbInv, DbTypeOK, BlankRows, StepsInOrder,
       CompletedIffStepsAre, Exists
  <2>3. Phase' = Phase /\ DoneSet' = DoneSet /\ Size' = Size
    BY <1>1, <2>1 DEF Phase, DoneSet, Size, Exists
  <2>4. UNCHANGED Ledger!ledgerVars
    BY <2>3 DEF Ledger!ledgerVars, Phase, DoneSet, Size
  <2> QED BY <2>2, <2>4 DEF LedgerStep
<1>2. ASSUME NEW j \in Jobs, NEW i \in StepIx(j), NEW row, NEW to, RowStep(j, i, row, to)
      PROVE  DbInv' /\ LedgerStep
  BY <1>0, <1>2, RowStepSafe DEF LedgerStep
<1>3. ASSUME NEW j \in Jobs, NEW From, NEW To, NEW to, BulkStep(j, From, To, to)
      PROVE  DbInv' /\ LedgerStep
  BY <1>0, <1>3, BulkStepSafe DEF LedgerStep
<1>4. ASSUME NEW j \in Jobs, NEW i \in StepIx(j), DoneStep(j, i)
      PROVE  DbInv' /\ LedgerStep
  BY <1>0, <1>4, DoneStepSafe DEF LedgerStep
<1>5. ASSUME NEW j \in Jobs, OpenStep(j) \/ RemoveStep(j)
      PROVE  DbInv' /\ LedgerStep
  BY <1>0, <1>5, OpenStepSafe, RemoveStepSafe DEF LedgerStep
<1> QED BY <1>1, <1>2, <1>3, <1>4, <1>5 DEF DbStep

-----------------------------------------------------------------------------
(***************************************************************************)
(* The changes of rows that the actions share.                             *)
(***************************************************************************)
LEMMA RowIsRow ==
  ASSUME DbTypeOK, NEW j \in Jobs, NEW i \in StepIx(j)
  PROVE  step[j][i] \in StepRows
BY DEF DbTypeOK

LEMMA FreeOneFact ==
  ASSUME DbInv, UNCHANGED type, NEW j \in Jobs, NEW i \in StepIx(j), Exists(j),
         step[j][i].status # "completed", NEW stepTo \in Waiting,
         NEW jobTo \in OpenStatus, FreeOne(j, i, stepTo, jobTo)
  PROVE  DbStep
<1> DEFINE row == Freed(step[j][i], stepTo)
<1>1. row \in StepRows /\ row.status = stepTo
  BY RowIsRow DEF Freed, StepRows, NoOwner, Waiting, DbInv
<1>2. step' = [step EXCEPT ![j] = [step[j] EXCEPT ![i] = row]]
  BY DEF FreeOne
<1>3. RowStep(j, i, row, jobTo)
  BY <1>1, <1>2 DEF RowStep, FreeOne, Waiting, Active
<1> HIDE DEF row
<1> QED BY <1>3 DEF DbStep

\* A leased or running row changes and stays one.
LEMMA HeldRowFact ==
  ASSUME DbInv, UNCHANGED <<type, job>>, NEW j \in Jobs, NEW i \in StepIx(j), Exists(j),
         step[j][i].status \in Active, NEW row \in StepRows, row.status \in Active,
         step' = [step EXCEPT ![j] = [step[j] EXCEPT ![i] = row]]
  PROVE  DbStep
<1>1. Prior(j, i) /\ step[j][i].status # "completed" /\ row.status # "completed"
  BY DEF DbInv, StepsInOrder, Prior, Active
<1>2. job[j] \in OpenStatus
  BY <1>1, OpenFact
<1>3. job' = [job EXCEPT ![j] = job[j]]
  BY DEF DbInv, DbTypeOK
<1>4. RowStep(j, i, row, job[j])
  BY <1>1, <1>2, <1>3 DEF RowStep
<1> QED BY <1>4 DEF DbStep

LEMMA RunRowFact ==
  ASSUME DbInv, UNCHANGED <<type, job>>, NEW w, NEW j \in Jobs, NEW i \in StepIx(j),
         Holds(w, j, i), RunRow(j, i)
  PROVE  DbStep
<1> DEFINE row == [step[j][i] EXCEPT !.status = "running"]
<1>1. row \in StepRows /\ row.status \in Active
  BY RowIsRow DEF StepRows, StepStatus, Active, DbInv
<1>2. step' = [step EXCEPT ![j] = [step[j] EXCEPT ![i] = row]]
  BY DEF RunRow
<1> QED BY <1>1, <1>2, HeldRowFact DEF Holds

LEMMA StaleFact ==
  ASSUME DbInv, UNCHANGED <<type, job>>, NEW j \in Jobs, NEW i \in StepIx(j),
         Exists(j), step[j][i].status \in Active, NEW b \in BOOLEAN,
         step' = [step EXCEPT ![j][i].stale = b]
  PROVE  DbStep
<1> DEFINE row == [step[j][i] EXCEPT !.stale = b]
<1>1. row \in StepRows /\ row.status = step[j][i].status
  BY RowIsRow DEF StepRows, DbInv
<1>2. step' = [step EXCEPT ![j] = [step[j] EXCEPT ![i] = row]]
  OBVIOUS
<1> QED BY <1>1, <1>2, HeldRowFact

\* The lease query returns a step of a job that is open, the first one that is
\* not completed.
LEMMA LeasableFact ==
  ASSUME DbInv, NEW j \in Jobs, NEW i \in StepIx(j), Leasable(j, i)
  PROVE  /\ Exists(j) /\ Prior(j, i) /\ step[j][i].status # "completed"
         /\ step[j][i].attempts \in 0..MaxAttempts
<1>1. step[j][i] \in StepRows
  BY RowIsRow DEF DbInv
<1> QED BY <1>1 DEF Leasable, Prior, Exists, Active, StepRows

LEMMA LeaseRowFact ==
  ASSUME DbInv, UNCHANGED type, NEW w \in Workers, NEW j \in Jobs, NEW i \in StepIx(j),
         Candidate(j, i), ~Poisoned(j, i), LeaseRow(w, j, i)
  PROVE  DbStep
<1> DEFINE row == [status |-> "leased", owner |-> w, stale |-> FALSE,
                   attempts |-> step[j][i].attempts + 1]
<1>1. /\ Exists(j) /\ Prior(j, i) /\ step[j][i].status # "completed"
      /\ step[j][i].attempts \in 0..MaxAttempts
  BY LeasableFact DEF Candidate
<1>2. row \in StepRows /\ row.status = "leased"
  BY <1>1, BoundsAssumption DEF StepRows, StepStatus, Poisoned
<1>3. /\ step' = [step EXCEPT ![j] = [step[j] EXCEPT ![i] = row]]
      /\ job' = [job EXCEPT ![j] = "running"]
  BY DEF LeaseRow
<1>4. "running" \in OpenStatus
  BY DEF OpenStatus, JobStatus
<1>5. RowStep(j, i, row, "running")
  BY <1>1, <1>2, <1>3, <1>4 DEF RowStep
<1> HIDE DEF row
<1> QED BY <1>5 DEF DbStep

LEMMA CompleteFact ==
  ASSUME DbInv, UNCHANGED type, NEW w, NEW j \in Jobs, NEW i \in StepIx(j),
         Holds(w, j, i), CompleteRow(j, i)
  PROVE  DbStep
BY DEF DbStep, DoneStep, Holds

LEMMA CancelFact ==
  ASSUME DbInv, UNCHANGED type, NEW j \in Jobs, Cancellable(j), CancelRows(j)
  PROVE  DbStep
<1>1. BulkStep(j, StepStatus \ {"completed", "cancelled"}, "cancelled", "cancelled")
  BY DEF BulkStep, CancelRows, Cancellable, Waiting, StepStatus, OpenStatus, JobStatus
<1> QED BY <1>1 DEF DbStep

LEMMA RetryFact ==
  ASSUME DbInv, UNCHANGED type, NEW j \in Jobs, job[j] \in Retriable, RetryRows(j)
  PROVE  DbStep
<1>1. BulkStep(j, Retriable, "queued", "queued")
  BY DEF BulkStep, RetryRows, Retriable, Exists, Waiting, StepStatus, OpenStatus, JobStatus
<1> QED BY <1>1 DEF DbStep

-----------------------------------------------------------------------------
(***************************************************************************)
(* The worker's hand and the files.                                        *)
(***************************************************************************)
LEMMA HandFact ==
  ASSUME WorkTypeOK, NEW w \in Workers, wk[w].pc \notin {"idle", "exited"}
  PROVE  wk[w].job \in Jobs /\ wk[w].step \in StepIx(wk[w].job)
BY DEF WorkTypeOK

LEMMA SameFiles ==
  ASSUME FileTypeOK, UNCHANGED fileVars
  PROVE  FileTypeOK' /\ UNCHANGED type
BY DEF FileTypeOK, fileVars, askedVars, reportVars

LEMMA SameWork ==
  ASSUME WorkTypeOK, UNCHANGED <<type, wk>>,
         cmds' \in 0..MaxCommands, faults' \in 0..MaxFaults
  PROVE  WorkTypeOK'
BY IndexFact DEF WorkTypeOK

LEMMA NewHand ==
  ASSUME WorkTypeOK, UNCHANGED type, NEW w \in Workers, NEW v,
         v \in [pc : PCs, job : Jobs \cup {0}, step : Nat],
         v.pc \notin {"idle", "exited"} => v.job \in Jobs /\ v.step \in StepIx(v.job),
         wk' = [wk EXCEPT ![w] = v],
         cmds' \in 0..MaxCommands, faults' \in 0..MaxFaults
  PROVE  WorkTypeOK'
<1>1. wk' \in [Workers -> [pc : PCs, job : Jobs \cup {0}, step : Nat]]
  BY DEF WorkTypeOK
<1>2. \A u \in Workers : wk'[u] = IF u = w THEN v ELSE wk[u]
  BY DEF WorkTypeOK
<1>3. \A k : StepIx(k)' = StepIx(k)
  BY IndexFact
<1>4. \A u \in Workers :
        wk'[u].pc \notin {"idle", "exited"} =>
          wk'[u].job \in Jobs /\ wk'[u].step \in StepIx(wk'[u].job)
  BY <1>2 DEF WorkTypeOK
<1> QED BY <1>1, <1>3, <1>4 DEF WorkTypeOK

LEMMA IdleHand ==
  Idle \in [pc : PCs, job : Jobs \cup {0}, step : Nat] /\ Idle.pc = "idle"
BY DEF Idle, PCs

LEMMA LeaveFact ==
  ASSUME WorkTypeOK, UNCHANGED type, NEW w \in Workers, Leave(w),
         cmds' \in 0..MaxCommands, faults' \in 0..MaxFaults
  PROVE  WorkTypeOK'
BY NewHand, IdleHand DEF Leave

LEMMA RefusedFact ==
  ASSUME WorkTypeOK, UNCHANGED type, NEW w \in Workers, NEW j, Refused(w, j),
         cmds' \in 0..MaxCommands, faults' \in 0..MaxFaults
  PROVE  WorkTypeOK'
<1> DEFINE v == [Idle EXCEPT !.pc = "exited"]
<1>1. v \in [pc : PCs, job : Jobs \cup {0}, step : Nat] /\ v.pc = "exited"
  BY DEF Idle, PCs
<1>2. wk' = [wk EXCEPT ![w] = v] \/ wk' = [wk EXCEPT ![w] = Idle]
  BY DEF Refused
<1> HIDE DEF v
<1> QED BY <1>1, <1>2, NewHand, IdleHand

LEMMA GotoFact ==
  ASSUME WorkTypeOK, UNCHANGED type, NEW w \in Workers, NEW p \in PCs, Goto(w, p),
         wk[w].pc \notin {"idle", "exited"},
         cmds' \in 0..MaxCommands, faults' \in 0..MaxFaults
  PROVE  WorkTypeOK'
<1> DEFINE v == [wk[w] EXCEPT !.pc = p]
<1>1. /\ v \in [pc : PCs, job : Jobs \cup {0}, step : Nat]
      /\ v.job = wk[w].job /\ v.step = wk[w].step
  BY DEF WorkTypeOK
<1>2. wk' = [wk EXCEPT ![w] = v]
  BY DEF Goto
<1> HIDE DEF v
<1> QED BY <1>1, <1>2, HandFact, NewHand

LEMMA FaultFact ==
  ASSUME WorkTypeOK, Fault
  PROVE  faults' \in 0..MaxFaults
BY BoundsAssumption DEF WorkTypeOK, Fault

LEMMA CommandFact ==
  ASSUME WorkTypeOK, Command
  PROVE  cmds' \in 0..MaxCommands
BY BoundsAssumption DEF WorkTypeOK, Command

-----------------------------------------------------------------------------
(***************************************************************************)
(* Each action.                                                            *)
(***************************************************************************)
Safe == DbStep /\ FileTypeOK' /\ WorkTypeOK'

LEMMA QuietRows ==
  ASSUME UNCHANGED dbVars, UNCHANGED type
  PROVE  DbStep
BY DEF DbStep, dbVars

\* Calls and failures that end in a jump of the worker: rows and files stay.
LEMMA JumpFact ==
  ASSUME IInv, NEW w \in Workers, NEW p \in PCs, Goto(w, p),
         wk[w].pc \notin {"idle", "exited"},
         UNCHANGED <<dbVars, fileVars, cmds, faults>>
  PROVE  Safe
<1>1. FileTypeOK' /\ UNCHANGED type
  BY SameFiles DEF IInv, TypeOK
<1>2. WorkTypeOK'
  BY <1>1, GotoFact DEF IInv, TypeOK, WorkTypeOK
<1> QED BY <1>1, <1>2, QuietRows DEF Safe

LEMMA DbInvFact == ASSUME IInv PROVE DbInv
BY DEF IInv, DbInv, TypeOK

LEMMA CountFact ==
  ASSUME WorkTypeOK
  PROVE  cmds \in 0..MaxCommands /\ faults \in 0..MaxFaults
BY DEF WorkTypeOK

LEMMA StatusFact ==
  /\ {"queued", "failed", "blocked", "cancelled", "retryable"} \subseteq Waiting
  /\ {"queued", "failed", "blocked", "cancelled", "retryable"} \subseteq OpenStatus
BY DEF Waiting, StepStatus, OpenStatus, JobStatus

LEMMA LeasePoisonedSafe ==
  ASSUME IInv, NEW w \in Workers, LeasePoisoned(w)
  PROVE  Safe
<1>1. DbInv /\ FileTypeOK' /\ UNCHANGED type
  BY DbInvFact, SameFiles DEF LeasePoisoned, IInv, TypeOK
<1>a. PICK j \in Jobs : \E i \in StepIx(j) :
        Candidate(j, i) /\ FreeOne(j, i, "failed", "failed")
  BY DEF LeasePoisoned
<1>2. PICK i \in StepIx(j) : Candidate(j, i) /\ FreeOne(j, i, "failed", "failed")
  BY <1>a
<1>3. Exists(j) /\ step[j][i].status # "completed"
  BY <1>1, <1>2, LeasableFact DEF Candidate
<1>4. DbStep
  BY <1>1, <1>2, <1>3, FreeOneFact, StatusFact
<1>5. WorkTypeOK'
  BY <1>1, SameWork, CountFact DEF LeasePoisoned, IInv, TypeOK
<1> QED BY <1>1, <1>4, <1>5 DEF Safe

LEMMA LeaseNextSafe ==
  ASSUME IInv, NEW w \in Workers, LeaseNext(w)
  PROVE  Safe
<1>1. DbInv /\ FileTypeOK' /\ UNCHANGED type
  BY DbInvFact, SameFiles DEF LeaseNext, IInv, TypeOK
<1>a. PICK j \in Jobs : \E i \in StepIx(j) :
        /\ Candidate(j, i) /\ ~Poisoned(j, i) /\ LeaseRow(w, j, i)
        /\ wk' = [wk EXCEPT ![w] = [pc |-> "leased", job |-> j, step |-> i]]
  BY DEF LeaseNext
<1>2. PICK i \in StepIx(j) :
        /\ Candidate(j, i) /\ ~Poisoned(j, i) /\ LeaseRow(w, j, i)
        /\ wk' = [wk EXCEPT ![w] = [pc |-> "leased", job |-> j, step |-> i]]
  BY <1>a
<1>3. DbStep
  BY <1>1, <1>2, LeaseRowFact
<1>4. i \in Nat
  BY PlanFact DEF IInv, TypeOK
<1>5. WorkTypeOK'
  BY <1>1, <1>2, <1>4, NewHand, CountFact DEF LeaseNext, IInv, TypeOK, PCs
<1> QED BY <1>1, <1>3, <1>5 DEF Safe

LEMMA LeaseAnswerLostSafe ==
  ASSUME IInv, NEW w \in Workers, LeaseAnswerLost(w)
  PROVE  Safe
<1>1. DbInv /\ FileTypeOK' /\ UNCHANGED type
  BY DbInvFact, SameFiles DEF LeaseAnswerLost, IInv, TypeOK
<1>2. DbStep
  BY <1>1, LeaseRowFact DEF LeaseAnswerLost
<1>3. WorkTypeOK'
  BY <1>1, SameWork, CountFact, FaultFact DEF LeaseAnswerLost, IInv, TypeOK
<1> QED BY <1>1, <1>2, <1>3 DEF Safe

\* A deadline passes, under a worker or under nobody.
LEMMA LeaseEndsSafe ==
  ASSUME IInv, NEW j \in Jobs, NEW i \in StepIx(j), LeaseExpires(j, i) \/ LeaseLapses(j, i)
  PROVE  Safe
<1>1. DbInv /\ FileTypeOK' /\ UNCHANGED <<type, job>>
  BY DbInvFact, SameFiles DEF LeaseExpires, LeaseLapses, IInv, TypeOK
<1>2. /\ step[j][i].status \in Active
      /\ step' = [step EXCEPT ![j][i].stale = TRUE]
  BY DEF LeaseExpires, LeaseLapses
<1>3. Exists(j)
  BY <1>1, <1>2 DEF DbInv, BlankRows, FreshStep, Active
<1>4. DbStep
  BY <1>1, <1>2, <1>3, StaleFact
<1>5. WorkTypeOK'
  BY <1>1, SameWork, CountFact, FaultFact DEF LeaseExpires, LeaseLapses, IInv, TypeOK
<1> QED BY <1>1, <1>4, <1>5 DEF Safe

LEMMA MarkRunningSafe ==
  ASSUME IInv, NEW w \in Workers, MarkRunning(w)
  PROVE  Safe
<1> DEFINE j == wk[w].job
           i == wk[w].step
<1>1. DbInv /\ FileTypeOK' /\ UNCHANGED <<type, job, cmds, faults>> /\ WorkTypeOK
  BY DbInvFact, SameFiles DEF MarkRunning, IInv, TypeOK
<1>2. wk[w].pc \notin {"idle", "exited"} /\ j \in Jobs /\ i \in StepIx(j)
  BY <1>1, HandFact DEF MarkRunning
<1>3. CASE Holds(w, j, i)
  <2>1. RunRow(j, i) /\ \E p \in {"report", "work"} : Goto(w, p)
    BY <1>3 DEF MarkRunning
  <2>2. DbStep
    BY <1>1, <1>2, <1>3, <2>1, RunRowFact
  <2>3. WorkTypeOK'
    BY <1>1, <1>2, <2>1, GotoFact, CountFact DEF PCs
  <2> QED BY <1>1, <2>2, <2>3 DEF Safe
<1>4. CASE ~Holds(w, j, i)
  <2>1. Refused(w, j) /\ UNCHANGED step
    BY <1>4 DEF MarkRunning
  <2> QED BY <1>1, <2>1, QuietRows, RefusedFact, CountFact DEF Safe, dbVars
<1> QED BY <1>3, <1>4

LEMMA FailStepSafe ==
  ASSUME IInv, NEW w \in Workers, FailStep(w)
  PROVE  Safe
<1> DEFINE j == wk[w].job
           i == wk[w].step
<1>1. DbInv /\ FileTypeOK' /\ UNCHANGED <<type, cmds>> /\ WorkTypeOK
  BY DbInvFact, SameFiles DEF FailStep, IInv, TypeOK
<1>2. /\ wk[w].pc \notin {"idle", "exited"} /\ j \in Jobs /\ i \in StepIx(j)
      /\ faults' \in 0..MaxFaults
  BY <1>1, HandFact, FaultFact DEF FailStep
<1>3. CASE Holds(w, j, i)
  <2>1. FreeOne(j, i, "failed", "failed") /\ Leave(w)
    BY <1>3 DEF FailStep, fail_step
  <2>2. DbStep
    BY <1>1, <1>2, <1>3, <2>1, FreeOneFact, StatusFact DEF Holds, Active
  <2> QED BY <1>1, <1>2, <2>1, <2>2, LeaveFact, CountFact DEF Safe
<1>4. CASE ~Holds(w, j, i)
  <2>1. Refused(w, j) /\ UNCHANGED dbVars
    BY <1>4 DEF FailStep
  <2> QED BY <1>1, <1>2, <2>1, QuietRows, RefusedFact, CountFact DEF Safe
<1> QED BY <1>3, <1>4

LEMMA BlockStepSafe ==
  ASSUME IInv, NEW w \in Workers, BlockStep(w)
  PROVE  Safe
<1> DEFINE j == wk[w].job
           i == wk[w].step
<1>1. DbInv /\ FileTypeOK' /\ UNCHANGED <<type, cmds, faults>> /\ WorkTypeOK
  BY DbInvFact, SameFiles DEF BlockStep, IInv, TypeOK
<1>2. wk[w].pc \notin {"idle", "exited"} /\ j \in Jobs /\ i \in StepIx(j)
  BY <1>1, HandFact DEF BlockStep
<1>3. CASE Holds(w, j, i)
  <2>1. FreeOne(j, i, "blocked", "blocked") /\ Leave(w)
    BY <1>3 DEF BlockStep
  <2>2. DbStep
    BY <1>1, <1>2, <1>3, <2>1, FreeOneFact, StatusFact DEF Holds, Active
  <2> QED BY <1>1, <2>1, <2>2, LeaveFact, CountFact DEF Safe
<1>4. CASE ~Holds(w, j, i)
  <2>1. Refused(w, j) /\ UNCHANGED dbVars
    BY <1>4 DEF BlockStep
  <2> QED BY <1>1, <2>1, QuietRows, RefusedFact, CountFact DEF Safe
<1> QED BY <1>3, <1>4

LEMMA FinishOkSafe ==
  ASSUME IInv, NEW w \in Workers, FinishOk(w)
  PROVE  Safe
<1> DEFINE j == wk[w].job
           i == wk[w].step
<1>1. DbInv /\ FileTypeOK' /\ UNCHANGED <<type, cmds, faults>> /\ WorkTypeOK
  BY DbInvFact, SameFiles DEF FinishOk, IInv, TypeOK
<1>2. wk[w].pc \notin {"idle", "exited"} /\ j \in Jobs /\ i \in StepIx(j)
  BY <1>1, HandFact DEF FinishOk
<1>3. CASE UNCHANGED dbVars /\ (Leave(w) \/ Refused(w, j))
  BY <1>1, <1>3, QuietRows, LeaveFact, RefusedFact, CountFact DEF Safe
<1>4. CASE Holds(w, j, i) /\ CompleteRow(j, i) /\ Leave(w)
  BY <1>1, <1>2, <1>4, CompleteFact, LeaveFact, CountFact DEF Safe
<1> QED BY <1>3, <1>4 DEF FinishOk, complete_step

LEMMA FinishErrSafe ==
  ASSUME IInv, NEW w \in Workers, FinishErr(w)
  PROVE  Safe
<1>1. Leave(w) \/ Goto(w, "block")
  BY DEF FinishErr
<1>2. CASE Leave(w)
  BY <1>2, QuietRows, SameFiles, LeaveFact, CountFact DEF Safe, FinishErr, IInv, TypeOK
<1>3. CASE Goto(w, "block")
  BY <1>3, JumpFact DEF FinishErr, PCs
<1> QED BY <1>1, <1>2, <1>3

\* The files of one job change.
LEMMA PackFact ==
  ASSUME FileTypeOK, UNCHANGED <<askedVars, scratch, reportVars>>,
         NEW j \in Jobs, NEW v \in Packs, pack' = [pack EXCEPT ![j] = v]
  PROVE  FileTypeOK' /\ UNCHANGED type
<1>1. pack' \in [Jobs -> Packs]
  BY DEF FileTypeOK
<1> QED BY <1>1 DEF FileTypeOK, askedVars, reportVars

LEMMA SamePack ==
  ASSUME FileTypeOK, UNCHANGED <<askedVars, scratch, reportVars, pack>>
  PROVE  FileTypeOK' /\ UNCHANGED type
BY DEF FileTypeOK, askedVars, reportVars

LEMMA CopyPacks ==
  ASSUME FileTypeOK, UNCHANGED <<askedVars, scratch, reportVars>>, NEW j \in Jobs,
         remove_sqlite_family(j) \/ \E same \in BOOLEAN : backup_sqlite_db(j, same)
  PROVE  FileTypeOK' /\ UNCHANGED type
<1>1. /\ pack[j] \in Packs /\ pack[j].row \in {"none", "registered", "attached"}
      /\ pack[j].manifest \in {"none", "matches", "differs"}
  BY DEF FileTypeOK, Packs
<1>2. PICK f \in {"none", "copied"}, m \in {"none", "matches", "differs"} :
        pack' = [pack EXCEPT ![j] = [files |-> f, row |-> pack[j].row, manifest |-> m]]
  BY <1>1 DEF remove_sqlite_family, backup_sqlite_db
<1>3. [files |-> f, row |-> pack[j].row, manifest |-> m] \in Packs
  BY <1>1 DEF Packs
<1> QED BY <1>2, <1>3, PackFact

LEMMA WritePacks ==
  ASSUME FileTypeOK, UNCHANGED <<askedVars, scratch, reportVars>>, NEW j \in Jobs,
         \/ write_export_manifest(j) \/ RegisterExport(j)
         \/ attach_research_job_artifact(j)
  PROVE  FileTypeOK' /\ UNCHANGED type
<1>1. pack[j] \in Packs
  BY DEF FileTypeOK
<1>2. CASE write_export_manifest(j)
  <2>1. [pack[j] EXCEPT !.manifest = "matches"] \in Packs
    BY <1>1 DEF Packs
  <2> QED BY <1>2, <2>1, PackFact DEF write_export_manifest
<1>3. CASE RegisterExport(j)
  <2> DEFINE x == IF pack[j].row = "none" THEN "registered" ELSE pack[j].row
  <2>1. x \in {"none", "registered", "attached"}
    BY <1>1 DEF Packs
  <2> DEFINE v == [files |-> pack[j].files, manifest |-> pack[j].manifest, row |-> x]
  <2>2. v \in Packs
    BY <1>1, <2>1 DEF Packs
  <2>3. pack' = [pack EXCEPT ![j] = v]
    BY <1>3 DEF RegisterExport
  <2> HIDE DEF v
  <2> QED BY <2>2, <2>3, PackFact
<1>4. CASE attach_research_job_artifact(j)
  <2>1. [pack[j] EXCEPT !.row = "attached"] \in Packs
    BY <1>1 DEF Packs
  <2> QED BY <1>4, <2>1, PackFact DEF attach_research_job_artifact
<1> QED BY <1>2, <1>3, <1>4

LEMMA SnapshotSafe ==
  ASSUME IInv, NEW w \in Workers, NEW readable \in BOOLEAN,
         snapshot_or_copy_runtime_step(w, readable)
  PROVE  Safe
<1>1. FileTypeOK /\ WorkTypeOK /\ wk[w].pc = "work"
  BY DEF IInv, TypeOK, snapshot_or_copy_runtime_step, Working
<1>2. wk[w].job \in Jobs /\ \E p \in PCs : Goto(w, p)
  BY <1>1, HandFact DEF snapshot_or_copy_runtime_step, PCs
<1>3. FileTypeOK' /\ UNCHANGED type
  <2>1. UNCHANGED pack \/ remove_sqlite_family(wk[w].job)
    BY DEF snapshot_or_copy_runtime_step
  <2> QED BY <1>1, <1>2, <2>1, SamePack, CopyPacks DEF snapshot_or_copy_runtime_step
<1>4. WorkTypeOK'
  BY <1>1, <1>2, <1>3, GotoFact, CountFact DEF snapshot_or_copy_runtime_step
<1> QED BY <1>3, <1>4, QuietRows DEF Safe, snapshot_or_copy_runtime_step

LEMMA CopySafe ==
  ASSUME IInv, NEW w \in Workers, export_runtime_files(w)
  PROVE  Safe
<1>1. FileTypeOK /\ WorkTypeOK /\ wk[w].pc = "copy"
  BY DEF IInv, TypeOK, export_runtime_files
<1>2. wk[w].job \in Jobs /\ \E p \in PCs : Goto(w, p)
  BY <1>1, HandFact DEF export_runtime_files, PCs
<1>3. FileTypeOK' /\ UNCHANGED type
  BY <1>1, <1>2, SamePack, CopyPacks DEF export_runtime_files
<1>4. WorkTypeOK'
  BY <1>1, <1>2, <1>3, GotoFact, CountFact DEF export_runtime_files
<1> QED BY <1>3, <1>4, QuietRows DEF Safe, export_runtime_files

LEMMA ManifestSafe ==
  ASSUME IInv, NEW w \in Workers, NEW readable \in BOOLEAN,
         write_artifact_manifest_step(w, readable)
  PROVE  Safe
<1>1. FileTypeOK /\ WorkTypeOK /\ wk[w].pc = "work"
  BY DEF IInv, TypeOK, write_artifact_manifest_step, Working
<1>2. wk[w].job \in Jobs /\ \E p \in PCs : Goto(w, p)
  BY <1>1, HandFact DEF write_artifact_manifest_step, PCs
<1>3. FileTypeOK' /\ UNCHANGED type
  <2>1. UNCHANGED pack \/ write_export_manifest(wk[w].job)
    BY DEF write_artifact_manifest_step
  <2> QED BY <1>1, <1>2, <2>1, SamePack, WritePacks DEF write_artifact_manifest_step
<1>4. WorkTypeOK'
  BY <1>1, <1>2, <1>3, GotoFact, CountFact DEF write_artifact_manifest_step
<1> QED BY <1>3, <1>4, QuietRows DEF Safe, write_artifact_manifest_step

LEMMA AttachSafe ==
  ASSUME IInv, NEW w \in Workers, AttachArtifact(w)
  PROVE  Safe
<1>1. FileTypeOK /\ WorkTypeOK /\ wk[w].pc \in {"upsert", "attach"}
  BY DEF IInv, TypeOK, AttachArtifact
<1>2. wk[w].job \in Jobs /\ \E p \in PCs : Goto(w, p)
  BY <1>1, HandFact DEF AttachArtifact, PCs
<1>3. FileTypeOK' /\ UNCHANGED type
  BY <1>1, <1>2, SamePack, WritePacks DEF AttachArtifact
<1>4. WorkTypeOK'
  BY <1>1, <1>2, <1>3, GotoFact, CountFact DEF AttachArtifact
<1> QED BY <1>3, <1>4, QuietRows DEF Safe, AttachArtifact

LEMMA ExportStepSafe ==
  ASSUME IInv, NEW w \in Workers, ExportStep(w)
  PROVE  Safe
<1>1. ASSUME NEW readable \in BOOLEAN, plan_export_step(w, readable)
      PROVE  Safe
  BY <1>1, JumpFact DEF plan_export_step, Working, PCs
<1> QED BY <1>1, SnapshotSafe, CopySafe, ManifestSafe, AttachSafe DEF ExportStep, PathsReadable

\* The ends of a verify step, the checks and failures of a report step.
LEMMA PlainStepsSafe ==
  ASSUME IInv, NEW w \in Workers,
         \/ \E ok \in BOOLEAN : verify_artifact_step(w, ok)
         \/ KillChild(w) \/ ReportCheck(w) \/ PlanFails(w) \/ PublishReport(w)
  PROVE  Safe
<1>1. ASSUME NEW ok \in BOOLEAN, verify_artifact_step(w, ok) PROVE Safe
  BY <1>1, JumpFact DEF verify_artifact_step, Working, PCs
<1>2. ASSUME KillChild(w) PROVE Safe
  BY <1>2, JumpFact DEF KillChild, CommandStep, Working, PCs
<1>3. ASSUME ReportCheck(w) PROVE Safe
  <2>1. \E p \in {"err", "gen", "arch", "publish"} : Goto(w, p)
    <3>1. CASE wk[w].pc = "report"
      BY <1>3, <3>1, Zenon DEF ReportCheck
    <3>2. CASE wk[w].pc = "archcheck"
      BY <1>3, <3>2, Zenon DEF ReportCheck
    <3>3. CASE wk[w].pc = "pubcheck"
      BY <1>3, <3>3, Zenon DEF ReportCheck
    <3> QED BY <1>3, <3>1, <3>2, <3>3 DEF ReportCheck
  <2> QED BY <1>3, <2>1, JumpFact DEF ReportCheck, PCs
<1>4. ASSUME PlanFails(w) PROVE Safe
  BY <1>4, JumpFact DEF PlanFails, PCs
<1>5. ASSUME PublishReport(w) PROVE Safe
  BY <1>5, JumpFact DEF PublishReport, PCs
<1> QED BY <1>1, <1>2, <1>3, <1>4, <1>5

LEMMA RunCommandSafe ==
  ASSUME IInv, NEW w \in Workers, NEW ok \in BOOLEAN, run_command_step(w, ok)
  PROVE  Safe
<1>1. FileTypeOK /\ WorkTypeOK /\ wk[w].pc = "work" /\ UNCHANGED <<type, cmds, faults>>
  BY DEF IInv, TypeOK, run_command_step, CommandStep, Working, askedVars
<1>2. wk[w].job \in Jobs /\ \E p \in PCs : Goto(w, p)
  BY <1>1, HandFact DEF run_command_step, PCs
<1>3. FileTypeOK'
  <2>1. scratch' \in [Jobs -> {"none", "kept", "archived"}]
    BY <1>1 DEF run_command_step, FileTypeOK
  <2> QED BY <1>1, <2>1 DEF run_command_step, FileTypeOK, askedVars, reportVars
<1>4. WorkTypeOK'
  BY <1>1, <1>2, GotoFact, CountFact
<1> QED BY <1>1, <1>3, <1>4, QuietRows DEF Safe, run_command_step

LEMMA RenewLeaseSafe ==
  ASSUME IInv, NEW w \in Workers, RenewLease(w)
  PROVE  Safe
<1>1. DbInv /\ FileTypeOK' /\ UNCHANGED <<type, job, wk, cmds, faults>> /\ WorkTypeOK
  BY DbInvFact, SameFiles DEF RenewLease, IInv, TypeOK
<1>2. wk[w].job \in Jobs /\ wk[w].step \in StepIx(wk[w].job)
  BY <1>1, HandFact DEF RenewLease, CommandStep, Working
<1>3. DbStep
  BY <1>1, <1>2, StaleFact DEF RenewLease, renew_step_lease, Holds
<1> QED BY <1>1, <1>3, SameWork, CountFact DEF Safe

LEMMA AfterKillSafe ==
  ASSUME IInv, NEW w \in Workers, AfterKill(w)
  PROVE  Safe
<1>1. DbInv /\ FileTypeOK' /\ UNCHANGED <<type, cmds, faults>> /\ WorkTypeOK
  BY DbInvFact, SameFiles DEF AfterKill, IInv, TypeOK
<1>2. wk[w].pc = "killed" /\ wk[w].job \in Jobs /\ Goto(w, "err")
  BY <1>1, HandFact DEF AfterKill
<1>3. DbStep
  BY <1>1, <1>2, CancelFact, QuietRows DEF AfterKill
<1>4. WorkTypeOK'
  BY <1>1, <1>2, GotoFact, CountFact DEF PCs
<1> QED BY <1>1, <1>3, <1>4 DEF Safe

LEMMA ReportIs ==
  ASSUME FileTypeOK, NEW j \in Jobs
  PROVE  ReportFrom(j) \in Reports /\ report[j] \in Reports
BY DEF ReportFrom, Reports, FileTypeOK

LEMMA ReportRowFact ==
  ASSUME FileTypeOK, UNCHANGED <<askedVars, pack>>, NEW j \in Jobs, NEW of \in Reports,
         scratch' \in [Jobs -> {"none", "kept", "archived"}],
         persist_research_report_metadata(j, of) \/ UNCHANGED reportVars
  PROVE  FileTypeOK' /\ UNCHANGED type
<1>1. report' \in [Jobs -> Reports] /\ shelved' \subseteq Jobs
  BY DEF FileTypeOK, persist_research_report_metadata, PersistReport, reportVars
<1> QED BY <1>1 DEF FileTypeOK, askedVars

LEMMA GenerateReportSafe ==
  ASSUME IInv, NEW w \in Workers, GenerateReport(w)
  PROVE  Safe
<1>1. FileTypeOK /\ WorkTypeOK /\ wk[w].pc = "gen" /\ UNCHANGED <<cmds, faults>>
  BY DEF IInv, TypeOK, GenerateReport
<1>2. wk[w].job \in Jobs /\ \E p \in PCs : Goto(w, p)
  BY <1>1, HandFact DEF GenerateReport, PCs
<1>3. FileTypeOK' /\ UNCHANGED type
  <2>1. scratch' \in [Jobs -> {"none", "kept", "archived"}]
    BY <1>1 DEF GenerateReport, FileTypeOK
  <2> QED BY <1>1, <1>2, <2>1, ReportIs, ReportRowFact DEF GenerateReport
<1>4. WorkTypeOK'
  BY <1>1, <1>2, <1>3, GotoFact, CountFact
<1> QED BY <1>3, <1>4, QuietRows DEF Safe, GenerateReport

LEMMA ArchiveScratchSafe ==
  ASSUME IInv, NEW w \in Workers, NEW ok \in BOOLEAN, ArchiveScratch(w, ok)
  PROVE  Safe
<1> DEFINE j == wk[w].job
           of == IF report[j] = "none" THEN ReportFrom(j) ELSE report[j]
<1>1. FileTypeOK /\ WorkTypeOK /\ wk[w].pc = "arch" /\ UNCHANGED <<cmds, faults>>
  BY DEF IInv, TypeOK, ArchiveScratch
<1>2. j \in Jobs /\ \E p \in PCs : Goto(w, p)
  BY <1>1, HandFact DEF ArchiveScratch, PCs
<1>3. of \in Reports
  BY <1>1, <1>2, ReportIs
<1>4. FileTypeOK' /\ UNCHANGED type
  <2>1. scratch' \in [Jobs -> {"none", "kept", "archived"}]
    BY <1>1 DEF ArchiveScratch, FileTypeOK
  <2>2. persist_research_report_metadata(j, of) /\ UNCHANGED <<askedVars, pack>>
    BY DEF ArchiveScratch
  <2> HIDE DEF of
  <2> QED BY <1>1, <1>2, <1>3, <2>1, <2>2, ReportRowFact
<1>5. WorkTypeOK'
  BY <1>1, <1>2, <1>4, GotoFact, CountFact
<1> QED BY <1>4, <1>5, QuietRows DEF Safe, ArchiveScratch

LEMMA RestartSafe ==
  ASSUME IInv, NEW w \in Workers, Restart(w)
  PROVE  Safe
BY QuietRows, SameFiles, LeaveFact, CountFact DEF Safe, Restart, IInv, TypeOK

LEMMA WorkerStepSafe ==
  ASSUME IInv, NEW w \in Workers, WorkerStep(w) \/ Supervise(w)
  PROVE  Safe
BY LeasePoisonedSafe, LeaseNextSafe, MarkRunningSafe, PlainStepsSafe, RunCommandSafe,
   ExportStepSafe, AfterKillSafe, GenerateReportSafe, ArchiveScratchSafe, FinishOkSafe,
   FinishErrSafe, BlockStepSafe, RestartSafe, RenewLeaseSafe
   DEF WorkerStep, Supervise

-----------------------------------------------------------------------------
LEMMA LostCallSafe ==
  ASSUME IInv, NEW w \in Workers,
         RunAnswerLost(w) \/ CompleteAnswerLost(w) \/ BlockAnswerLost(w)
  PROVE  Safe
<1> DEFINE j == wk[w].job
           i == wk[w].step
<1>1. DbInv /\ FileTypeOK' /\ UNCHANGED <<type, cmds>> /\ WorkTypeOK
  BY DbInvFact, SameFiles DEF RunAnswerLost, CompleteAnswerLost, BlockAnswerLost, IInv, TypeOK
<1>2. /\ wk[w].pc \in {"leased", "ok", "block"} /\ Holds(w, j, i) /\ Leave(w)
      /\ faults' \in 0..MaxFaults
  BY <1>1, FaultFact DEF RunAnswerLost, CompleteAnswerLost, BlockAnswerLost
<1>3. j \in Jobs /\ i \in StepIx(j)
  BY <1>1, <1>2, HandFact
<1>4. CASE RunAnswerLost(w)
  BY <1>1, <1>2, <1>3, <1>4, RunRowFact, LeaveFact, CountFact DEF Safe, RunAnswerLost
<1>5. CASE CompleteAnswerLost(w)
  BY <1>1, <1>2, <1>3, <1>5, CompleteFact, LeaveFact, CountFact DEF Safe, CompleteAnswerLost
<1>6. CASE BlockAnswerLost(w)
  <2>1. DbStep
    BY <1>1, <1>2, <1>3, <1>6, FreeOneFact, StatusFact DEF BlockAnswerLost, Holds, Active
  <2> QED BY <1>1, <1>2, <2>1, LeaveFact, CountFact DEF Safe
<1> QED BY <1>4, <1>5, <1>6

LEMMA RequestLostSafe ==
  ASSUME IInv, NEW w \in Workers, RequestLost(w)
  PROVE  Safe
BY QuietRows, SameFiles, LeaveFact, CountFact, FaultFact DEF Safe, RequestLost, IInv, TypeOK

LEMMA CrashSafe ==
  ASSUME IInv, NEW w \in Workers, Crash(w)
  PROVE  Safe
<1> DEFINE v == [Idle EXCEPT !.pc = "exited"]
<1>1. v \in [pc : PCs, job : Jobs \cup {0}, step : Nat] /\ v.pc = "exited"
  BY DEF Idle, PCs
<1>2. FileTypeOK' /\ UNCHANGED type /\ faults' \in 0..MaxFaults
  BY SameFiles, FaultFact DEF Crash, IInv, TypeOK
<1>3. wk' = [wk EXCEPT ![w] = v] /\ cmds' = cmds
  BY DEF Crash
<1> HIDE DEF v
<1>4. WorkTypeOK'
  BY <1>1, <1>2, <1>3, NewHand, CountFact DEF IInv, TypeOK
<1> QED BY <1>2, <1>4, QuietRows DEF Safe, Crash

LEMMA ReportLossSafe ==
  ASSUME IInv, NEW w \in Workers, ReportCallLost(w) \/ ArchiveCallLost(w)
  PROVE  Safe
<1>1. /\ FileTypeOK /\ WorkTypeOK /\ UNCHANGED <<dbVars, askedVars, pack, cmds>>
      /\ wk[w].pc \in {"report", "gen", "archcheck", "pubcheck", "publish", "arch"}
      /\ Goto(w, "err") /\ faults' \in 0..MaxFaults
  BY FaultFact DEF ReportCallLost, ArchiveCallLost, IInv, TypeOK
<1>2. wk[w].job \in Jobs
  BY <1>1, HandFact
<1>3. scratch' \in [Jobs -> {"none", "kept", "archived"}]
  BY <1>1, <1>2 DEF ReportCallLost, ArchiveCallLost, FileTypeOK
<1>4. \/ UNCHANGED reportVars
      \/ persist_research_report_metadata(wk[w].job, ReportFrom(wk[w].job))
  BY DEF ReportCallLost, ArchiveCallLost
<1>5. FileTypeOK' /\ UNCHANGED type
  BY <1>1, <1>2, <1>3, <1>4, ReportIs, ReportRowFact
<1>6. WorkTypeOK'
  BY <1>1, <1>5, GotoFact, CountFact DEF PCs
<1> QED BY <1>1, <1>5, <1>6, QuietRows DEF Safe

LEMMA CancelLossSafe ==
  ASSUME IInv, NEW w \in Workers, CancelCallLost(w)
  PROVE  Safe
<1>1. DbInv /\ FileTypeOK' /\ UNCHANGED <<type, cmds>> /\ WorkTypeOK
  BY DbInvFact, SameFiles DEF CancelCallLost, IInv, TypeOK
<1>2. /\ wk[w].pc = "killed" /\ wk[w].job \in Jobs /\ Goto(w, "err")
      /\ faults' \in 0..MaxFaults
  BY <1>1, HandFact, FaultFact DEF CancelCallLost
<1>3. DbStep
  BY <1>1, <1>2, CancelFact, QuietRows DEF CancelCallLost
<1>4. WorkTypeOK'
  BY <1>1, <1>2, GotoFact, CountFact DEF PCs
<1> QED BY <1>1, <1>3, <1>4 DEF Safe

LEMMA ExportLossSafe ==
  ASSUME IInv, NEW w \in Workers, ExportCallLost(w)
  PROVE  Safe
<1>1. /\ FileTypeOK /\ WorkTypeOK /\ wk[w].pc \in {"upsert", "attach", "work"}
      /\ Goto(w, "err") /\ faults' \in 0..MaxFaults
      /\ UNCHANGED <<dbVars, askedVars, scratch, reportVars, cmds>>
  BY FaultFact DEF ExportCallLost, Working, IInv, TypeOK
<1>2. wk[w].job \in Jobs
  BY <1>1, HandFact
<1>3. FileTypeOK' /\ UNCHANGED type
  BY <1>1, <1>2, SamePack, WritePacks DEF ExportCallLost
<1>4. WorkTypeOK'
  BY <1>1, <1>3, GotoFact, CountFact DEF PCs
<1> QED BY <1>1, <1>3, <1>4, QuietRows DEF Safe

LEMMA EnvironmentSafe ==
  ASSUME IInv, Environment
  PROVE  Safe
BY LeaseEndsSafe, LeaseAnswerLostSafe, RequestLostSafe, LostCallSafe, ReportLossSafe,
   CancelLossSafe, ExportLossSafe, FailStepSafe, CrashSafe
   DEF Environment

-----------------------------------------------------------------------------
\* Commands on the rows of a job: the files and the workers stay as they are.
LEMMA RowCommandFact ==
  ASSUME IInv, Command, UNCHANGED <<fileVars, wk, faults>>, DbStep
  PROVE  Safe
<1>1. FileTypeOK' /\ UNCHANGED type
  BY SameFiles DEF IInv, TypeOK
<1>2. WorkTypeOK'
  BY <1>1, SameWork, CountFact, CommandFact DEF IInv, TypeOK
<1> QED BY <1>1, <1>2 DEF Safe

LEMMA JobCommandSafe ==
  ASSUME IInv, NEW j \in Jobs,
         PauseJob(j) \/ ResumeJob(j) \/ RetryJob(j) \/ CancelJob(j) \/ DeleteJob(j)
  PROVE  Safe
<1>1. DbInv /\ Command /\ UNCHANGED <<fileVars, wk, faults>>
  BY DbInvFact DEF PauseJob, ResumeJob, RetryJob, CancelJob, DeleteJob
<1>2. UNCHANGED type
  BY <1>1 DEF fileVars, askedVars
<1>3. {"queued", "paused"} \subseteq Waiting /\ {"queued", "paused"} \subseteq OpenStatus
  BY DEF Waiting, StepStatus, OpenStatus, JobStatus
<1>4. CASE PauseJob(j)
  <2>1. BulkStep(j, {"queued", "retryable", "leased"}, "paused", "paused")
    BY <1>3, <1>4 DEF PauseJob, BulkStep, Exists
  <2> QED BY <1>1, <1>2, <2>1, RowCommandFact DEF DbStep
<1>5. CASE job[j] = "paused" /\ ResumeJob(j)
  <2>1. BulkStep(j, {"paused"}, "queued", "queued")
    BY <1>3, <1>5 DEF ResumeJob, Retriable, BulkStep, Exists
  <2> QED BY <1>1, <1>2, <2>1, RowCommandFact DEF DbStep
<1>6. CASE job[j] \in Retriable /\ RetryRows(j)
  BY <1>1, <1>2, <1>6, RetryFact, RowCommandFact
<1>7. CASE CancelJob(j)
  BY <1>1, <1>2, <1>7, CancelFact, RowCommandFact DEF CancelJob
<1>8. CASE DeleteJob(j)
  <2>1. RemoveStep(j)
    BY <1>8 DEF DeleteJob, RemoveStep
  <2> QED BY <1>1, <1>2, <2>1, RowCommandFact DEF DbStep
<1> QED BY <1>4, <1>5, <1>6, <1>7, <1>8 DEF ResumeJob, RetryJob

LEMMA StepCommandSafe ==
  ASSUME IInv, NEW j \in Jobs, NEW i \in StepIx(j),
         RetryStep(j, i) \/ CancelStep(j, i) \/ ClearStaleLease(j, i) \/ ResolveBlocker(j, i)
  PROVE  Safe
<1>1. DbInv /\ Command /\ UNCHANGED <<fileVars, wk, faults>> /\ Exists(j)
  BY DbInvFact DEF RetryStep, CancelStep, ClearStaleLease, ResolveBlocker
<1>2. UNCHANGED type
  BY <1>1 DEF fileVars, askedVars
<1>3. step[j][i].status # "completed"
  BY DEF RetryStep, CancelStep, ClearStaleLease, ResolveBlocker, Retriable, Active
<1>4. \E to \in {"queued", "cancelled", "retryable"} : FreeOne(j, i, to, to)
  BY DEF RetryStep, CancelStep, ClearStaleLease, ResolveBlocker
<1>5. DbStep
  BY <1>1, <1>2, <1>3, <1>4, FreeOneFact, StatusFact
<1> QED BY <1>1, <1>5, RowCommandFact

LEMMA CreateJobSafe ==
  ASSUME IInv, NEW j \in Jobs, CreateJob(j)
  PROVE  Safe
<1>1. FileTypeOK' /\ UNCHANGED type
  BY SameFiles DEF CreateJob, IInv, TypeOK
<1>2. DbStep
  BY <1>1 DEF CreateJob, DbStep, OpenStep
<1>3. WorkTypeOK'
  BY <1>1, SameWork, CountFact DEF CreateJob, IInv, TypeOK
<1> QED BY <1>1, <1>2, <1>3 DEF Safe

\* Commands on the files of a job: its rows stay as they are.
LEMMA FileCommandFact ==
  ASSUME IInv, Command, UNCHANGED <<dbVars, type, wk, faults>>, FileTypeOK'
  PROVE  Safe
<1>1. WorkTypeOK'
  BY SameWork, CountFact, CommandFact DEF IInv, TypeOK
<1> QED BY <1>1, QuietRows DEF Safe

LEMMA UpdateQueuedJobSafe ==
  ASSUME IInv, NEW j \in Jobs, UpdateQueuedJob(j)
  PROVE  Safe
<1>1. FileTypeOK /\ UNCHANGED type
  BY DEF IInv, TypeOK, UpdateQueuedJob
<1>2. PICK p \in ParamsOf(type[j]) : params' = [params EXCEPT ![j] = p]
  BY DEF UpdateQueuedJob
<1>3. DOMAIN params' = Jobs /\ \A k \in Jobs : params'[k] \in ParamsOf(type[k])
  BY <1>1, <1>2 DEF FileTypeOK
<1>4. FileTypeOK'
  BY <1>1, <1>3 DEF UpdateQueuedJob, FileTypeOK, reportVars, ParamsOf
<1> QED BY <1>4, FileCommandFact DEF UpdateQueuedJob

LEMMA ReportCommandFact ==
  ASSUME IInv, NEW j \in Jobs, NEW of \in Reports, NEW shelf \in SUBSET Jobs,
         OnReport(j, of, shelf)
  PROVE  Safe
<1>1. FileTypeOK /\ UNCHANGED type
  BY DEF IInv, TypeOK, OnReport, askedVars
<1>2. report' \in [Jobs -> Reports]
  BY <1>1 DEF OnReport, FileTypeOK
<1>3. FileTypeOK'
  BY <1>1, <1>2 DEF OnReport, FileTypeOK, askedVars
<1> QED BY <1>1, <1>3, FileCommandFact DEF OnReport

LEMMA ReportCommandSafe ==
  ASSUME IInv, NEW j \in Jobs,
         delete_report(j) \/ ArchiveReport(j) \/ RestoreReport(j)
  PROVE  Safe
<1>1. report[j] \in Reports /\ "none" \in Reports /\ shelved \subseteq Jobs
  BY DEF IInv, TypeOK, FileTypeOK, Reports
<1> QED BY <1>1, ReportCommandFact DEF delete_report, ArchiveReport, RestoreReport

LEMMA ScratchCommandSafe ==
  ASSUME IInv, NEW j \in Jobs, RegenerateReport(j) \/ ArchiveJobScratch(j)
  PROVE  Safe
<1>1. FileTypeOK /\ Command /\ UNCHANGED <<dbVars, askedVars, type, pack, wk, faults>>
  BY DEF IInv, TypeOK, RegenerateReport, ArchiveJobScratch, askedVars
<1>2. /\ report' \in [Jobs -> Reports] /\ shelved' \subseteq Jobs
      /\ scratch' \in [Jobs -> {"none", "kept", "archived"}]
  BY <1>1 DEF RegenerateReport, ArchiveJobScratch, FileTypeOK, Reports, reportVars
<1>3. FileTypeOK'
  BY <1>1, <1>2 DEF FileTypeOK, askedVars
<1> QED BY <1>1, <1>3, FileCommandFact

LEMMA OperatorSafe ==
  ASSUME IInv, Operator
  PROVE  Safe
<1>1. PICK j \in Jobs :
        \/ CreateJob(j) \/ UpdateQueuedJob(j) \/ PauseJob(j) \/ ResumeJob(j) \/ RetryJob(j)
        \/ CancelJob(j) \/ DeleteJob(j)
        \/ RegenerateReport(j) \/ ArchiveJobScratch(j) \/ delete_report(j)
        \/ ArchiveReport(j) \/ RestoreReport(j) \/ update_report(j)
        \/ archive_retention(j)
        \/ \E i \in StepIx(j) : \/ RetryStep(j, i) \/ CancelStep(j, i)
                                 \/ ClearStaleLease(j, i) \/ ResolveBlocker(j, i)
  BY DEF Operator, StepRequest
<1> QED BY <1>1, CreateJobSafe, UpdateQueuedJobSafe, JobCommandSafe, StepCommandSafe,
           ReportCommandSafe, ScratchCommandSafe
        DEF update_report, archive_retention, RetentionReport, RetentionJob

-----------------------------------------------------------------------------
(***************************************************************************)
(* The specification: types and refinement.                                *)
(***************************************************************************)
LEMMA NextIsSafe ==
  ASSUME IInv, [Next]_vars
  PROVE  Safe
<1>1. CASE Next
  BY <1>1, OperatorSafe, EnvironmentSafe, WorkerStepSafe DEF Next
<1>2. CASE UNCHANGED vars
  <2>1. UNCHANGED <<dbVars, fileVars, wk, cmds, faults, type>>
    BY <1>2 DEF vars, dbVars, fileVars, askedVars, reportVars
  <2> QED BY <2>1, QuietRows, SameFiles, SameWork, CountFact DEF Safe, IInv, TypeOK
<1> QED BY <1>1, <1>2

LEMMA NextSafe ==
  ASSUME IInv, [Next]_vars
  PROVE  IInv' /\ LedgerStep
<1>1. Safe
  BY NextIsSafe
<1>2. DbInv' /\ LedgerStep
  BY <1>1, DbInvFact, DbStepSafe DEF Safe
<1> QED BY <1>1, <1>2 DEF Safe, DbInv, IInv, TypeOK

LEMMA InitSafe ==
  ASSUME Init
  PROVE  IInv /\ Ledger!LedgerInit
<1>1. DbTypeOK
  <2>1. FreshStep \in StepRows
    BY BoundsAssumption DEF FreshStep, StepRows, StepStatus
  <2> QED BY <2>1 DEF Init, DbTypeOK, JobStatus
<1>2. FileTypeOK
  BY DEF Init, FileTypeOK, EmptyPack, Packs, Reports
<1>3. WorkTypeOK
  <2>1. Idle \in [pc : PCs, job : Jobs \cup {0}, step : Nat] /\ Idle.pc = "idle"
    BY DEF Idle, PCs
  <2> QED BY <2>1, BoundsAssumption DEF Init, WorkTypeOK
<1>4. \A j \in Jobs : ~Exists(j) /\ job[j] = "none"
  BY DEF Init, Exists
<1>5. \A j \in Jobs : \A i \in StepIx(j) :
        step[j][i] = FreshStep /\ step[j][i].status = "queued"
  BY DEF Init, FreshStep
<1>6. BlankRows /\ StepsInOrder /\ CompletedIffStepsAre
  BY <1>4, <1>5 DEF BlankRows, StepsInOrder, CompletedIffStepsAre, Active
<1>7. Phase = [j \in Jobs |-> "none"]
  BY <1>4 DEF Phase
<1>8. DoneSet = [j \in Jobs |-> {}]
  BY <1>5 DEF DoneSet
<1>9. Size \in [Jobs -> Nat \ {0}]
  BY <1>1, PlanFact DEF Size
<1>10. Ledger!LedgerInit
  BY <1>7, <1>8, <1>9 DEF Ledger!LedgerInit, Phase, DoneSet, Size
<1> QED BY <1>1, <1>2, <1>3, <1>6, <1>10 DEF IInv, TypeOK

LEMMA QueueInvariant == Spec => []IInv
<1>1. Init => IInv
  BY InitSafe
<1>2. IInv /\ [Next]_vars => IInv'
  BY NextSafe
<1> QED BY <1>1, <1>2, PTL DEF Spec

\* The rows, the files and the workers' hands stay well typed: in particular
\* no step is ever leased more often than RESEARCH_STEP_MAX_ATTEMPTS allows,
\* and a worker that is at work holds a step of an existing plan.
THEOREM QueueTypeCorrect == Spec => []TypeOK
<1>1. IInv => TypeOK
  BY DEF IInv
<1> QED BY <1>1, QueueInvariant, PTL

\* Whatever workers, operators, expired leases and lost answers do between
\* them, complete_research_step and the commands on steps keep a job's status
\* equal to "completed" exactly while all of its steps are.
THEOREM JobCompletedIffStepsAre == Spec => []CompletedIffStepsAre
<1>1. IInv => CompletedIffStepsAre
  BY DEF IInv
<1> QED BY <1>1, QueueInvariant, PTL

\* The queue implements the ledger: each step of a job is completed once and
\* only after the ones before it, the last one closes the job, and no late
\* worker or operator command reopens a closed job.
THEOREM QueueImplementsLedger == Spec => LedgerRefined
<1>1. Init => Ledger!LedgerInit
  BY InitSafe
<1>2. IInv /\ [Next]_vars => [Ledger!LedgerNext]_(Ledger!ledgerVars)
  BY NextSafe DEF LedgerStep
<1> QED BY <1>1, <1>2, QueueInvariant, PTL DEF Spec, LedgerRefined, Ledger!LedgerSpec

-----------------------------------------------------------------------------
(***************************************************************************)
(* WedgeTakesTwoCommands and ExportIsWhole.                                *)
(*                                                                         *)
(* Their invariant (HistoryInv) relates the rows, the workers and the      *)
(* files.  An action moves them in one of the ways below (Move); each way  *)
(* preserves each conjunct, and each action is one of them.                *)
(***************************************************************************)

\* One row changes, and perhaps the status of its job.
OneRow(j, i, row, to) ==
  /\ step'[j][i] = row /\ job'[j] = to
  /\ \A k \in Jobs : k # j => job'[k] = job[k]
  /\ \A k \in Jobs : \A h \in StepIx(k) : k # j \/ h # i => step'[k][h] = step[k][h]

\* The rows of one job whose status is in From are freed.
ManyRows(j, From, To, to) ==
  /\ job'[j] = to
  /\ \A k \in Jobs : k # j => job'[k] = job[k] /\ step'[k] = step[k]
  /\ \A h \in StepIx(j) :
       /\ step[j][h].status \in From => step'[j][h] = Freed(step[j][h], To)
       /\ step[j][h].status \notin From => step'[j][h] = step[j][h]

\* A leased or running row stays one, of the same owner.
Touches(j, i, row) ==
  /\ Exists(j) /\ step[j][i].status \in Active
  /\ row.status \in Active /\ row.owner = step[j][i].owner
  /\ row.attempts = step[j][i].attempts
  /\ row.status = "leased" => step[j][i].status = "leased"
  /\ OneRow(j, i, row, job[j])

Gives(w, j, i, row) ==
  /\ Leasable(j, i)
  /\ row.status = "leased" /\ row.owner = w /\ ~row.stale
  /\ row.attempts >= 1 /\ row.attempts >= step[j][i].attempts
  /\ OneRow(j, i, row, "running")

Halts(j, i, s) ==
  /\ s \in Halted /\ Exists(j)
  /\ Leasable(j, i) \/ step[j][i].status \in Active
  /\ OneRow(j, i, Freed(step[j][i], s), s)

Completes(j, i) ==
  /\ Exists(j) /\ step[j][i].status \in Active
  /\ \E to \in {job[j], "completed"} : OneRow(j, i, Freed(step[j][i], "completed"), to)

Cancels(j) ==
  /\ Exists(j)
  /\ ManyRows(j, StepStatus \ {"completed", "cancelled"}, "cancelled", "cancelled")

Removes(j) ==
  /\ Exists(j) /\ job'[j] = "gone"
  /\ \A k \in Jobs : k # j => job'[k] = job[k] /\ step'[k] = step[k]
  /\ \A h \in StepIx(j) : step'[j][h] = FreshStep

\* What a command does to the rows.
RowCommand(j) ==
  \/ /\ Runnable(j)
     /\ ManyRows(j, {"queued", "retryable", "leased"}, "paused", "paused")
  \/ job[j] = "paused" /\ ManyRows(j, {"paused"}, "queued", "queued")
  \/ job[j] \in Retriable /\ ManyRows(j, Retriable, "queued", "queued")
  \/ Cancels(j)
  \/ Removes(j)

StepCommand(j, i) ==
  /\ Exists(j)
  /\ \/ /\ step[j][i].status \in Retriable \cup {"paused"}
        /\ OneRow(j, i, Freed(step[j][i], "queued"), "queued")
     \/ /\ step[j][i].status # "completed"
        /\ OneRow(j, i, Freed(step[j][i], "cancelled"), "cancelled")
     \/ /\ step[j][i].status \in Active /\ step[j][i].stale
        /\ OneRow(j, i, Freed(step[j][i], "retryable"), "retryable")

\* The worker stays with its step, or leaves it.
Others(w) == \A u \in Workers : u # w => wk'[u] = wk[u]
Stays(w, p) ==
  /\ InHand(w)
  /\ wk'[w].pc = p /\ wk'[w].job = wk[w].job /\ wk'[w].step = wk[w].step
  /\ Others(w)
Leaves(w) == wk'[w].pc \in {"idle", "exited"} /\ Others(w)
KindOf(w) == Kinds(wk[w].job)[wk[w].step]

SameRows == UNCHANGED <<job, step>>
SameFilesOf == UNCHANGED <<params, pack>>
NoCommand == cmds' = cmds /\ faults' >= faults

\* The ways an action can move rows, workers and files.
Jumps(w, p) ==
  /\ wk[w].pc # "leased" /\ Stays(w, p)
  /\ p \notin {"idle", "exited", "leased", "upsert", "attach"}
  /\ StageOfKind(p, KindOf(w))
  /\ p = "killed" => cmds >= 1
  /\ p = "ok" => KindOf(w) \notin {"snapshot", "manifest"} \/ ~Real(wk[w].job)
  /\ SameRows /\ SameFilesOf /\ NoCommand

FileStep(w, p) ==
  \/ wk[w].pc = "work" /\ KindOf(w) = "snapshot" /\ p = "copy"
       /\ remove_sqlite_family(wk[w].job)
  \/ wk[w].pc = "copy" /\ p = "ok"
       /\ \E same \in BOOLEAN : backup_sqlite_db(wk[w].job, same)
  \/ wk[w].pc = "work" /\ KindOf(w) = "manifest" /\ p = "upsert"
       /\ build_manifest(wk[w].job) /\ write_export_manifest(wk[w].job)
  \/ wk[w].pc = "upsert" /\ p \in {"attach", "err"} /\ RegisterExport(wk[w].job)
  \/ wk[w].pc = "attach" /\ p \in {"ok", "err"}
       /\ attach_research_job_artifact(wk[w].job)

WritesFiles(w, p) ==
  /\ Stays(w, p) /\ FileStep(w, p)
  /\ SameRows /\ UNCHANGED params /\ NoCommand

Runs(w) ==
  /\ wk[w].pc = "leased" /\ InHand(w)
  /\ Holds(w, wk[w].job, wk[w].step)
  /\ \E row : /\ row.status = "running"
              /\ ~row.stale \/ step[wk[w].job][wk[w].step].stale
              /\ Touches(wk[w].job, wk[w].step, row)
  /\ \/ \E p \in {"work", "report"} : Stays(w, p) /\ StageOfKind(p, KindOf(w))
     \/ Leaves(w) /\ faults' > 0
  /\ SameFilesOf /\ NoCommand

Quits(w) ==
  /\ Leaves(w)
  /\ faults' = 0 /\ InHand(w) => ~Holds(w, wk[w].job, wk[w].step)
  /\ SameRows /\ SameFilesOf /\ NoCommand

Settles(w) ==
  /\ InHand(w) /\ Holds(w, wk[w].job, wk[w].step) /\ Leaves(w)
  /\ \/ \E s \in Halted : Halts(wk[w].job, wk[w].step, s)
     \/ wk[w].pc = "ok" /\ Completes(wk[w].job, wk[w].step)
  /\ SameFilesOf /\ NoCommand

Kills(w) ==
  /\ wk[w].pc = "killed" /\ Stays(w, "err") /\ Cancels(wk[w].job)
  /\ SameFilesOf /\ NoCommand

\* No worker moves.
Alone(j, i) ==
  /\ \/ /\ \E row : /\ row.stale => faults' > 0 \/ ~Attended(j, i)
                    /\ Touches(j, i, row)
     \/ Leasable(j, i) /\ Halts(j, i, "failed")
     \/ faults' > 0 /\ \E w, row : Gives(w, j, i, row)
  /\ UNCHANGED wk /\ SameFilesOf /\ NoCommand

Starts(j) == OpenStep(j) /\ UNCHANGED wk /\ SameFilesOf /\ NoCommand

Takes(w, j, i) ==
  /\ wk[w].pc = "idle" /\ \E row : Gives(w, j, i, row)
  /\ wk'[w] = [pc |-> "leased", job |-> j, step |-> i] /\ Others(w)
  /\ SameFilesOf /\ NoCommand

ACommand == cmds' = cmds + 1 /\ UNCHANGED <<wk, faults>>

Commands(j) == RowCommand(j) /\ SameFilesOf /\ ACommand
StepCommands(j, i) == StepCommand(j, i) /\ SameFilesOf /\ ACommand
Asks(j) ==
  /\ job[j] = "queued"
  /\ \A i \in StepIx(j) : step[j][i].status = "queued" /\ step[j][i].attempts = 0
  /\ \A k \in Jobs : k # j => params'[k] = params[k]
  /\ SameRows /\ UNCHANGED pack /\ ACommand
Idles == UNCHANGED <<job, step, params, pack, wk, faults>> /\ cmds' >= cmds

Move ==
  \/ \E w \in Workers : \/ \E p : Jumps(w, p) \/ WritesFiles(w, p)
                        \/ Runs(w) \/ Quits(w) \/ Settles(w) \/ Kills(w)
                        \/ \E j \in Jobs : \E i \in StepIx(j) : Takes(w, j, i)
  \/ \E j \in Jobs : \/ \E i \in StepIx(j) : Alone(j, i) \/ StepCommands(j, i)
                     \/ Starts(j) \/ Commands(j) \/ Asks(j)
  \/ Idles

\* The rows, apart from who moves them.
WorkRows ==
  \/ SameRows
  \/ \E j \in Jobs : OpenStep(j) \/ (Cancels(j) /\ cmds >= 1)
  \/ \E j \in Jobs : \E i \in StepIx(j) :
       \/ \E row : Touches(j, i, row)
       \/ \E w, row : Gives(w, j, i, row)
       \/ \E s : Halts(j, i, s)
       \/ Completes(j, i)

CommandRows ==
  \E j \in Jobs : RowCommand(j) \/ \E i \in StepIx(j) : StepCommand(j, i)

LEMMA BaseFact ==
  ASSUME IInvPlus
  PROVE  /\ cmds \in Nat /\ faults \in Nat
         /\ job \in [Jobs -> JobStatus]
         /\ \A k \in Jobs : \A h \in StepIx(k) :
              /\ step[k][h] \in StepRows /\ step[k][h].attempts \in Nat
              /\ 1..(h - 1) \subseteq StepIx(k) /\ h \in Nat
<1>1. cmds \in Nat /\ faults \in Nat
  BY BoundsAssumption DEF IInvPlus, IInv, TypeOK, WorkTypeOK
<1>2. job \in [Jobs -> JobStatus] /\ DbTypeOK
  BY DEF IInvPlus, IInv, TypeOK, DbTypeOK
<1>3. \A k \in Jobs : \A h \in StepIx(k) : step[k][h] \in StepRows
  BY <1>2, RowIsRow
<1>4. \A k \in Jobs : \A h \in StepIx(k) : step[k][h].attempts \in Nat
  BY <1>3, BoundsAssumption DEF StepRows
<1>5. \A k \in Jobs : \A h \in StepIx(k) : 1..(h - 1) \subseteq StepIx(k) /\ h \in Nat
  BY <1>2, PlanFact
<1> QED BY <1>1, <1>2, <1>3, <1>4, <1>5

LEMMA FreedFact ==
  ASSUME NEW s, NEW to
  PROVE  /\ Freed(s, to).status = to /\ Freed(s, to).owner = NoOwner
         /\ Freed(s, to).stale = FALSE /\ Freed(s, to).attempts = s.attempts
BY DEF Freed

LEMMA NextCounts ==
  ASSUME IInv'
  PROVE  cmds' \in Nat /\ faults' \in Nat
BY BoundsAssumption DEF IInv, TypeOK, WorkTypeOK

\* A worker in hand is at one step only.
LEMMA AtFact ==
  ASSUME IInvPlus, NEW w \in Workers, InHand(w)
  PROVE  /\ wk[w].job \in Jobs /\ wk[w].step \in StepIx(wk[w].job)
         /\ At(w, wk[w].job, wk[w].step)
BY HandFact DEF IInvPlus, IInv, TypeOK, InHand, At

LEMMA MoveRows ==
  ASSUME IInvPlus, Move
  PROVE  /\ cmds' >= cmds /\ faults' >= faults
         /\ WorkRows \/ (CommandRows /\ cmds' = cmds + 1)
<1>1. cmds \in Nat /\ faults \in Nat
  BY BaseFact
<1>2. ASSUME NEW w \in Workers, NEW p, Jumps(w, p) \/ WritesFiles(w, p)
      PROVE  NoCommand /\ WorkRows
  BY <1>2 DEF Jumps, WritesFiles, WorkRows
<1>3. ASSUME NEW w \in Workers, Runs(w) PROVE NoCommand /\ WorkRows
  <2>1. NoCommand /\ InHand(w) /\ \E row : Touches(wk[w].job, wk[w].step, row)
    BY <1>3 DEF Runs
  <2> QED BY <2>1, AtFact DEF WorkRows
<1>4. ASSUME NEW w \in Workers, Quits(w) PROVE NoCommand /\ WorkRows
  BY <1>4 DEF Quits, WorkRows
<1>5. ASSUME NEW w \in Workers, Settles(w) PROVE NoCommand /\ WorkRows
  BY <1>5, AtFact DEF Settles, WorkRows
<1>6. ASSUME NEW w \in Workers, Kills(w) PROVE NoCommand /\ WorkRows
  <2>1. NoCommand /\ InHand(w) /\ Cancels(wk[w].job) /\ wk[w].pc = "killed"
    BY <1>6 DEF Kills, Stays
  <2>2. cmds >= 1
    BY <2>1 DEF IInvPlus, HistoryInv, HandsAreReal, HandIsReal
  <2> QED BY <2>1, <2>2, AtFact DEF WorkRows
<1>7. ASSUME NEW j \in Jobs, NEW i \in StepIx(j),
             Alone(j, i) \/ \E w \in Workers : Takes(w, j, i)
      PROVE  NoCommand /\ WorkRows
  BY <1>7 DEF Alone, Takes, WorkRows
<1>8. ASSUME NEW j \in Jobs, Starts(j) PROVE NoCommand /\ WorkRows
  BY <1>8 DEF Starts, WorkRows
<1>9. ASSUME NEW j \in Jobs, Commands(j) \/ \E i \in StepIx(j) : StepCommands(j, i)
      PROVE  ACommand /\ CommandRows
  BY <1>9 DEF Commands, StepCommands, CommandRows
<1>10. ASSUME NEW j \in Jobs, Asks(j) PROVE ACommand /\ WorkRows
  BY <1>10 DEF Asks, WorkRows
<1>11. CASE Idles
  BY <1>1, <1>11 DEF Idles, WorkRows, SameRows
<1>12. CASE NoCommand /\ WorkRows
  BY <1>1, <1>12 DEF NoCommand
<1>13. CASE ACommand /\ (WorkRows \/ CommandRows)
  BY <1>1, <1>13 DEF ACommand
<1> QED BY <1>2, <1>3, <1>4, <1>5, <1>6, <1>7, <1>8, <1>9, <1>10, <1>11, <1>12, <1>13
        DEF Move

Grows(k) ==
  /\ job'[k] # "none"
  /\ Exists(k)' => /\ Exists(k)
                   /\ \A h \in StepIx(k) :
                        step'[k][h].attempts >= step[k][h].attempts

\* No job returns to not being created, no deleted one returns, and no step
\* forgets an attempt.
LEMMA GrowFact ==
  ASSUME IInvPlus, Move, NEW k \in Jobs, job[k] # "none"
  PROVE  Grows(k)
<1>0. \A l \in Jobs : \A h \in StepIx(l) : step[l][h].attempts >= step[l][h].attempts
  BY BaseFact
<1>a. \A j \in Jobs : \A i \in StepIx(j) : \A to :
        Freed(step[j][i], to).attempts >= step[j][i].attempts
  <2> SUFFICES ASSUME NEW j \in Jobs, NEW i \in StepIx(j), NEW to
               PROVE  Freed(step[j][i], to).attempts >= step[j][i].attempts
    OBVIOUS
  <2>1. Freed(step[j][i], to).attempts = step[j][i].attempts
    BY FreedFact
  <2>2. step[j][i].attempts >= step[j][i].attempts
    BY <1>0
  <2> QED BY <2>1, <2>2
<1>1. ASSUME NEW j \in Jobs, NEW i \in StepIx(j), NEW row, NEW to,
             OneRow(j, i, row, to), Exists(j), to \notin {"none", "gone"},
             row.attempts >= step[j][i].attempts
      PROVE  Grows(k)
  BY <1>0, <1>1 DEF OneRow, Exists, Grows
<1>2. ASSUME NEW j \in Jobs, NEW From, NEW To, NEW to, ManyRows(j, From, To, to),
             Exists(j), to \notin {"none", "gone"}
      PROVE  Grows(k)
  <2>1. \A h \in StepIx(j) : step'[j][h] = step[j][h] \/ step'[j][h] = Freed(step[j][h], To)
    BY <1>2 DEF ManyRows
  <2>2. \A h \in StepIx(j) : step'[j][h].attempts >= step[j][h].attempts
    BY <1>0, <1>a, <2>1
  <2>3. CASE k = j
    BY <1>2, <2>2, <2>3 DEF Exists, ManyRows, Grows
  <2>4. CASE k # j
    BY <1>0, <1>2, <2>4 DEF ManyRows, Exists, Grows
  <2> QED BY <2>3, <2>4
<1>3. ASSUME NEW j \in Jobs, Removes(j)
      PROVE  Grows(k)
  BY <1>0, <1>3 DEF Removes, Exists, Grows
<1>4. CASE SameRows
  BY <1>0, <1>4 DEF SameRows, Exists, Grows
<1>5. ASSUME NEW j \in Jobs, OpenStep(j)
      PROVE  Grows(k)
  BY <1>0, <1>5 DEF OpenStep, Exists, Grows
<1>6. CASE WorkRows
  <2>1. ASSUME NEW j \in Jobs, NEW i \in StepIx(j), NEW row, Touches(j, i, row)
        PROVE  /\ OneRow(j, i, row, job[j]) /\ Exists(j) /\ job[j] \notin {"none", "gone"}
               /\ row.attempts >= step[j][i].attempts
    BY <1>0, <2>1 DEF Touches, Exists
  <2>2. ASSUME NEW j \in Jobs, NEW i \in StepIx(j), NEW w, NEW row, Gives(w, j, i, row)
        PROVE  /\ OneRow(j, i, row, "running") /\ Exists(j)
               /\ row.attempts >= step[j][i].attempts
    BY <2>2 DEF Gives, Leasable, Exists
  <2>3. ASSUME NEW j \in Jobs, NEW i \in StepIx(j), NEW s, Halts(j, i, s)
        PROVE  /\ OneRow(j, i, Freed(step[j][i], s), s) /\ Exists(j)
               /\ s \notin {"none", "gone"}
    BY <2>3 DEF Halts, Halted
  <2>4. ASSUME NEW j \in Jobs, NEW i \in StepIx(j), Completes(j, i)
        PROVE  \E to : /\ OneRow(j, i, Freed(step[j][i], "completed"), to)
                       /\ Exists(j) /\ to \notin {"none", "gone"}
    BY <2>4 DEF Completes, Exists
  <2>5. ASSUME NEW j \in Jobs, Cancels(j)
        PROVE  \E From, To : ManyRows(j, From, To, "cancelled") /\ Exists(j)
    BY <2>5 DEF Cancels
  <2>6. ASSUME NEW j \in Jobs, NEW i \in StepIx(j),
               \/ \E row : Touches(j, i, row)
               \/ \E w, row : Gives(w, j, i, row)
        PROVE  Grows(k)
    BY <1>1, <2>1, <2>2, <2>6
  <2>7. ASSUME NEW j \in Jobs, NEW i \in StepIx(j),
               (\E s : Halts(j, i, s)) \/ Completes(j, i)
        PROVE  Grows(k)
    <3>1. CASE \E s : Halts(j, i, s)
      <4>1. PICK s : Halts(j, i, s)
        BY <3>1
      <4>2. /\ OneRow(j, i, Freed(step[j][i], s), s) /\ Exists(j)
            /\ s \notin {"none", "gone"}
        BY <4>1, <2>3
      <4>3. Freed(step[j][i], s).attempts >= step[j][i].attempts
        BY <1>a
      <4> QED BY <1>1, <4>2, <4>3
    <3>2. CASE Completes(j, i)
      <4>1. PICK to : /\ OneRow(j, i, Freed(step[j][i], "completed"), to)
                      /\ Exists(j) /\ to \notin {"none", "gone"}
        BY <2>4, <3>2
      <4>2. Freed(step[j][i], "completed").attempts >= step[j][i].attempts
        BY <1>a
      <4> QED BY <1>1, <4>1, <4>2
    <3> QED BY <2>7, <3>1, <3>2
  <2>8. ASSUME NEW j \in Jobs, Cancels(j)
        PROVE  Grows(k)
    BY <1>2, <2>5, <2>8
  <2> QED BY <1>4, <1>5, <1>6, <2>6, <2>7, <2>8 DEF WorkRows
<1>7. CASE CommandRows
  <2>1. ASSUME NEW j \in Jobs, RowCommand(j)
        PROVE  \/ \E From, To, to : /\ ManyRows(j, From, To, to) /\ Exists(j)
                                    /\ to \notin {"none", "gone"}
               \/ Removes(j)
    BY <2>1 DEF RowCommand, Cancels, Runnable, Retriable, Exists
  <2>2. ASSUME NEW j \in Jobs, NEW i \in StepIx(j), StepCommand(j, i)
        PROVE  \E s, to : /\ OneRow(j, i, Freed(step[j][i], s), to)
                          /\ Exists(j) /\ to \notin {"none", "gone"}
    BY <2>2 DEF StepCommand
  <2> QED BY <1>a, <1>1, <1>2, <1>3, <1>7, <2>1, <2>2 DEF CommandRows
<1> QED BY <1>6, <1>7, MoveRows

\* A worker in hand stays with its step, or has just leased one.
Keeps(u) ==
  /\ InHand(u)
  /\ wk'[u].job = wk[u].job /\ wk'[u].step = wk[u].step
  /\ StageOfKind(wk'[u].pc, KindOf(u))
  /\ wk'[u].pc = "killed" => cmds >= 1

Begins(u, j, i) ==
  /\ wk'[u] = [pc |-> "leased", job |-> j, step |-> i]
  /\ \E row : Gives(u, j, i, row)

LEMMA HandMoves ==
  ASSUME IInvPlus, Move, NEW u \in Workers, InHand(u)'
  PROVE  Keeps(u) \/ \E j \in Jobs : \E i \in StepIx(j) : Begins(u, j, i)
<1>1. ASSUME wk'[u] = wk[u] PROVE Keeps(u)
  BY <1>1 DEF Keeps, InHand, KindOf, IInvPlus, HistoryInv, HandsAreReal, HandIsReal
<1>2. ASSUME NEW w \in Workers, NEW p, Stays(w, p), StageOfKind(p, KindOf(w)),
             p = "killed" => cmds >= 1
      PROVE  Keeps(u)
  BY <1>1, <1>2 DEF Stays, Others, Keeps
<1>3. ASSUME NEW w \in Workers, Leaves(w) PROVE Keeps(u)
  BY <1>1, <1>3 DEF Leaves, Others, InHand
<1>4. ASSUME NEW w \in Workers, NEW p, Jumps(w, p) \/ WritesFiles(w, p)
      PROVE  Keeps(u)
  <2>1. CASE Jumps(w, p)
    BY <1>2, <2>1 DEF Jumps
  <2>2. CASE WritesFiles(w, p)
    <3>1. wk[w].pc = "upsert" \/ wk[w].pc = "attach" => KindOf(w) = "manifest"
      BY <2>2 DEF WritesFiles, Stays, KindOf, IInvPlus, HistoryInv, HandsAreReal,
         HandIsReal, StageOfKind
    <3>2. StageOfKind(p, KindOf(w)) /\ p # "killed"
      BY <2>2, <3>1 DEF WritesFiles, FileStep, StageOfKind, ReportPCs
    <3> QED BY <1>2, <2>2, <3>2 DEF WritesFiles
  <2> QED BY <1>4, <2>1, <2>2
<1>5. ASSUME NEW w \in Workers, Runs(w) PROVE Keeps(u)
  <2>1. Leaves(w) \/ \E p \in {"work", "report"} : Stays(w, p) /\ StageOfKind(p, KindOf(w))
    BY <1>5 DEF Runs
  <2> QED BY <1>2, <1>3, <2>1
<1>6. ASSUME NEW w \in Workers, Quits(w) \/ Settles(w) PROVE Keeps(u)
  BY <1>3, <1>6 DEF Quits, Settles
<1>7. ASSUME NEW w \in Workers, Kills(w) PROVE Keeps(u)
  <2>1. StageOfKind("err", KindOf(w))
    BY DEF StageOfKind, ReportPCs
  <2> QED BY <1>2, <1>7, <2>1 DEF Kills
<1>8. ASSUME NEW w \in Workers, NEW j \in Jobs, NEW i \in StepIx(j), Takes(w, j, i)
      PROVE  Keeps(u) \/ Begins(u, j, i)
  BY <1>1, <1>8 DEF Takes, Others, Begins
<1>9. ASSUME UNCHANGED wk PROVE Keeps(u)
  BY <1>1, <1>9
<1> QED BY <1>4, <1>5, <1>6, <1>7, <1>8, <1>9
        DEF Move, Alone, Starts, Commands, StepCommands, Asks, ACommand, Idles

LEMMA HandsMove ==
  ASSUME IInvPlus, IInv', UNCHANGED type, Move
  PROVE  HandsAreReal'
<1> SUFFICES ASSUME NEW u \in Workers, InHand(u)'
             PROVE  HandIsReal(u, wk[u].job, wk[u].step)'
  BY DEF HandsAreReal
<1>0. \A k \in Jobs : \A h \in StepIx(k) : step'[k][h].attempts \in Nat
  <2>1. \A k \in Jobs : step'[k] \in [StepIx(k) -> StepRows]
    BY IndexFact DEF IInv, TypeOK, DbTypeOK
  <2> QED BY <2>1, BoundsAssumption DEF StepRows
<1>1. CASE Keeps(u)
  <2> DEFINE j == wk[u].job
             i == wk[u].step
  <2>1. j \in Jobs /\ i \in StepIx(j) /\ HandIsReal(u, j, i)
    BY <1>1, AtFact DEF Keeps, IInvPlus, HistoryInv, HandsAreReal
  <2>2. job[j] # "none" /\ (Exists(j) => step[j][i].attempts >= 1)
    BY <2>1 DEF HandIsReal
  <2>3. Grows(j)
    BY <2>1, <2>2, GrowFact
  <2>4. step[j][i].attempts \in Nat
    BY <2>1, BaseFact
  <2>5. Exists(j)' => step'[j][i].attempts >= 1
    <3>1. step'[j][i].attempts \in Nat
      BY <2>1, <1>0
    <3> QED BY <3>1, <2>1, <2>2, <2>3, <2>4 DEF Grows
  <2>6. StageOfKind(wk[u].pc, Kinds(wk[u].job)[wk[u].step])' /\ (wk'[u].pc = "killed" => cmds' >= 1)
    <3>1. Kinds(wk[u].job)' = Kinds(j)
      BY <1>1 DEF Keeps, Kinds
    <3>2. cmds \in Nat /\ cmds' \in Nat /\ cmds' >= cmds
      BY BaseFact, MoveRows, BoundsAssumption DEF IInv, TypeOK, WorkTypeOK
    <3>3. wk'[u].step = wk[u].step /\ StageOfKind(wk'[u].pc, Kinds(j)[i])
      BY <1>1 DEF Keeps, KindOf
    <3>4. StageOfKind(wk'[u].pc, Kinds(wk[u].job)'[wk'[u].step])
      BY <3>1, <3>3
    <3> QED BY <1>1, <3>2, <3>4 DEF Keeps
  <2>7. wk'[u].job = j /\ wk'[u].step = i /\ job'[j] # "none"
    BY <1>1, <2>3 DEF Keeps, Grows
  <2> QED BY <2>5, <2>6, <2>7 DEF HandIsReal, Exists
<1>2. ASSUME NEW j \in Jobs, NEW i \in StepIx(j), Begins(u, j, i)
      PROVE  HandIsReal(u, wk[u].job, wk[u].step)'
  <2>1. wk'[u].pc = "leased" /\ wk'[u].job = j /\ wk'[u].step = i
    BY <1>2 DEF Begins
  <2>2. job'[j] = "running" /\ step'[j][i].attempts >= 1
    BY <1>2 DEF Begins, Gives, OneRow
  <2> QED BY <2>1, <2>2 DEF HandIsReal, StageOfKind, ReportPCs
<1> QED BY <1>1, <1>2, HandMoves

\* A row that is not completed changes under a job that no command touched.
LEMMA OneRowHalts ==
  ASSUME IInvPlus, UNCHANGED type, \A l \in Jobs : HaltIsSingle(l),
         NEW j \in Jobs, NEW i \in StepIx(j), NEW row, NEW to, OneRow(j, i, row, to),
         step[j][i].status # "completed",
         row.status \in {"queued", "completed"} \cup Active \cup Halted,
         row.status \in Halted => Prior(j, i),
         to \in {"queued", "running", "completed"} \cup Halted,
         to \in {"queued", "running"} => Runnable(j) /\ row.status \notin Halted,
         NEW k \in Jobs
  PROVE  HaltIsSingle(k)'
<1>1. \A h \in StepIx(k) : 1..(h - 1) \subseteq StepIx(k)
  BY BaseFact
<1>2. StepIx(k)' = StepIx(k) /\ HaltIsSingle(k)
  BY IndexFact
<1>3. CASE k # j
  BY <1>1, <1>2, <1>3 DEF OneRow, HaltIsSingle, Runnable
<1>4. CASE k = j
  <2>1. job'[k] \in {"none", "queued", "running", "completed"} \cup Halted
    BY <1>4 DEF OneRow
  <2>2. ASSUME NEW h \in StepIx(k)
        PROVE  /\ step'[k][h].status \in {"queued", "completed"} \cup Active \cup Halted
               /\ step'[k][h].status \in Halted =>
                    ~Runnable(k)' /\ \A g \in 1..(h - 1) : step'[k][g].status = "completed"
    <3>1. CASE h = i
      <4>1. step'[k][h] = row /\ job'[k] = to
        BY <1>4, <3>1 DEF OneRow
      <4>2. \A g \in 1..(i - 1) : step'[k][g] = step[k][g]
        BY <1>1, <1>4 DEF OneRow
      <4>3. row.status \in Halted => ~Runnable(k)'
        BY <4>1 DEF Runnable, Halted
      <4> QED BY <1>4, <3>1, <4>1, <4>2, <4>3 DEF Prior
    <3>2. CASE h # i
      <4>1. step'[k][h] = step[k][h] /\ job'[k] = to
        BY <1>4, <3>2 DEF OneRow
      <4>2. ASSUME step[k][h].status \in Halted
            PROVE  /\ ~Runnable(k)
                   /\ \A g \in 1..(h - 1) : step[k][g].status = "completed"
        BY <4>2, <1>2 DEF HaltIsSingle
      <4>3. ASSUME step[k][h].status \in Halted, NEW g \in 1..(h - 1)
            PROVE  step'[k][g].status = "completed"
        <5>1. step[k][g].status = "completed" /\ g # i /\ g \in StepIx(k)
          BY <1>1, <1>4, <4>2, <4>3
        <5> QED BY <1>4, <5>1 DEF OneRow
      <4>4. step[k][h].status \in Halted => ~Runnable(k)'
        BY <1>4, <4>1, <4>2 DEF Runnable, Halted
      <4>5. step[k][h].status \in {"queued", "completed"} \cup Active \cup Halted
        BY <1>2 DEF HaltIsSingle
      <4> QED BY <4>1, <4>3, <4>4, <4>5
    <3> QED BY <3>1, <3>2
  <2> QED BY <1>2, <2>1, <2>2 DEF HaltIsSingle
<1> QED BY <1>3, <1>4

LEMMA HaltsMove ==
  ASSUME IInvPlus, UNCHANGED type, Move
  PROVE  HaltsAreSingle'
<1> SUFFICES ASSUME cmds' = 0, NEW k \in Jobs PROVE HaltIsSingle(k)'
  BY DEF HaltsAreSingle
<1>1. cmds = 0 /\ WorkRows
  BY BaseFact, MoveRows
<1>2. \A l \in Jobs : HaltIsSingle(l)
  BY <1>1 DEF IInvPlus, HistoryInv, HaltsAreSingle
<1>3. /\ \A l \in Jobs : StepIx(l)' = StepIx(l)
      /\ \A l \in Jobs : \A h \in StepIx(l) : Prior(l, h) \/ step[l][h].status \notin Active
  BY IndexFact DEF IInvPlus, IInv, StepsInOrder, Prior
<1>4. CASE SameRows
  BY <1>2, <1>3, <1>4 DEF SameRows, HaltIsSingle, Runnable
<1>5. ASSUME NEW j \in Jobs, OpenStep(j) PROVE HaltIsSingle(k)'
  <2>1. step' = step /\ job' = [job EXCEPT ![j] = "queued"] /\ ~Exists(j)
    BY <1>5 DEF OpenStep, Exists
  <2>2. CASE k = j
    <3>1. \A i \in StepIx(k) : step'[k][i].status = "queued"
      BY <2>1, <2>2 DEF IInvPlus, IInv, BlankRows, FreshStep
    <3>2. job'[k] = "queued"
      BY <2>1, <2>2, BaseFact
    <3> QED BY <1>3, <3>1, <3>2 DEF HaltIsSingle, Halted
  <2>3. CASE k # j
    <3>1. job'[k] = job[k]
      BY <2>1, <2>3
    <3> QED BY <1>2, <1>3, <2>1, <3>1 DEF HaltIsSingle, Runnable
  <2> QED BY <2>2, <2>3
<1>6. ASSUME NEW j \in Jobs, NEW i \in StepIx(j), NEW row, Touches(j, i, row)
      PROVE  HaltIsSingle(k)'
  <2>1. /\ OneRow(j, i, row, job[j]) /\ step[j][i].status # "completed"
        /\ row.status \in Active /\ row.status \notin Halted
    BY <1>6 DEF Touches, Active, Halted
  <2>2. job[j] \in {"queued", "running", "completed"} \cup Halted
    BY <1>2, <1>6 DEF Touches, Exists, HaltIsSingle
  <2> QED BY <1>2, <2>1, <2>2, OneRowHalts DEF Runnable
<1>7. ASSUME NEW j \in Jobs, NEW i \in StepIx(j), NEW w, NEW row, Gives(w, j, i, row)
      PROVE  HaltIsSingle(k)'
  <2>1. /\ OneRow(j, i, row, "running") /\ row.status = "leased" /\ Runnable(j)
        /\ step[j][i].status # "completed" /\ row.status \notin Halted
    BY <1>7 DEF Gives, Leasable, Runnable, Active, Halted
  <2> QED BY <1>2, <2>1, OneRowHalts DEF Active
<1>8. ASSUME NEW j \in Jobs, NEW i \in StepIx(j), NEW s, Halts(j, i, s)
      PROVE  HaltIsSingle(k)'
  <2>1. /\ OneRow(j, i, Freed(step[j][i], s), s) /\ s \in Halted
        /\ Freed(step[j][i], s).status = s
    BY <1>8, FreedFact DEF Halts
  <2>2. step[j][i].status # "completed" /\ Prior(j, i)
    BY <1>3, <1>8 DEF Halts, Leasable, Prior, Active
  <2> QED BY <1>2, <2>1, <2>2, OneRowHalts DEF Halted
<1>9. ASSUME NEW j \in Jobs, NEW i \in StepIx(j), Completes(j, i)
      PROVE  HaltIsSingle(k)'
  <2>1. PICK to \in {job[j], "completed"} : OneRow(j, i, Freed(step[j][i], "completed"), to)
    BY <1>9 DEF Completes
  <2>2. /\ Freed(step[j][i], "completed").status = "completed"
        /\ step[j][i].status # "completed" /\ "completed" \notin Halted
    BY <1>9, FreedFact DEF Completes, Active, Halted
  <2>3. job[j] \in {"queued", "running", "completed"} \cup Halted
    BY <1>2, <1>9 DEF Completes, Exists, HaltIsSingle
  <2> QED BY <1>2, <2>1, <2>2, <2>3, OneRowHalts DEF Runnable
<1>10. ~(cmds >= 1)
  BY <1>1
<1> QED BY <1>1, <1>4, <1>5, <1>6, <1>7, <1>8, <1>9, <1>10 DEF WorkRows

LEMMA OneRowRuns ==
  ASSUME UNCHANGED type, NEW k \in Jobs, StepsRun(k),
         NEW j \in Jobs, NEW i \in StepIx(j), NEW row, NEW to, OneRow(j, i, row, to),
         to \in {"queued", "running", "retryable"} =>
           /\ Runnable(j)
           /\ row.status \in {"queued", "retryable", "completed"} \cup Active
  PROVE  StepsRun(k)'
<1>1. StepIx(k)' = StepIx(k)
  BY IndexFact
<1>2. CASE k # j
  BY <1>1, <1>2 DEF OneRow, StepsRun, Runnable
<1>3. CASE k = j
  BY <1>1, <1>3 DEF OneRow, StepsRun, Runnable
<1> QED BY <1>2, <1>3

\* A command frees some rows of a job that no command touched before.
LEMMA ManyRowsRun ==
  ASSUME UNCHANGED type, NEW k \in Jobs, HaltIsSingle(k),
         NEW j \in Jobs, NEW From, NEW To, NEW to, ManyRows(j, From, To, to),
         to \in {"queued", "running", "retryable"} => Halted \subseteq From /\ To = "queued"
  PROVE  StepsRun(k)'
<1>1. StepIx(k)' = StepIx(k)
  BY IndexFact
<1>2. CASE k # j
  BY <1>1, <1>2 DEF ManyRows, StepsRun, Runnable, HaltIsSingle
<1>3. CASE k = j
  <2> SUFFICES ASSUME Runnable(k)', NEW h \in StepIx(k)
               PROVE  step'[k][h].status \in {"queued", "retryable", "completed"} \cup Active
    BY <1>1 DEF StepsRun
  <2>1. Halted \subseteq From /\ To = "queued"
    BY <1>3 DEF ManyRows, Runnable
  <2>2. step[k][h].status \in {"queued", "completed"} \cup Active \cup Halted
    BY DEF HaltIsSingle
  <2>3. CASE step[k][h].status \in From
    <3>1. step'[k][h] = Freed(step[k][h], "queued")
      BY <1>3, <2>1, <2>3 DEF ManyRows
    <3>2. Freed(step[k][h], "queued").status = "queued"
      BY FreedFact
    <3> QED BY <3>1, <3>2
  <2>4. CASE step[k][h].status \notin From
    BY <1>3, <2>1, <2>2, <2>4 DEF ManyRows
  <2> QED BY <2>3, <2>4
<1> QED BY <1>2, <1>3

\* The one command on a step frees the only one that stopped its job, or one
\* that has nothing stopped beside it.
LEMMA StepCommandRuns ==
  ASSUME IInvPlus, UNCHANGED type, \A l \in Jobs : HaltIsSingle(l), NEW k \in Jobs,
         NEW j \in Jobs, NEW i \in StepIx(j), StepCommand(j, i)
  PROVE  StepsRun(k)'
<1>1. /\ StepIx(k)' = StepIx(k) /\ HaltIsSingle(k) /\ HaltIsSingle(j)
      /\ \A h \in StepIx(k) : 1..(h - 1) \subseteq StepIx(k) /\ h \in Nat
  BY IndexFact, BaseFact
<1>2. PICK row, to : OneRow(j, i, row, to)
  BY DEF StepCommand
<1>3. CASE k # j
  <2>1. job'[k] = job[k] /\ \A h \in StepIx(k) : step'[k][h] = step[k][h]
    BY <1>2, <1>3 DEF OneRow
  <2> QED BY <1>1, <2>1 DEF StepsRun, Runnable, HaltIsSingle
<1>4. CASE k = j /\ OneRow(j, i, Freed(step[j][i], "cancelled"), "cancelled")
  BY <1>4 DEF OneRow, StepsRun, Runnable
<1>5. ASSUME k = j, NEW s \in {"queued", "retryable"}, OneRow(j, i, Freed(step[j][i], s), s),
             step[j][i].status \in Halted \cup Active
      PROVE  StepsRun(k)'
  <2> SUFFICES ASSUME NEW h \in StepIx(k)
               PROVE  step'[k][h].status \in {"queued", "retryable", "completed"} \cup Active
    BY <1>1 DEF StepsRun
  <2>1. CASE h = i
    <3>1. step'[k][h] = Freed(step[j][i], s)
      BY <1>5, <2>1 DEF OneRow
    <3>2. Freed(step[j][i], s).status = s
      BY FreedFact
    <3> QED BY <3>1, <3>2
  <2>2. CASE h # i
    <3>1. step'[k][h] = step[k][h]
      BY <1>5, <2>2 DEF OneRow
    <3>2. \A g \in 1..(i - 1) : step[k][g].status = "completed"
      BY <1>1, <1>5 DEF HaltIsSingle, IInvPlus, IInv, StepsInOrder
    <3>3. step[k][i].status # "completed"
      BY <1>5 DEF Halted, Active
    <3>4. ASSUME step[k][h].status \in Halted PROVE FALSE
      <4>1. \A g \in 1..(h - 1) : step[k][g].status = "completed"
        BY <1>1, <3>4 DEF HaltIsSingle
      <4>2. h \in 1..(i - 1) \/ i \in 1..(h - 1)
        <5>1. h \in Nat /\ i \in Nat /\ h >= 1 /\ i >= 1
          <6>1. StepIx(k) = 1..Len(Kinds(k)) /\ Len(Kinds(k)) \in Nat
            BY PlanFact DEF IInvPlus, IInv, TypeOK
          <6> QED BY <1>5, <6>1
        <5> QED BY <2>2, <5>1
      <4> QED BY <3>2, <3>3, <3>4, <4>1, <4>2 DEF Halted
    <3> QED BY <1>1, <3>1, <3>4 DEF HaltIsSingle
  <2> QED BY <2>1, <2>2
<1>6. step[j][i].status \in Retriable \cup {"paused"} => step[j][i].status \in Halted
  BY <1>1 DEF HaltIsSingle, Retriable, Halted, Active
<1> QED BY <1>3, <1>4, <1>5, <1>6 DEF StepCommand

LEMMA RunnableMove ==
  ASSUME IInvPlus, IInv', UNCHANGED type, Move
  PROVE  RunnableRuns'
<1> SUFFICES ASSUME cmds' <= 1, NEW k \in Jobs PROVE StepsRun(k)'
  BY DEF RunnableRuns
<1>1. \/ cmds <= 1 /\ WorkRows
      \/ cmds = 0 /\ CommandRows
  BY BaseFact, NextCounts, MoveRows
<1>2. CASE cmds <= 1 /\ WorkRows
  <2>1. StepsRun(k) /\ StepIx(k)' = StepIx(k)
    BY <1>2, IndexFact DEF IInvPlus, HistoryInv, RunnableRuns
  <2>2. CASE SameRows
    BY <2>1, <2>2 DEF SameRows, StepsRun, Runnable
  <2>3. ASSUME NEW j \in Jobs, OpenStep(j) PROVE StepsRun(k)'
    <3>1. step' = step /\ job' = [job EXCEPT ![j] = "queued"] /\ ~Exists(j)
      BY <2>3 DEF OpenStep, Exists
    <3>2. CASE k = j
      <4>1. \A i \in StepIx(k) : step'[k][i].status = "queued"
        BY <3>1, <3>2 DEF IInvPlus, IInv, BlankRows, FreshStep
      <4> QED BY <2>1, <4>1 DEF StepsRun
    <3>3. CASE k # j
      <4>1. job'[k] = job[k]
        BY <3>1, <3>3
      <4> QED BY <2>1, <3>1, <4>1 DEF StepsRun, Runnable
    <3> QED BY <3>2, <3>3
  <2>4. ASSUME NEW j \in Jobs, Cancels(j) PROVE StepsRun(k)'
    BY <2>1, <2>4 DEF Cancels, ManyRows, StepsRun, Runnable
  <2>5. ASSUME NEW j \in Jobs, NEW i \in StepIx(j), NEW row, Touches(j, i, row)
        PROVE  StepsRun(k)'
    BY <2>1, <2>5, OneRowRuns DEF Touches, Runnable
  <2>6. ASSUME NEW j \in Jobs, NEW i \in StepIx(j), NEW w, NEW row, Gives(w, j, i, row)
        PROVE  StepsRun(k)'
    BY <2>1, <2>6, OneRowRuns DEF Gives, Leasable, Runnable, Active
  <2>7. ASSUME NEW j \in Jobs, NEW i \in StepIx(j), NEW s, Halts(j, i, s)
        PROVE  StepsRun(k)'
    BY <2>1, <2>7, OneRowRuns DEF Halts, Halted
  <2>8. ASSUME NEW j \in Jobs, NEW i \in StepIx(j), Completes(j, i)
        PROVE  StepsRun(k)'
    <3>1. PICK to \in {job[j], "completed"} :
            OneRow(j, i, Freed(step[j][i], "completed"), to)
      BY <2>8 DEF Completes
    <3>2. Freed(step[j][i], "completed").status = "completed"
      BY FreedFact
    <3> QED BY <2>1, <3>1, <3>2, OneRowRuns DEF Runnable
  <2> QED BY <1>2, <2>2, <2>3, <2>4, <2>5, <2>6, <2>7, <2>8 DEF WorkRows
<1>3. CASE cmds = 0 /\ CommandRows
  <2>1. \A l \in Jobs : HaltIsSingle(l)
    BY <1>3 DEF IInvPlus, HistoryInv, HaltsAreSingle
  <2>2. StepIx(k)' = StepIx(k) /\ HaltIsSingle(k)
    BY <2>1, IndexFact
  <2>3. ASSUME NEW j \in Jobs, RowCommand(j) PROVE StepsRun(k)'
    <3>1. CASE Removes(j)
      <4>1. CASE k = j
        BY <3>1, <4>1 DEF Removes, StepsRun, Runnable
      <4>2. CASE k # j
        BY <2>2, <3>1, <4>2 DEF Removes, StepsRun, Runnable, HaltIsSingle
      <4> QED BY <4>1, <4>2
    <3>2. CASE ~Removes(j)
      <4>1. job[j] # "paused"
        BY <2>1 DEF HaltIsSingle, Halted
      <4>2. Halted \subseteq Retriable
        BY DEF Halted, Retriable
      <4>3. PICK From, To, to :
              /\ ManyRows(j, From, To, to)
              /\ to \in {"queued", "running", "retryable"} => Halted \subseteq From /\ To = "queued"
        BY <2>3, <3>2, <4>1, <4>2 DEF RowCommand, Cancels
      <4> QED BY <2>2, <4>3, ManyRowsRun
    <3> QED BY <3>1, <3>2
  <2> QED BY <1>3, <2>1, <2>3, StepCommandRuns DEF CommandRows
<1> QED BY <1>1, <1>2, <1>3

\* A command leases nothing: a row that is leased or runs after it was so before.
LEMMA CommandRowsFact ==
  ASSUME IInvPlus, CommandRows, NEW k \in Jobs, NEW h \in StepIx(k),
         step'[k][h].status \in Active
  PROVE  step'[k][h] = step[k][h]
<1>1. ASSUME NEW j \in Jobs, NEW From, NEW To, NEW to, ManyRows(j, From, To, to), To \notin Active
      PROVE  step'[k][h] = step[k][h]
  <2>1. Freed(step[k][h], To).status = To
    BY FreedFact
  <2> QED BY <1>1, <2>1 DEF ManyRows
<1>2. ASSUME NEW j \in Jobs, NEW i \in StepIx(j), NEW to, to \notin Active,
             OneRow(j, i, Freed(step[j][i], to), to)
      PROVE  step'[k][h] = step[k][h]
  <2>1. Freed(step[j][i], to).status = to
    BY FreedFact
  <2>2. CASE k = j /\ h = i
    BY <1>2, <2>1, <2>2 DEF OneRow
  <2>3. CASE k # j \/ h # i
    BY <1>2, <2>3 DEF OneRow
  <2> QED BY <2>2, <2>3
<1>3. ASSUME NEW j \in Jobs, RowCommand(j) PROVE step'[k][h] = step[k][h]
  <2>1. CASE Removes(j)
    BY <1>3, <2>1 DEF Removes, FreshStep, Active
  <2>2. CASE ~Removes(j)
    <3>1. PICK From, To, to : ManyRows(j, From, To, to) /\ To \notin Active
      BY <1>3, <2>2 DEF RowCommand, Cancels, Active
    <3> QED BY <1>1, <3>1
  <2> QED BY <2>1, <2>2
<1>4. ASSUME NEW j \in Jobs, NEW i \in StepIx(j), StepCommand(j, i)
      PROVE  step'[k][h] = step[k][h]
  <2>1. PICK to \in {"queued", "cancelled", "retryable"} :
          OneRow(j, i, Freed(step[j][i], to), to)
    BY <1>4 DEF StepCommand
  <2> QED BY <1>2, <2>1 DEF Active
<1> QED BY <1>3, <1>4 DEF CommandRows

\* A row that stays as it is stays attended when its owner keeps its place.
LEMMA AttendedKept ==
  ASSUME NEW k \in Jobs, NEW h \in StepIx(k), LeaseIsAttended(k, h),
         step'[k][h] = step[k][h], step[k][h].status \in Active,
         \/ wk'[step[k][h].owner] = wk[step[k][h].owner]
         \/ \E p : /\ Stays(step[k][h].owner, p) /\ p \notin {"idle", "exited"}
                   /\ wk[step[k][h].owner].pc # "leased"
  PROVE  LeaseIsAttended(k, h)'
<1>1. PICK u \in Workers : u = step[k][h].owner
  BY DEF LeaseIsAttended
<1>2. /\ ~step[k][h].stale /\ At(u, k, h)
      /\ step[k][h].status = "leased" => wk[u].pc = "leased"
  BY <1>1 DEF LeaseIsAttended
<1>3. /\ InHand(u)' /\ wk'[u].job = k /\ wk'[u].step = h
      /\ step[k][h].status = "leased" => wk'[u].pc = "leased"
  BY <1>1, <1>2 DEF Stays, At, InHand
<1>4. At(u, k, h)' /\ step'[k][h].owner = u
  BY <1>1, <1>3 DEF At
<1> QED BY <1>1, <1>2, <1>3, <1>4 DEF LeaseIsAttended, At, InHand

LEMMA LeasesMove ==
  ASSUME IInvPlus, IInv', UNCHANGED type, Move
  PROVE  LeasesAreAttended'
<1> SUFFICES ASSUME faults' = 0, NEW k \in Jobs, NEW h \in StepIx(k),
                    step'[k][h].status \in Active
             PROVE  LeaseIsAttended(k, h)'
  BY IndexFact DEF LeasesAreAttended, LeaseIsAttended
<1>1. faults = 0
  BY BaseFact, MoveRows
<1>2. \A l \in Jobs : \A g \in StepIx(l) : LeaseIsAttended(l, g)
  BY <1>1 DEF IInvPlus, HistoryInv, LeasesAreAttended
<1> DEFINE u == step[k][h].owner
           same == step'[k][h] = step[k][h]
\* The owner of this row is at it, and the row is its only one.
<1>3. same => u \in Workers /\ At(u, k, h)
  BY <1>2 DEF LeaseIsAttended
<1>4. ASSUME same, wk'[u] = wk[u] PROVE LeaseIsAttended(k, h)'
  BY <1>2, <1>4, AttendedKept
<1>5. ASSUME NEW w \in Workers, NEW p, same, Stays(w, p), wk[w].pc # "leased",
             p \notin {"idle", "exited"}
      PROVE  LeaseIsAttended(k, h)'
  <2>1. CASE u = w
    BY <1>2, <1>5, <2>1, AttendedKept
  <2>2. CASE u # w
    BY <1>3, <1>4, <1>5, <2>2 DEF Stays, Others
  <2> QED BY <2>1, <2>2
<1>6. ASSUME NEW w \in Workers, same, Others(w), ~At(w, k, h)
      PROVE  LeaseIsAttended(k, h)'
  BY <1>3, <1>4, <1>6 DEF Others
<1> HIDE DEF u, same
<1>7. ASSUME NEW w \in Workers, NEW p, Jumps(w, p) \/ WritesFiles(w, p)
      PROVE  LeaseIsAttended(k, h)'
  <2>1. same
    BY <1>7 DEF Jumps, WritesFiles, SameRows, same
  <2>2. Stays(w, p) /\ wk[w].pc # "leased" /\ p \notin {"idle", "exited"}
    BY <1>7 DEF Jumps, WritesFiles, FileStep
  <2> QED BY <1>5, <2>1, <2>2
<1>8. ASSUME NEW w \in Workers, Runs(w) PROVE LeaseIsAttended(k, h)'
  <2> DEFINE j == wk[w].job
             i == wk[w].step
  <2>1. PICK row : /\ row.status = "running" /\ Touches(j, i, row)
                   /\ ~row.stale \/ step[j][i].stale
    BY <1>8 DEF Runs
  <2>2. PICK p \in {"work", "report"} : Stays(w, p)
    BY <1>8 DEF Runs
  <2>3. j \in Jobs /\ i \in StepIx(j) /\ Holds(w, j, i) /\ OneRow(j, i, row, job[j])
    BY <1>8, <2>1, AtFact DEF Runs, Touches
  <2>4. CASE k = j /\ h = i
    <3>1. step'[k][h] = row /\ row.owner = w /\ ~row.stale /\ row.status = "running"
      BY <1>2, <2>1, <2>3, <2>4 DEF OneRow, Touches, Holds, LeaseIsAttended
    <3>2. At(w, k, h)'
      BY <2>2, <2>4 DEF Stays, At, InHand
    <3> QED BY <3>1, <3>2 DEF LeaseIsAttended
  <2>5. CASE k # j \/ h # i
    <3>1. same /\ ~At(w, k, h)
      BY <2>3, <2>5 DEF OneRow, same, At
    <3> QED BY <1>6, <2>2, <3>1 DEF Stays
  <2> QED BY <2>4, <2>5
<1>9. ASSUME NEW w \in Workers, Quits(w) PROVE LeaseIsAttended(k, h)'
  <2>1. same
    BY <1>9 DEF Quits, SameRows, same
  <2>2. CASE ~At(w, k, h)
    BY <1>6, <1>9, <2>1, <2>2 DEF Quits, Leaves
  <2>3. CASE At(w, k, h)
    <3>1. InHand(w) /\ ~Holds(w, k, h)
      BY <1>9, <2>3 DEF Quits, At
    <3>2. step[k][h].status \in Active /\ Exists(k)
      BY <2>1 DEF same, IInvPlus, IInv, BlankRows, FreshStep, Active
    <3>3. u # w
      BY <3>1, <3>2 DEF Holds, u
    <3> QED BY <1>3, <1>4, <1>9, <2>1, <3>3 DEF Quits, Leaves, Others
  <2> QED BY <2>2, <2>3
<1>10. ASSUME NEW w \in Workers, Settles(w) PROVE LeaseIsAttended(k, h)'
  <2> DEFINE j == wk[w].job
             i == wk[w].step
  <2>1. j \in Jobs /\ i \in StepIx(j)
    BY <1>10, AtFact DEF Settles
  <2>a. (\E s \in Halted : Halts(j, i, s)) \/ Completes(j, i)
    BY <1>10 DEF Settles
  <2>b. ASSUME NEW s \in Halted, Halts(j, i, s)
        PROVE  OneRow(j, i, Freed(step[j][i], s), s) /\ s \notin Active
    BY <2>b DEF Halts, Halted, Active
  <2>c. ASSUME Completes(j, i)
        PROVE  \E to : OneRow(j, i, Freed(step[j][i], "completed"), to)
    BY <2>c DEF Completes
  <2>2. PICK s, to : OneRow(j, i, Freed(step[j][i], s), to) /\ s \notin Active
    <3>1. "completed" \notin Active
      BY DEF Active
    <3> HIDE DEF j, i
    <3> QED BY <2>a, <2>b, <2>c, <3>1
  <2>3. Freed(step[j][i], s).status = s
    BY FreedFact
  <2>4. k # j \/ h # i
    BY <2>2, <2>3 DEF OneRow
  <2>5. same /\ ~At(w, k, h)
    BY <2>2, <2>4 DEF OneRow, same, At
  <2> QED BY <1>6, <1>10, <2>5 DEF Settles, Leaves
<1>11. ASSUME NEW w \in Workers, Kills(w) PROVE LeaseIsAttended(k, h)'
  <2> DEFINE j == wk[w].job
             From == StepStatus \ {"completed", "cancelled"}
  <2>1. j \in Jobs /\ ManyRows(j, From, "cancelled", "cancelled")
    BY <1>11, AtFact DEF Kills, Stays, Cancels
  <2>2. k # j
    <3>1. ASSUME k = j PROVE step'[k][h].status \notin Active
      <4>1. Freed(step[k][h], "cancelled").status = "cancelled"
        BY FreedFact
      <4>2. step[k][h].status \in StepStatus
        BY BaseFact DEF StepRows
      <4> QED BY <2>1, <3>1, <4>1, <4>2 DEF ManyRows, Active
    <3> QED BY <3>1
  <2>3. same
    BY <2>1, <2>2 DEF ManyRows, same
  <2> QED BY <1>5, <1>11, <2>3 DEF Kills
<1>12. ASSUME NEW w \in Workers, NEW j \in Jobs, NEW i \in StepIx(j), Takes(w, j, i)
       PROVE  LeaseIsAttended(k, h)'
  <2>1. PICK row : Gives(w, j, i, row)
    BY <1>12 DEF Takes
  <2>2. CASE k = j /\ h = i
    <3>1. step'[k][h] = row /\ row.owner = w /\ ~row.stale /\ row.status = "leased"
      BY <2>1, <2>2 DEF Gives, OneRow
    <3>2. At(w, k, h)' /\ wk'[w].pc = "leased"
      BY <1>12, <2>2 DEF Takes, At, InHand
    <3> QED BY <3>1, <3>2 DEF LeaseIsAttended
  <2>3. CASE k # j \/ h # i
    <3>1. same /\ ~At(w, k, h)
      BY <1>12, <2>1, <2>3 DEF Gives, OneRow, same, At, InHand, Takes
    <3> QED BY <1>6, <1>12, <3>1 DEF Takes
  <2> QED BY <2>2, <2>3
<1>13. ASSUME NEW j \in Jobs, NEW i \in StepIx(j), Alone(j, i)
       PROVE  LeaseIsAttended(k, h)'
  <2>1. UNCHANGED wk
    BY <1>13 DEF Alone
  <2>2. CASE same
    BY <1>4, <2>1, <2>2
  <2>3. CASE ~same
    <3>1. ASSUME NEW row, NEW to, OneRow(j, i, row, to)
          PROVE  k = j /\ h = i /\ step'[k][h] = row
      BY <2>3, <3>1 DEF OneRow, same
    <3>2. ~(Leasable(j, i) /\ Halts(j, i, "failed"))
      <4>1. Freed(step[j][i], "failed").status = "failed"
        BY FreedFact
      <4> QED BY <3>1, <4>1 DEF Halts, Active
    <3>3. PICK row : Touches(j, i, row) /\ (row.stale => ~Attended(j, i))
      BY <1>13, <3>2 DEF Alone
    <3>4. k = j /\ h = i /\ step'[k][h] = row
      BY <3>1, <3>3 DEF Touches
    <3>5. /\ step[k][h].status \in Active /\ row.owner = step[k][h].owner
          /\ row.status = "leased" => step[k][h].status = "leased"
      BY <3>3, <3>4 DEF Touches
    <3>6. At(row.owner, k, h) /\ row.owner \in Workers
          /\ (row.status = "leased" => wk[row.owner].pc = "leased")
      BY <1>2, <3>5 DEF LeaseIsAttended
    <3>7. ~row.stale
      BY <3>3, <3>4, <3>6 DEF Attended, At
    <3> QED BY <2>1, <3>4, <3>6, <3>7 DEF LeaseIsAttended, At, InHand
  <2> QED BY <2>2, <2>3
<1>14. ASSUME NEW j \in Jobs, Commands(j) \/ \E i \in StepIx(j) : StepCommands(j, i)
       PROVE  LeaseIsAttended(k, h)'
  <2>1. CommandRows /\ UNCHANGED wk
    BY <1>14 DEF Commands, StepCommands, CommandRows, ACommand
  <2>2. same
    BY <2>1, CommandRowsFact DEF same
  <2> QED BY <1>4, <2>1, <2>2
<1>15. ASSUME UNCHANGED <<step, wk>> PROVE LeaseIsAttended(k, h)'
  BY <1>4, <1>15 DEF same
<1> QED BY <1>7, <1>8, <1>9, <1>10, <1>11, <1>12, <1>13, <1>14, <1>15
        DEF Move, Starts, OpenStep, Asks, SameRows, ACommand, Idles

\* What a worker holds survives a change of another row, or of its own row
\* that leaves it the lease.
LEMMA HoldsKept ==
  ASSUME UNCHANGED type, NEW u, NEW k \in Jobs, NEW h \in StepIx(k), HoldsOn(u, k, h),
         NEW j \in Jobs, NEW i \in StepIx(j), NEW row, NEW to, OneRow(j, i, row, to),
         Exists(j), to \notin {"none", "gone"}, step[j][i].status # "cancelled",
         k = j /\ h = i /\ Holds(u, k, h) => row.status \in Active /\ row.owner = u
  PROVE  HoldsOn(u, k, h)'
<1>1. StepIx(k)' = StepIx(k)
  BY IndexFact
<1>2. CASE Holds(u, k, h)
  <2>1. Exists(k)'
    BY <1>2 DEF OneRow, Exists, Holds
  <2>2. step'[k][h].owner = u /\ step'[k][h].status \in Active
    BY <1>2 DEF OneRow, Holds
  <2> QED BY <2>1, <2>2 DEF HoldsOn, Holds, Exists
<1>3. CASE ~Exists(k)
  BY <1>3 DEF OneRow, Exists, HoldsOn
<1>4. CASE Doomed(k)
  <2>1. PICK g \in StepIx(k) : step[k][g].status = "cancelled"
    BY <1>4 DEF Doomed
  <2>2. step'[k][g].status = "cancelled"
    BY <2>1 DEF OneRow
  <2> QED BY <1>1, <2>1, <2>2 DEF HoldsOn, Doomed
<1> QED BY <1>2, <1>3, <1>4 DEF HoldsOn

\* Without a fault nobody leases a row that somebody holds.
LEMMA LeasableIsFree ==
  ASSUME IInvPlus, faults = 0, NEW j \in Jobs, NEW i \in StepIx(j), Leasable(j, i)
  PROVE  /\ step[j][i].status \notin Active /\ step[j][i].status # "cancelled"
         /\ Exists(j)
BY DEF Leasable, IInvPlus, HistoryInv, LeasesAreAttended, LeaseIsAttended, Active, Exists

\* The first command leaves a worker its step, dooms its job or deletes it.
LEMMA HoldsCommand ==
  ASSUME IInvPlus, UNCHANGED type, faults = 0, cmds = 0, CommandRows,
         NEW u \in Workers, NEW k \in Jobs, NEW h \in StepIx(k),
         HoldsOn(u, k, h), wk[u].pc # "leased"
  PROVE  HoldsOn(u, k, h)'
<1>1. StepIx(k)' = StepIx(k) /\ HaltIsSingle(k) /\ LeaseIsAttended(k, h)
  BY IndexFact DEF IInvPlus, HistoryInv, HaltsAreSingle, LeasesAreAttended
<1>2. ~Doomed(k)
  BY <1>1 DEF Doomed, HaltIsSingle, Active, Halted
<1>3. CASE ~Exists(k)
  <2>1. job'[k] = job[k]
    BY <1>3 DEF CommandRows, RowCommand, StepCommand, Removes, Cancels, ManyRows,
       OneRow, Runnable, Retriable, Exists
  <2> QED BY <1>3, <2>1 DEF HoldsOn, Exists
<1>4. CASE Holds(u, k, h)
  <2>1. /\ Exists(k) /\ step[k][h].owner = u /\ step[k][h].status = "running"
        /\ ~step[k][h].stale
    BY <1>1, <1>4 DEF Holds, LeaseIsAttended, Active
  <2>2. ASSUME Exists(k)', step'[k][h] = step[k][h] PROVE HoldsOn(u, k, h)'
    BY <2>1, <2>2 DEF HoldsOn, Holds, Active, Exists
  <2>3. ASSUME NEW j \in Jobs, Removes(j) PROVE HoldsOn(u, k, h)'
    <3>1. CASE k = j
      BY <2>3, <3>1 DEF Removes, HoldsOn, Exists
    <3>2. CASE k # j
      BY <2>1, <2>2, <2>3, <3>2 DEF Removes, Exists
    <3> QED BY <3>1, <3>2
  <2>4. ASSUME NEW j \in Jobs, NEW From, NEW To, NEW to, ManyRows(j, From, To, to),
               to \notin {"none", "gone"}, "running" \in From => To = "cancelled"
        PROVE  HoldsOn(u, k, h)'
    <3>1. Exists(k)'
      BY <2>1, <2>4 DEF ManyRows, Exists
    <3>2. CASE k = j /\ "running" \in From
      <4>1. step'[k][h] = Freed(step[k][h], "cancelled")
        BY <2>1, <2>4, <3>2 DEF ManyRows
      <4>2. Freed(step[k][h], "cancelled").status = "cancelled"
        BY FreedFact
      <4> QED BY <1>1, <4>1, <4>2 DEF HoldsOn, Doomed
    <3>3. CASE k # j \/ "running" \notin From
      BY <2>1, <2>2, <2>4, <3>1, <3>3 DEF ManyRows
    <3> QED BY <3>2, <3>3
  <2>5. ASSUME NEW j \in Jobs, NEW i \in StepIx(j), StepCommand(j, i)
        PROVE  HoldsOn(u, k, h)'
    <3>1. PICK to \in {"queued", "cancelled", "retryable"} :
            OneRow(j, i, Freed(step[j][i], to), to)
      BY <2>5 DEF StepCommand
    <3>2. Exists(k)'
      BY <2>1, <3>1 DEF OneRow, Exists
    <3>3. CASE k # j \/ h # i
      BY <2>2, <3>1, <3>2, <3>3 DEF OneRow
    <3>4. CASE k = j /\ h = i
      <4>1. OneRow(j, i, Freed(step[j][i], "cancelled"), "cancelled")
        BY <2>1, <2>5, <3>4 DEF StepCommand, Retriable
      <4>2. Freed(step[j][i], "cancelled").status = "cancelled"
        BY DEF Freed
      <4>3. step'[k][h].status = "cancelled"
        BY <3>4, <4>1, <4>2 DEF OneRow
      <4> QED BY <1>1, <4>3 DEF HoldsOn, Doomed
    <3> QED BY <3>3, <3>4
  <2>6. ASSUME NEW j \in Jobs, RowCommand(j) PROVE HoldsOn(u, k, h)'
    <3>1. \/ Removes(j)
          \/ \E From, To, to : /\ ManyRows(j, From, To, to) /\ to \notin {"none", "gone"}
                               /\ "running" \in From => To = "cancelled"
      BY <2>6 DEF RowCommand, Cancels, Retriable
    <3> QED BY <2>3, <2>4, <3>1
  <2> QED BY <2>5, <2>6 DEF CommandRows
<1> QED BY <1>2, <1>3, <1>4 DEF HoldsOn

LEMMA HoldsMove ==
  ASSUME IInvPlus, IInv', UNCHANGED type, Move
  PROVE  WorkersHold'
<1> SUFFICES ASSUME faults' = 0, cmds' <= 1, NEW u \in Workers, InHand(u)',
                    wk'[u].pc # "leased"
             PROVE  HoldsOn(u, wk[u].job, wk[u].step)'
  BY DEF WorkersHold
<1>1. faults = 0 /\ cmds <= 1
  BY BaseFact, NextCounts, MoveRows
<1>2. Keeps(u)
  <2>1. ASSUME NEW j \in Jobs, NEW i \in StepIx(j), Begins(u, j, i) PROVE FALSE
    <3>1. wk'[u] = [pc |-> "leased", job |-> j, step |-> i]
      BY <2>1 DEF Begins
    <3> QED BY <3>1
  <2> QED BY <2>1, HandMoves
<1>3. PICK k \in Jobs : k = wk[u].job
  BY <1>2, AtFact DEF Keeps
<1>4. PICK h \in StepIx(k) : h = wk[u].step
  BY <1>2, <1>3, AtFact DEF Keeps
<1>5. wk'[u].job = k /\ wk'[u].step = h /\ InHand(u) /\ At(u, k, h)
  BY <1>2, <1>3, <1>4 DEF Keeps, At
<1> SUFFICES HoldsOn(u, k, h)'
  BY <1>5
<1>6. wk[u].pc # "leased" => HoldsOn(u, k, h)
  BY <1>1, <1>3, <1>4, <1>5 DEF IInvPlus, HistoryInv, WorkersHold
<1>7. /\ StepIx(k)' = StepIx(k)
      /\ \A l \in Jobs : \A g \in StepIx(l) : LeaseIsAttended(l, g)
      /\ job[k] # "none"
  BY <1>1, <1>3, <1>5, IndexFact DEF IInvPlus, HistoryInv, LeasesAreAttended,
     HandsAreReal, HandIsReal
<1>8. ASSUME SameRows, wk[u].pc # "leased" PROVE HoldsOn(u, k, h)'
  BY <1>6, <1>7, <1>8 DEF SameRows, HoldsOn, Holds, Exists, Doomed
\* A worker that another one's step leaves alone was past its lease before.
<1>9. ASSUME wk'[u] = wk[u] PROVE wk[u].pc # "leased" /\ HoldsOn(u, k, h)
  BY <1>6, <1>9
<1>10. ASSUME NEW w \in Workers, NEW p, Jumps(w, p) \/ WritesFiles(w, p)
       PROVE  HoldsOn(u, k, h)'
  <2>1. SameRows /\ wk[w].pc # "leased" /\ Others(w)
    BY <1>10 DEF Jumps, WritesFiles, FileStep, Stays
  <2> QED BY <1>8, <1>9, <2>1 DEF Others
<1>11. ASSUME NEW w \in Workers, Runs(w) PROVE HoldsOn(u, k, h)'
  <2> DEFINE j == wk[w].job
             i == wk[w].step
  <2>1. PICK row : Touches(j, i, row)
    BY <1>11 DEF Runs
  <2>2. /\ j \in Jobs /\ i \in StepIx(j) /\ Holds(w, j, i) /\ Exists(j)
        /\ OneRow(j, i, row, job[j]) /\ job[j] \notin {"none", "gone"}
        /\ row.status \in Active /\ row.owner = step[j][i].owner
        /\ step[j][i].status # "cancelled"
    BY <1>11, <2>1, AtFact DEF Runs, Touches, Exists, Active
  <2>3. CASE u = w
    <3>1. k = j /\ h = i /\ row.owner = u
      BY <1>3, <1>4, <2>2, <2>3 DEF Holds
    <3>2. step'[k][h] = row /\ job'[k] = job[k]
      BY <2>2, <3>1 DEF OneRow
    <3>3. job[k] \notin {"none", "gone"} /\ row.status \in Active
      BY <2>2, <3>1
    <3> HIDE DEF j, i
    <3> QED BY <3>1, <3>2, <3>3 DEF HoldsOn, Holds, Exists
  <2>4. CASE u # w
    <3>1. HoldsOn(u, k, h)
      BY <1>9, <1>11, <2>4 DEF Runs, Stays, Leaves, Others
    <3>2. k = j /\ h = i /\ Holds(u, k, h) => row.owner = u
      BY <2>2 DEF Holds
    <3> HIDE DEF j, i
    <3> QED BY <2>2, <3>1, <3>2, HoldsKept
  <2> QED BY <2>3, <2>4
<1>12. ASSUME NEW w \in Workers, Quits(w) PROVE HoldsOn(u, k, h)'
  <2>1. u # w /\ SameRows /\ Others(w)
    BY <1>12 DEF Quits, Leaves, InHand
  <2> QED BY <1>8, <1>9, <2>1 DEF Others
<1>13. ASSUME NEW w \in Workers, Settles(w) PROVE HoldsOn(u, k, h)'
  <2> DEFINE j == wk[w].job
             i == wk[w].step
  <2>1. u # w /\ Others(w) /\ j \in Jobs /\ i \in StepIx(j) /\ Holds(w, j, i)
    BY <1>13, AtFact DEF Settles, Leaves, InHand
  <2>2. /\ step[j][i].status # "cancelled" /\ Exists(j)
        /\ ~(k = j /\ h = i /\ Holds(u, k, h))
    BY <2>1 DEF Holds, Active
  <2>3. PICK row, to : OneRow(j, i, row, to) /\ to \notin {"none", "gone"}
    BY <1>13, <2>2 DEF Settles, Halts, Completes, Halted, Exists
  <2>4. HoldsOn(u, k, h)
    BY <1>9, <2>1 DEF Others
  <2> HIDE DEF j, i
  <2> QED BY <2>1, <2>2, <2>3, <2>4, HoldsKept
<1>14. ASSUME NEW w \in Workers, Kills(w) PROVE HoldsOn(u, k, h)'
  <2> DEFINE j == wk[w].job
             From == StepStatus \ {"completed", "cancelled"}
  <2>1. j \in Jobs /\ Exists(j) /\ ManyRows(j, From, "cancelled", "cancelled")
    BY <1>14, AtFact DEF Kills, Stays, Cancels
  <2>2. HoldsOn(u, k, h)
    BY <1>6, <1>9, <1>14 DEF Kills, Stays, Others
  <2>3. CASE k # j
    <3>1. job'[k] = job[k] /\ step'[k] = step[k]
      BY <2>1, <2>3 DEF ManyRows
    <3> QED BY <1>7, <2>2, <3>1 DEF HoldsOn, Holds, Exists, Doomed
  <2>4. CASE k = j
    <3>1. PICK g \in StepIx(k) : step[k][g].status \in Active \cup {"cancelled"}
      BY <2>1, <2>2, <2>4 DEF HoldsOn, Holds, Doomed
    <3>2. Freed(step[k][g], "cancelled").status = "cancelled"
      BY FreedFact
    <3>3. step'[k][g].status = "cancelled"
      BY <2>1, <2>4, <3>1, <3>2 DEF ManyRows, Active, StepStatus
    <3> QED BY <1>7, <3>3 DEF HoldsOn, Doomed
  <2> QED BY <2>3, <2>4
<1>15. ASSUME NEW j \in Jobs, NEW i \in StepIx(j), NEW w, NEW row, Gives(w, j, i, row),
              HoldsOn(u, k, h)
       PROVE  HoldsOn(u, k, h)'
  <2>1. /\ step[j][i].status \notin Active /\ step[j][i].status # "cancelled"
        /\ Exists(j) /\ OneRow(j, i, row, "running")
    BY <1>1, <1>15, LeasableIsFree DEF Gives
  <2>2. ~(k = j /\ h = i /\ Holds(u, k, h))
    BY <2>1 DEF Holds
  <2> QED BY <1>15, <2>1, <2>2, HoldsKept
<1>16. ASSUME NEW w \in Workers, NEW j \in Jobs, NEW i \in StepIx(j), Takes(w, j, i)
       PROVE  HoldsOn(u, k, h)'
  <2>1. u # w /\ Others(w) /\ \E row : Gives(w, j, i, row)
    BY <1>5, <1>16 DEF Takes, InHand
  <2> QED BY <1>9, <1>15, <2>1 DEF Others
<1>17. ASSUME NEW j \in Jobs, NEW i \in StepIx(j), Alone(j, i)
       PROVE  HoldsOn(u, k, h)'
  <2>1. HoldsOn(u, k, h)
    BY <1>9, <1>17 DEF Alone
  <2>2. ASSUME NEW row, Touches(j, i, row) PROVE HoldsOn(u, k, h)'
    <3>1. /\ Exists(j) /\ OneRow(j, i, row, job[j]) /\ job[j] \notin {"none", "gone"}
          /\ row.status \in Active /\ row.owner = step[j][i].owner
          /\ step[j][i].status # "cancelled"
      BY <2>2 DEF Touches, Exists, Active
    <3>2. k = j /\ h = i /\ Holds(u, k, h) => row.owner = u
      BY <3>1 DEF Holds
    <3> QED BY <2>1, <3>1, <3>2, HoldsKept
  <2>3. ASSUME Leasable(j, i), Halts(j, i, "failed") PROVE HoldsOn(u, k, h)'
    <3>1. /\ step[j][i].status \notin Active /\ step[j][i].status # "cancelled"
          /\ Exists(j) /\ OneRow(j, i, Freed(step[j][i], "failed"), "failed")
      BY <1>1, <2>3, LeasableIsFree DEF Halts
    <3>2. ~(k = j /\ h = i /\ Holds(u, k, h))
      BY <3>1 DEF Holds
    <3> QED BY <2>1, <3>1, <3>2, HoldsKept
  <2> QED BY <1>17, <2>1, <2>2, <2>3 DEF Alone
<1>18. ASSUME NEW j \in Jobs, Starts(j) PROVE HoldsOn(u, k, h)'
  <2>1. k # j /\ job' = [job EXCEPT ![j] = "queued"] /\ step' = step /\ HoldsOn(u, k, h)
    BY <1>7, <1>9, <1>18 DEF Starts, OpenStep
  <2>2. job'[k] = job[k]
    BY <2>1
  <2> QED BY <1>7, <2>1, <2>2 DEF HoldsOn, Holds, Exists, Doomed
<1>19. ASSUME NEW j \in Jobs, Commands(j) \/ \E i \in StepIx(j) : StepCommands(j, i)
       PROVE  HoldsOn(u, k, h)'
  <2>1. CommandRows /\ UNCHANGED wk /\ cmds' = cmds + 1
    BY <1>19 DEF Commands, StepCommands, CommandRows, ACommand
  <2>2. cmds = 0
    BY <2>1, BaseFact
  <2> QED BY <1>1, <1>9, <2>1, <2>2, HoldsCommand
<1>20. ASSUME SameRows, UNCHANGED wk PROVE HoldsOn(u, k, h)'
  BY <1>8, <1>9, <1>20
<1> QED BY <1>10, <1>11, <1>12, <1>13, <1>14, <1>16, <1>17, <1>18, <1>19, <1>20
        DEF Move, Asks, SameRows, ACommand, Idles

\* Only exports are real, and their second and third steps copy and attach.
LEMMA RealPlan ==
  ASSUME IInv, NEW j \in Jobs, Real(j)
  PROVE  /\ 2 \in StepIx(j) /\ 3 \in StepIx(j) /\ Kinds(j)[2] = "snapshot"
         /\ Kinds(j)[3] = "manifest"
         /\ \A i \in StepIx(j) : Kinds(j)[i] = "snapshot" => i = 2
<1>1. type[j] = "export" /\ type[j] \in DOMAIN Plans
  BY DEF IInv, TypeOK, FileTypeOK, DbTypeOK, ParamsOf, Real
<1>2. Kinds(j) = <<"plan", "snapshot", "manifest", "verify">>
  BY <1>1, ExportPlanAssumption DEF Kinds
<1>3. StepIx(j) = 1..4
  BY <1>2 DEF StepIx
<1> QED BY <1>2, <1>3

\* A step becomes completed only under a worker whose result was good.
LEMMA DoneFact ==
  ASSUME IInvPlus, Move, NEW k \in Jobs, NEW h \in StepIx(k),
         step'[k][h].status = "completed", step[k][h].status # "completed"
  PROVE  \E w \in Workers : At(w, k, h) /\ wk[w].pc = "ok"
<1>1. ~SameRows
  BY DEF SameRows
<1>2. ASSUME NEW j \in Jobs, NEW i \in StepIx(j), NEW row, NEW to, OneRow(j, i, row, to)
      PROVE  k = j /\ h = i /\ row.status = "completed"
  BY <1>2 DEF OneRow
<1>3. ASSUME NEW j \in Jobs, NEW From, NEW To, NEW to, ManyRows(j, From, To, to), To # "completed"
      PROVE  FALSE
  <2>1. Freed(step[k][h], To).status = To
    BY DEF Freed
  <2> QED BY <1>3, <2>1 DEF ManyRows
<1>4. ASSUME NEW j \in Jobs, NEW i \in StepIx(j), NEW s, NEW to, s # "completed",
             OneRow(j, i, Freed(step[j][i], s), to)
      PROVE  FALSE
  <2>1. Freed(step[j][i], s).status = s
    BY DEF Freed
  <2> QED BY <1>2, <1>4, <2>1
<1>5. ASSUME NEW j \in Jobs, NEW i \in StepIx(j), NEW row, Touches(j, i, row) PROVE FALSE
  BY <1>2, <1>5 DEF Touches, Active
<1>6. ASSUME NEW j \in Jobs, NEW i \in StepIx(j), NEW s, Halts(j, i, s) PROVE FALSE
  <2>1. s # "completed" /\ OneRow(j, i, Freed(step[j][i], s), s)
    BY <1>6 DEF Halts, Halted
  <2> QED BY <1>4, <2>1
<1>7. ASSUME NEW j \in Jobs, NEW i \in StepIx(j), NEW w, NEW row, Gives(w, j, i, row) PROVE FALSE
  BY <1>2, <1>7 DEF Gives
<1>8. ASSUME NEW j \in Jobs, Cancels(j) PROVE FALSE
  BY <1>3, <1>8 DEF Cancels
<1>9. ASSUME NEW w \in Workers, Runs(w) PROVE FALSE
  <2>1. wk[w].job \in Jobs /\ wk[w].step \in StepIx(wk[w].job)
    BY <1>9, AtFact DEF Runs
  <2> QED BY <1>5, <1>9, <2>1 DEF Runs
<1>10. ASSUME NEW w \in Workers, Kills(w) PROVE FALSE
  BY <1>8, <1>10, AtFact DEF Kills, Stays
<1>11. ASSUME NEW w \in Workers, Settles(w) PROVE At(w, k, h) /\ wk[w].pc = "ok"
  <2> DEFINE j == wk[w].job
             i == wk[w].step
  <2>1. j \in Jobs /\ i \in StepIx(j) /\ At(w, j, i)
    BY <1>11, AtFact DEF Settles
  <2>2. wk[w].pc = "ok" /\ Completes(j, i)
    BY <1>6, <1>11, <2>1 DEF Settles
  <2>3. k = j /\ h = i
    BY <1>2, <2>1, <2>2 DEF Completes
  <2> QED BY <2>1, <2>2, <2>3
<1>12. ASSUME NEW j \in Jobs, NEW i \in StepIx(j), Alone(j, i) \/ \E w \in Workers : Takes(w, j, i)
       PROVE  FALSE
  BY <1>5, <1>6, <1>7, <1>12 DEF Alone, Takes
<1>13. ASSUME NEW j \in Jobs, RowCommand(j) PROVE FALSE
  <2>1. ~Removes(j)
    BY DEF Removes, FreshStep
  <2>2. PICK From, To, to : ManyRows(j, From, To, to) /\ To # "completed"
    BY <1>13, <2>1 DEF RowCommand, Cancels
  <2> QED BY <1>3, <2>2
<1>14. ASSUME NEW j \in Jobs, NEW i \in StepIx(j), StepCommand(j, i) PROVE FALSE
  BY <1>4, <1>14 DEF StepCommand
<1>15. ASSUME NEW j \in Jobs, OpenStep(j) PROVE FALSE
  BY <1>15 DEF OpenStep
<1> QED BY <1>1, <1>9, <1>10, <1>11, <1>12, <1>13, <1>14, <1>15
        DEF Move, Jumps, WritesFiles, Quits, Starts, Commands, StepCommands, Asks, Idles, SameRows

\* A worker that moved is at its next stage.
LEMMA StageFact ==
  ASSUME Move, NEW u \in Workers, InHand(u)', wk'[u] # wk[u]
  PROVE  \/ wk'[u].pc \in {"leased", "work", "report", "err"}
         \/ \E p : wk'[u].pc = p /\ (Jumps(u, p) \/ WritesFiles(u, p))
<1>1. ASSUME NEW w \in Workers, Others(w) PROVE u = w
  BY <1>1 DEF Others
<1>2. ASSUME NEW w \in Workers, NEW p, Jumps(w, p) \/ WritesFiles(w, p)
      PROVE  u = w /\ wk'[u].pc = p
  BY <1>1, <1>2 DEF Jumps, WritesFiles, Stays
<1>3. ASSUME NEW w \in Workers, Quits(w) \/ Settles(w) PROVE FALSE
  BY <1>1, <1>3 DEF Quits, Settles, Leaves, InHand
<1>4. ASSUME NEW w \in Workers, Runs(w)
      PROVE  wk'[u].pc \in {"leased", "work", "report", "err"}
  BY <1>1, <1>4 DEF Runs, Leaves, Stays, InHand
<1>5. ASSUME NEW w \in Workers, Kills(w) PROVE wk'[u].pc = "err"
  BY <1>1, <1>5 DEF Kills, Stays
<1>6. ASSUME NEW w \in Workers, NEW j \in Jobs, NEW i \in StepIx(j), Takes(w, j, i)
      PROVE  wk'[u].pc = "leased"
  BY <1>1, <1>6 DEF Takes
<1> QED BY <1>2, <1>3, <1>4, <1>5, <1>6
        DEF Move, Alone, Starts, Commands, StepCommands, Asks, ACommand, Idles

\* What a stage does to the files of its job.
LEMMA FileStepFact ==
  ASSUME IInvPlus, NEW w \in Workers, NEW p, InHand(w), FileStep(w, p), NEW k \in Jobs
  PROVE  /\ wk[w].job # k => pack'[k] = pack[k]
         /\ Attached(k) => Attached(k)'
         /\ wk[w].job = k /\ wk[w].pc = "attach" => Attached(k)'
         /\ p # "copy" \/ wk[w].job # k =>
              (Copied(k) => Copied(k)') /\ (verify_artifact(k) => verify_artifact(k)')
         /\ wk[w].job = k /\ wk[w].pc = "copy" => Copied(k)'
         /\ wk[w].job = k /\ p = "upsert" => verify_artifact(k)'
<1> DEFINE j == wk[w].job
<1>1. j \in Jobs /\ pack \in [Jobs -> Packs] /\ pack[j] \in Packs
  BY AtFact DEF IInvPlus, IInv, TypeOK, FileTypeOK
<1>2. PICK v : pack' = [pack EXCEPT ![j] = v]
  BY DEF FileStep, remove_sqlite_family, backup_sqlite_db, write_export_manifest,
     RegisterExport, attach_research_job_artifact
<1>3. j # k => pack'[k] = pack[k]
  BY <1>1, <1>2
<1>4. CASE j # k
  BY <1>3, <1>4 DEF Attached, Copied, verify_artifact
<1>5. CASE j = k /\ p = "copy"
  <2>1. remove_sqlite_family(j)
    BY <1>5 DEF FileStep
  <2>2. pack'[j].row = pack[j].row
    BY <1>1, <2>1 DEF remove_sqlite_family
  <2>3. wk[w].pc = "work"
    BY <1>5 DEF FileStep
  <2> QED BY <1>5, <2>2, <2>3 DEF Attached
<1>6. CASE j = k /\ wk[w].pc = "copy" /\ p = "ok"
  <2>1. PICK same \in BOOLEAN : backup_sqlite_db(j, same)
    BY <1>6 DEF FileStep
  <2>2. /\ pack'[j].row = pack[j].row /\ pack'[j].files = "copied"
        /\ pack[j].manifest = "matches" => pack'[j].manifest = "matches"
    BY <1>1, <2>1 DEF backup_sqlite_db
  <2> QED BY <1>6, <2>2 DEF Attached, Copied, verify_artifact
<1>7. CASE j = k /\ p = "upsert"
  <2>1. build_manifest(j) /\ write_export_manifest(j) /\ wk[w].pc = "work"
    BY <1>7 DEF FileStep
  <2>2. /\ pack'[j].row = pack[j].row /\ pack'[j].files = pack[j].files
        /\ pack'[j].manifest = "matches" /\ pack[j].files = "copied"
    BY <1>1, <2>1 DEF build_manifest, write_export_manifest, Packs
  <2> QED BY <1>7, <2>1, <2>2 DEF Attached, Copied, verify_artifact
<1>8. CASE j = k /\ wk[w].pc = "upsert" /\ p \in {"attach", "err"}
  <2>1. RegisterExport(j)
    BY <1>8 DEF FileStep
  <2>2. /\ pack[j].row = "attached" => pack'[j].row = "attached"
        /\ pack'[j].files = pack[j].files /\ pack'[j].manifest = pack[j].manifest
    BY <1>1, <2>1 DEF RegisterExport
  <2> QED BY <1>8, <2>2 DEF Attached, Copied, verify_artifact
<1>9. CASE j = k /\ wk[w].pc = "attach" /\ p \in {"ok", "err"}
  <2>1. attach_research_job_artifact(j)
    BY <1>9 DEF FileStep
  <2>2. /\ pack'[j].row = "attached"
        /\ pack'[j].files = pack[j].files /\ pack'[j].manifest = pack[j].manifest
    BY <1>1, <2>1 DEF attach_research_job_artifact, Packs
  <2> QED BY <1>9, <2>2 DEF Attached, Copied, verify_artifact
<1> QED BY <1>4, <1>5, <1>6, <1>7, <1>8, <1>9 DEF FileStep

\* The files change only under a worker at a stage that writes them, and a job
\* becomes real only before any of its steps was leased.
LEMMA PackMove ==
  ASSUME IInvPlus, Move, NEW k \in Jobs
  PROVE  /\ pack'[k] = pack[k] \/ \E w \in Workers : \E p : WritesFiles(w, p) /\ wk[w].job = k
         /\ \/ Real(k)' => Real(k)
            \/ /\ UNCHANGED <<step, wk>>
               /\ \A h \in StepIx(k) : /\ step[k][h].status # "completed"
                                       /\ \A u \in Workers : ~At(u, k, h)
<1>1. ASSUME NEW w \in Workers, NEW p, WritesFiles(w, p)
      PROVE  /\ pack'[k] = pack[k] \/ wk[w].job = k
             /\ Real(k)' => Real(k)
  BY <1>1, FileStepFact DEF WritesFiles, Stays, Real
<1>2. ASSUME NEW j \in Jobs, Asks(j), j = k
      PROVE  /\ UNCHANGED <<step, wk>>
             /\ \A h \in StepIx(k) : /\ step[k][h].status # "completed"
                                     /\ \A u \in Workers : ~At(u, k, h)
  <2>1. ASSUME NEW h \in StepIx(k), NEW u \in Workers, At(u, k, h) PROVE FALSE
    <3>1. Exists(k) /\ step[k][h].attempts = 0
      BY <1>2, <2>1 DEF Asks, Exists
    <3>2. HandIsReal(u, k, h)
      BY <2>1 DEF At, IInvPlus, HistoryInv, HandsAreReal
    <3> QED BY <3>1, <3>2 DEF HandIsReal
  <2> QED BY <1>2, <2>1 DEF Asks, SameRows, ACommand
<1>3. ASSUME NEW j \in Jobs, Asks(j) PROVE pack' = pack /\ (j # k => (Real(k)' => Real(k)))
  BY <1>3 DEF Asks, Real
<1>4. ASSUME SameFilesOf PROVE pack' = pack /\ (Real(k)' => Real(k))
  BY <1>4 DEF SameFilesOf, Real
<1> QED BY <1>1, <1>2, <1>3, <1>4
        DEF Move, Jumps, Runs, Quits, Settles, Kills, Takes, Alone, Starts, Commands,
            StepCommands, Idles, SameFilesOf

\* A worker that comes to a good result at the second or third step of a real
\* export comes from the stage before it.
LEMMA OkFact ==
  ASSUME IInvPlus, Move, NEW u \in Workers, NEW k \in Jobs, Real(k), NEW h \in {2, 3},
         At(u, k, h)', wk'[u].pc \in {"upsert", "attach", "ok"}
  PROVE  /\ At(u, k, h)
         /\ \/ wk'[u] = wk[u]
            \/ \E p : wk'[u].pc = p /\ WritesFiles(u, p)
<1>1. ASSUME NEW j \in Jobs, NEW i \in StepIx(j), Begins(u, j, i) PROVE FALSE
  <2>1. wk'[u] = [pc |-> "leased", job |-> j, step |-> i]
    BY <1>1 DEF Begins
  <2>2. wk'[u].pc = "leased"
    BY <2>1
  <2> QED BY <2>2
<1>2. Keeps(u)
  BY <1>1, HandMoves DEF At, InHand
<1>3. At(u, k, h)
  BY <1>2 DEF Keeps, At, InHand
<1>4. KindOf(u) \in {"snapshot", "manifest"}
  BY <1>3, RealPlan DEF At, KindOf, IInvPlus
<1>5. ASSUME NEW p, wk'[u].pc = p, Jumps(u, p) PROVE FALSE
  <2>1. p \notin {"upsert", "attach"} /\ (p = "ok" => KindOf(u) \notin {"snapshot", "manifest"} \/ ~Real(wk[u].job))
    BY <1>5 DEF Jumps
  <2>2. Real(wk[u].job)
    BY <1>3 DEF At
  <2> QED BY <1>4, <1>5, <2>1, <2>2
<1> QED BY <1>2, <1>3, <1>5, StageFact DEF Keeps, At, InHand

LEMMA RealNext ==
  ASSUME IInv', UNCHANGED type, NEW k \in Jobs, Real(k)'
  PROVE  2 \in StepIx(k) /\ 3 \in StepIx(k)
<1>1. params'[k] = "real" /\ params'[k] \in ParamsOf(type'[k]) /\ type'[k] \in DOMAIN Plans
  BY DEF IInv, TypeOK, FileTypeOK, DbTypeOK, Real, ParamsOf
<1>2. type[k] = "export" /\ "export" \in DOMAIN Plans
  BY <1>1 DEF ParamsOf
<1>3. Kinds(k) = <<"plan", "snapshot", "manifest", "verify">>
  BY <1>2, ExportPlanAssumption DEF Kinds
<1>4. StepIx(k) = 1..4
  BY <1>3 DEF StepIx
<1> QED BY <1>4

LEMMA AttachMove ==
  ASSUME IInvPlus, IInv', UNCHANGED type, Move
  PROVE  ManifestAttaches'
<1> SUFFICES ASSUME NEW k \in Jobs, Real(k)'
             PROVE  /\ step'[k][3].status = "completed" => Attached(k)'
                    /\ \A w \in Workers : At(w, k, 3)' /\ wk'[w].pc = "ok" => Attached(k)'
  BY DEF ManifestAttaches
<1>1. IInv
  BY DEF IInvPlus
<1>2. 3 \in StepIx(k)
  BY RealNext
<1>3. CASE Real(k)
  <2>1. Attached(k) => Attached(k)'
    <3>1. ASSUME NEW w \in Workers, NEW p, WritesFiles(w, p) PROVE Attached(k) => Attached(k)'
      BY <3>1, FileStepFact DEF WritesFiles, Stays
    <3> QED BY <3>1, PackMove DEF Attached
  <2>2. ASSUME step'[k][3].status = "completed" PROVE Attached(k)'
    <3>1. CASE step[k][3].status = "completed"
      BY <1>3, <2>1, <3>1 DEF IInvPlus, HistoryInv, ManifestAttaches
    <3>2. CASE step[k][3].status # "completed"
      BY <1>2, <1>3, <2>1, <2>2, <3>2, DoneFact DEF IInvPlus, HistoryInv, ManifestAttaches
    <3> QED BY <3>1, <3>2
  <2>3. ASSUME NEW w \in Workers, At(w, k, 3)', wk'[w].pc = "ok" PROVE Attached(k)'
    <3>1. At(w, k, 3) /\ (wk'[w] = wk[w] \/ \E p : wk'[w].pc = p /\ WritesFiles(w, p))
      BY <1>3, <2>3, OkFact
    <3>2. CASE wk'[w] = wk[w]
      BY <1>3, <2>1, <2>3, <3>1, <3>2 DEF IInvPlus, HistoryInv, ManifestAttaches
    <3>3. CASE WritesFiles(w, "ok")
      <4>1. FileStep(w, "ok") /\ wk[w].job = k /\ InHand(w)
        BY <3>1, <3>3 DEF WritesFiles, At, Stays
      <4>2. wk[w].pc \in {"copy", "attach"}
        BY <4>1 DEF FileStep
      <4>3. wk[w].pc # "copy"
        <5>1. Kinds(k)[3] = "manifest" /\ wk[w].step = 3
          BY <1>1, <1>3, <3>1, RealPlan DEF At
        <5> QED BY <4>1, <5>1 DEF IInvPlus, HistoryInv, HandsAreReal, HandIsReal, StageOfKind
      <4> QED BY <4>1, <4>2, <4>3, FileStepFact
    <3> QED BY <2>3, <3>1, <3>2, <3>3
  <2> QED BY <2>2, <2>3
<1>4. CASE ~Real(k)
  <2>1. step' = step /\ wk' = wk /\ step[k][3].status # "completed"
        /\ \A u \in Workers : ~At(u, k, 3)
    BY <1>2, <1>4, PackMove
  <2> QED BY <2>1 DEF At, InHand
<1> QED BY <1>3, <1>4

\* No work of the workers brings a cancelled step back.
LEMMA DoomedKept ==
  ASSUME IInvPlus, IInv', UNCHANGED type, Move, cmds' <= 1, NEW k \in Jobs, Doomed(k)
  PROVE  Doomed(k)'
<1>1. StepIx(k)' = StepIx(k)
  BY IndexFact
<1>2. PICK g \in StepIx(k) : step[k][g].status = "cancelled"
  BY DEF Doomed
<1>3. cmds # 0
  BY <1>2 DEF IInvPlus, HistoryInv, HaltsAreSingle, HaltIsSingle, Active, Halted
<1>4. WorkRows
  BY <1>3, BaseFact, NextCounts, MoveRows
<1>5. SUFFICES step'[k][g].status = "cancelled"
  BY <1>1, <1>2 DEF Doomed
<1>6. ASSUME NEW j \in Jobs, NEW i \in StepIx(j), step[j][i].status # "cancelled",
             NEW row, NEW to, OneRow(j, i, row, to)
      PROVE  step'[k][g].status = "cancelled"
  BY <1>2, <1>6 DEF OneRow
<1>7. CASE SameRows \/ \E j \in Jobs : OpenStep(j)
  BY <1>2, <1>7 DEF SameRows, OpenStep
<1>8. ASSUME NEW j \in Jobs, Cancels(j) PROVE step'[k][g].status = "cancelled"
  <2>1. k # j => step'[k] = step[k]
    BY <1>8 DEF Cancels, ManyRows
  <2>2. k = j => step'[k][g] = step[k][g]
    BY <1>2, <1>8 DEF Cancels, ManyRows
  <2> QED BY <1>2, <2>1, <2>2
<1>9. ASSUME NEW j \in Jobs, NEW i \in StepIx(j),
             \/ \E row : Touches(j, i, row)
             \/ \E w, row : Gives(w, j, i, row)
      PROVE  step'[k][g].status = "cancelled"
  BY <1>6, <1>9 DEF Touches, Gives, Leasable, Active
<1>10. ASSUME NEW j \in Jobs, NEW i \in StepIx(j),
              (\E s : Halts(j, i, s)) \/ Completes(j, i)
       PROVE  step'[k][g].status = "cancelled"
  <2>1. step[j][i].status # "cancelled"
    BY <1>10 DEF Halts, Completes, Leasable, Active
  <2>2. \E row, to : OneRow(j, i, row, to)
    BY <1>10 DEF Halts, Completes
  <2> QED BY <1>6, <2>1, <2>2
<1> QED BY <1>4, <1>7, <1>8, <1>9, <1>10 DEF WorkRows

\* The worker at the snapshot step of an untouched real export that empties
\* its destination again still has the step, so that nothing was copied on it.
LEMMA CopyIsFirst ==
  ASSUME IInvPlus, faults = 0, cmds <= 1, NEW k \in Jobs, Real(k), Untouched(k),
         NEW w \in Workers, WritesFiles(w, "copy"), wk[w].job = k
  PROVE  /\ step[k][2].status # "completed" /\ step[k][3].status # "completed"
         /\ At(w, k, 2)
         /\ \A u \in Workers : /\ At(u, k, 2) /\ wk[u].pc = "ok" => FALSE
                               /\ At(u, k, 3) /\ wk[u].pc # "leased" => FALSE
<1>1. IInv /\ 2 \in StepIx(k) /\ 3 \in StepIx(k) /\ StepsInOrder
  BY RealPlan DEF IInvPlus, IInv
<1>2. ASSUME NEW u \in Workers, NEW h \in {2, 3}, At(u, k, h), wk[u].pc # "leased"
      PROVE  Holds(u, k, h)
  <2>1. HoldsOn(u, k, h)
    BY <1>2 DEF At, IInvPlus, HistoryInv, WorkersHold
  <2> QED BY <2>1 DEF HoldsOn, Untouched
<1>3. At(w, k, 2) /\ wk[w].pc = "work"
  <2>1. InHand(w) /\ wk[w].pc = "work" /\ KindOf(w) = "snapshot"
    BY DEF WritesFiles, Stays, FileStep
  <2>2. wk[w].step \in StepIx(k)
    BY <2>1, AtFact
  <2>3. wk[w].step = 2
    BY <1>1, <2>1, <2>2, RealPlan DEF KindOf
  <2> QED BY <2>1, <2>3 DEF At
<1>4. Holds(w, k, 2)
  BY <1>2, <1>3
<1>5. step[k][2].status # "completed"
  BY <1>4 DEF Holds, Active
<1>6. step[k][3].status \notin Active \cup {"completed"}
  <2>1. 2 \in 1..(3 - 1)
    OBVIOUS
  <2> QED BY <1>1, <1>5, <2>1 DEF StepsInOrder
<1>7. ASSUME NEW u \in Workers, At(u, k, 2), wk[u].pc = "ok" PROVE FALSE
  BY <1>2, <1>3, <1>4, <1>7 DEF Holds
<1>8. ASSUME NEW u \in Workers, At(u, k, 3), wk[u].pc # "leased" PROVE FALSE
  BY <1>2, <1>6, <1>8 DEF Holds
<1> QED BY <1>3, <1>5, <1>6, <1>7, <1>8

LEMMA FilesMove ==
  ASSUME IInvPlus, IInv', UNCHANGED type, Move
  PROVE  FilesStay'
<1> DEFINE Good(k) ==
      /\ step'[k][2].status = "completed" => Copied(k)'
      /\ step'[k][3].status = "completed" => verify_artifact(k)'
      /\ \A w \in Workers :
           /\ At(w, k, 2)' /\ wk'[w].pc = "ok" => Copied(k)'
           /\ At(w, k, 3)' /\ wk'[w].pc \in {"upsert", "attach", "ok"} => verify_artifact(k)'
<1> SUFFICES ASSUME faults' = 0, cmds' <= 1, NEW k \in Jobs, Real(k)', Untouched(k)'
             PROVE  Good(k)
  BY DEF FilesStay
<1>1. IInv /\ faults = 0 /\ cmds <= 1
  BY BaseFact, NextCounts, MoveRows DEF IInvPlus
<1>2. 2 \in StepIx(k) /\ 3 \in StepIx(k)
  BY RealNext
<1>3. CASE ~Real(k)
  <2>1. /\ step' = step /\ wk' = wk
        /\ step[k][2].status # "completed" /\ step[k][3].status # "completed"
        /\ \A u \in Workers : ~At(u, k, 2) /\ ~At(u, k, 3)
    BY <1>2, <1>3, PackMove
  <2> QED BY <2>1 DEF At, InHand
<1>4. CASE Real(k) /\ job[k] = "none"
  <2>1. step[k][2].status # "completed" /\ step[k][3].status # "completed"
    BY <1>1, <1>2, <1>4 DEF IInv, BlankRows, Exists, FreshStep
  <2>2. ASSUME NEW u \in Workers, NEW h, At(u, k, h) PROVE FALSE
    BY <1>4, <2>2 DEF At, IInvPlus, HistoryInv, HandsAreReal, HandIsReal
  <2>3. step'[k][2].status # "completed" /\ step'[k][3].status # "completed"
    BY <1>2, <2>1, <2>2, DoneFact
  <2>4. ASSUME NEW u \in Workers, NEW h \in {2, 3}, At(u, k, h)',
               wk'[u].pc \in {"upsert", "attach", "ok"}
        PROVE  FALSE
    BY <1>4, <2>2, <2>4, OkFact
  <2> QED BY <2>3, <2>4
<1>5. CASE Real(k) /\ job[k] # "none"
  <2>1. Exists(k) /\ ~Doomed(k) /\ Untouched(k)
    BY <1>5, GrowFact, DoomedKept DEF Grows, Untouched
  <2>2. /\ step[k][2].status = "completed" => Copied(k)
        /\ step[k][3].status = "completed" => verify_artifact(k)
        /\ \A w \in Workers :
             /\ At(w, k, 2) /\ wk[w].pc = "ok" => Copied(k)
             /\ At(w, k, 3) /\ wk[w].pc \in {"upsert", "attach", "ok"} => verify_artifact(k)
    BY <1>1, <1>5, <2>1 DEF IInvPlus, HistoryInv, FilesStay
  <2>3. ASSUME NEW w \in Workers, WritesFiles(w, "copy"), wk[w].job = k PROVE Good(k)
    <3>1. /\ step[k][2].status # "completed" /\ step[k][3].status # "completed"
          /\ At(w, k, 2)
          /\ \A u \in Workers : /\ At(u, k, 2) /\ wk[u].pc = "ok" => FALSE
                                /\ At(u, k, 3) /\ wk[u].pc # "leased" => FALSE
      BY <1>1, <1>5, <2>1, <2>3, CopyIsFirst
    <3>2. step' = step /\ wk'[w].pc = "copy" /\ Others(w)
      BY <2>3 DEF WritesFiles, Stays, SameRows
    <3>3. ASSUME NEW u \in Workers, NEW h \in {2, 3}, At(u, k, h)',
                 wk'[u].pc \in {"upsert", "attach", "ok"}
          PROVE  wk'[u] = wk[u] /\ At(u, k, h)
      BY <1>5, <3>2, <3>3, OkFact DEF Others
    <3>4. ASSUME NEW u \in Workers, At(u, k, 2)', wk'[u].pc = "ok" PROVE FALSE
      BY <3>1, <3>3, <3>4
    <3>5. ASSUME NEW u \in Workers, At(u, k, 3)', wk'[u].pc \in {"upsert", "attach", "ok"}
          PROVE  FALSE
      BY <3>1, <3>3, <3>5
    <3> QED BY <3>1, <3>2, <3>4, <3>5
  <2>4. CASE ~\E w \in Workers : WritesFiles(w, "copy") /\ wk[w].job = k
    <3>1. (Copied(k) => Copied(k)') /\ (verify_artifact(k) => verify_artifact(k)')
      <4>1. ASSUME NEW w \in Workers, NEW p, WritesFiles(w, p), wk[w].job = k
            PROVE  (Copied(k) => Copied(k)') /\ (verify_artifact(k) => verify_artifact(k)')
        <5>1. p # "copy" /\ InHand(w) /\ FileStep(w, p)
          BY <2>4, <4>1 DEF WritesFiles, Stays
        <5> QED BY <5>1, FileStepFact
      <4>2. CASE pack'[k] = pack[k]
        BY <4>2 DEF Copied, verify_artifact
      <4> QED BY <4>1, <4>2, PackMove
    <3>2. step'[k][2].status = "completed" => Copied(k)'
      BY <1>2, <2>2, <3>1, DoneFact
    <3>3. step'[k][3].status = "completed" => verify_artifact(k)'
      BY <1>2, <2>2, <3>1, DoneFact
    <3>4. ASSUME NEW u \in Workers, NEW h \in {2, 3}, NEW p, At(u, k, h), WritesFiles(u, p)
          PROVE  /\ FileStep(u, p) /\ InHand(u) /\ wk[u].job = k /\ wk[u].step = h
                 /\ wk[u].pc = "copy" => h = 2
                 /\ wk[u].pc \in {"upsert", "attach"} => h = 3
      <4>1. FileStep(u, p) /\ InHand(u) /\ wk[u].job = k /\ wk[u].step = h
        BY <3>4 DEF WritesFiles, Stays, At
      <4>2. StageOfKind(wk[u].pc, Kinds(k)[h])
        BY <4>1 DEF IInvPlus, HistoryInv, HandsAreReal, HandIsReal
      <4>3. Kinds(k)[2] = "snapshot" /\ Kinds(k)[3] = "manifest"
        BY <1>1, <1>5, RealPlan
      <4> QED BY <4>1, <4>2, <4>3 DEF StageOfKind
    <3>5. ASSUME NEW u \in Workers, At(u, k, 2)', wk'[u].pc = "ok" PROVE Copied(k)'
      <4>1. At(u, k, 2) /\ (wk'[u] = wk[u] \/ \E p : wk'[u].pc = p /\ WritesFiles(u, p))
        BY <1>5, <3>5, OkFact
      <4>2. CASE wk'[u] = wk[u]
        BY <2>2, <3>1, <3>5, <4>1, <4>2
      <4>3. CASE WritesFiles(u, "ok")
        <5>1. /\ FileStep(u, "ok") /\ InHand(u) /\ wk[u].job = k
              /\ wk[u].pc \notin {"upsert", "attach"}
          BY <3>4, <4>1, <4>3
        <5>2. wk[u].pc = "copy"
          BY <5>1 DEF FileStep
        <5> QED BY <5>1, <5>2, FileStepFact
      <4> QED BY <3>5, <4>1, <4>2, <4>3
    <3>6. ASSUME NEW u \in Workers, At(u, k, 3)', wk'[u].pc \in {"upsert", "attach", "ok"}
          PROVE  verify_artifact(k)'
      <4>1. At(u, k, 3) /\ (wk'[u] = wk[u] \/ \E p : wk'[u].pc = p /\ WritesFiles(u, p))
        BY <1>5, <3>6, OkFact
      <4>2. CASE wk'[u] = wk[u]
        BY <2>2, <3>1, <3>6, <4>1, <4>2
      <4>3. ASSUME NEW p, wk'[u].pc = p, WritesFiles(u, p) PROVE verify_artifact(k)'
        <5>1. /\ FileStep(u, p) /\ InHand(u) /\ wk[u].job = k /\ wk[u].pc # "copy"
          BY <3>4, <4>1, <4>3
        <5>2. p = "upsert" \/ wk[u].pc \in {"upsert", "attach"}
          BY <3>6, <4>3, <5>1 DEF FileStep
        <5>3. CASE p = "upsert"
          BY <5>1, <5>3, FileStepFact
        <5>4. CASE wk[u].pc \in {"upsert", "attach"}
          BY <2>2, <3>1, <4>1, <5>4
        <5> QED BY <5>2, <5>3, <5>4
      <4> QED BY <4>1, <4>2, <4>3
    <3> QED BY <3>2, <3>3, <3>5, <3>6
  <2> QED BY <2>3, <2>4
<1> QED BY <1>3, <1>4, <1>5

-----------------------------------------------------------------------------
(***************************************************************************)
(* Each action moves in one of those ways.                                 *)
(***************************************************************************)
LEMMA SetRow ==
  ASSUME IInvPlus, NEW j \in Jobs, NEW i \in StepIx(j), NEW row, NEW to,
         step' = [step EXCEPT ![j] = [step[j] EXCEPT ![i] = row]],
         job' = [job EXCEPT ![j] = to]
  PROVE  OneRow(j, i, row, to)
<1>1. /\ job \in [Jobs -> JobStatus] /\ DOMAIN step = Jobs
      /\ \A k \in Jobs : step[k] \in [StepIx(k) -> StepRows]
  BY DEF IInvPlus, IInv, TypeOK, DbTypeOK
<1> QED BY <1>1 DEF OneRow

LEMMA SetHeldRow ==
  ASSUME IInvPlus, NEW j \in Jobs, NEW i \in StepIx(j), NEW row, job' = job,
         step' = [step EXCEPT ![j] = [step[j] EXCEPT ![i] = row]],
         step[j][i].status \in Active, row.status \in Active,
         row.owner = step[j][i].owner, row.attempts = step[j][i].attempts,
         row.status = "leased" => step[j][i].status = "leased"
  PROVE  Touches(j, i, row)
<1>1. job' = [job EXCEPT ![j] = job[j]]
  BY BaseFact
<1>2. Exists(j)
  BY DEF IInvPlus, IInv, BlankRows, FreshStep, Active
<1> QED BY <1>1, <1>2, SetRow DEF Touches

LEMMA FreeRow ==
  ASSUME IInvPlus, NEW j \in Jobs, NEW i \in StepIx(j), NEW s, NEW to, FreeOne(j, i, s, to)
  PROVE  OneRow(j, i, Freed(step[j][i], s), to)
<1> DEFINE row == Freed(step[j][i], s)
<1>1. step' = [step EXCEPT ![j] = [step[j] EXCEPT ![i] = row]] /\ job' = [job EXCEPT ![j] = to]
  BY DEF FreeOne
<1> HIDE DEF row
<1>2. OneRow(j, i, row, to)
  BY <1>1, SetRow
<1> QED BY <1>2 DEF row

LEMMA FreeRows ==
  ASSUME IInvPlus, NEW j \in Jobs, NEW From, NEW To, NEW to, FreeAll(j, From, To),
         job' = [job EXCEPT ![j] = to]
  PROVE  ManyRows(j, From, To, to)
<1>1. job \in [Jobs -> JobStatus] /\ DOMAIN step = Jobs
  BY DEF IInvPlus, IInv, TypeOK, DbTypeOK
<1>2. step'[j] = [i \in StepIx(j) |-> IF step[j][i].status \in From
                                       THEN Freed(step[j][i], To) ELSE step[j][i]]
      /\ \A k \in Jobs : k # j => step'[k] = step[k]
  BY <1>1 DEF FreeAll
<1>3. \A i \in StepIx(j) : step'[j][i] = IF step[j][i].status \in From
                                       THEN Freed(step[j][i], To) ELSE step[j][i]
  BY <1>2
<1> QED BY <1>1, <1>2, <1>3 DEF ManyRows

LEMMA CancelRowsFact ==
  ASSUME IInvPlus, NEW j \in Jobs, Cancellable(j), CancelRows(j)
  PROVE  Cancels(j)
BY FreeRows DEF CancelRows, Cancellable, Cancels

LEMMA SetHand ==
  ASSUME IInvPlus, NEW w \in Workers
  PROVE  /\ \A v : wk' = [wk EXCEPT ![w] = v] => wk'[w] = v /\ Others(w)
         /\ \A p : Goto(w, p) /\ InHand(w) => Stays(w, p)
         /\ Leave(w) => Leaves(w)
         /\ \A j : Refused(w, j) => Leaves(w)
         /\ wk' = [wk EXCEPT ![w] = [Idle EXCEPT !.pc = "exited"]] => Leaves(w)
<1>1. wk \in [Workers -> [pc : PCs, job : Jobs \cup {0}, step : Nat]]
  BY DEF IInvPlus, IInv, TypeOK, WorkTypeOK
<1>2. ASSUME NEW v, wk' = [wk EXCEPT ![w] = v] PROVE wk'[w] = v /\ Others(w)
  BY <1>1, <1>2 DEF Others
<1>3. ASSUME NEW p, Goto(w, p), InHand(w) PROVE Stays(w, p)
  BY <1>1, <1>3 DEF Goto, Stays, Others
<1>4. Idle.pc = "idle" /\ [Idle EXCEPT !.pc = "exited"].pc = "exited"
  BY DEF Idle
<1>5. Leave(w) => Leaves(w)
  BY <1>2, <1>4 DEF Leave, Leaves
<1>6. ASSUME NEW j, Refused(w, j) PROVE Leaves(w)
  <2>1. wk' = [wk EXCEPT ![w] = [Idle EXCEPT !.pc = "exited"]] \/ wk' = [wk EXCEPT ![w] = Idle]
    BY <1>6 DEF Refused
  <2> QED BY <1>2, <1>4, <2>1 DEF Leaves
<1>7. wk' = [wk EXCEPT ![w] = [Idle EXCEPT !.pc = "exited"]] => Leaves(w)
  BY <1>2, <1>4 DEF Leaves
<1> QED BY <1>2, <1>3, <1>5, <1>6, <1>7

LEMMA SameFact ==
  ASSUME IInvPlus
  PROVE  /\ UNCHANGED fileVars => SameFilesOf
         /\ UNCHANGED dbVars => SameRows
         /\ Fault => faults' > 0 /\ faults' >= faults
         /\ UNCHANGED <<cmds, faults>> => NoCommand
         /\ Fault /\ UNCHANGED cmds => NoCommand
<1>1. faults \in Nat
  BY BaseFact
<1> QED BY <1>1 DEF fileVars, askedVars, SameFilesOf, dbVars, SameRows, Fault, NoCommand

\* The stage of a worker fits the kind of its step.
LEMMA HandStage ==
  ASSUME IInvPlus, NEW w \in Workers, InHand(w)
  PROVE  /\ wk[w].job \in Jobs /\ wk[w].step \in StepIx(wk[w].job)
         /\ job[wk[w].job] # "none" /\ StageOfKind(wk[w].pc, KindOf(w))
         /\ wk[w].pc = "killed" => cmds >= 1
BY AtFact DEF IInvPlus, HistoryInv, HandsAreReal, HandIsReal, KindOf

LEMMA JumpMoves ==
  ASSUME IInvPlus, NEW w \in Workers, NEW p, Goto(w, p), InHand(w), wk[w].pc # "leased",
         p \in {"ok", "err", "block", "copy", "killed"} \cup ReportPCs,
         p = "copy" => KindOf(w) = "snapshot",
         p \in ReportPCs => KindOf(w) = "report",
         p = "killed" => cmds >= 1,
         p = "ok" => KindOf(w) \notin {"snapshot", "manifest"} \/ ~Real(wk[w].job),
         SameRows, SameFilesOf, NoCommand
  PROVE  Move
<1>1. Stays(w, p) /\ StageOfKind(p, KindOf(w))
  BY SetHand DEF StageOfKind, ReportPCs
<1>2. Jumps(w, p)
  BY <1>1 DEF Jumps, ReportPCs
<1> QED BY <1>2 DEF Move

LEMMA QuitMoves ==
  ASSUME IInvPlus, NEW w \in Workers, Leaves(w),
         faults' = 0 /\ InHand(w) => ~Holds(w, wk[w].job, wk[w].step),
         SameRows, SameFilesOf, NoCommand
  PROVE  Move
BY DEF Quits, Move

\* A stage that writes the files of the export.
LEMMA WriteMoves ==
  ASSUME IInvPlus, NEW w \in Workers, NEW p, Goto(w, p), InHand(w), FileStep(w, p),
         SameRows, UNCHANGED params, NoCommand
  PROVE  Move
<1>1. Stays(w, p)
  BY SetHand
<1>2. WritesFiles(w, p)
  BY <1>1 DEF WritesFiles
<1> QED BY <1>2 DEF Move

LEMMA HaltMoves ==
  ASSUME IInvPlus, NEW w \in Workers, InHand(w), Holds(w, wk[w].job, wk[w].step), Leaves(w),
         NEW s \in Halted, FreeOne(wk[w].job, wk[w].step, s, s), SameFilesOf, NoCommand
  PROVE  Move
<1>1. PICK j \in Jobs : j = wk[w].job
  BY AtFact
<1>2. PICK i \in StepIx(j) : i = wk[w].step
  BY <1>1, AtFact
<1>3. OneRow(j, i, Freed(step[j][i], s), s)
  BY <1>1, <1>2, FreeRow
<1>4. Halts(j, i, s)
  BY <1>1, <1>2, <1>3 DEF Halts, Holds
<1>5. Settles(w)
  BY <1>1, <1>2, <1>4 DEF Settles
<1> QED BY <1>5 DEF Move

LEMMA CompleteMoves ==
  ASSUME IInvPlus, NEW w \in Workers, wk[w].pc = "ok", Holds(w, wk[w].job, wk[w].step),
         Leaves(w), CompleteRow(wk[w].job, wk[w].step), SameFilesOf, NoCommand
  PROVE  Move
<1>0. InHand(w)
  BY DEF InHand
<1>1. PICK j \in Jobs : j = wk[w].job
  BY <1>0, AtFact
<1>2. PICK i \in StepIx(j) : i = wk[w].step
  BY <1>0, <1>1, AtFact
<1> DEFINE row == Freed(step[j][i], "completed")
<1>3. step' = [step EXCEPT ![j] = [step[j] EXCEPT ![i] = row]]
  BY <1>1, <1>2 DEF CompleteRow
<1>4. job' = [job EXCEPT ![j] = job[j]] \/ job' = [job EXCEPT ![j] = "completed"]
  BY <1>1, BaseFact DEF CompleteRow
<1> HIDE DEF row
<1>5. OneRow(j, i, row, job[j]) \/ OneRow(j, i, row, "completed")
  BY <1>3, <1>4, SetRow
<1>6. Completes(j, i)
  BY <1>1, <1>2, <1>5 DEF Completes, Holds, row
<1>7. Settles(w)
  BY <1>0, <1>1, <1>2, <1>6 DEF Settles
<1> QED BY <1>7 DEF Move

LEMMA AloneMoves ==
  ASSUME IInvPlus, NEW j \in Jobs, NEW i \in StepIx(j),
         \/ \E row : /\ row.stale => faults' > 0 \/ ~Attended(j, i)
                     /\ Touches(j, i, row)
         \/ Leasable(j, i) /\ Halts(j, i, "failed")
         \/ faults' > 0 /\ \E w, row : Gives(w, j, i, row),
         UNCHANGED wk, SameFilesOf, NoCommand
  PROVE  Move
BY DEF Alone, Move

LEMMA LeaseRowGives ==
  ASSUME IInvPlus, NEW w \in Workers, NEW j \in Jobs, NEW i \in StepIx(j), Leasable(j, i),
         LeaseRow(w, j, i)
  PROVE  \E row : Gives(w, j, i, row)
<1> DEFINE row == [status |-> "leased", owner |-> w, stale |-> FALSE,
                   attempts |-> step[j][i].attempts + 1]
<1>1. step[j][i].attempts \in Nat
  BY BaseFact
<1>2. /\ row.status = "leased" /\ row.owner = w /\ ~row.stale
      /\ row.attempts >= 1 /\ row.attempts >= step[j][i].attempts
  BY <1>1
<1>3. /\ step' = [step EXCEPT ![j] = [step[j] EXCEPT ![i] = row]]
      /\ job' = [job EXCEPT ![j] = "running"]
  BY DEF LeaseRow
<1> HIDE DEF row
<1>4. OneRow(j, i, row, "running")
  BY <1>3, SetRow
<1> QED BY <1>2, <1>4 DEF Gives

LEMMA LeaseMoves ==
  ASSUME IInvPlus, NEW w \in Workers, LeasePoisoned(w) \/ LeaseNext(w) \/ LeaseAnswerLost(w)
  PROVE  Move
<1>1. CASE LeasePoisoned(w)
  <2>1. PICK j \in Jobs : \E i \in StepIx(j) : Candidate(j, i) /\ FreeOne(j, i, "failed", "failed")
    BY <1>1 DEF LeasePoisoned
  <2>2. PICK i \in StepIx(j) : Candidate(j, i) /\ FreeOne(j, i, "failed", "failed")
    BY <2>1
  <2>3. OneRow(j, i, Freed(step[j][i], "failed"), "failed") /\ Leasable(j, i) /\ Exists(j)
    BY <2>2, FreeRow DEF Candidate, Leasable, Exists
  <2>4. Halts(j, i, "failed")
    BY <2>3 DEF Halts, Halted
  <2>5. UNCHANGED wk /\ SameFilesOf /\ NoCommand
    BY <1>1, SameFact DEF LeasePoisoned
  <2> QED BY <2>3, <2>4, <2>5, AloneMoves
<1>2. CASE LeaseNext(w)
  <2>1. PICK j \in Jobs : \E i \in StepIx(j) :
          /\ Candidate(j, i) /\ LeaseRow(w, j, i)
          /\ wk' = [wk EXCEPT ![w] = [pc |-> "leased", job |-> j, step |-> i]]
    BY <1>2 DEF LeaseNext
  <2>2. PICK i \in StepIx(j) :
          /\ Candidate(j, i) /\ LeaseRow(w, j, i)
          /\ wk' = [wk EXCEPT ![w] = [pc |-> "leased", job |-> j, step |-> i]]
    BY <2>1
  <2>3. \E row : Gives(w, j, i, row)
    BY <2>2, LeaseRowGives DEF Candidate
  <2>4. wk'[w] = [pc |-> "leased", job |-> j, step |-> i] /\ Others(w)
    BY <2>2, SetHand
  <2>5. wk[w].pc = "idle" /\ SameFilesOf /\ NoCommand
    BY <1>2, SameFact DEF LeaseNext
  <2>6. Takes(w, j, i)
    BY <2>3, <2>4, <2>5 DEF Takes
  <2> QED BY <2>6 DEF Move
<1>3. CASE LeaseAnswerLost(w)
  <2>1. PICK j \in Jobs : \E i \in StepIx(j) : Candidate(j, i) /\ LeaseRow(w, j, i)
    BY <1>3 DEF LeaseAnswerLost
  <2>2. PICK i \in StepIx(j) : Candidate(j, i) /\ LeaseRow(w, j, i)
    BY <2>1
  <2>3. \E row : Gives(w, j, i, row)
    BY <2>2, LeaseRowGives DEF Candidate
  <2>4. faults' > 0 /\ UNCHANGED wk /\ SameFilesOf /\ NoCommand
    BY <1>3, SameFact DEF LeaseAnswerLost
  <2> QED BY <2>3, <2>4, AloneMoves
<1> QED BY <1>1, <1>2, <1>3

\* A deadline that passes, or is put off.
LEMMA StaleTouches ==
  ASSUME IInvPlus, NEW j \in Jobs, NEW i \in StepIx(j), step[j][i].status \in Active,
         NEW b \in BOOLEAN, step' = [step EXCEPT ![j][i].stale = b], job' = job
  PROVE  \E row : row.stale = b /\ Touches(j, i, row)
<1> DEFINE row == [step[j][i] EXCEPT !.stale = b]
<1>1. step[j][i] \in StepRows
  BY BaseFact
<1>2. /\ row.status = step[j][i].status /\ row.owner = step[j][i].owner
      /\ row.attempts = step[j][i].attempts /\ row.stale = b
  BY <1>1 DEF StepRows
<1>3. step' = [step EXCEPT ![j] = [step[j] EXCEPT ![i] = row]]
  OBVIOUS
<1> HIDE DEF row
<1> QED BY <1>2, <1>3, SetHeldRow

LEMMA DeadlineMoves ==
  ASSUME IInvPlus, NEW j \in Jobs, NEW i \in StepIx(j), LeaseExpires(j, i) \/ LeaseLapses(j, i)
  PROVE  Move
<1>1. /\ step[j][i].status \in Active /\ step' = [step EXCEPT ![j][i].stale = TRUE] /\ job' = job
      /\ UNCHANGED wk /\ SameFilesOf /\ NoCommand
      /\ faults' > 0 \/ ~Attended(j, i)
  BY SameFact DEF LeaseExpires, LeaseLapses
<1>2. PICK row : row.stale = TRUE /\ Touches(j, i, row)
  BY <1>1, StaleTouches
<1> QED BY <1>1, <1>2, AloneMoves

LEMMA RenewMoves ==
  ASSUME IInvPlus, NEW w \in Workers, RenewLease(w)
  PROVE  Move
<1>0. InHand(w)
  BY DEF RenewLease, CommandStep, Working, InHand
<1>1. PICK j \in Jobs : j = wk[w].job
  BY <1>0, AtFact
<1>2. PICK i \in StepIx(j) : i = wk[w].step
  BY <1>0, <1>1, AtFact
<1>3. /\ step[j][i].status \in Active /\ step' = [step EXCEPT ![j][i].stale = FALSE] /\ job' = job
      /\ UNCHANGED wk /\ SameFilesOf /\ NoCommand
  BY <1>1, <1>2, SameFact DEF RenewLease, renew_step_lease, Holds
<1>4. PICK row : row.stale = FALSE /\ Touches(j, i, row)
  BY <1>3, StaleTouches
<1> QED BY <1>3, <1>4, AloneMoves

LEMMA RunRowTouches ==
  ASSUME IInvPlus, NEW j \in Jobs, NEW i \in StepIx(j), step[j][i].status \in Active,
         RunRow(j, i), job' = job
  PROVE  \E row : /\ row.status = "running" /\ (~row.stale \/ step[j][i].stale)
                  /\ Touches(j, i, row)
<1> DEFINE row == [step[j][i] EXCEPT !.status = "running"]
<1>1. step[j][i] \in StepRows
  BY BaseFact
<1>2. /\ row.status = "running" /\ row.owner = step[j][i].owner
      /\ row.attempts = step[j][i].attempts /\ row.stale = step[j][i].stale
  BY <1>1 DEF StepRows
<1>3. step' = [step EXCEPT ![j] = [step[j] EXCEPT ![i] = row]]
  BY DEF RunRow
<1> HIDE DEF row
<1> QED BY <1>2, <1>3, SetHeldRow DEF Active

LEMMA RunMoves ==
  ASSUME IInvPlus, NEW w \in Workers, MarkRunning(w) \/ RunAnswerLost(w)
  PROVE  Move
<1>0. InHand(w) /\ wk[w].pc = "leased" /\ SameFilesOf /\ NoCommand /\ job' = job
  BY SameFact DEF MarkRunning, RunAnswerLost, InHand
<1>1. PICK j \in Jobs : j = wk[w].job
  BY <1>0, AtFact
<1>2. PICK i \in StepIx(j) : i = wk[w].step
  BY <1>0, <1>1, AtFact
<1>3. CASE Holds(w, j, i)
  <2>1. RunRow(j, i)
    BY <1>1, <1>2, <1>3 DEF MarkRunning, RunAnswerLost
  <2>2. \E row : /\ row.status = "running" /\ (~row.stale \/ step[j][i].stale)
                 /\ Touches(j, i, row)
    BY <1>0, <1>3, <2>1, RunRowTouches DEF Holds
  <2>3. \/ \E p \in {"work", "report"} : Stays(w, p) /\ StageOfKind(p, KindOf(w))
        \/ Leaves(w) /\ faults' > 0
    <3>1. CASE MarkRunning(w)
      <4>1. Goto(w, IF Kinds(j)[i] = "report" THEN "report" ELSE "work")
        BY <1>1, <1>2, <1>3, <3>1 DEF MarkRunning
      <4>2. KindOf(w) = Kinds(j)[i]
        BY <1>1, <1>2 DEF KindOf
      <4>3. PICK p \in {"work", "report"} : Goto(w, p) /\ (p = "report" => KindOf(w) = "report")
        BY <4>1, <4>2
      <4>4. Stays(w, p)
        BY <1>0, <4>3, SetHand
      <4>5. StageOfKind(p, KindOf(w))
        BY <4>3 DEF StageOfKind, ReportPCs
      <4> QED BY <4>4, <4>5
    <3>2. CASE RunAnswerLost(w)
      BY <3>2, SetHand, SameFact DEF RunAnswerLost
    <3> QED BY <3>1, <3>2
  <2>4. Runs(w)
    BY <1>0, <1>1, <1>2, <1>3, <2>2, <2>3 DEF Runs
  <2> QED BY <2>4 DEF Move
<1>4. CASE ~Holds(w, j, i)
  <2>1. Refused(w, j) /\ step' = step
    BY <1>1, <1>2, <1>4 DEF MarkRunning, RunAnswerLost
  <2> QED BY <1>0, <1>1, <1>2, <1>4, <2>1, SetHand, QuitMoves DEF SameRows
<1> QED BY <1>3, <1>4

LEMMA FailMoves ==
  ASSUME IInvPlus, NEW w \in Workers, FailStep(w) \/ BlockStep(w) \/ BlockAnswerLost(w)
  PROVE  Move
<1>1. InHand(w) /\ SameFilesOf /\ NoCommand
  BY SameFact DEF FailStep, BlockStep, BlockAnswerLost, InHand
<1>2. CASE Holds(w, wk[w].job, wk[w].step)
  <2>1. \E s \in Halted : FreeOne(wk[w].job, wk[w].step, s, s)
    BY <1>2 DEF FailStep, BlockStep, BlockAnswerLost, fail_step, Halted
  <2>2. Leaves(w)
    BY <1>2, SetHand DEF FailStep, BlockStep, BlockAnswerLost
  <2> QED BY <1>1, <1>2, <2>1, <2>2, HaltMoves
<1>3. CASE ~Holds(w, wk[w].job, wk[w].step)
  <2>1. Refused(w, wk[w].job) /\ SameRows
    BY <1>3, SameFact DEF FailStep, BlockStep, BlockAnswerLost
  <2> QED BY <1>1, <1>3, <2>1, SetHand, QuitMoves
<1> QED BY <1>2, <1>3

LEMMA FinishMoves ==
  ASSUME IInvPlus, NEW w \in Workers, FinishOk(w) \/ CompleteAnswerLost(w)
  PROVE  Move
<1>1. wk[w].pc = "ok" /\ InHand(w) /\ SameFilesOf /\ NoCommand
  BY SameFact DEF FinishOk, CompleteAnswerLost, InHand
<1> DEFINE j == wk[w].job
           i == wk[w].step
<1>2. CASE Holds(w, j, i) /\ CompleteRow(j, i) /\ Leave(w)
  BY <1>1, <1>2, SetHand, CompleteMoves
<1>3. CASE ~Holds(w, j, i) /\ (Refused(w, j) \/ Leave(w)) /\ UNCHANGED dbVars
  <2>1. Leaves(w) /\ SameRows
    BY <1>3, SetHand, SameFact
  <2> QED BY <1>1, <1>3, <2>1, QuitMoves
<1>4. \/ Holds(w, j, i) /\ CompleteRow(j, i) /\ Leave(w)
      \/ ~Holds(w, j, i) /\ (Refused(w, j) \/ Leave(w)) /\ UNCHANGED dbVars
  BY DEF FinishOk, CompleteAnswerLost, complete_step, Holds, Active
<1> QED BY <1>2, <1>3, <1>4

LEMMA FinishErrMoves ==
  ASSUME IInvPlus, NEW w \in Workers, FinishErr(w)
  PROVE  Move
<1>1. wk[w].pc = "err" /\ InHand(w) /\ SameFilesOf /\ NoCommand /\ SameRows
  BY SameFact DEF FinishErr, InHand
<1>2. CASE Goto(w, "block")
  BY <1>1, <1>2, JumpMoves DEF ReportPCs
<1>3. CASE ~Goto(w, "block")
  <2>1. Leave(w) /\ ~Holds(w, wk[w].job, wk[w].step)
    BY <1>3 DEF FinishErr, append_research_job_event, Holds, Active
  <2> QED BY <1>1, <2>1, SetHand, QuitMoves
<1> QED BY <1>2, <1>3

\* The process that stops, and starts again.
LEMMA StopMoves ==
  ASSUME IInvPlus, NEW w \in Workers, RequestLost(w) \/ Crash(w) \/ Restart(w)
  PROVE  Move
<1>1. Leaves(w) /\ SameRows /\ SameFilesOf /\ NoCommand
  BY SetHand, SameFact DEF RequestLost, Crash, Restart
<1>2. faults' > 0 \/ ~InHand(w)
  BY SameFact DEF RequestLost, Crash, Restart, InHand
<1>3. faults' = 0 /\ InHand(w) => FALSE
  BY <1>2
<1> QED BY <1>1, <1>3, QuitMoves

\* The results of the steps that write no files of an export.
LEMMA ResultMoves ==
  ASSUME IInvPlus, NEW w \in Workers,
         \/ \E ok \in BOOLEAN : verify_artifact_step(w, ok) \/ run_command_step(w, ok)
         \/ \E readable \in PathsReadable : plan_export_step(w, readable)
  PROVE  Move
<1>1. /\ wk[w].pc = "work" /\ InHand(w) /\ KindOf(w) \in {"verify", "command", "plan"}
      /\ SameRows /\ SameFilesOf /\ NoCommand
  BY SameFact DEF verify_artifact_step, run_command_step, plan_export_step, CommandStep,
     Working, InHand, KindOf, SameFilesOf, askedVars
<1>2. PICK p \in {"ok", "err"} : Goto(w, p)
  BY DEF verify_artifact_step, run_command_step, plan_export_step
<1> QED BY <1>1, <1>2, JumpMoves DEF ReportPCs

LEMMA SnapshotMoves ==
  ASSUME IInvPlus, NEW w \in Workers, NEW readable \in PathsReadable,
         snapshot_or_copy_runtime_step(w, readable)
  PROVE  Move
<1>1. /\ wk[w].pc = "work" /\ InHand(w) /\ KindOf(w) = "snapshot"
      /\ SameRows /\ NoCommand /\ UNCHANGED params
  BY SameFact DEF snapshot_or_copy_runtime_step, Working, InHand, KindOf, askedVars
<1>2. CASE Goto(w, "copy") /\ remove_sqlite_family(wk[w].job)
  <2>1. FileStep(w, "copy")
    BY <1>1, <1>2 DEF FileStep
  <2> QED BY <1>1, <1>2, <2>1, WriteMoves
<1>3. CASE UNCHANGED pack /\ Goto(w, IF readable /\ is_dry_run(wk[w].job) THEN "ok" ELSE "err")
  <2>1. PICK p \in {"ok", "err"} : Goto(w, p) /\ (p = "ok" => ~Real(wk[w].job))
    BY <1>3 DEF is_dry_run, Real
  <2>2. SameFilesOf
    BY <1>1, <1>3 DEF SameFilesOf
  <2> QED BY <1>1, <2>1, <2>2, JumpMoves DEF ReportPCs
<1> QED BY <1>2, <1>3 DEF snapshot_or_copy_runtime_step

LEMMA CopyMoves ==
  ASSUME IInvPlus, NEW w \in Workers, export_runtime_files(w)
  PROVE  Move
<1>1. wk[w].pc = "copy" /\ InHand(w) /\ SameRows /\ NoCommand /\ UNCHANGED params
  BY SameFact DEF export_runtime_files, InHand, askedVars
<1>2. CASE Goto(w, "ok") /\ \E same \in BOOLEAN : backup_sqlite_db(wk[w].job, same)
  <2>1. FileStep(w, "ok")
    BY <1>1, <1>2 DEF FileStep
  <2> QED BY <1>1, <1>2, <2>1, WriteMoves
<1>3. CASE Goto(w, "err") /\ UNCHANGED pack
  <2>1. SameFilesOf
    BY <1>1, <1>3 DEF SameFilesOf
  <2> QED BY <1>1, <1>3, <2>1, JumpMoves DEF ReportPCs
<1> QED BY <1>2, <1>3 DEF export_runtime_files

LEMMA ManifestMoves ==
  ASSUME IInvPlus, NEW w \in Workers, NEW readable \in PathsReadable,
         write_artifact_manifest_step(w, readable)
  PROVE  Move
<1>1. /\ wk[w].pc = "work" /\ InHand(w) /\ KindOf(w) = "manifest"
      /\ SameRows /\ NoCommand /\ UNCHANGED params
  BY SameFact DEF write_artifact_manifest_step, Working, InHand, KindOf, askedVars
<1>2. CASE Goto(w, "upsert") /\ build_manifest(wk[w].job) /\ write_export_manifest(wk[w].job)
  <2>1. FileStep(w, "upsert")
    BY <1>1, <1>2 DEF FileStep
  <2> QED BY <1>1, <1>2, <2>1, WriteMoves
<1>3. CASE UNCHANGED pack /\ Goto(w, IF readable /\ is_dry_run(wk[w].job) THEN "ok" ELSE "err")
  <2>1. PICK p \in {"ok", "err"} : Goto(w, p) /\ (p = "ok" => ~Real(wk[w].job))
    BY <1>3 DEF is_dry_run, Real
  <2>2. SameFilesOf
    BY <1>1, <1>3 DEF SameFilesOf
  <2> QED BY <1>1, <2>1, <2>2, JumpMoves DEF ReportPCs
<1> QED BY <1>2, <1>3 DEF write_artifact_manifest_step

LEMMA ArtifactMoves ==
  ASSUME IInvPlus, NEW w \in Workers, AttachArtifact(w) \/ ExportCallLost(w)
  PROVE  Move
<1>1. /\ InHand(w) /\ wk[w].pc # "leased" /\ SameRows /\ NoCommand /\ UNCHANGED params
  BY SameFact DEF AttachArtifact, ExportCallLost, Working, InHand, askedVars
<1>2. \/ \E p : Goto(w, p) /\ FileStep(w, p)
      \/ Goto(w, "err") /\ UNCHANGED pack
  BY DEF AttachArtifact, ExportCallLost, FileStep
<1>3. CASE \E p : Goto(w, p) /\ FileStep(w, p)
  BY <1>1, <1>3, WriteMoves
<1>4. CASE Goto(w, "err") /\ UNCHANGED pack
  <2>1. SameFilesOf
    BY <1>1, <1>4 DEF SameFilesOf
  <2> QED BY <1>1, <1>4, <2>1, JumpMoves DEF ReportPCs
<1> QED BY <1>2, <1>3, <1>4

\* Without a command no job reads as cancelled.
LEMMA KillMoves ==
  ASSUME IInvPlus, NEW w \in Workers, KillChild(w)
  PROVE  Move
<1>1. /\ wk[w].pc = "work" /\ InHand(w) /\ SameRows /\ SameFilesOf /\ NoCommand
      /\ Goto(w, "killed") /\ is_job_cancelled(wk[w].job)
  BY SameFact DEF KillChild, CommandStep, Working, InHand
<1>2. wk[w].job \in Jobs /\ job[wk[w].job] # "none"
  BY <1>1, HandStage
<1>3. job[wk[w].job] \in {"gone", "cancelled"}
  BY <1>1, <1>2 DEF is_job_cancelled, Exists
<1>4. cmds # 0
  BY <1>2, <1>3 DEF IInvPlus, HistoryInv, HaltsAreSingle, HaltIsSingle, Halted
<1>5. cmds >= 1
  BY <1>4, BaseFact
<1> QED BY <1>1, <1>5, JumpMoves DEF ReportPCs

LEMMA AfterKillMoves ==
  ASSUME IInvPlus, NEW w \in Workers, AfterKill(w) \/ CancelCallLost(w)
  PROVE  Move
<1>1. /\ wk[w].pc = "killed" /\ InHand(w) /\ SameFilesOf /\ NoCommand /\ Goto(w, "err")
  BY SameFact DEF AfterKill, CancelCallLost, InHand
<1>2. CASE UNCHANGED dbVars
  BY <1>1, <1>2, SameFact, JumpMoves DEF ReportPCs
<1>3. CASE Cancellable(wk[w].job) /\ CancelRows(wk[w].job)
  <2>1. Cancels(wk[w].job)
    BY <1>1, <1>3, AtFact, CancelRowsFact
  <2>2. Kills(w)
    BY <1>1, <2>1, SetHand DEF Kills
  <2> QED BY <2>2 DEF Move
<1> QED BY <1>2, <1>3 DEF AfterKill, CancelCallLost

LEMMA ReportMoves ==
  ASSUME IInvPlus, NEW w \in Workers,
         \/ ReportCheck(w) \/ GenerateReport(w) \/ PlanFails(w) \/ PublishReport(w)
         \/ \E ok \in BOOLEAN : ArchiveScratch(w, ok)
         \/ ReportCallLost(w) \/ ArchiveCallLost(w)
  PROVE  Move
<1>1. wk[w].pc \in ReportPCs
  BY DEF ReportCheck, GenerateReport, PlanFails, PublishReport, ArchiveScratch,
     ReportCallLost, ArchiveCallLost, ReportPCs
<1>2. InHand(w) /\ wk[w].pc # "leased"
  BY <1>1 DEF InHand, ReportPCs
<1>3. KindOf(w) = "report"
  BY <1>1, <1>2, HandStage DEF StageOfKind
<1>4. SameRows /\ SameFilesOf /\ NoCommand
  BY SameFact DEF ReportCheck, GenerateReport, PlanFails, PublishReport, ArchiveScratch,
     ReportCallLost, ArchiveCallLost, SameFilesOf, fileVars, askedVars
<1>5. \E p \in {"ok", "err"} \cup ReportPCs : Goto(w, p)
  <2>1. CASE ReportCheck(w)
    <3>1. CASE ReportCancelled(wk[w].job, wk[w].step)
      BY <2>1, <3>1 DEF ReportCheck
    <3>2. CASE ~ReportCancelled(wk[w].job, wk[w].step) /\ wk[w].pc = "report"
      BY <2>1, <3>2 DEF ReportCheck, ReportPCs
    <3>3. CASE ~ReportCancelled(wk[w].job, wk[w].step) /\ wk[w].pc = "archcheck"
      BY <2>1, <3>3 DEF ReportCheck, ReportPCs
    <3>4. CASE ~ReportCancelled(wk[w].job, wk[w].step) /\ wk[w].pc = "pubcheck"
      BY <2>1, <3>4 DEF ReportCheck, ReportPCs
    <3> QED BY <2>1, <3>1, <3>2, <3>3, <3>4 DEF ReportCheck
  <2>2. CASE GenerateReport(w) \/ \E ok \in BOOLEAN : ArchiveScratch(w, ok)
    BY <2>2 DEF GenerateReport, ArchiveScratch, ReportPCs
  <2>3. CASE PlanFails(w) \/ PublishReport(w) \/ ReportCallLost(w) \/ ArchiveCallLost(w)
    BY <2>3 DEF PlanFails, PublishReport, ReportCallLost, ArchiveCallLost
  <2> QED BY <2>1, <2>2, <2>3
<1> QED BY <1>2, <1>3, <1>4, <1>5, JumpMoves DEF ReportPCs

LEMMA OperatorMoves ==
  ASSUME IInvPlus, Operator
  PROVE  Move
<1>1. PICK j \in Jobs :
        \/ CreateJob(j) \/ UpdateQueuedJob(j) \/ PauseJob(j) \/ ResumeJob(j) \/ RetryJob(j)
        \/ CancelJob(j) \/ DeleteJob(j)
        \/ RegenerateReport(j) \/ ArchiveJobScratch(j) \/ delete_report(j)
        \/ ArchiveReport(j) \/ RestoreReport(j) \/ update_report(j)
        \/ archive_retention(j)
        \/ \E i \in StepIx(j) : \/ RetryStep(j, i) \/ CancelStep(j, i)
                                 \/ ClearStaleLease(j, i) \/ ResolveBlocker(j, i)
  BY DEF Operator, StepRequest
<1>2. cmds \in Nat /\ faults \in Nat
  BY BaseFact
<1>3. CASE CreateJob(j)
  <2>1. Starts(j)
    BY <1>2, <1>3, SameFact DEF CreateJob, Starts, OpenStep
  <2> QED BY <2>1 DEF Move
<1>4. CASE UpdateQueuedJob(j)
  <2>1. \A k \in Jobs : k # j => params'[k] = params[k]
    BY <1>4 DEF UpdateQueuedJob, IInvPlus, IInv, TypeOK, FileTypeOK
  <2>2. Asks(j)
    BY <1>4, <2>1, SameFact DEF UpdateQueuedJob, Asks, Command, ACommand
  <2> QED BY <2>2 DEF Move
<1>5. CASE PauseJob(j) \/ ResumeJob(j) \/ RetryJob(j) \/ CancelJob(j) \/ DeleteJob(j)
  <2>1. SameFilesOf /\ ACommand
    BY <1>5, SameFact DEF PauseJob, ResumeJob, RetryJob, CancelJob, DeleteJob, Command, ACommand
  <2>2. ASSUME PauseJob(j) PROVE RowCommand(j)
    BY <2>2, FreeRows DEF PauseJob, RowCommand, Runnable
  <2>3. ASSUME job[j] = "paused" /\ ResumeJob(j) PROVE RowCommand(j)
    <3>1. FreeAll(j, {"paused"}, "queued") /\ job' = [job EXCEPT ![j] = "queued"]
      BY <2>3 DEF ResumeJob, Retriable
    <3> QED BY <2>3, <3>1, FreeRows DEF RowCommand
  <2>4. ASSUME job[j] \in Retriable /\ RetryRows(j) PROVE RowCommand(j)
    BY <2>4, FreeRows DEF RetryRows, RowCommand
  <2>5. ASSUME CancelJob(j) PROVE RowCommand(j)
    BY <2>5, CancelRowsFact DEF CancelJob, RowCommand
  <2>6. ASSUME DeleteJob(j) PROVE RowCommand(j)
    <3>1. job \in [Jobs -> JobStatus] /\ DOMAIN step = Jobs
      BY DEF IInvPlus, IInv, TypeOK, DbTypeOK
    <3>2. Removes(j)
      BY <2>6, <3>1 DEF DeleteJob, Removes
    <3> QED BY <3>2 DEF RowCommand
  <2>7. RowCommand(j)
    BY <1>5, <2>2, <2>3, <2>4, <2>5, <2>6 DEF ResumeJob, RetryJob
  <2>8. Commands(j)
    BY <2>1, <2>7 DEF Commands
  <2> QED BY <2>8 DEF Move
<1>6. ASSUME NEW i \in StepIx(j),
             RetryStep(j, i) \/ CancelStep(j, i) \/ ClearStaleLease(j, i) \/ ResolveBlocker(j, i)
      PROVE  Move
  <2>1. SameFilesOf /\ ACommand /\ Exists(j)
    BY <1>6, SameFact DEF RetryStep, CancelStep, ClearStaleLease, ResolveBlocker, Command, ACommand
  <2>2. ASSUME RetryStep(j, i) \/ ResolveBlocker(j, i) PROVE StepCommand(j, i)
    <3>1. /\ step[j][i].status \in Retriable \cup {"paused"}
          /\ FreeOne(j, i, "queued", "queued")
      BY <2>2 DEF RetryStep, ResolveBlocker, Retriable
    <3> QED BY <2>1, <3>1, FreeRow DEF StepCommand
  <2>3. ASSUME CancelStep(j, i) PROVE StepCommand(j, i)
    BY <2>1, <2>3, FreeRow DEF CancelStep, StepCommand
  <2>4. ASSUME ClearStaleLease(j, i) PROVE StepCommand(j, i)
    BY <2>1, <2>4, FreeRow DEF ClearStaleLease, StepCommand
  <2>5. StepCommands(j, i)
    BY <1>6, <2>1, <2>2, <2>3, <2>4 DEF StepCommands
  <2> QED BY <2>5 DEF Move
<1>7. CASE \/ RegenerateReport(j) \/ ArchiveJobScratch(j) \/ delete_report(j)
           \/ ArchiveReport(j) \/ RestoreReport(j)
  <2>1. /\ cmds' = cmds + 1 /\ UNCHANGED <<dbVars, askedVars, pack, wk, faults>>
    BY <1>7 DEF RegenerateReport, ArchiveJobScratch, delete_report, ArchiveReport,
       RestoreReport, OnReport, Command
  <2>2. Idles
    BY <1>2, <2>1 DEF Idles, dbVars, askedVars
  <2> QED BY <2>2 DEF Move
<1> QED BY <1>1, <1>3, <1>4, <1>5, <1>6, <1>7
        DEF update_report, archive_retention, RetentionReport, RetentionJob

LEMMA NextMoves ==
  ASSUME IInvPlus, [Next]_vars
  PROVE  Move
<1>1. CASE Operator
  BY <1>1, OperatorMoves
<1>2. CASE Environment
  BY <1>2, DeadlineMoves, LeaseMoves, StopMoves, RunMoves, FinishMoves, FailMoves,
     ReportMoves, AfterKillMoves, ArtifactMoves DEF Environment
<1>3. ASSUME NEW w \in Workers, WorkerStep(w) PROVE Move
  <2>1. ExportStep(w) => Move
    BY ResultMoves, SnapshotMoves, ManifestMoves, CopyMoves, ArtifactMoves DEF ExportStep
  <2> QED BY <1>3, <2>1, LeaseMoves, RunMoves, ResultMoves, AfterKillMoves, ReportMoves,
             FinishMoves, FinishErrMoves, FailMoves, StopMoves DEF WorkerStep
<1>4. ASSUME NEW w \in Workers, Supervise(w) PROVE Move
  BY <1>4, RenewMoves, KillMoves DEF Supervise
<1>5. CASE UNCHANGED vars
  <2>1. cmds \in Nat
    BY BaseFact
  <2>2. Idles
    BY <1>5, <2>1 DEF vars, Idles
  <2> QED BY <2>2 DEF Move
<1> QED BY <1>1, <1>2, <1>3, <1>4, <1>5 DEF Next

-----------------------------------------------------------------------------
(***************************************************************************)
(* The specification.                                                      *)
(***************************************************************************)
LEMMA InitHistory ==
  ASSUME Init
  PROVE  IInvPlus
<1>1. IInv
  BY InitSafe
<1>2. \A w \in Workers : ~InHand(w)
  BY DEF Init, InHand, Idle
<1>3. \A j \in Jobs : /\ job[j] = "none" /\ ~Exists(j)
                      /\ \A i \in StepIx(j) : step[j][i] = FreshStep
  BY DEF Init, Exists
<1>4. HandsAreReal /\ WorkersHold
  BY <1>2 DEF HandsAreReal, WorkersHold
<1>5. HaltsAreSingle /\ RunnableRuns /\ LeasesAreAttended
  <2>1. FreshStep.status = "queued"
    BY DEF FreshStep
  <2>2. \A j \in Jobs : \A i \in StepIx(j) : step[j][i].status = "queued"
    BY <1>3, <2>1
  <2>3. \A j \in Jobs : HaltIsSingle(j)
    BY <1>3, <2>2 DEF HaltIsSingle, Halted
  <2>4. \A j \in Jobs : StepsRun(j)
    BY <2>2 DEF StepsRun
  <2>5. \A j \in Jobs : \A i \in StepIx(j) : LeaseIsAttended(j, i)
    BY <2>2 DEF LeaseIsAttended, Active
  <2> QED BY <2>3, <2>4, <2>5 DEF HaltsAreSingle, RunnableRuns, LeasesAreAttended
<1>6. ManifestAttaches
  <2>1. ASSUME NEW j \in Jobs, Real(j) PROVE step[j][3].status # "completed"
    BY <1>1, <1>3, <2>1, RealPlan DEF FreshStep
  <2> QED BY <1>2, <2>1 DEF ManifestAttaches, At
<1>7. FilesStay
  BY <1>3 DEF FilesStay, Untouched
<1> QED BY <1>1, <1>4, <1>5, <1>6, <1>7 DEF IInvPlus, HistoryInv

LEMMA HistoryNext ==
  ASSUME IInvPlus, [Next]_vars
  PROVE  IInvPlus'
<1>1. IInv' /\ UNCHANGED type /\ Move
  BY NextIsSafe, NextSafe, NextMoves DEF IInvPlus, Safe, DbStep
<1>2. HandsAreReal' /\ HaltsAreSingle' /\ RunnableRuns'
  BY <1>1, HandsMove, HaltsMove, RunnableMove
<1>3. LeasesAreAttended' /\ WorkersHold' /\ ManifestAttaches' /\ FilesStay'
  BY <1>1, LeasesMove, HoldsMove, AttachMove, FilesMove
<1> QED BY <1>1, <1>2, <1>3 DEF IInvPlus, HistoryInv

LEMMA HistoryInvariant == Spec => []IInvPlus
<1>1. Init => IInvPlus
  BY InitHistory
<1>2. IInvPlus /\ [Next]_vars => IInvPlus'
  BY HistoryNext
<1> QED BY <1>1, <1>2, PTL DEF Spec

Less == {pair \in Nat \X Nat : pair[1] < pair[2]}

\* A set of numbers that is not empty has a least one.
LEMMA LeastOf ==
  ASSUME NEW S \in SUBSET Nat, S # {}
  PROVE  \E m \in S : \A k \in S : m <= k
<1>1. IsWellFoundedOn(Less, Nat)
  BY NatLessThanWellFounded DEF OpToRel, Less
<1>2. PICK m \in S : \A k \in S : <<k, m>> \notin Less
  BY <1>1, WFMin
<1>3. \A k \in S : ~(k < m)
  BY <1>2 DEF Less
<1> QED BY <1>3

\* A runnable job has a first step that is not completed.
LEMMA FirstOpen ==
  ASSUME IInvPlus, NEW j \in Jobs, Runnable(j)
  PROVE  \E i \in StepIx(j) : step[j][i].status # "completed" /\ Prior(j, i)
<1> DEFINE S == {i \in StepIx(j) : step[j][i].status # "completed"}
<1>1. Exists(j) /\ job[j] # "completed"
  BY DEF Runnable, Exists
<1>2. DOMAIN step[j] = StepIx(j) /\ StepIx(j) = 1..Len(Kinds(j)) /\ Len(Kinds(j)) \in Nat
  BY PlanFact DEF IInvPlus, IInv, TypeOK, DbTypeOK
<1>3. S # {}
  BY <1>1, <1>2 DEF IInvPlus, IInv, CompletedIffStepsAre, AllCompleted
<1>4. S \in SUBSET Nat
  BY <1>2
<1>5. PICK i \in S : \A k \in S : i <= k
  <2> HIDE DEF S
  <2> QED BY <1>3, <1>4, LeastOf
<1>6. ASSUME NEW k \in 1..(i - 1) PROVE step[j][k].status = "completed"
  <2>1. k \in StepIx(j) /\ ~(i <= k)
    BY <1>2
  <2> QED BY <1>5, <2>1
<1> QED BY <1>5, <1>6 DEF Prior

\* Neither the workers' failures, nor expired leases and lost answers, nor any
\* one operator command can leave a job that still counts as runnable without a
\* step to lease: block_research_step, fail_research_step and the commands of
\* research jobs always move the job with the step they stop.
THEOREM WedgeNeedsTwoCommands == Spec => []WedgeTakesTwoCommands
<1>1. ASSUME IInvPlus PROVE WedgeTakesTwoCommands
  <2> SUFFICES ASSUME NEW j \in Jobs, Wedged(j), ~(cmds >= 2) PROVE FALSE
    BY DEF WedgeTakesTwoCommands
  <2>1. cmds <= 1
    BY <1>1, BaseFact
  <2>2. Runnable(j)
    BY DEF Wedged, Runnable
  <2>3. PICK i \in StepIx(j) : step[j][i].status # "completed" /\ Prior(j, i)
    BY <1>1, <2>2, FirstOpen
  <2>4. step[j][i].status \in {"queued", "retryable"} \cup Active
    BY <1>1, <2>1, <2>2, <2>3 DEF IInvPlus, HistoryInv, RunnableRuns, StepsRun
  <2>5. step[j][i].status \in {"queued", "retryable"}
    BY <2>4 DEF Wedged
  <2>6. Leasable(j, i)
    BY <2>3, <2>5 DEF Leasable, Wedged, Prior
  <2> QED BY <2>6 DEF Wedged
<1> QED BY <1>1, HistoryInvariant, PTL

\* When complete_research_step closes a real export, the artifact its manifest
\* step attached is there, and without an expired lease, a lost answer or two
\* operator commands its files are still the ones the manifest describes: no
\* second worker can have run snapshot_or_copy_runtime_step behind the one that
\* wrote it.
THEOREM ExportIsWholeHolds == Spec => []ExportIsWhole
<1>1. ASSUME IInvPlus PROVE ExportIsWhole
  <2> SUFFICES ASSUME NEW j \in Jobs, job[j] = "completed", Real(j)
               PROVE  Attached(j) /\ (verify_artifact(j) \/ faults >= 1 \/ cmds >= 2)
    BY DEF ExportIsWhole, Real, Attached
  <2>1. IInv /\ Exists(j) /\ 3 \in StepIx(j)
    BY <1>1, RealPlan DEF IInvPlus, Exists
  <2>2. DOMAIN step[j] = StepIx(j)
    BY <2>1 DEF IInv, TypeOK, DbTypeOK
  <2>3. \A i \in StepIx(j) : step[j][i].status = "completed"
    BY <2>1, <2>2 DEF IInv, CompletedIffStepsAre, AllCompleted
  <2>4. Attached(j)
    BY <1>1, <2>1, <2>3 DEF IInvPlus, HistoryInv, ManifestAttaches
  <2>5. ASSUME ~(faults >= 1), ~(cmds >= 2) PROVE verify_artifact(j)
    <3>1. faults = 0 /\ cmds <= 1
      BY <1>1, <2>5, BaseFact
    <3>2. Untouched(j)
      BY <2>1, <2>3 DEF Untouched, Doomed
    <3> QED BY <1>1, <2>1, <2>3, <3>1, <3>2 DEF IInvPlus, HistoryInv, FilesStay
  <2> QED BY <2>4, <2>5
<1> QED BY <1>1, HistoryInvariant, PTL
=============================================================================
