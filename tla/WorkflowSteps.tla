--------------------------- MODULE WorkflowSteps ----------------------------
(***************************************************************************)
(* The type invariant of Workflow, with its proof; what a step may do to   *)
(* each variable, from which the other invariants are shown to be          *)
(* preserved; and the first of these, TruthInv.                            *)
(***************************************************************************)
EXTENDS WorkflowInv, FiniteSetTheorems, TLAPS

LEMMA ExaminationType ==
    ASSUME NEW pc \in {"idle", "update", "schedule"}, NEW run \in Runs,
           NEW seen \in [Tasks -> TaskRunStates],
           NEW dirty \in SUBSET TaskRuns, NEW dirtyRuns \in SUBSET Runs
    PROVE  Examination(pc, run, seen, dirty, dirtyRuns) \in Exam
BY DEF Examination, Exam

LEMMA NoExamType == NoExam \in Exam
<1>1. (CHOOSE r \in Runs : TRUE) \in Runs
  BY WorkflowAssumption
<1>2. [t \in Tasks |-> "absent"] \in [Tasks -> TaskRunStates]
  BY DEF TaskRunStates
<1> QED
  BY <1>1, <1>2, ExaminationType DEF NoExam

LEMMA JobType ==
    ASSUME NEW kind \in JobKinds, NEW trs \in SUBSET TaskRuns, NEW late \in SUBSET TaskRuns
    PROVE  Job(kind, trs, late) \in Jobs
BY DEF Job, Jobs

LEMMA IdleType == IdleJob \in Jobs
BY JobType DEF IdleJob, JobKinds

LEMMA DirtiedType ==
    ASSUME TypeOK, NEW trs \in SUBSET TaskRuns, NEW runs \in SUBSET Runs
    PROVE  Dirtied(trs, runs) \in [Schedulers -> Exam]
<1> SUFFICES ASSUME NEW s \in Schedulers, exam[s].pc = "update"
             PROVE  Dirtied(trs, runs)[s] \in Exam
  BY DEF Dirtied, TypeOK
<1>1. exam[s] \in Exam
  BY DEF TypeOK
<1> QED
  BY <1>1, ExaminationType DEF Dirtied, Exam

LEMMA WriteType ==
    ASSUME TypeOK, NEW trs, NEW state \in TaskRunStates
    PROVE  WriteTasks(trs, state) \in [TaskRuns -> TaskRunStates]
BY DEF TypeOK, WriteTasks

LEMMA WithoutType ==
    ASSUME NEW S, NEW q \in Seq(S), NEW x
    PROVE  Without(q, x) \in Seq(S) /\ Items(Without(q, x)) \subseteq Items(q)
<1>1. CASE x \notin Items(q)
  BY <1>1 DEF Without
<1>2. CASE x \in Items(q)
  <2> DEFINE i == CHOOSE i \in 1..Len(q) : q[i] = x
  <2>1. i \in 1..Len(q)
    BY <1>2 DEF Items
  <2> HIDE DEF i
  <2> DEFINE p == [j \in 1..(Len(q) - 1) |-> IF j < i THEN q[j] ELSE q[j + 1]]
  <2>2. Without(q, x) = p
    BY <1>2 DEF Without, i
  <2>3. \A j \in 1..(Len(q) - 1) : p[j] \in Items(q) /\ p[j] \in S
    BY <2>1 DEF Items
  <2>4. Len(q) - 1 \in Nat
    BY <2>1
  <2>5. p \in Seq(S) /\ Len(p) = Len(q) - 1
    BY <2>3, <2>4
  <2> QED
    BY <2>2, <2>3, <2>5 DEF Items
<1> QED
  BY <1>1, <1>2

LEMMA AppendItems ==
    ASSUME NEW S, NEW q \in Seq(S), NEW x \in S
    PROVE  Items(Append(q, x)) = Items(q) \cup {x}
BY DEF Items

LEMMA TailItems ==
    ASSUME NEW S, NEW q \in Seq(S), q # <<>>
    PROVE  /\ Head(q) \in Items(q)
           /\ q[Len(q)] \in Items(q)
           /\ Tail(q) \in Seq(S)
           /\ Items(Tail(q)) \subseteq Items(q)
BY DEF Items

LEMMA ItemsType ==
    ASSUME NEW S, NEW q \in Seq(S)
    PROVE  Items(q) \subseteq S
BY DEF Items

LEMMA OrdersType ==
    ASSUME NEW S \in SUBSET TaskRuns, NEW q \in Orders(S)
    PROVE  q \in Seq(TaskRuns) /\ Items(q) = S
<1>1. IsFiniteSet(S)
  BY WorkflowAssumption, FS_Product, FS_Subset DEF TaskRuns
<1>2. Cardinality(S) \in Nat
  BY <1>1, FS_CardinalityType
<1>3. q \in [1..Cardinality(S) -> S] /\ Items(q) = S
  BY DEF Orders
<1> QED
  BY <1>2, <1>3

LEMMA BecomesType ==
    ASSUME TypeOK, NEW e \in Executors, NEW w \in Slots, NEW job \in Jobs, Becomes(e, w, job)
    PROVE  jobs' \in [Executors -> [Slots -> Jobs]]
BY DEF TypeOK, Becomes

LEMMA SubmitType ==
    ASSUME TypeOK, NEW e \in Executors, NEW job \in Jobs, Submit(e, job)
    PROVE  jobs' \in [Executors -> [Slots -> Jobs]]
BY DEF TypeOK, Submit

LEMMA FaultType == ASSUME TypeOK, Fault PROVE faults' \in 0..MaxFaults
BY WorkflowAssumption DEF TypeOK, Fault

LEMMA AdvanceType ==
    ASSUME TypeOK, NEW e \in Executors, NEW w \in Slots, NEW kind \in JobKinds,
           Advance(e, w, kind)
    PROVE  jobs' \in [Executors -> [Slots -> Jobs]]
<1>1. jobs[e][w].trs \in SUBSET TaskRuns /\ jobs[e][w].late \in SUBSET TaskRuns
  BY DEF TypeOK, Jobs
<1> QED
  BY <1>1, JobType, BecomesType DEF Advance

(* The rows, processes and jobs start with values of their types. *)
THEOREM TypeInitial == Init => TypeOK
<1> SUFFICES ASSUME Init PROVE TypeOK
  OBVIOUS
<1>1. <<>> \in Seq(SUBSET Runs) /\ <<>> \in Seq(TaskRuns)
  OBVIOUS
<1>2. faults \in 0..MaxFaults
  BY WorkflowAssumption DEF Init
<1> QED
  BY <1>1, <1>2, NoExamType, IdleType
  DEF Init, TypeOK, DagRunStates, TaskRunStates, UnfinishedStates, OperationStates

LEMMA TypeScheduler ==
    ASSUME TypeOK, NEW s \in Schedulers, SchedulerStep(s)
    PROVE  TypeOK'
<1> USE DEF schedulerVars, executorVars, tables
<1>1. ASSUME NEW state \in {"queued", "running"}, FetchRuns(s, state) PROVE TypeOK'
  BY <1>1 DEF FetchRuns, TypeOK
<1>2. CASE NextBatch(s)
  BY <1>2 DEF NextBatch, TypeOK
<1>3. ASSUME NEW r \in Runs, BeginUpdate(s, r) PROVE TypeOK'
  <2>1. [t \in Tasks |-> trow[<<r, t>>]] \in [Tasks -> TaskRunStates]
    BY DEF TypeOK, TaskRuns
  <2>2. exam' \in [Schedulers -> Exam]
    BY <1>3, <2>1, ExaminationType DEF BeginUpdate, TypeOK
  <2> QED
    BY <1>3, <2>2 DEF BeginUpdate, TypeOK
<1>4. CASE CommitUpdate(s)
  <2> DEFINE r == exam[s].run
             seen == exam[s].seen
  <2>1. r \in Runs /\ seen \in [Tasks -> TaskRunStates]
    BY DEF TypeOK, Exam
  <2>2. SkippedRows(s) \in SUBSET TaskRuns
    BY <2>1 DEF SkippedRows, Skippable, TaskRuns
  <2>3. RunState(seen) \in DagRunStates
    BY DEF RunState, DagRunStates
  <2>4. Examination("schedule", r, seen, {}, {}) \in Exam
    BY <2>1, ExaminationType
  <2>5. Dirtied(SkippedRows(s), {r}) \in [Schedulers -> Exam]
    BY <2>1, <2>2, DirtiedType
  <2>6. exam' \in [Schedulers -> Exam]
    BY <1>4, <2>4, <2>5, NoExamType DEF CommitUpdate
  <2>7. trow' \in [TaskRuns -> TaskRunStates]
    BY <1>4, WriteType DEF CommitUpdate, TaskRunStates, FinishedStates
  <2>8. drun' \in [Runs -> DagRunStates]
    BY <1>4, <2>3 DEF CommitUpdate, TypeOK
  <2> QED
    BY <1>4, <2>6, <2>7, <2>8 DEF CommitUpdate, TypeOK
<1>5. CASE ConflictUpdate(s)
  BY <1>5, NoExamType DEF ConflictUpdate, TypeOK
<1>6. CASE ScheduleTrs(s)
  <2> DEFINE rows == {tr \in {exam[s].run} \X Ready(exam[s].seen) : trow[tr] = "scheduled"}
  <2>1. exam[s].run \in Runs
    BY DEF TypeOK, Exam
  <2>2. rows \in SUBSET TaskRuns
    BY <2>1 DEF Ready, TaskRuns
  <2>3. exam' \in [Schedulers -> Exam]
    BY <1>6, <2>2, DirtiedType, NoExamType DEF ScheduleTrs
  <2>4. trow' \in [TaskRuns -> TaskRunStates]
    BY <1>6, WriteType DEF ScheduleTrs, TaskRunStates, UnfinishedStates
  <2> QED
    BY <1>6, <2>3, <2>4 DEF ScheduleTrs, TypeOK
<1>7. CASE SchedulerFault(s)
  BY <1>7, NoExamType, FaultType DEF SchedulerFault, TypeOK
<1>8. CASE SchedulerCrash(s)
  <2>1. <<>> \in Seq(SUBSET Runs)
    OBVIOUS
  <2> QED
    BY <1>8, <2>1, NoExamType, FaultType DEF SchedulerCrash, TypeOK
<1> QED
  BY <1>1, <1>2, <1>3, <1>4, <1>5, <1>6, <1>7, <1>8 DEF SchedulerStep

LEMMA TypeExecutor ==
    ASSUME TypeOK, NEW e \in Executors, ExecutorStep(e)
    PROVE  TypeOK'
<1> USE DEF schedulerVars, executorVars, tables
<1>0. Orphans \subseteq TaskRuns
  BY DEF Orphans
<1>1. ASSUME NEW tr \in TaskRuns, SubmitStart(e, tr) PROVE TypeOK'
  <2>1. Job("start", {tr}, {}) \in Jobs
    BY JobType DEF JobKinds
  <2>2. jobs' \in [Executors -> [Slots -> Jobs]]
    BY <1>1, <2>1, SubmitType DEF SubmitStart
  <2> QED
    BY <1>1, <2>2 DEF SubmitStart, TypeOK
<1>2. CASE BeginPoll(e)
  BY <1>2 DEF BeginPoll, TypeOK
<1>3. CASE PollItem(e)
  <2>1. /\ Head(pass[e]) \in TaskRuns
        /\ pass[e][Len(pass[e])] \in TaskRuns
        /\ Tail(pass[e]) \in Seq(TaskRuns)
    BY <1>3, TailItems, ItemsType DEF PollItem, TypeOK
  <2>2. PollJob(e, Head(pass[e])) \in Jobs
    <3> DEFINE tr == Head(pass[e])
               last == {pass[e][Len(pass[e])]}
    <3>1. {tr} \in SUBSET TaskRuns /\ last \in SUBSET TaskRuns /\ {} \in SUBSET TaskRuns
      BY <2>1
    <3>2. {"succeed", "fail", "mark"} \subseteq JobKinds
      BY DEF JobKinds
    <3>3. /\ Job("succeed", {tr}, last) \in Jobs
          /\ Job("fail", {tr}, last) \in Jobs
          /\ Job("mark", {tr}, {}) \in Jobs
      BY <3>1, <3>2, JobType
    <3> QED
      BY <3>3 DEF PollJob
  <2>3. jobs' \in [Executors -> [Slots -> Jobs]]
    BY <1>3, <2>2, SubmitType DEF PollItem
  <2> QED
    BY <1>3, <2>1, <2>3 DEF PollItem, TypeOK
<1>4. CASE PollItemFault(e)
  <2>1. Tail(pass[e]) \in Seq(TaskRuns)
    BY <1>4, TailItems DEF PollItemFault, TypeOK
  <2> QED
    BY <1>4, <2>1, FaultType DEF PollItemFault, TypeOK
<1>5. ASSUME NEW tr \in TaskRuns, PopPending(e, tr) PROVE TypeOK'
  <2>1. Without(pend[e], tr) \in Seq(TaskRuns)
    BY WithoutType DEF TypeOK
  <2> QED
    BY <1>5, <2>1 DEF PopPending, TypeOK
<1>6. CASE SkipOrphans(e)
  <2>1. Job("oskip", QueuedOrphans, {}) \in Jobs
    BY <1>0, JobType DEF JobKinds, QueuedOrphans
  <2>2. jobs' \in [Executors -> [Slots -> Jobs]]
    BY <1>6, <2>1, SubmitType DEF SkipOrphans
  <2> QED
    BY <1>6, <2>2 DEF SkipOrphans, TypeOK
<1>7. ASSUME NEW aborted \in TaskRuns, NEW marked \in TaskRuns, AbortOrphan(e, aborted, marked)
      PROVE  TypeOK'
  <2>1. Job("abort", {aborted} \cap RunningOrphans, {marked}) \in Jobs
    BY JobType DEF JobKinds
  <2>2. jobs' \in [Executors -> [Slots -> Jobs]]
    BY <1>7, <2>1, SubmitType DEF AbortOrphan
  <2> QED
    BY <1>7, <2>2 DEF AbortOrphan, TypeOK
<1>8. CASE ExecutorCrash(e)
  <2>1. PICK q \in Orders({tr \in TaskRuns : trow[tr] = "running"}) :
            pend' = [pend EXCEPT ![e] = q]
    BY <1>8 DEF ExecutorCrash
  <2>2. q \in Seq(TaskRuns)
    BY OrdersType
  <2>3. <<>> \in Seq(TaskRuns)
    OBVIOUS
  <2> QED
    BY <1>8, <2>1, <2>2, <2>3, IdleType, FaultType DEF ExecutorCrash, TypeOK
<1> QED
  BY <1>1, <1>2, <1>3, <1>4, <1>5, <1>6, <1>7, <1>8 DEF ExecutorStep

LEMMA TypePoolJob ==
    ASSUME TypeOK, NEW e \in Executors, NEW w \in Slots, PoolJobStep(e, w)
    PROVE  TypeOK'
<1> USE DEF schedulerVars, executorVars, tables
<1>0. /\ jobs[e][w].trs \in SUBSET TaskRuns
      /\ jobs[e][w].late \in SUBSET TaskRuns
      /\ \A tr \in jobs[e][w].trs : tr \in TaskRuns /\ tr[1] \in Runs
  BY DEF TypeOK, Jobs, TaskRuns
<1>1. ASSUME NEW trs, Start(trs) PROVE oper' \in [TaskRuns -> OperationStates]
  BY <1>1 DEF Start, TypeOK, OperationStates
<1>2. ASSUME NEW runs \in SUBSET Runs PROVE Dirtied({}, runs) \in [Schedulers -> Exam]
  BY DirtiedType
<1>3. CASE ReadManifest(e, w)
  <2>1. jobs' \in [Executors -> [Slots -> Jobs]]
    BY <1>3, AdvanceType DEF ReadManifest, JobKinds
  <2> QED
    BY <1>3, <2>1 DEF ReadManifest, TypeOK
<1>4. CASE ManifestUnreadable(e, w)
  <2>1. jobs' \in [Executors -> [Slots -> Jobs]]
    BY <1>4, AdvanceType DEF ManifestUnreadable, JobKinds
  <2>2. drun' \in [Runs -> DagRunStates]
    BY <1>0, <1>4 DEF ManifestUnreadable, TypeOK, DagRunStates
  <2>3. exam' \in [Schedulers -> Exam]
    BY <1>0, <1>2, <1>4 DEF ManifestUnreadable
  <2> QED
    BY <1>4, <2>1, <2>2, <2>3 DEF ManifestUnreadable, TypeOK
<1>5. CASE RunOperation(e, w)
  <2>1. jobs' \in [Executors -> [Slots -> Jobs]]
    BY <1>5, AdvanceType DEF RunOperation, JobKinds
  <2> QED
    BY <1>1, <1>5, <2>1 DEF RunOperation, TypeOK
<1>6. CASE RunOperationFault(e, w)
  <2>1. jobs' \in [Executors -> [Slots -> Jobs]]
    BY <1>6, AdvanceType DEF RunOperationFault, JobKinds
  <2>2. oper' \in [TaskRuns -> OperationStates]
    BY <1>1, <1>6 DEF RunOperationFault, TypeOK
  <2> QED
    BY <1>6, <2>1, <2>2, FaultType DEF RunOperationFault, TypeOK
<1>7. CASE SetRunRunning(e, w)
  <2>1. jobs' \in [Executors -> [Slots -> Jobs]]
    BY <1>7, AdvanceType DEF SetRunRunning, JobKinds
  <2>2. pend' \in [Executors -> Seq(TaskRuns)]
    BY <1>0, <1>7 DEF SetRunRunning, TypeOK
  <2>3. drun' \in [Runs -> DagRunStates]
    BY <1>0, <1>7 DEF SetRunRunning, TypeOK, DagRunStates
  <2>4. exam' \in [Schedulers -> Exam]
    BY <1>0, <1>2, <1>7 DEF SetRunRunning
  <2> QED
    BY <1>7, <2>1, <2>2, <2>3, <2>4 DEF SetRunRunning, TypeOK
<1>15. CASE SetRunRunningUnanswered(e, w)
  <2>1. jobs' \in [Executors -> [Slots -> Jobs]]
    BY <1>15, AdvanceType DEF SetRunRunningUnanswered, JobKinds
  <2>2. drun' \in [Runs -> DagRunStates]
    BY <1>0, <1>15 DEF SetRunRunningUnanswered, TypeOK, DagRunStates
  <2>3. exam' \in [Schedulers -> Exam]
    BY <1>0, <1>2, <1>15 DEF SetRunRunningUnanswered
  <2>4. faults' \in 0..MaxFaults
    BY <1>15, FaultType DEF SetRunRunningUnanswered
  <2> QED
    BY <1>15, <2>1, <2>2, <2>3, <2>4 DEF SetRunRunningUnanswered, TypeOK
<1>8. CASE SetRunRunningFault(e, w)
  <2>1. jobs' \in [Executors -> [Slots -> Jobs]]
    BY <1>8, AdvanceType DEF SetRunRunningFault, JobKinds
  <2> QED
    BY <1>8, <2>1, FaultType DEF SetRunRunningFault, TypeOK
<1>9. ASSUME NEW kind, NEW required, NEW next \in JobKinds, ReadRows(e, w, kind, required, next)
      PROVE  TypeOK'
  <2> DEFINE matched == {tr \in jobs[e][w].trs : trow[tr] \in required}
  <2>1. Job(next, matched, {}) \in Jobs
    BY <1>0, JobType
  <2>2. jobs' \in [Executors -> [Slots -> Jobs]]
    BY <1>9, <2>1, IdleType, BecomesType DEF ReadRows
  <2> QED
    BY <1>9, <2>2 DEF ReadRows, TypeOK
<1>10. CASE ReadToMark(e, w) \/ ReadToSkip(e, w) \/ ReadToSkipOrphan(e, w) \/ ReadToFail(e, w)
  BY <1>9, <1>10 DEF ReadToMark, ReadToSkip, ReadToSkipOrphan, ReadToFail, JobKinds
<1>11. ASSUME NEW kind, NEW state \in TaskRunStates, WriteRows(e, w, kind, state)
       PROVE  TypeOK'
  <2>1. trow' \in [TaskRuns -> TaskRunStates]
    BY <1>11, WriteType DEF WriteRows
  <2>2. exam' \in [Schedulers -> Exam]
    BY <1>0, <1>11, DirtiedType DEF WriteRows
  <2>3. jobs' \in [Executors -> [Slots -> Jobs]]
    BY <1>11, IdleType, BecomesType DEF WriteRows, Finish
  <2> QED
    BY <1>0, <1>11, <2>1, <2>2, <2>3 DEF WriteRows, TypeOK
<1>12. CASE MarkRunning(e, w) \/ MarkSkipped(e, w) \/ MarkFailed(e, w) \/ MarkSuccess(e, w)
  BY <1>11, <1>12 DEF MarkRunning, MarkSkipped, MarkFailed, MarkSuccess,
                      TaskRunStates, UnfinishedStates, FinishedStates
<1>13. CASE JobFault(e, w)
  <2>1. jobs' \in [Executors -> [Slots -> Jobs]]
    BY <1>13, IdleType, BecomesType DEF JobFault, Finish
  <2> QED
    BY <1>0, <1>13, <2>1, FaultType DEF JobFault, TypeOK
<1>14. CASE AbortOperation(e, w) \/ AbortOperationFault(e, w)
  <2>1. Job("amark", jobs[e][w].late, {}) \in Jobs
    BY <1>0, JobType DEF JobKinds
  <2>2. jobs' \in [Executors -> [Slots -> Jobs]]
    BY <1>14, <2>1, BecomesType DEF AbortOperation, AbortOperationFault, ThenMarkFailed
  <2>3. CASE AbortOperation(e, w)
    BY <2>2, <2>3 DEF AbortOperation, TypeOK, OperationStates
  <2>4. CASE AbortOperationFault(e, w)
    BY <2>2, <2>4, FaultType DEF AbortOperationFault, TypeOK
  <2> QED
    BY <1>14, <2>3, <2>4
<1> QED
  BY <1>3, <1>4, <1>5, <1>6, <1>7, <1>8, <1>10, <1>12, <1>13, <1>14, <1>15 DEF PoolJobStep

LEMMA TypeNext == TypeOK /\ [Next]_vars => TypeOK'
<1> SUFFICES ASSUME TypeOK, [Next]_vars PROVE TypeOK'
  OBVIOUS
<1>1. ASSUME NEW r \in Runs, QueueRun(r) PROVE TypeOK'
  BY <1>1 DEF QueueRun, TypeOK, DagRunStates, TaskRunStates, UnfinishedStates,
              schedulerVars, executorVars
<1>2. ASSUME NEW tr \in TaskRuns, NEW state \in {"completed", "failed"}, OperationEnds(tr, state)
      PROVE  TypeOK'
  BY <1>2 DEF OperationEnds, TypeOK, OperationStates, schedulerVars, executorVars, tables
<1>3. CASE UNCHANGED vars
  BY <1>3 DEF vars, TypeOK
<1> QED
  BY <1>1, <1>2, <1>3, TypeScheduler, TypeExecutor, TypePoolJob DEF Next

(* Every variable keeps to the values that rows, jobs and copies can have, *)
(* with any number of runs, tasks, processes and faults.                   *)
THEOREM TypeCorrect == Spec => []TypeOK
BY TypeInitial, TypeNext, PTL DEF Spec

-----------------------------------------------------------------------------
LEMMA WhoWritesOper ==
    ASSUME [Next]_vars
    PROVE  \/ UNCHANGED oper
           \/ \E e \in Executors, w \in Slots :
                 \/ At(e, w, "run") /\ Start(jobs[e][w].trs)
                 \/ AbortOperation(e, w)
           \/ \E tr \in TaskRuns, state \in {"completed", "failed"} : OperationEnds(tr, state)
<1> USE DEF schedulerVars, executorVars, tables
<1>1. ASSUME NEW s \in Schedulers, SchedulerStep(s) PROVE UNCHANGED oper
  BY <1>1 DEF SchedulerStep, FetchRuns, NextBatch, BeginUpdate, CommitUpdate, ConflictUpdate,
              ScheduleTrs, SchedulerFault, SchedulerCrash
<1>2. ASSUME NEW e \in Executors, ExecutorStep(e) PROVE UNCHANGED oper
  BY <1>2 DEF ExecutorStep, SubmitStart, BeginPoll, PollItem, PollItemFault, PopPending,
              SkipOrphans, AbortOrphan, ExecutorCrash
<1>3. ASSUME NEW e \in Executors, NEW w \in Slots, PoolJobStep(e, w)
      PROVE  \/ UNCHANGED oper
             \/ At(e, w, "run") /\ Start(jobs[e][w].trs)
             \/ AbortOperation(e, w)
  BY <1>3 DEF PoolJobStep, ReadManifest, ManifestUnreadable, RunOperation, RunOperationFault,
              SetRunRunning, SetRunRunningUnanswered, SetRunRunningFault, ReadToMark, ReadToSkip,
              ReadToSkipOrphan, ReadToFail, ReadRows, MarkRunning, MarkSkipped, MarkFailed,
              MarkSuccess, WriteRows, JobFault, AbortOperationFault
<1>4. ASSUME NEW r \in Runs, QueueRun(r) PROVE UNCHANGED oper
  BY <1>4 DEF QueueRun
<1>5. CASE UNCHANGED vars
  BY <1>5 DEF vars
<1> QED
  BY <1>1, <1>2, <1>3, <1>4, <1>5 DEF Next

LEMMA WhoWritesRows ==
    ASSUME [Next]_vars
    PROVE  \/ UNCHANGED trow
           \/ \E r \in Runs : QueueRun(r)
           \/ \E s \in Schedulers : CommitUpdate(s) \/ ScheduleTrs(s)
           \/ \E e \in Executors, w \in Slots :
                 \/ MarkRunning(e, w)
                 \/ MarkSkipped(e, w)
                 \/ MarkFailed(e, w)
                 \/ MarkSuccess(e, w)
<1> USE DEF schedulerVars, executorVars, tables
<1>1. ASSUME NEW s \in Schedulers, SchedulerStep(s)
      PROVE  UNCHANGED trow \/ CommitUpdate(s) \/ ScheduleTrs(s)
  BY <1>1 DEF SchedulerStep, FetchRuns, NextBatch, BeginUpdate, ConflictUpdate,
              SchedulerFault, SchedulerCrash
<1>2. ASSUME NEW e \in Executors, ExecutorStep(e) PROVE UNCHANGED trow
  BY <1>2 DEF ExecutorStep, SubmitStart, BeginPoll, PollItem, PollItemFault, PopPending,
              SkipOrphans, AbortOrphan, ExecutorCrash
<1>3. ASSUME NEW e \in Executors, NEW w \in Slots, PoolJobStep(e, w)
      PROVE  \/ UNCHANGED trow
             \/ MarkRunning(e, w) \/ MarkSkipped(e, w) \/ MarkFailed(e, w) \/ MarkSuccess(e, w)
  BY <1>3 DEF PoolJobStep, ReadManifest, ManifestUnreadable, RunOperation, RunOperationFault,
              SetRunRunning, SetRunRunningUnanswered, SetRunRunningFault, ReadToMark, ReadToSkip,
              ReadToSkipOrphan, ReadToFail, ReadRows, JobFault, AbortOperation,
              AbortOperationFault
<1>4. ASSUME NEW tr, NEW state, OperationEnds(tr, state) PROVE UNCHANGED trow
  BY <1>4 DEF OperationEnds
<1>5. CASE UNCHANGED vars
  BY <1>5 DEF vars
<1> QED
  BY <1>1, <1>2, <1>3, <1>4, <1>5 DEF Next

(* A pool job sets the state of a dag run. *)
SetsRun(e, w) ==
    ManifestUnreadable(e, w) \/ SetRunRunning(e, w) \/ SetRunRunningUnanswered(e, w)

LEMMA WhoWritesRuns ==
    ASSUME [Next]_vars
    PROVE  \/ UNCHANGED drun
           \/ \E r \in Runs : QueueRun(r)
           \/ \E s \in Schedulers : CommitUpdate(s)
           \/ \E e \in Executors, w \in Slots : SetsRun(e, w)
<1> USE DEF schedulerVars, executorVars, tables
<1>1. ASSUME NEW s \in Schedulers, SchedulerStep(s)
      PROVE  UNCHANGED drun \/ CommitUpdate(s)
  BY <1>1 DEF SchedulerStep, FetchRuns, NextBatch, BeginUpdate, ConflictUpdate, ScheduleTrs,
              SchedulerFault, SchedulerCrash
<1>2. ASSUME NEW e \in Executors, ExecutorStep(e) PROVE UNCHANGED drun
  BY <1>2 DEF ExecutorStep, SubmitStart, BeginPoll, PollItem, PollItemFault, PopPending,
              SkipOrphans, AbortOrphan, ExecutorCrash
<1>3. ASSUME NEW e \in Executors, NEW w \in Slots, PoolJobStep(e, w)
      PROVE  UNCHANGED drun \/ SetsRun(e, w)
  BY <1>3 DEF SetsRun, PoolJobStep, ReadManifest, RunOperation, RunOperationFault,
              SetRunRunningFault, ReadToMark, ReadToSkip, ReadToSkipOrphan, ReadToFail, ReadRows,
              MarkRunning, MarkSkipped, MarkFailed, MarkSuccess, WriteRows,
              JobFault, AbortOperation, AbortOperationFault
<1>4. ASSUME NEW tr, NEW state, OperationEnds(tr, state) PROVE UNCHANGED drun
  BY <1>4 DEF OperationEnds
<1>5. CASE UNCHANGED vars
  BY <1>5 DEF vars
<1> QED
  BY <1>1, <1>2, <1>3, <1>4, <1>5 DEF Next

(* A write of rows marks transactions dirty and changes nothing else of    *)
(* what a scheduler knows.                                                 *)
SameExam(s) ==
    /\ exam'[s].pc = exam[s].pc
    /\ exam'[s].run = exam[s].run
    /\ exam'[s].seen = exam[s].seen

LEMMA DirtiedKeeps ==
    ASSUME NEW trs, NEW runs, NEW s \in Schedulers, exam'[s] = Dirtied(trs, runs)[s]
    PROVE  SameExam(s)
BY DEF SameExam, Dirtied, Examination

LEMMA ExamSteps ==
    ASSUME TypeOK, [Next]_vars, NEW s \in Schedulers
    PROVE  \/ exam'[s].pc = "idle"
           \/ SameExam(s)
           \/ \E r \in Runs : BeginUpdate(s, r)
           \/ CommitUpdate(s)
<1> USE DEF schedulerVars, executorVars, tables
<1>0. NoExam.pc = "idle"
  BY DEF NoExam, Examination
<1>1. CASE UNCHANGED exam
  BY <1>1 DEF SameExam
<1>2. ASSUME NEW z \in Schedulers, SchedulerStep(z),
             ~ \E r \in Runs : BeginUpdate(s, r), ~ CommitUpdate(s)
      PROVE  exam'[s].pc = "idle" \/ SameExam(s)
  <2>1. CASE UNCHANGED exam
    BY <2>1 DEF SameExam
  <2>2. CASE exam' = [exam EXCEPT ![z] = NoExam]
    BY <1>0, <2>2 DEF SameExam, TypeOK
  <2>3. ASSUME NEW r \in Runs, BeginUpdate(z, r) PROVE SameExam(s)
    BY <1>2, <2>3 DEF BeginUpdate, SameExam, TypeOK
  <2>4. CASE CommitUpdate(z)
    <3>1. z # s
      BY <1>2, <2>4
    <3>2. exam'[s] = Dirtied(SkippedRows(z), {exam[z].run})[s]
      BY <2>4, <3>1 DEF CommitUpdate, Dirtied
    <3> QED
      BY <3>2, DirtiedKeeps
  <2>5. CASE ScheduleTrs(z)
    <3> DEFINE rows == {tr \in {exam[z].run} \X Ready(exam[z].seen) : trow[tr] = "scheduled"}
    <3>1. exam' = [Dirtied(rows, {}) EXCEPT ![z] = NoExam]
      BY <2>5 DEF ScheduleTrs
    <3>2. CASE z = s
      BY <1>0, <3>1, <3>2 DEF Dirtied
    <3>3. CASE z # s
      <4>1. exam'[s] = Dirtied(rows, {})[s]
        BY <3>1, <3>3 DEF Dirtied
      <4> QED
        BY <4>1, DirtiedKeeps
    <3> QED
      BY <3>2, <3>3
  <2> QED
    BY <1>2, <2>1, <2>2, <2>3, <2>4, <2>5
    DEF SchedulerStep, FetchRuns, NextBatch, ConflictUpdate, SchedulerFault, SchedulerCrash
<1>3. ASSUME NEW e \in Executors, ExecutorStep(e) PROVE UNCHANGED exam
  BY <1>3 DEF ExecutorStep, SubmitStart, BeginPoll, PollItem, PollItemFault, PopPending,
              SkipOrphans, AbortOrphan, ExecutorCrash
<1>4. ASSUME NEW e \in Executors, NEW w \in Slots, PoolJobStep(e, w)
      PROVE  UNCHANGED exam \/ \E trs, runs : exam' = Dirtied(trs, runs)
  BY <1>4 DEF PoolJobStep, ReadManifest, ManifestUnreadable, RunOperation, RunOperationFault,
              SetRunRunning, SetRunRunningUnanswered, SetRunRunningFault, ReadToMark, ReadToSkip,
              ReadToSkipOrphan, ReadToFail, ReadRows, MarkRunning, MarkSkipped, MarkFailed,
              MarkSuccess, WriteRows, JobFault, AbortOperation, AbortOperationFault
<1>5. ASSUME NEW r \in Runs, QueueRun(r) PROVE UNCHANGED exam
  BY <1>5 DEF QueueRun
<1>6. ASSUME NEW tr, NEW state, OperationEnds(tr, state) PROVE UNCHANGED exam
  BY <1>6 DEF OperationEnds
<1>7. UNCHANGED vars => UNCHANGED exam
  BY DEF vars
<1> QED
  BY <1>1, <1>2, <1>3, <1>4, <1>5, <1>6, <1>7, DirtiedKeeps DEF Next

(* The jobs an executor gives to its pool. *)
NewJob(e, job) ==
    \/ \E tr \in TaskRuns : trow[tr] = "queued" /\ job = Job("start", {tr}, {})
    \/ pass[e] # <<>> /\ job = PollJob(e, Head(pass[e]))
    \/ job = Job("oskip", QueuedOrphans, {})
    \/ \E aborted, marked \in Orphans : job = Job("abort", {aborted} \cap RunningOrphans, {marked})

(* A job goes on to its next access, about the same task runs or fewer. *)
JobAdvances(e, w) ==
    \/ ReadManifest(e, w) \/ ManifestUnreadable(e, w)
    \/ RunOperation(e, w) \/ RunOperationFault(e, w)
    \/ SetRunRunning(e, w) \/ SetRunRunningUnanswered(e, w) \/ SetRunRunningFault(e, w)
    \/ ReadToMark(e, w) \/ ReadToSkip(e, w) \/ ReadToSkipOrphan(e, w) \/ ReadToFail(e, w)
    \/ AbortOperation(e, w) \/ AbortOperationFault(e, w)

LEMMA BecomesElsewhere ==
    ASSUME TypeOK, NEW e \in Executors, NEW w \in Slots, NEW d \in Executors, NEW v \in Slots,
           NEW job, Becomes(d, v, job)
    PROVE  jobs'[e][w] = IF e = d /\ w = v THEN job ELSE jobs[e][w]
BY DEF Becomes, TypeOK

LEMMA SubmitElsewhere ==
    ASSUME TypeOK, NEW e \in Executors, NEW w \in Slots, NEW d \in Executors,
           NEW job, Submit(d, job)
    PROVE  jobs'[e][w] = jobs[e][w] \/ (d = e /\ jobs'[e][w] = job)
BY DEF Submit, TypeOK

LEMMA JobSteps ==
    ASSUME TypeOK, [Next]_vars, NEW e \in Executors, NEW w \in Slots
    PROVE  \/ jobs'[e][w] \in {jobs[e][w], IdleJob}
           \/ NewJob(e, jobs'[e][w])
           \/ JobAdvances(e, w)
<1> USE DEF schedulerVars, executorVars, tables
<1>1. CASE UNCHANGED jobs
  BY <1>1
<1>2. ASSUME NEW s \in Schedulers, SchedulerStep(s) PROVE UNCHANGED jobs
  BY <1>2 DEF SchedulerStep, FetchRuns, NextBatch, BeginUpdate, CommitUpdate, ConflictUpdate,
              ScheduleTrs, SchedulerFault, SchedulerCrash
<1>3. ASSUME NEW d \in Executors, ExecutorStep(d)
      PROVE  jobs'[e][w] \in {jobs[e][w], IdleJob} \/ NewJob(e, jobs'[e][w])
  <2>1. ASSUME NEW tr \in TaskRuns, SubmitStart(d, tr)
        PROVE  jobs'[e][w] = jobs[e][w] \/ NewJob(e, jobs'[e][w])
    BY <2>1, SubmitElsewhere DEF SubmitStart, NewJob
  <2>2. CASE PollItem(d)
    BY <2>2, SubmitElsewhere DEF PollItem, NewJob
  <2>3. CASE SkipOrphans(d)
    BY <2>3, SubmitElsewhere DEF SkipOrphans, NewJob
  <2>4. ASSUME NEW aborted \in TaskRuns, NEW marked \in TaskRuns, AbortOrphan(d, aborted, marked)
        PROVE  jobs'[e][w] = jobs[e][w] \/ NewJob(e, jobs'[e][w])
    BY <2>4, SubmitElsewhere DEF AbortOrphan, NewJob
  <2>5. CASE ExecutorCrash(d)
    BY <2>5 DEF ExecutorCrash, TypeOK
  <2>6. BeginPoll(d) \/ PollItemFault(d) \/ (\E tr \in TaskRuns : PopPending(d, tr)) => UNCHANGED jobs
    BY DEF BeginPoll, PollItemFault, PopPending
  <2> QED
    BY <1>3, <2>1, <2>2, <2>3, <2>4, <2>5, <2>6 DEF ExecutorStep
<1>4. ASSUME NEW d \in Executors, NEW v \in Slots, PoolJobStep(d, v)
      PROVE  jobs'[e][w] \in {jobs[e][w], IdleJob} \/ JobAdvances(e, w)
  <2>1. JobAdvances(d, v) => \E job : Becomes(d, v, job)
    BY DEF JobAdvances, ReadManifest, ManifestUnreadable, RunOperation, RunOperationFault,
           SetRunRunning, SetRunRunningUnanswered, SetRunRunningFault, ReadToMark, ReadToSkip,
           ReadToSkipOrphan, ReadToFail, ReadRows, AbortOperation, AbortOperationFault,
           ThenMarkFailed, Advance
  <2>2. JobAdvances(d, v) \/ Finish(d, v)
    BY <1>4 DEF PoolJobStep, JobAdvances, MarkRunning, MarkSkipped, MarkFailed, MarkSuccess,
                WriteRows, JobFault
  <2>3. CASE Finish(d, v)
    BY <2>3, BecomesElsewhere DEF Finish
  <2>4. CASE JobAdvances(d, v)
    BY <2>1, <2>4, BecomesElsewhere
  <2> QED
    BY <2>2, <2>3, <2>4
<1>5. ASSUME NEW r \in Runs, QueueRun(r) PROVE UNCHANGED jobs
  BY <1>5 DEF QueueRun
<1>6. ASSUME NEW tr, NEW state, OperationEnds(tr, state) PROVE UNCHANGED jobs
  BY <1>6 DEF OperationEnds
<1>7. UNCHANGED vars => UNCHANGED jobs
  BY DEF vars
<1> QED
  BY <1>1, <1>2, <1>3, <1>4, <1>5, <1>6, <1>7 DEF Next

(* The pending operations of an executor are those of jobs that started    *)
(* them and, after a restart, those of running rows; a poll goes through a *)
(* part of them.                                                           *)
LEMMA PendingSteps ==
    ASSUME TypeOK, [Next]_vars, NEW e \in Executors, NEW tr \in Items(pend'[e])
    PROVE  \/ tr \in Items(pend[e])
           \/ tr \in TaskRuns /\ trow[tr] = "running"
           \/ \E w \in Slots : At(e, w, "drset") /\ tr \in jobs[e][w].trs
<1> USE DEF schedulerVars, executorVars, tables
<1>1. CASE UNCHANGED pend
  BY <1>1
<1>2. ASSUME NEW s \in Schedulers, SchedulerStep(s) PROVE UNCHANGED pend
  BY <1>2 DEF SchedulerStep, FetchRuns, NextBatch, BeginUpdate, CommitUpdate, ConflictUpdate,
              ScheduleTrs, SchedulerFault, SchedulerCrash
<1>3. ASSUME NEW d \in Executors, NEW x \in TaskRuns, PopPending(d, x) PROVE tr \in Items(pend[e])
  <2>1. pend[d] \in Seq(TaskRuns)
    BY DEF TypeOK
  <2>2. Items(Without(pend[d], x)) \subseteq Items(pend[d])
    BY <2>1, WithoutType
  <2>3. pend' = [pend EXCEPT ![d] = Without(pend[d], x)]
    BY <1>3 DEF PopPending
  <2> QED
    BY <2>2, <2>3 DEF TypeOK
<1>4. ASSUME NEW d \in Executors, ExecutorCrash(d)
      PROVE  tr \in Items(pend[e]) \/ (tr \in TaskRuns /\ trow[tr] = "running")
  <2> DEFINE S == {x \in TaskRuns : trow[x] = "running"}
  <2>1. PICK q \in Orders(S) : pend' = [pend EXCEPT ![d] = q]
    BY <1>4 DEF ExecutorCrash
  <2>2. Items(q) = S
    BY OrdersType
  <2> QED
    BY <2>1, <2>2 DEF TypeOK
<1>5. ASSUME NEW d \in Executors, ExecutorStep(d)
      PROVE  \/ UNCHANGED pend
             \/ \E x \in TaskRuns : PopPending(d, x)
             \/ ExecutorCrash(d)
  BY <1>5 DEF ExecutorStep, SubmitStart, BeginPoll, PollItem, PollItemFault, SkipOrphans, AbortOrphan
<1>6. ASSUME NEW d \in Executors, NEW w \in Slots, SetRunRunning(d, w)
      PROVE  tr \in Items(pend[e]) \/ (d = e /\ At(d, w, "drset") /\ tr \in jobs[d][w].trs)
  <2>1. PICK x \in jobs[d][w].trs :
            /\ At(d, w, "drset")
            /\ pend' = [pend EXCEPT ![d] = IF x \in Items(pend[d]) THEN pend[d]
                                                               ELSE Append(pend[d], x)]
    BY <1>6 DEF SetRunRunning
  <2>2. x \in TaskRuns /\ pend[d] \in Seq(TaskRuns)
    BY DEF TypeOK, Jobs
  <2>3. Items(Append(pend[d], x)) = Items(pend[d]) \cup {x}
    BY <2>2, AppendItems
  <2> QED
    BY <2>1, <2>3 DEF TypeOK
<1>7. ASSUME NEW d \in Executors, NEW w \in Slots, PoolJobStep(d, w)
      PROVE  UNCHANGED pend \/ SetRunRunning(d, w)
  BY <1>7 DEF PoolJobStep, ReadManifest, ManifestUnreadable, RunOperation, RunOperationFault,
              SetRunRunningUnanswered, SetRunRunningFault, ReadToMark, ReadToSkip,
              ReadToSkipOrphan, ReadToFail, ReadRows,
              MarkRunning, MarkSkipped, MarkFailed, MarkSuccess, WriteRows, JobFault,
              AbortOperation, AbortOperationFault
<1>8. ASSUME NEW r \in Runs, QueueRun(r) PROVE UNCHANGED pend
  BY <1>8 DEF QueueRun
<1>9. ASSUME NEW x, NEW state, OperationEnds(x, state) PROVE UNCHANGED pend
  BY <1>9 DEF OperationEnds
<1>10. UNCHANGED vars => UNCHANGED pend
  BY DEF vars
<1> QED
  BY <1>1, <1>2, <1>3, <1>4, <1>5, <1>6, <1>7, <1>8, <1>9, <1>10 DEF Next

LEMMA PassSteps ==
    ASSUME TypeOK, [Next]_vars, NEW e \in Executors
    PROVE  Items(pass'[e]) \subseteq Items(pass[e]) \cup Items(pend[e])
<1> USE DEF schedulerVars, executorVars, tables
<1>1. CASE UNCHANGED pass
  BY <1>1
<1>2. ASSUME NEW s \in Schedulers, SchedulerStep(s) PROVE UNCHANGED pass
  BY <1>2 DEF SchedulerStep, FetchRuns, NextBatch, BeginUpdate, CommitUpdate, ConflictUpdate,
              ScheduleTrs, SchedulerFault, SchedulerCrash
<1>3. ASSUME NEW d \in Executors, ExecutorStep(d)
      PROVE  \/ UNCHANGED pass
             \/ pass' = [pass EXCEPT ![d] = pend[d]]
             \/ pass[d] # <<>> /\ pass' = [pass EXCEPT ![d] = Tail(pass[d])]
             \/ pass' = [pass EXCEPT ![d] = <<>>]
  BY <1>3 DEF ExecutorStep, SubmitStart, BeginPoll, PollItem, PollItemFault, PopPending,
              SkipOrphans, AbortOrphan, ExecutorCrash
<1>4. ASSUME NEW d \in Executors, pass[d] # <<>> PROVE Items(Tail(pass[d])) \subseteq Items(pass[d])
  BY <1>4, TailItems DEF TypeOK
<1>5. Items(<<>>) = {}
  BY DEF Items
<1>6. ASSUME NEW d \in Executors, NEW w \in Slots, PoolJobStep(d, w) PROVE UNCHANGED pass
  BY <1>6 DEF PoolJobStep, ReadManifest, ManifestUnreadable, RunOperation, RunOperationFault,
              SetRunRunning, SetRunRunningUnanswered, SetRunRunningFault, ReadToMark, ReadToSkip,
              ReadToSkipOrphan, ReadToFail, ReadRows, MarkRunning, MarkSkipped, MarkFailed,
              MarkSuccess, WriteRows, JobFault, AbortOperation, AbortOperationFault
<1>7. ASSUME NEW r \in Runs, QueueRun(r) PROVE UNCHANGED pass
  BY <1>7 DEF QueueRun
<1>8. ASSUME NEW x, NEW state, OperationEnds(x, state) PROVE UNCHANGED pass
  BY <1>8 DEF OperationEnds
<1>9. UNCHANGED vars => UNCHANGED pass
  BY DEF vars
<1>10. ASSUME NEW d \in Executors, ExecutorStep(d)
       PROVE  Items(pass'[e]) \subseteq Items(pass[e]) \cup Items(pend[e])
  BY <1>3, <1>4, <1>5, <1>10 DEF TypeOK
<1> QED
  BY <1>1, <1>2, <1>6, <1>7, <1>8, <1>9, <1>10 DEF Next

-----------------------------------------------------------------------------
(* Nothing but the completion of its operations makes a dag run           *)
(* successful: whoever believes that an operation has started or completed *)
(* is right, and stays right (TruthInv).                                   *)

(* What has started has started for good, and so has what has completed. *)
LEMMA TruthIsStable ==
    ASSUME TypeOK, [Next]_vars, NEW tr \in TaskRuns
    PROVE  /\ Started(tr) => Started(tr)'
           /\ Completed(tr) => Completed(tr)'
<1>1. CASE UNCHANGED oper
  BY <1>1 DEF Started, Completed
<1>2. ASSUME NEW trs, Start(trs)
      PROVE  /\ Started(tr) => Started(tr)'
             /\ Completed(tr) => Completed(tr)'
  BY <1>2 DEF Start, Started, Completed
<1>3. ASSUME NEW e \in Executors, NEW w \in Slots, AbortOperation(e, w)
      PROVE  /\ Started(tr) => Started(tr)'
             /\ Completed(tr) => Completed(tr)'
  BY <1>3 DEF AbortOperation, Started, Completed
<1>4. ASSUME NEW x \in TaskRuns, NEW state \in {"completed", "failed"}, OperationEnds(x, state)
      PROVE  /\ Started(tr) => Started(tr)'
             /\ Completed(tr) => Completed(tr)'
  BY <1>4 DEF OperationEnds, Started, Completed, TypeOK
<1> QED
  BY <1>1, <1>2, <1>3, <1>4, WhoWritesOper

LEMMA RowsStayTrue ==
    ASSUME TruthInv, [Next]_vars
    PROVE  RowsAreTrue'
<1> SUFFICES ASSUME NEW tr \in TaskRuns
             PROVE  /\ trow'[tr] = "success" => Completed(tr)'
                    /\ trow'[tr] = "running" => Started(tr)'
  BY DEF RowsAreTrue
<1> USE DEF TruthInv
<1>1. /\ Started(tr) => Started(tr)'
      /\ Completed(tr) => Completed(tr)'
  BY TruthIsStable
<1>2. /\ trow[tr] = "success" => Completed(tr)
      /\ trow[tr] = "running" => Started(tr)
  BY DEF RowsAreTrue
<1>3. ASSUME NEW r \in Runs, QueueRun(r)
      PROVE  trow'[tr] = trow[tr] \/ trow'[tr] \in {"queued", "scheduled"}
  BY <1>3 DEF QueueRun
<1>4. ASSUME NEW s \in Schedulers, CommitUpdate(s)
      PROVE  trow'[tr] = trow[tr] \/ trow'[tr] = "skipped"
  BY <1>4 DEF CommitUpdate, WriteTasks
<1>5. ASSUME NEW s \in Schedulers, ScheduleTrs(s)
      PROVE  trow'[tr] = trow[tr] \/ trow'[tr] = "queued"
  BY <1>5 DEF ScheduleTrs, WriteTasks
<1>6. ASSUME NEW e \in Executors, NEW w \in Slots, MarkRunning(e, w)
      PROVE  trow'[tr] = trow[tr] \/ (trow'[tr] = "running" /\ Started(tr))
  BY <1>6 DEF MarkRunning, WriteRows, WriteTasks, At, JobsAreTrue
<1>7. ASSUME NEW e \in Executors, NEW w \in Slots, MarkSkipped(e, w) \/ MarkFailed(e, w)
      PROVE  trow'[tr] = trow[tr] \/ trow'[tr] \in {"skipped", "failed"}
  BY <1>7 DEF MarkSkipped, MarkFailed, WriteRows, WriteTasks
<1>8. ASSUME NEW e \in Executors, NEW w \in Slots, MarkSuccess(e, w)
      PROVE  trow'[tr] = trow[tr] \/ (trow'[tr] = "success" /\ Completed(tr))
  BY <1>8 DEF MarkSuccess, WriteRows, WriteTasks, At, JobsAreTrue
<1> QED
  BY <1>1, <1>2, <1>3, <1>4, <1>5, <1>6, <1>7, <1>8, WhoWritesRows

LEMMA SnapshotsStayTrue ==
    ASSUME TruthInv, [Next]_vars
    PROVE  SnapshotsAreTrue'
<1> USE DEF TruthInv
<1>1. ASSUME NEW s \in Schedulers PROVE exam[s].run \in Runs /\ exam'[s].run \in Runs
  <2>1. exam[s] \in Exam /\ exam'[s] \in Exam
    BY TypeNext DEF TypeOK
  <2> QED
    BY <2>1 DEF Exam
<1>2. SUFFICES ASSUME NEW s \in Schedulers, NEW t \in Tasks, NEW r \in Runs,
                      exam'[s].pc # "idle", exam'[s].run = r, exam'[s].seen[t] = "success"
               PROVE  Completed(<<r, t>>)
  <2>1. ASSUME NEW r \in Runs, NEW t \in Tasks, Completed(<<r, t>>)
        PROVE  oper'[<<r, t>>] = "completed"
    BY <2>1, TruthIsStable DEF TaskRuns, Completed
  <2> QED
    BY <1>1, <1>2, <2>1 DEF SnapshotsAreTrue, Examining, Completed
<1>3. CASE SameExam(s)
  BY <1>2, <1>3 DEF SameExam, SnapshotsAreTrue, Examining
<1>4. ASSUME NEW q \in Runs, BeginUpdate(s, q) PROVE Completed(<<r, t>>)
  <2>1. exam'[s] = Examination("update", q, [x \in Tasks |-> trow[<<q, x>>]], {}, {})
    BY <1>4 DEF BeginUpdate, TypeOK
  <2>2. q = r /\ trow[<<r, t>>] = "success"
    BY <1>2, <2>1 DEF Examination
  <2> QED
    BY <2>2 DEF RowsAreTrue, TaskRuns
<1>5. CASE CommitUpdate(s)
  <2> DEFINE committed == Examination("schedule", exam[s].run, exam[s].seen, {}, {})
  <2>1. exam'[s] = (IF Ready(exam[s].seen) = {} THEN NoExam ELSE committed)
    BY <1>5 DEF CommitUpdate, Dirtied
  <2>2. NoExam.pc = "idle"
    BY DEF NoExam, Examination
  <2>3. exam[s].run = r /\ exam[s].seen[t] = "success"
    BY <1>2, <2>1, <2>2 DEF Examination
  <2> QED
    BY <1>5, <2>3 DEF CommitUpdate, SnapshotsAreTrue, Examining
<1> QED
  BY <1>2, <1>3, <1>4, <1>5, ExamSteps

LEMMA JobsStayTrue ==
    ASSUME TruthInv, [Next]_vars
    PROVE  JobsAreTrue'
<1> SUFFICES ASSUME NEW e \in Executors, NEW w \in Slots, NEW tr \in jobs'[e][w].trs
             PROVE  /\ jobs'[e][w].kind = "succeed" => Completed(tr)'
                    /\ jobs'[e][w].kind \in {"drset", "mark", "markw"} => Started(tr)'
  BY DEF JobsAreTrue
<1> USE DEF TruthInv
<1>0. jobs'[e][w] \in Jobs /\ tr \in TaskRuns
  <2>1. TypeOK'
    BY TypeNext
  <2>2. jobs'[e][w] \in Jobs
    BY <2>1 DEF TypeOK
  <2> QED
    BY <2>2 DEF Jobs
<1>1. /\ Started(tr) => Started(tr)'
      /\ Completed(tr) => Completed(tr)'
  BY <1>0, TruthIsStable
<1>2. CASE jobs'[e][w] = jobs[e][w]
  BY <1>1, <1>2 DEF JobsAreTrue
<1>3. CASE jobs'[e][w] = IdleJob
  BY <1>3 DEF IdleJob, Job
<1>4. CASE NewJob(e, jobs'[e][w])
  <2>1. CASE pass[e] # <<>> /\ jobs'[e][w] = PollJob(e, Head(pass[e]))
    <3> DEFINE x == Head(pass[e])
    <3>1. Started(x)
      BY <2>1, TailItems DEF PendingIsTrue, TypeOK
    <3>2. /\ tr = x
          /\ \/ jobs'[e][w].kind = "succeed" /\ oper[x] = "completed"
             \/ jobs'[e][w].kind \in {"fail", "mark"}
      BY <2>1 DEF PollJob, Job
    <3> QED
      BY <1>1, <3>1, <3>2 DEF Completed
  <2>2. ASSUME NEW kind \in {"start", "oskip", "abort"}, NEW trs, NEW late,
               jobs'[e][w] = Job(kind, trs, late)
        PROVE  jobs'[e][w].kind \notin {"succeed", "drset", "mark", "markw"}
    BY <2>2 DEF Job
  <2> QED
    BY <1>4, <2>1, <2>2 DEF NewJob
<1>5. CASE JobAdvances(e, w)
  <2>0. jobs[e][w] \in Jobs
    BY DEF TypeOK
  <2>1. ASSUME NEW job, Becomes(e, w, job) PROVE jobs'[e][w] = job
    BY <2>1, BecomesElsewhere
  <2>2. CASE RunOperation(e, w)
    <3>1. tr \in jobs[e][w].trs /\ jobs'[e][w].kind = "drset"
      BY <2>1, <2>2 DEF RunOperation, Advance, Job
    <3> QED
      BY <1>0, <2>2, <3>1 DEF RunOperation, Start, Started
  <2>3. CASE SetRunRunning(e, w)
    <3>1. tr \in jobs[e][w].trs /\ jobs'[e][w].kind = "mark" /\ jobs[e][w].kind = "drset"
      BY <2>1, <2>3 DEF SetRunRunning, Advance, Job, At
    <3> QED
      BY <1>1, <3>1 DEF JobsAreTrue
  <2>4. CASE ReadToMark(e, w)
    <3>1. tr \in jobs[e][w].trs /\ jobs'[e][w].kind = "markw" /\ jobs[e][w].kind = "mark"
      BY <2>1, <2>4 DEF ReadToMark, ReadRows, Job, IdleJob, At
    <3> QED
      BY <1>1, <3>1 DEF JobsAreTrue
  <2>5. CASE \/ ReadManifest(e, w) \/ ManifestUnreadable(e, w) \/ RunOperationFault(e, w)
             \/ SetRunRunningUnanswered(e, w) \/ SetRunRunningFault(e, w)
             \/ AbortOperation(e, w) \/ AbortOperationFault(e, w)
    <3>1. PICK kind \in {"skip", "run", "fail", "amark"} :
              \E trs, late : jobs'[e][w] = Job(kind, trs, late)
      BY <2>1, <2>5 DEF ReadManifest, ManifestUnreadable, RunOperationFault,
                        SetRunRunningUnanswered, SetRunRunningFault,
                        AbortOperation, AbortOperationFault, ThenMarkFailed, Advance
    <3> QED
      BY <3>1 DEF Job
  <2>6. CASE ReadToSkip(e, w) \/ ReadToSkipOrphan(e, w) \/ ReadToFail(e, w)
    <3>1. jobs'[e][w].kind \in {"idle", "skipw", "fail"}
      BY <2>1, <2>6 DEF ReadToSkip, ReadToSkipOrphan, ReadToFail, ReadRows, IdleJob, Job
    <3> QED
      BY <3>1
  <2> QED
    BY <1>5, <2>2, <2>3, <2>4, <2>5, <2>6 DEF JobAdvances
<1> QED
  BY <1>2, <1>3, <1>4, <1>5, JobSteps

LEMMA PendingStaysTrue ==
    ASSUME TruthInv, [Next]_vars
    PROVE  PendingIsTrue'
<1> SUFFICES ASSUME NEW e \in Executors, NEW tr \in Items(pend'[e]) \cup Items(pass'[e])
             PROVE  Started(tr)'
  BY DEF PendingIsTrue
<1> USE DEF TruthInv
<1>1. Started(tr)
  <2>1. CASE tr \in Items(pend'[e])
    BY <2>1, PendingSteps DEF PendingIsTrue, RowsAreTrue, JobsAreTrue, At
  <2>2. CASE tr \in Items(pass'[e])
    BY <2>2, PassSteps DEF PendingIsTrue
  <2> QED
    BY <2>1, <2>2
<1>2. tr \in TaskRuns
  <2>1. TypeOK'
    BY TypeNext
  <2> QED
    BY <2>1, ItemsType DEF TypeOK
<1> QED
  BY <1>1, <1>2, TruthIsStable

LEMMA SuccessStaysEarned ==
    ASSUME TruthInv, [Next]_vars
    PROVE  SuccessIsEarned'
<1> SUFFICES ASSUME NEW r \in Runs, drun'[r] = "success", NEW t \in Tasks
             PROVE  Completed(<<r, t>>)'
  BY DEF SuccessIsEarned, Completed
<1> USE DEF TruthInv
<1>1. <<r, t>> \in TaskRuns
  BY DEF TaskRuns
<1>2. Completed(<<r, t>>)
  <2>1. CASE drun[r] = "success"
    BY <2>1 DEF SuccessIsEarned, Completed
  <2>2. ASSUME drun[r] # "success", NEW s \in Schedulers, CommitUpdate(s)
        PROVE  Completed(<<r, t>>)
    <3>1. exam[s].run = r /\ RunState(exam[s].seen) = "success" /\ exam[s].pc = "update"
      BY <2>2 DEF CommitUpdate, TypeOK
    <3> QED
      BY <3>1 DEF RunState, AllSuccess, SnapshotsAreTrue, Examining
  <2>3. ASSUME NEW q \in Runs, QueueRun(q) PROVE drun[r] = "success"
    BY <2>3 DEF QueueRun, TypeOK
  <2>4. ASSUME NEW e \in Executors, NEW w \in Slots, ManifestUnreadable(e, w)
        PROVE  drun[r] = "success"
    BY <2>4 DEF ManifestUnreadable, TypeOK
  <2>5. ASSUME NEW e \in Executors, NEW w \in Slots, SetRunRunning(e, w)
        PROVE  drun[r] = "success"
    BY <2>5 DEF SetRunRunning, TypeOK
  <2>6. ASSUME NEW e \in Executors, NEW w \in Slots, SetRunRunningUnanswered(e, w)
        PROVE  drun[r] = "success"
    BY <2>6 DEF SetRunRunningUnanswered, TypeOK
  <2> QED
    BY <2>1, <2>2, <2>3, <2>4, <2>5, <2>6, WhoWritesRuns DEF SetsRun
<1> QED
  BY <1>1, <1>2, TruthIsStable

(* At first there are no rows, jobs or operations to be wrong about. *)
THEOREM TruthInitial == Init => TruthInv
<1> SUFFICES ASSUME Init PROVE TruthInv
  OBVIOUS
<1>1. TypeOK
  BY TypeInitial
<1>2. RowsAreTrue /\ SuccessIsEarned
  BY DEF Init, RowsAreTrue, SuccessIsEarned
<1>3. SnapshotsAreTrue
  BY DEF Init, SnapshotsAreTrue, Examining, NoExam, Examination
<1>4. JobsAreTrue
  BY DEF Init, JobsAreTrue, IdleJob, Job
<1>5. PendingIsTrue
  BY DEF Init, PendingIsTrue, Items
<1> QED
  BY <1>1, <1>2, <1>3, <1>4, <1>5 DEF TruthInv

(* What rows, snapshots, jobs and pending entries say of operations is so, *)
(* however old it is (update_state, set_state, _poll_pending_operations).  *)
THEOREM TruthCorrect == Spec => []TruthInv
<1>1. TruthInv /\ [Next]_vars => TruthInv'
  <2> SUFFICES ASSUME TruthInv, [Next]_vars PROVE TruthInv'
    OBVIOUS
  <2>1. TypeOK'
    BY TypeNext DEF TruthInv
  <2> QED
    BY <2>1, RowsStayTrue, SnapshotsStayTrue, JobsStayTrue, PendingStaysTrue, SuccessStaysEarned
    DEF TruthInv
<1> QED
  BY <1>1, TruthInitial, PTL DEF Spec

(* A dag run is set successful only when every operation of it completed, *)
(* with any number of processes, faults and crashes.                      *)
THEOREM SuccessCorrect == Spec => []SuccessIsEarned
<1>1. TruthInv => SuccessIsEarned
  BY DEF TruthInv
<1> QED
  BY <1>1, TruthCorrect, PTL
=============================================================================
