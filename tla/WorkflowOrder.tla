--------------------------- MODULE WorkflowOrder ----------------------------
(***************************************************************************)
(* Proofs that examinations skip only what waits, that operations start in *)
(* dependency order, that failures have a cause, and that Workflow         *)
(* implements Pipeline.                                                    *)
(***************************************************************************)
EXTENDS WorkflowSteps

(* A run that was queued never is scheduled again. *)
LEMMA QueuedOnce ==
    ASSUME TypeOK, [Next]_vars, NEW r \in Runs, drun[r] # "scheduled"
    PROVE  drun'[r] # "scheduled"
<1>1. ASSUME NEW q \in Runs, QueueRun(q) PROVE drun'[r] # "scheduled"
  BY <1>1 DEF QueueRun, TypeOK
<1>2. ASSUME NEW s \in Schedulers, CommitUpdate(s) PROVE drun'[r] # "scheduled"
  BY <1>2 DEF CommitUpdate, TypeOK, RunState
<1>3. ASSUME NEW e \in Executors, NEW w \in Slots, SetsRun(e, w)
      PROVE  drun'[r] # "scheduled"
  BY <1>3 DEF SetsRun, ManifestUnreadable, SetRunRunning, SetRunRunningUnanswered, TypeOK
<1> QED
  BY <1>1, <1>2, <1>3, WhoWritesRuns

(* The runs in a scheduler's batches come from a select or from there. *)
LEMMA BatchSteps ==
    ASSUME TypeOK, ExaminedWasQueued, [Next]_vars, NEW s \in Schedulers,
           NEW batch \in Items(inbox'[s]) \cup {cur'[s]}, NEW r \in batch
    PROVE  drun[r] # "scheduled"
<1> USE DEF schedulerVars, executorVars, tables
<1>0. \A b \in Items(inbox[s]) \cup {cur[s]} : \A q \in b : drun[q] # "scheduled"
  BY DEF ExaminedWasQueued
<1>1. CASE UNCHANGED <<inbox, cur>>
  BY <1>0, <1>1
<1>2. ASSUME NEW z \in Schedulers, SchedulerStep(z) PROVE drun[r] # "scheduled"
  <2>0. inbox[z] \in Seq(SUBSET Runs)
    BY DEF TypeOK
  <2>1. ASSUME NEW state \in {"queued", "running"}, FetchRuns(z, state)
        PROVE  drun[r] # "scheduled"
    <3> DEFINE new == {q \in Runs : drun[q] = state}
               batches == SUBSET Runs
    <3>0. \A q \in Seq(batches), x \in batches : Items(Append(q, x)) = Items(q) \cup {x}
      BY AppendItems
    <3>1. inbox[z] \in Seq(batches) /\ new \in batches /\ new = {q \in Runs : drun[q] = state}
      BY <2>0
    <3>2. inbox' = [inbox EXCEPT ![z] = Append(inbox[z], new)] /\ UNCHANGED cur
      BY <2>1 DEF FetchRuns
    <3> HIDE DEF new, batches
    <3>3. Items(Append(inbox[z], new)) = Items(inbox[z]) \cup {new}
      BY <3>0, <3>1
    <3>4. inbox'[s] = (IF s = z THEN Append(inbox[z], new) ELSE inbox[s]) /\ cur'[s] = cur[s]
      BY <3>2 DEF TypeOK
    <3>5. Items(inbox'[s]) \subseteq Items(inbox[s]) \cup {new}
      BY <3>3, <3>4
    <3>6. batch = new \/ batch \in Items(inbox[s]) \cup {cur[s]}
      BY <3>4, <3>5
    <3>7. batch = new => drun[r] = state
      BY <3>1
    <3> QED
      BY <1>0, <3>6, <3>7
  <2>2. CASE NextBatch(z)
    <3>1. /\ Head(inbox[z]) \in Items(inbox[z])
          /\ Items(Tail(inbox[z])) \subseteq Items(inbox[z])
      BY <2>0, <2>2, TailItems DEF NextBatch
    <3>2. /\ cur' = [cur EXCEPT ![z] = Head(inbox[z])]
          /\ inbox' = [inbox EXCEPT ![z] = Tail(inbox[z])]
      BY <2>2 DEF NextBatch
    <3>3. batch \in Items(inbox[s]) \cup {cur[s]}
      BY <3>1, <3>2 DEF TypeOK
    <3> QED
      BY <1>0, <3>3
  <2>3. ASSUME NEW q \in Runs, BeginUpdate(z, q) PROVE drun[r] # "scheduled"
    <3>1. UNCHANGED inbox /\ cur' = [cur EXCEPT ![z] = cur[z] \ {q}]
      BY <2>3 DEF BeginUpdate
    <3> QED
      BY <1>0, <3>1 DEF TypeOK
  <2>4. CASE CommitUpdate(z) \/ ScheduleTrs(z)
    BY <1>1, <2>4 DEF CommitUpdate, ScheduleTrs
  <2>5. CASE ConflictUpdate(z) \/ SchedulerFault(z)
    <3>1. UNCHANGED inbox /\ cur' = [cur EXCEPT ![z] = {}]
      BY <2>5 DEF ConflictUpdate, SchedulerFault
    <3> QED
      BY <1>0, <3>1 DEF TypeOK
  <2>6. CASE SchedulerCrash(z)
    <3>1. inbox' = [inbox EXCEPT ![z] = <<>>] /\ cur' = [cur EXCEPT ![z] = {}]
      BY <2>6 DEF SchedulerCrash
    <3>2. Items(<<>>) = {}
      BY DEF Items
    <3> QED
      BY <1>0, <3>1, <3>2 DEF TypeOK
  <2> QED
    BY <1>2, <2>1, <2>2, <2>3, <2>4, <2>5, <2>6 DEF SchedulerStep
<1>3. ASSUME NEW e \in Executors, ExecutorStep(e) PROVE UNCHANGED <<inbox, cur>>
  BY <1>3 DEF ExecutorStep, SubmitStart, BeginPoll, PollItem, PollItemFault, PopPending,
              SkipOrphans, AbortOrphan, ExecutorCrash
<1>4. ASSUME NEW e \in Executors, NEW w \in Slots, PoolJobStep(e, w) PROVE UNCHANGED <<inbox, cur>>
  BY <1>4 DEF PoolJobStep, ReadManifest, ManifestUnreadable, RunOperation, RunOperationFault,
              SetRunRunning, SetRunRunningUnanswered, SetRunRunningFault, ReadToMark, ReadToSkip,
              ReadToSkipOrphan, ReadToFail, ReadRows, MarkRunning, MarkSkipped, MarkFailed,
              MarkSuccess, WriteRows, JobFault, AbortOperation, AbortOperationFault
<1>5. ASSUME NEW q \in Runs, QueueRun(q) PROVE UNCHANGED <<inbox, cur>>
  BY <1>5 DEF QueueRun
<1>6. ASSUME NEW tr, NEW state, OperationEnds(tr, state) PROVE UNCHANGED <<inbox, cur>>
  BY <1>6 DEF OperationEnds
<1>7. UNCHANGED vars => UNCHANGED <<inbox, cur>>
  BY DEF vars
<1> QED
  BY <1>1, <1>2, <1>3, <1>4, <1>5, <1>6, <1>7 DEF Next

LEMMA ExaminedStaysQueued ==
    ASSUME TypeOK, ExaminedWasQueued, [Next]_vars
    PROVE  ExaminedWasQueued'
<1> SUFFICES ASSUME NEW s \in Schedulers
             PROVE  /\ \A batch \in Items(inbox'[s]) \cup {cur'[s]} :
                           \A r \in batch : drun'[r] # "scheduled"
                    /\ exam'[s].pc # "idle" => drun'[exam'[s].run] # "scheduled"
  BY DEF ExaminedWasQueued, Examining, Items
<1>0. TypeOK'
  BY TypeNext
<1>1. ASSUME NEW batch \in Items(inbox'[s]) \cup {cur'[s]}, NEW r \in batch
      PROVE  drun'[r] # "scheduled"
  <2>1. inbox'[s] \in Seq(SUBSET Runs) /\ cur'[s] \in SUBSET Runs
    BY <1>0 DEF TypeOK
  <2>2. Items(inbox'[s]) \subseteq SUBSET Runs
    BY <2>1, ItemsType
  <2>3. r \in Runs
    BY <2>1, <2>2
  <2> QED
    BY <2>3, BatchSteps, QueuedOnce
<1>2. ASSUME exam'[s].pc # "idle"
      PROVE  drun[exam'[s].run] # "scheduled" /\ exam'[s].run \in Runs
  <2>0. exam'[s].run \in Runs
    BY <1>0 DEF TypeOK, Exam
  <2>1. CASE SameExam(s)
    BY <1>2, <2>0, <2>1 DEF SameExam, ExaminedWasQueued, Examining
  <2>2. ASSUME NEW r \in Runs, BeginUpdate(s, r) PROVE drun[exam'[s].run] # "scheduled"
    <3>1. exam'[s].run = r /\ r \in cur[s]
      BY <2>2 DEF BeginUpdate, TypeOK, Examination
    <3> QED
      BY <3>1 DEF ExaminedWasQueued
  <2>3. CASE CommitUpdate(s)
    <3>1. exam'[s] = (IF Ready(exam[s].seen) = {} THEN NoExam
                      ELSE Examination("schedule", exam[s].run, exam[s].seen, {}, {}))
      BY <2>3 DEF CommitUpdate, Dirtied
    <3>2. exam'[s].run = exam[s].run /\ exam[s].pc = "update"
      BY <1>2, <2>3, <3>1 DEF NoExam, Examination, CommitUpdate
    <3> QED
      BY <2>0, <3>2 DEF ExaminedWasQueued, Examining
  <2> QED
    BY <1>2, <2>0, <2>1, <2>2, <2>3, ExamSteps
<1> QED
  BY <1>1, <1>2, QueuedOnce

-----------------------------------------------------------------------------
(* While a transaction is open, every write of rows marks it dirty, except *)
(* the creation of another run's rows.                                     *)
LEMMA DirtySteps ==
    ASSUME TypeOK, [Next]_vars, NEW s \in Schedulers, exam[s].pc = "update", exam'[s].pc = "update"
    PROVE  \/ exam'[s] = exam[s] /\ (UNCHANGED trow \/ \E r \in Runs : QueueRun(r))
           \/ \E trs, runs, state : /\ exam'[s] = Dirtied(trs, runs)[s]
                                    /\ trow' = trow \/ trow' = WriteTasks(trs, state)
<1> DEFINE Marked == \E trs, runs, state : /\ exam'[s] = Dirtied(trs, runs)[s]
                                           /\ trow' = trow \/ trow' = WriteTasks(trs, state)
<1> USE DEF schedulerVars, executorVars, tables
<1>0. NoExam.pc = "idle" /\ \A r, seen : Examination("schedule", r, seen, {}, {}).pc = "schedule"
  BY DEF NoExam, Examination
<1>1. ASSUME NEW z \in Schedulers, SchedulerStep(z)
      PROVE  (exam'[s] = exam[s] /\ UNCHANGED trow) \/ Marked
  <2>1. CASE UNCHANGED <<exam, trow>>
    BY <2>1
  <2>2. CASE exam' = [exam EXCEPT ![z] = NoExam] /\ UNCHANGED trow
    BY <1>0, <2>2 DEF TypeOK
  <2>3. ASSUME NEW r \in Runs, BeginUpdate(z, r) PROVE exam'[s] = exam[s] /\ UNCHANGED trow
    BY <2>3 DEF BeginUpdate, TypeOK
  <2>4. CASE CommitUpdate(z)
    <3>1. z # s
      BY <1>0, <2>4 DEF CommitUpdate, Dirtied
    <3>2. exam'[s] = Dirtied(SkippedRows(z), {exam[z].run})[s]
      BY <2>4, <3>1 DEF CommitUpdate, Dirtied
    <3>3. trow' = WriteTasks(SkippedRows(z), "skipped")
      BY <2>4 DEF CommitUpdate
    <3> QED
      BY <3>2, <3>3
  <2>5. CASE ScheduleTrs(z)
    <3> DEFINE rows == {tr \in {exam[z].run} \X Ready(exam[z].seen) : trow[tr] = "scheduled"}
    <3>1. exam' = [Dirtied(rows, {}) EXCEPT ![z] = NoExam] /\ trow' = WriteTasks(rows, "queued")
      BY <2>5 DEF ScheduleTrs
    <3> HIDE DEF rows
    <3>2. z # s
      BY <1>0, <3>1 DEF Dirtied
    <3>3. exam'[s] = Dirtied(rows, {})[s]
      BY <3>1, <3>2 DEF Dirtied
    <3> QED
      BY <3>1, <3>3
  <2> HIDE DEF Marked
  <2> QED
    BY <1>1, <2>1, <2>2, <2>3, <2>4, <2>5
    DEF SchedulerStep, FetchRuns, NextBatch, ConflictUpdate, SchedulerFault, SchedulerCrash
<1>2. ASSUME NEW e \in Executors, ExecutorStep(e) PROVE UNCHANGED <<exam, trow>>
  BY <1>2 DEF ExecutorStep, SubmitStart, BeginPoll, PollItem, PollItemFault, PopPending,
              SkipOrphans, AbortOrphan, ExecutorCrash
<1>3. ASSUME NEW e \in Executors, NEW w \in Slots, PoolJobStep(e, w)
      PROVE  UNCHANGED <<exam, trow>> \/ Marked
  <2>1. ASSUME NEW kind, NEW state, WriteRows(e, w, kind, state) PROVE Marked
    BY <2>1 DEF WriteRows
  <2>2. CASE MarkRunning(e, w) \/ MarkSkipped(e, w) \/ MarkFailed(e, w) \/ MarkSuccess(e, w)
    BY <2>1, <2>2 DEF MarkRunning, MarkSkipped, MarkFailed, MarkSuccess
  <2>3. CASE SetsRun(e, w)
    BY <2>3 DEF SetsRun, ManifestUnreadable, SetRunRunning, SetRunRunningUnanswered
  <2> HIDE DEF Marked
  <2> QED
    BY <1>3, <2>2, <2>3 DEF SetsRun, PoolJobStep, ReadManifest, RunOperation, RunOperationFault,
              SetRunRunningFault, ReadToMark, ReadToSkip, ReadToSkipOrphan,
              ReadToFail, ReadRows, JobFault, AbortOperation, AbortOperationFault
<1>4. ASSUME NEW r \in Runs, QueueRun(r) PROVE UNCHANGED exam
  BY <1>4 DEF QueueRun
<1>5. ASSUME NEW tr, NEW state, OperationEnds(tr, state) PROVE UNCHANGED <<exam, trow>>
  BY <1>5 DEF OperationEnds
<1>6. UNCHANGED vars => UNCHANGED <<exam, trow>>
  BY DEF vars
<1> HIDE DEF Marked
<1>7. \/ exam'[s] = exam[s] /\ (UNCHANGED trow \/ \E r \in Runs : QueueRun(r))
      \/ Marked
  BY <1>1, <1>2, <1>3, <1>4, <1>5, <1>6 DEF Next
<1> QED
  BY <1>7 DEF Marked

LEMMA SnapshotsStayFresh ==
    ASSUME FreshInv, [Next]_vars
    PROVE  SnapshotsAreFresh'
<1> USE DEF FreshInv
<1>0. TypeOK'
  BY TypeNext
<1> SUFFICES ASSUME NEW s \in Schedulers, NEW t \in Tasks, exam'[s].pc = "update"
             PROVE  \/ trow'[<<exam'[s].run, t>>] = exam'[s].seen[t]
                    \/ <<exam'[s].run, t>> \in exam'[s].dirty
  BY DEF SnapshotsAreFresh
<1>1. exam[s] \in Exam /\ exam'[s] \in Exam
  BY <1>0 DEF TypeOK
<1>2. ASSUME NEW r \in Runs, BeginUpdate(s, r) PROVE trow'[<<exam'[s].run, t>>] = exam'[s].seen[t]
  <2>1. exam'[s] = Examination("update", r, [x \in Tasks |-> trow[<<r, x>>]], {}, {})
    BY <1>2 DEF BeginUpdate, TypeOK
  <2>2. exam'[s].run = r /\ exam'[s].seen[t] = trow[<<r, t>>]
    BY <2>1 DEF Examination
  <2> QED
    BY <1>2, <2>2 DEF BeginUpdate, tables
<1>3. CASE exam[s].pc = "update"
  <2> DEFINE tr == <<exam[s].run, t>>
  <2>1. trow[tr] = exam[s].seen[t] \/ tr \in exam[s].dirty
    BY <1>3 DEF SnapshotsAreFresh
  <2>2. exam[s].run \in Runs /\ tr \in TaskRuns
    BY <1>1 DEF Exam, TaskRuns
  <2>3. CASE exam'[s] = exam[s] /\ UNCHANGED trow
    BY <2>1, <2>3
  <2>4. ASSUME exam'[s] = exam[s], NEW r \in Runs, QueueRun(r) PROVE trow'[tr] = trow[tr]
    <3>1. drun[exam[s].run] # "scheduled" /\ drun[r] = "scheduled"
      BY <1>3, <2>4 DEF ExaminedWasQueued, Examining, QueueRun
    <3> QED
      BY <2>2, <2>4, <3>1 DEF QueueRun
  <2>5. ASSUME NEW trs, NEW runs, NEW state, exam'[s] = Dirtied(trs, runs)[s],
               trow' = trow \/ trow' = WriteTasks(trs, state)
        PROVE  /\ exam'[s].run = exam[s].run
               /\ exam'[s].seen = exam[s].seen
               /\ trow'[tr] = trow[tr] \/ tr \in exam'[s].dirty
               /\ exam[s].dirty \subseteq exam'[s].dirty
    <3>1. exam'[s] = Examination("update", exam[s].run, exam[s].seen,
                                 exam[s].dirty \cup {x \in trs : x[1] = exam[s].run},
                                 exam[s].dirtyRuns \cup (runs \cap {exam[s].run}))
      BY <1>3, <2>5 DEF Dirtied
    <3>2. /\ exam'[s].run = exam[s].run
          /\ exam'[s].seen = exam[s].seen
          /\ exam'[s].dirty = exam[s].dirty \cup {x \in trs : x[1] = exam[s].run}
      BY <3>1 DEF Examination
    <3>3. trow'[tr] = trow[tr] \/ tr \in trs
      BY <2>2, <2>5 DEF WriteTasks
    <3> QED
      BY <3>2, <3>3
  <2> QED
    BY <1>3, <2>1, <2>3, <2>4, <2>5, DirtySteps
<1>4. CASE exam[s].pc # "update" /\ ~ \E r \in Runs : BeginUpdate(s, r)
  BY <1>4, ExamSteps DEF SameExam, CommitUpdate
<1> QED
  BY <1>2, <1>3, <1>4

(* A scheduler handles only runs that were queued, and its open transaction *)
(* knows the rows of the run or is told that they are dirty (update_state). *)
THEOREM FreshCorrect == Spec => []FreshInv
<1>1. Init => FreshInv
  <2> SUFFICES ASSUME Init PROVE FreshInv
    OBVIOUS
  <2>1. NoExam.pc = "idle"
    BY DEF NoExam, Examination
  <2>2. ExaminedWasQueued
    BY <2>1 DEF Init, ExaminedWasQueued, Examining, Items
  <2> QED
    BY <2>1, <2>2, TypeInitial DEF Init, FreshInv, SnapshotsAreFresh
<1>2. FreshInv /\ [Next]_vars => FreshInv'
  BY TypeNext, ExaminedStaysQueued, SnapshotsStayFresh DEF FreshInv
<1> QED
  BY <1>1, <1>2, PTL DEF Spec

(* update_state skips none but waiting tasks: a row that an executor wrote *)
(* after the examination read it makes the commit conflict.                *)
THEOREM SkipsCorrect == Spec => SkipsOnlyWaiting
<1> DEFINE Kept == \A s \in Schedulers : CommitUpdate(s) =>
                       \A tr \in TaskRuns : trow'[tr] = trow[tr] \/ trow[tr] \in {"scheduled", "queued"}
<1>1. FreshInv /\ [Next]_vars => [Kept]_vars
  <2> SUFFICES ASSUME FreshInv, NEW s \in Schedulers, CommitUpdate(s),
                      NEW tr \in TaskRuns, trow'[tr] # trow[tr]
               PROVE  trow[tr] \in {"scheduled", "queued"}
    OBVIOUS
  <2>1. tr \in SkippedRows(s) \ exam[s].dirty /\ exam[s].pc = "update"
    BY DEF CommitUpdate, Conflict, WriteTasks
  <2>2. PICK t \in Skippable(exam[s].seen) : tr = <<exam[s].run, t>>
    BY <2>1 DEF SkippedRows
  <2>3. t \in Tasks /\ exam[s].seen[t] \in {"scheduled", "queued"}
    BY DEF Skippable
  <2> QED
    BY <2>1, <2>2, <2>3 DEF FreshInv, SnapshotsAreFresh
<1> QED
  BY <1>1, FreshCorrect, PTL DEF Spec, SkipsOnlyWaiting

-----------------------------------------------------------------------------
(* Rows become scheduled when their run is queued, and never again. *)
LEMMA ScheduledOnce ==
    ASSUME TypeOK, [Next]_vars, NEW r \in Runs, NEW t \in Tasks, drun[r] # "scheduled",
           trow'[<<r, t>>] = "scheduled"
    PROVE  trow[<<r, t>>] = "scheduled"
<1>0. <<r, t>> \in TaskRuns
  BY DEF TaskRuns
<1>1. ASSUME NEW q \in Runs, QueueRun(q) PROVE trow'[<<r, t>>] = trow[<<r, t>>]
  BY <1>0, <1>1 DEF QueueRun
<1>2. ASSUME NEW s \in Schedulers, CommitUpdate(s) \/ ScheduleTrs(s)
      PROVE  trow'[<<r, t>>] = trow[<<r, t>>]
  BY <1>0, <1>2 DEF CommitUpdate, ScheduleTrs, WriteTasks
<1>3. ASSUME NEW e \in Executors, NEW w \in Slots,
             MarkRunning(e, w) \/ MarkSkipped(e, w) \/ MarkFailed(e, w) \/ MarkSuccess(e, w)
      PROVE  trow'[<<r, t>>] = trow[<<r, t>>]
  BY <1>0, <1>3 DEF MarkRunning, MarkSkipped, MarkFailed, MarkSuccess, WriteRows, WriteTasks
<1> QED
  BY <1>1, <1>2, <1>3, WhoWritesRows

LEMMA PastIsPast ==
    ASSUME TypeOK, [Next]_vars, NEW r \in Runs, Past(r)
    PROVE  Past(r)'
BY QueuedOnce, ScheduledOnce DEF Past

LEMMA UpstreamStaysDone ==
    ASSUME TypeOK, [Next]_vars, NEW tr \in TaskRuns, UpstreamDone(tr)
    PROVE  UpstreamDone(tr)'
<1>1. \A u \in Upstream[tr[2]] : <<tr[1], u>> \in TaskRuns
  BY WorkflowAssumption DEF TaskRuns
<1> QED
  BY <1>1, TruthIsStable DEF UpstreamDone

(* The commit that finds a failure leaves no task of the run scheduled. *)
LEMMA FailingIsPast ==
    ASSUME OrderInv, [Next]_vars, NEW s \in Schedulers, CommitUpdate(s), AnyFailed(exam[s].seen),
           NEW r \in Runs, r = exam[s].run
    PROVE  Past(r)'
<1> USE DEF OrderInv, TruthInv
<1>1. exam[s] \in Exam /\ exam[s].pc = "update"
  BY DEF TypeOK, CommitUpdate
<1>2. drun'[r] = "failed"
  BY DEF CommitUpdate, TypeOK, RunState
<1>3. ASSUME NEW t \in Tasks PROVE trow'[<<r, t>>] # "scheduled"
  <2> DEFINE tr == <<r, t>>
  <2>1. tr \in TaskRuns
    BY DEF TaskRuns
  <2>2. trow'[tr] = IF tr \in SkippedRows(s) THEN "skipped" ELSE trow[tr]
    BY <2>1 DEF CommitUpdate, WriteTasks
  <2>3. trow[tr] = "scheduled" => exam[s].seen[t] = "scheduled"
    BY <1>1 DEF SnapshotsArePast
  <2>4. exam[s].seen[t] = "scheduled" => tr \in SkippedRows(s)
    BY DEF Skippable, SkippedRows
  <2> QED
    BY <2>2, <2>3, <2>4
<1> QED
  BY <1>2, <1>3 DEF Past

LEMMA OneOperationStays ==
    ASSUME TypeOK, OneOperation, [Next]_vars
    PROVE  OneOperation'
<1> SUFFICES ASSUME NEW e \in Executors, NEW w \in Slots, jobs'[e][w].kind \in {"start", "run", "abort"},
                    NEW x \in jobs'[e][w].trs, NEW y \in jobs'[e][w].trs
             PROVE  x = y
  BY DEF OneOperation
<1>1. CASE jobs'[e][w] \in {jobs[e][w], IdleJob}
  BY <1>1 DEF OneOperation, IdleJob, Job
<1>2. CASE NewJob(e, jobs'[e][w])
  <2>1. ASSUME NEW tr, PollJob(e, tr) = jobs'[e][w] PROVE FALSE
    <3>1. jobs'[e][w].kind \in {"succeed", "fail", "mark"}
      BY <2>1 DEF PollJob, Job
    <3> QED
      BY <3>1
  <2>2. ASSUME NEW kind, NEW z, NEW S, NEW late, jobs'[e][w] = Job(kind, {z} \cap S, late) PROVE x = y
    BY <2>2 DEF Job
  <2>3. ASSUME NEW kind, NEW z, NEW late, jobs'[e][w] = Job(kind, {z}, late) PROVE x = y
    BY <2>3 DEF Job
  <2>4. ASSUME NEW trs, NEW late, jobs'[e][w] = Job("oskip", trs, late) PROVE FALSE
    BY <2>4 DEF Job
  <2> QED
    BY <1>2, <2>1, <2>2, <2>3, <2>4 DEF NewJob
<1>3. CASE JobAdvances(e, w)
  <2>1. ASSUME NEW job, Becomes(e, w, job) PROVE jobs'[e][w] = job
    BY <2>1, BecomesElsewhere
  <2>2. CASE ReadManifest(e, w)
    <3>1. jobs[e][w].kind = "start" /\ jobs'[e][w].trs = jobs[e][w].trs
      BY <2>1, <2>2 DEF ReadManifest, Advance, Job, At
    <3> QED
      BY <3>1 DEF OneOperation
  <2>3. CASE ReadToMark(e, w) \/ ReadToSkip(e, w) \/ ReadToSkipOrphan(e, w) \/ ReadToFail(e, w)
    <3>1. jobs'[e][w].kind \in {"idle", "markw", "skipw", "fail"}
      BY <2>1, <2>3 DEF ReadToMark, ReadToSkip, ReadToSkipOrphan, ReadToFail, ReadRows, IdleJob, Job
    <3> QED
      BY <3>1
  <2>4. CASE \/ ManifestUnreadable(e, w) \/ RunOperation(e, w) \/ RunOperationFault(e, w)
             \/ SetRunRunning(e, w) \/ SetRunRunningUnanswered(e, w)
             \/ SetRunRunningFault(e, w)
             \/ AbortOperation(e, w) \/ AbortOperationFault(e, w)
    <3>1. PICK kind \in {"skip", "drset", "fail", "mark", "amark"} :
              \E trs, late : jobs'[e][w] = Job(kind, trs, late)
      BY <2>1, <2>4 DEF ManifestUnreadable, RunOperation, RunOperationFault, SetRunRunning,
                        SetRunRunningUnanswered, SetRunRunningFault, AbortOperation,
                        AbortOperationFault, ThenMarkFailed, Advance
    <3> QED
      BY <3>1 DEF Job
  <2> QED
    BY <1>3, <2>2, <2>3, <2>4 DEF JobAdvances
<1> QED
  BY <1>1, <1>2, <1>3, JobSteps

LEMMA SkippedStaysPast ==
    ASSUME OrderInv, BadTasks = {}, [Next]_vars
    PROVE  SkippedIsPast'
<1> USE DEF OrderInv, TruthInv
<1>0. TypeOK'
  BY TypeNext
<1>1. ASSUME NEW r \in Runs, drun'[r] = "failed" PROVE Past(r)'
  <2>1. CASE drun[r] = "failed"
    BY <2>1, PastIsPast DEF SkippedIsPast
  <2>2. ASSUME drun[r] # "failed", NEW s \in Schedulers, CommitUpdate(s) PROVE Past(r)'
    <3>1. r = exam[s].run /\ RunState(exam[s].seen) = "failed"
      BY <1>1, <2>2 DEF CommitUpdate, TypeOK
    <3>2. AnyFailed(exam[s].seen)
      BY <3>1 DEF RunState
    <3> QED
      BY <2>2, <3>1, <3>2, FailingIsPast
  <2>3. ASSUME NEW q \in Runs, QueueRun(q) PROVE drun[r] = "failed"
    BY <1>1, <2>3 DEF QueueRun, TypeOK
  <2>4. ASSUME NEW e \in Executors, NEW w \in Slots, SetsRun(e, w)
        PROVE  drun[r] = "failed"
    BY <1>1, <2>4 DEF SetsRun, ManifestUnreadable, SetRunRunning, SetRunRunningUnanswered, TypeOK
  <2> QED
    BY <1>1, <2>1, <2>2, <2>3, <2>4, WhoWritesRuns
<1>2. ASSUME NEW tr \in TaskRuns, NEW r \in Runs, r = tr[1], trow'[tr] = "skipped" PROVE Past(r)'
  <2>1. CASE trow[tr] = "skipped"
    BY <1>2, <2>1, PastIsPast DEF SkippedIsPast
  <2>2. ASSUME trow[tr] # "skipped", NEW s \in Schedulers, CommitUpdate(s) PROVE Past(r)'
    <3>1. tr \in SkippedRows(s)
      BY <1>2, <2>2 DEF CommitUpdate, WriteTasks
    <3>2. r = exam[s].run /\ AnyFailed(exam[s].seen)
      BY <1>2, <3>1 DEF SkippedRows, Skippable
    <3> QED
      BY <2>2, <3>2, FailingIsPast
  <2>3. ASSUME NEW q \in Runs, QueueRun(q) PROVE trow[tr] = "skipped"
    BY <1>2, <2>3 DEF QueueRun
  <2>4. ASSUME NEW s \in Schedulers, ScheduleTrs(s) PROVE trow[tr] = "skipped"
    BY <1>2, <2>4 DEF ScheduleTrs, WriteTasks
  <2>5. ASSUME NEW e \in Executors, NEW w \in Slots, MarkSkipped(e, w)
        PROVE  trow[tr] = "skipped" \/ Past(r)
    BY <1>2, <2>5 DEF MarkSkipped, WriteRows, WriteTasks, At, SkippedIsPast
  <2>6. ASSUME NEW e \in Executors, NEW w \in Slots,
               MarkRunning(e, w) \/ MarkFailed(e, w) \/ MarkSuccess(e, w)
        PROVE  trow[tr] = "skipped"
    BY <1>2, <2>6 DEF MarkRunning, MarkFailed, MarkSuccess, WriteRows, WriteTasks
  <2> QED
    BY <1>2, <2>1, <2>2, <2>3, <2>4, <2>5, <2>6, WhoWritesRows, PastIsPast
<1>3. ASSUME NEW e \in Executors, NEW w \in Slots, NEW tr \in jobs'[e][w].trs,
             NEW r \in Runs, r = tr[1], jobs'[e][w].kind \in {"skip", "oskip", "skipw"}
      PROVE  Past(r)
  <2>1. CASE jobs'[e][w] \in {jobs[e][w], IdleJob}
    BY <1>3, <2>1 DEF SkippedIsPast, IdleJob, Job
  <2>2. CASE NewJob(e, jobs'[e][w])
    <3>1. ASSUME NEW x, PollJob(e, x) = jobs'[e][w] PROVE FALSE
      <4>1. jobs'[e][w].kind \in {"succeed", "fail", "mark"}
        BY <3>1 DEF PollJob, Job
      <4> QED
        BY <1>3, <4>1
    <3>2. ASSUME NEW kind \in {"start", "abort"}, NEW trs, NEW late, jobs'[e][w] = Job(kind, trs, late)
          PROVE  FALSE
      BY <1>3, <3>2 DEF Job
    <3>3. jobs'[e][w] = Job("oskip", QueuedOrphans, {})
      BY <2>2, <3>1, <3>2 DEF NewJob
    <3>4. drun[r] = "failed"
      BY <1>3, <3>3 DEF Job, QueuedOrphans, Orphans
    <3> QED
      BY <3>4 DEF SkippedIsPast
  <2>3. CASE JobAdvances(e, w)
    <3>1. ASSUME NEW job, Becomes(e, w, job) PROVE jobs'[e][w] = job
      BY <3>1, BecomesElsewhere
    <3>2. CASE ReadManifest(e, w)
      <4>1. /\ jobs[e][w].kind = "start" /\ jobs'[e][w].trs = jobs[e][w].trs
            /\ \E x \in jobs[e][w].trs : drun[x[1]] = "failed"
        BY <1>3, <3>1, <3>2 DEF ReadManifest, Advance, Job, At
      <4>2. drun[r] = "failed"
        BY <1>3, <4>1 DEF OneOperation
      <4> QED
        BY <4>2 DEF SkippedIsPast
    <3>3. CASE ReadToSkip(e, w) \/ ReadToSkipOrphan(e, w)
      <4>1. tr \in jobs[e][w].trs /\ jobs[e][w].kind \in {"skip", "oskip"}
        BY <1>3, <3>1, <3>3 DEF ReadToSkip, ReadToSkipOrphan, ReadRows, IdleJob, Job, At
      <4> QED
        BY <1>3, <4>1 DEF SkippedIsPast
    <3>4. CASE ReadToMark(e, w) \/ ReadToFail(e, w)
      <4>1. jobs'[e][w].kind \in {"idle", "markw", "fail"}
        BY <3>1, <3>4 DEF ReadToMark, ReadToFail, ReadRows, IdleJob, Job
      <4> QED
        BY <1>3, <4>1
    <3>5. CASE \/ RunOperation(e, w) \/ RunOperationFault(e, w)
               \/ SetRunRunning(e, w) \/ SetRunRunningUnanswered(e, w)
               \/ SetRunRunningFault(e, w)
               \/ AbortOperation(e, w) \/ AbortOperationFault(e, w)
      <4>1. PICK kind \in {"drset", "fail", "mark", "amark"} :
                \E trs, late : jobs'[e][w] = Job(kind, trs, late)
        BY <3>1, <3>5 DEF RunOperation, RunOperationFault, SetRunRunning, SetRunRunningUnanswered,
                          SetRunRunningFault, AbortOperation, AbortOperationFault, ThenMarkFailed,
                          Advance
      <4> QED
        BY <1>3, <4>1 DEF Job
    <3>6. ~ ManifestUnreadable(e, w)
      BY DEF ManifestUnreadable
    <3> QED
      BY <2>3, <3>2, <3>3, <3>4, <3>5, <3>6 DEF JobAdvances
  <2> QED
    BY <2>1, <2>2, <2>3, JobSteps
<1>4. \A tr \in TaskRuns : tr[1] \in Runs
  BY DEF TaskRuns
<1>5. \A e \in Executors, w \in Slots : jobs'[e][w].trs \subseteq TaskRuns
  BY <1>0 DEF TypeOK, Jobs
<1>6. ASSUME NEW e \in Executors, NEW w \in Slots, NEW tr \in jobs'[e][w].trs,
             jobs'[e][w].kind \in {"skip", "oskip", "skipw"}
      PROVE  Past(tr[1])'
  <2>1. tr[1] \in Runs
    BY <1>4, <1>5
  <2> QED
    BY <1>3, <1>6, <2>1, PastIsPast
<1>7. ASSUME NEW tr \in TaskRuns, trow'[tr] = "skipped" PROVE Past(tr[1])'
  BY <1>2, <1>4, <1>7
<1> QED
  BY <1>1, <1>6, <1>7 DEF SkippedIsPast

LEMMA SnapshotsStayPast ==
    ASSUME OrderInv, [Next]_vars
    PROVE  SnapshotsArePast'
<1> USE DEF OrderInv, TruthInv
<1>0. TypeOK'
  BY TypeNext
<1> SUFFICES ASSUME NEW s \in Schedulers, NEW t \in Tasks, NEW u \in Tasks
             PROVE  /\ exam'[s].pc # "idle" /\ exam'[s].seen[u] = "skipped" =>
                           exam'[s].seen[t] # "scheduled"
                    /\ exam'[s].pc = "update" /\ trow'[<<exam'[s].run, t>>] = "scheduled" =>
                           exam'[s].seen[t] = "scheduled"
  BY DEF SnapshotsArePast, Examining
<1>1. exam[s] \in Exam /\ exam'[s] \in Exam
  BY <1>0 DEF TypeOK
<1>2. CASE exam'[s].pc = "idle"
  BY <1>2
<1>3. CASE exam[s].pc # "idle" /\ SameExam(s)
  <2>1. exam[s].run \in Runs /\ drun[exam[s].run] # "scheduled"
    BY <1>1, <1>3 DEF Exam, FreshInv, ExaminedWasQueued, Examining
  <2>2. trow'[<<exam[s].run, t>>] = "scheduled" => trow[<<exam[s].run, t>>] = "scheduled"
    BY <2>1, ScheduledOnce
  <2> QED
    BY <1>3, <2>2 DEF SnapshotsArePast, Examining, SameExam
<1>4. ASSUME NEW r \in Runs, BeginUpdate(s, r)
      PROVE  /\ exam'[s].seen[u] = "skipped" => exam'[s].seen[t] # "scheduled"
             /\ trow'[<<exam'[s].run, t>>] = exam'[s].seen[t]
  <2>1. exam'[s] = Examination("update", r, [x \in Tasks |-> trow[<<r, x>>]], {}, {})
    BY <1>4 DEF BeginUpdate, TypeOK
  <2>2. exam'[s].run = r /\ \A x \in Tasks : exam'[s].seen[x] = trow[<<r, x>>]
    BY <2>1 DEF Examination
  <2>3. <<r, u>> \in TaskRuns
    BY DEF TaskRuns
  <2>4. trow[<<r, u>>] = "skipped" => trow[<<r, t>>] # "scheduled"
    BY <2>3 DEF SkippedIsPast, Past
  <2> QED
    BY <1>4, <2>2, <2>4 DEF BeginUpdate, tables
<1>5. CASE CommitUpdate(s) /\ exam'[s].pc # "idle"
  <2>1. exam'[s] = (IF Ready(exam[s].seen) = {} THEN NoExam
                    ELSE Examination("schedule", exam[s].run, exam[s].seen, {}, {}))
    BY <1>5 DEF CommitUpdate, Dirtied
  <2>2. exam'[s].pc = "schedule" /\ exam'[s].seen = exam[s].seen /\ exam[s].pc = "update"
    BY <1>5, <2>1 DEF NoExam, Examination, CommitUpdate
  <2> QED
    BY <2>2 DEF SnapshotsArePast, Examining
<1> QED
  BY <1>2, <1>3, <1>4, <1>5, ExamSteps DEF SameExam

(* The upstream tasks of a ready task have succeeded: they are finished,   *)
(* none failed, and one that was skipped would be of a run that is past.   *)
LEMMA ReadyIsDone ==
    ASSUME OrderInv, NEW s \in Schedulers, exam[s].pc = "schedule", NEW t \in Ready(exam[s].seen)
    PROVE  \A u \in Upstream[t] : Completed(<<exam[s].run, u>>)
<1> TAKE u \in Upstream[t]
<1>1. t \in Tasks /\ u \in Tasks
  BY WorkflowAssumption DEF Ready
<1>2. exam[s].seen[t] = "scheduled" /\ exam[s].seen[u] \in FinishedStates
  BY DEF Ready
<1>3. exam[s].seen[u] # "failed"
  BY <1>1 DEF Ready, AnyFailed
<1>4. exam[s].seen[u] # "skipped"
  BY <1>1, <1>2 DEF OrderInv, SnapshotsArePast, Examining
<1>5. exam[s].seen[u] = "success"
  BY <1>2, <1>3, <1>4 DEF FinishedStates
<1> QED
  BY <1>1, <1>5 DEF OrderInv, TruthInv, SnapshotsAreTrue, Examining

LEMMA QueuedStaysReady ==
    ASSUME OrderInv, [Next]_vars
    PROVE  QueuedIsReady'
<1> USE DEF OrderInv, TruthInv
<1>0. TypeOK'
  BY TypeNext
<1>1. ASSUME NEW tr \in TaskRuns, trow'[tr] = "queued" PROVE UpstreamDone(tr)
  <2>1. CASE trow[tr] = "queued"
    BY <2>1 DEF QueuedIsReady
  <2>2. ASSUME NEW r \in Runs, QueueRun(r), trow[tr] # "queued" PROVE UpstreamDone(tr)
    <3>1. Upstream[tr[2]] = {}
      BY <1>1, <2>2 DEF QueueRun, Roots
    <3> QED
      BY <3>1 DEF UpstreamDone
  <2>3. ASSUME NEW s \in Schedulers, ScheduleTrs(s), trow[tr] # "queued" PROVE UpstreamDone(tr)
    <3>1. tr \in {exam[s].run} \X Ready(exam[s].seen) /\ exam[s].pc = "schedule"
      BY <1>1, <2>3 DEF ScheduleTrs, WriteTasks
    <3>2. tr[1] = exam[s].run /\ tr[2] \in Ready(exam[s].seen)
      BY <3>1
    <3> QED
      BY <3>1, <3>2, ReadyIsDone DEF UpstreamDone
  <2>4. ASSUME NEW s \in Schedulers, CommitUpdate(s) PROVE trow[tr] = "queued"
    BY <1>1, <2>4 DEF CommitUpdate, WriteTasks
  <2>5. ASSUME NEW e \in Executors, NEW w \in Slots,
               MarkRunning(e, w) \/ MarkSkipped(e, w) \/ MarkFailed(e, w) \/ MarkSuccess(e, w)
        PROVE  trow[tr] = "queued"
    BY <1>1, <2>5 DEF MarkRunning, MarkSkipped, MarkFailed, MarkSuccess, WriteRows, WriteTasks
  <2> QED
    BY <1>1, <2>1, <2>2, <2>3, <2>4, <2>5, WhoWritesRows
<1>2. ASSUME NEW e \in Executors, NEW w \in Slots, NEW tr \in jobs'[e][w].trs,
             jobs'[e][w].kind \in {"start", "run"}
      PROVE  UpstreamDone(tr)
  <2>1. CASE jobs'[e][w] \in {jobs[e][w], IdleJob}
    BY <1>2, <2>1 DEF QueuedIsReady, IdleJob, Job
  <2>2. CASE NewJob(e, jobs'[e][w])
    <3>1. ASSUME NEW x, PollJob(e, x) = jobs'[e][w] PROVE FALSE
      <4>1. jobs'[e][w].kind \in {"succeed", "fail", "mark"}
        BY <3>1 DEF PollJob, Job
      <4> QED
        BY <1>2, <4>1
    <3>2. ASSUME NEW kind \in {"oskip", "abort"}, NEW trs, NEW late, jobs'[e][w] = Job(kind, trs, late)
          PROVE  FALSE
      BY <1>2, <3>2 DEF Job
    <3>3. PICK x \in TaskRuns : trow[x] = "queued" /\ jobs'[e][w] = Job("start", {x}, {})
      BY <2>2, <3>1, <3>2 DEF NewJob
    <3>4. tr = x
      BY <3>3 DEF Job
    <3> QED
      BY <3>3, <3>4 DEF QueuedIsReady
  <2>3. CASE JobAdvances(e, w)
    <3>1. ASSUME NEW job, Becomes(e, w, job) PROVE jobs'[e][w] = job
      BY <3>1, BecomesElsewhere
    <3>2. CASE ReadManifest(e, w)
      <4>1. jobs[e][w].kind = "start" /\ jobs'[e][w].trs = jobs[e][w].trs
        BY <3>1, <3>2 DEF ReadManifest, Advance, Job, At
      <4> QED
        BY <1>2, <4>1 DEF QueuedIsReady
    <3>3. CASE ReadToMark(e, w) \/ ReadToSkip(e, w) \/ ReadToSkipOrphan(e, w) \/ ReadToFail(e, w)
      <4>1. jobs'[e][w].kind \in {"idle", "markw", "skipw", "fail"}
        BY <3>1, <3>3 DEF ReadToMark, ReadToSkip, ReadToSkipOrphan, ReadToFail, ReadRows, IdleJob, Job
      <4> QED
        BY <1>2, <4>1
    <3>4. CASE \/ ManifestUnreadable(e, w) \/ RunOperation(e, w) \/ RunOperationFault(e, w)
               \/ SetRunRunning(e, w) \/ SetRunRunningUnanswered(e, w)
               \/ SetRunRunningFault(e, w)
               \/ AbortOperation(e, w) \/ AbortOperationFault(e, w)
      <4>1. PICK kind \in {"skip", "drset", "fail", "mark", "amark"} :
                \E trs, late : jobs'[e][w] = Job(kind, trs, late)
        BY <3>1, <3>4 DEF ManifestUnreadable, RunOperation, RunOperationFault, SetRunRunning,
                          SetRunRunningUnanswered, SetRunRunningFault, AbortOperation,
                          AbortOperationFault, ThenMarkFailed, Advance
      <4> QED
        BY <1>2, <4>1 DEF Job
    <3> QED
      BY <2>3, <3>2, <3>3, <3>4 DEF JobAdvances
  <2> QED
    BY <2>1, <2>2, <2>3, JobSteps
<1>3. \A e \in Executors, w \in Slots : jobs'[e][w].trs \subseteq TaskRuns
  BY <1>0 DEF TypeOK, Jobs
<1>4. ASSUME NEW tr \in TaskRuns, trow'[tr] = "queued" PROVE UpstreamDone(tr)'
  BY <1>1, <1>4, UpstreamStaysDone
<1>5. ASSUME NEW e \in Executors, NEW w \in Slots, NEW tr \in jobs'[e][w].trs,
             jobs'[e][w].kind \in {"start", "run"}
      PROVE  UpstreamDone(tr)'
  <2>1. tr \in TaskRuns
    BY <1>3
  <2> QED
    BY <1>2, <1>5, <2>1, UpstreamStaysDone
<1> QED
  BY <1>4, <1>5 DEF QueuedIsReady

(* An operation starts when the upstream operations have completed. *)
LEMMA StartIsReady ==
    ASSUME OrderInv, [Next]_vars, NEW tr \in TaskRuns, ~ Started(tr), Started(tr)'
    PROVE  /\ UpstreamDone(tr)
           /\ \E e \in Executors, w \in Slots :
                  At(e, w, "run") /\ Start(jobs[e][w].trs) /\ tr \in jobs[e][w].trs
<1>1. ASSUME NEW e \in Executors, NEW w \in Slots, AbortOperation(e, w) PROVE FALSE
  BY <1>1 DEF AbortOperation, Started
<1>2. ASSUME NEW x \in TaskRuns, NEW state, OperationEnds(x, state) PROVE FALSE
  BY <1>2 DEF OperationEnds, Started, OrderInv, TruthInv, TypeOK
<1>3. PICK e \in Executors, w \in Slots : At(e, w, "run") /\ Start(jobs[e][w].trs)
  BY <1>1, <1>2, WhoWritesOper DEF Started
<1>4. tr \in jobs[e][w].trs
  BY <1>3 DEF Start, Started
<1> QED
  BY <1>3, <1>4 DEF OrderInv, QueuedIsReady, At

LEMMA UpstreamStaysFirst ==
    ASSUME OrderInv, [Next]_vars
    PROVE  UpstreamFirst'
<1> SUFFICES ASSUME NEW r \in Runs, NEW t \in Tasks, Started(<<r, t>>)', NEW u \in Upstream[t]
             PROVE  Completed(<<r, u>>)'
  BY DEF UpstreamFirst, Started, Completed
<1>1. <<r, t>> \in TaskRuns /\ <<r, u>> \in TaskRuns
  BY WorkflowAssumption DEF TaskRuns
<1>2. Completed(<<r, u>>)
  <2>1. CASE Started(<<r, t>>)
    BY <2>1 DEF OrderInv, UpstreamFirst, Started, Completed
  <2>2. CASE ~ Started(<<r, t>>)
    <3>1. UpstreamDone(<<r, t>>)
      BY <1>1, <2>2, StartIsReady
    <3> QED
      BY <3>1 DEF UpstreamDone
  <2> QED
    BY <2>1, <2>2
<1> QED
  BY <1>1, <1>2, TruthIsStable DEF OrderInv, TruthInv

(* Whatever is queued or about to start has its upstream operations done,  *)
(* and a run with a skipped task schedules no other one any more, when all *)
(* TaskRefs deserialize (_get_ready_trs, schedule_trs, the start jobs).    *)
THEOREM OrderCorrect == ASSUME BadTasks = {} PROVE Spec => []OrderInv
<1>1. Init => OrderInv
  <2> SUFFICES ASSUME Init PROVE OrderInv
    OBVIOUS
  <2>1. NoExam.pc = "idle" /\ IdleJob.kind = "idle" /\ IdleJob.trs = {}
    BY DEF NoExam, Examination, IdleJob, Job
  <2>2. FreshInv
    <3>1. ExaminedWasQueued
      BY <2>1 DEF Init, ExaminedWasQueued, Examining, Items
    <3> QED
      BY <2>1, <3>1, TypeInitial DEF Init, FreshInv, SnapshotsAreFresh
  <2>3. OneOperation /\ SkippedIsPast /\ QueuedIsReady
    BY <2>1 DEF Init, OneOperation, SkippedIsPast, QueuedIsReady
  <2>4. SnapshotsArePast
    BY <2>1 DEF Init, SnapshotsArePast, Examining
  <2>5. UpstreamFirst
    BY DEF Init, UpstreamFirst, TaskRuns
  <2> QED
    BY <2>2, <2>3, <2>4, <2>5, TruthInitial DEF OrderInv
<1>2. OrderInv /\ [Next]_vars => OrderInv'
  <2> SUFFICES ASSUME OrderInv, [Next]_vars PROVE OrderInv'
    OBVIOUS
  <2>1. TypeOK /\ TruthInv /\ FreshInv /\ OneOperation
    BY DEF OrderInv, TruthInv
  <2>2. TruthInv'
    BY <2>1, TypeNext, RowsStayTrue, SnapshotsStayTrue, JobsStayTrue, PendingStaysTrue, SuccessStaysEarned
    DEF TruthInv
  <2>3. FreshInv'
    BY <2>1, TypeNext, ExaminedStaysQueued, SnapshotsStayFresh DEF FreshInv
  <2> QED
    BY <2>1, <2>2, <2>3, OneOperationStays, SkippedStaysPast, SnapshotsStayPast, QueuedStaysReady,
       UpstreamStaysFirst
    DEF OrderInv
<1> QED
  BY <1>1, <1>2, PTL DEF Spec

(* When all TaskRefs deserialize, no operation starts before those it      *)
(* takes its inputs from have completed: skipped tasks, which count as     *)
(* finished, and start jobs that lag behind never make one start too soon. *)
THEOREM UpstreamFirstCorrect == ASSUME BadTasks = {} PROVE Spec => []UpstreamFirst
<1>1. OrderInv => UpstreamFirst
  BY DEF OrderInv
<1> QED
  BY <1>1, OrderCorrect, PTL

-----------------------------------------------------------------------------
LEMMA FaultsStay ==
    ASSUME TypeOK, [Next]_vars, faults > 0
    PROVE  faults' > 0
<1> USE DEF schedulerVars, executorVars, tables
<1>0. faults \in Nat /\ (UNCHANGED faults \/ Fault => faults' > 0)
  BY WorkflowAssumption DEF TypeOK, Fault
<1>1. ASSUME NEW s \in Schedulers, SchedulerStep(s) PROVE UNCHANGED faults \/ Fault
  BY <1>1 DEF SchedulerStep, FetchRuns, NextBatch, BeginUpdate, CommitUpdate, ConflictUpdate,
              ScheduleTrs, SchedulerFault, SchedulerCrash
<1>2. ASSUME NEW e \in Executors, ExecutorStep(e) PROVE UNCHANGED faults \/ Fault
  BY <1>2 DEF ExecutorStep, SubmitStart, BeginPoll, PollItem, PollItemFault, PopPending,
              SkipOrphans, AbortOrphan, ExecutorCrash
<1>3. ASSUME NEW e \in Executors, NEW w \in Slots, PoolJobStep(e, w) PROVE UNCHANGED faults \/ Fault
  BY <1>3 DEF PoolJobStep, ReadManifest, ManifestUnreadable, RunOperation, RunOperationFault,
              SetRunRunning, SetRunRunningUnanswered, SetRunRunningFault, ReadToMark, ReadToSkip,
              ReadToSkipOrphan, ReadToFail, ReadRows, MarkRunning, MarkSkipped, MarkFailed,
              MarkSuccess, WriteRows, JobFault, AbortOperation, AbortOperationFault
<1>4. ASSUME NEW r \in Runs, QueueRun(r) PROVE UNCHANGED faults
  BY <1>4 DEF QueueRun
<1>5. ASSUME NEW tr, NEW state, OperationEnds(tr, state) PROVE UNCHANGED faults
  BY <1>5 DEF OperationEnds
<1>6. UNCHANGED vars => UNCHANGED faults
  BY DEF vars
<1> QED
  BY <1>0, <1>1, <1>2, <1>3, <1>4, <1>5, <1>6 DEF Next

LEMMA CauseStays ==
    ASSUME TypeOK, [Next]_vars, NEW r \in Runs, Caused(r)
    PROVE  Caused(r)'
<1>1. CASE faults > 0
  BY <1>1, FaultsStay DEF Caused
<1>2. ASSUME NEW t \in Tasks, oper[<<r, t>>] = "failed" PROVE oper'[<<r, t>>] = "failed"
  <2>0. <<r, t>> \in TaskRuns
    BY DEF TaskRuns
  <2>1. ASSUME NEW trs, Start(trs) PROVE oper'[<<r, t>>] = "failed"
    BY <1>2, <2>0, <2>1 DEF Start
  <2>2. ASSUME NEW e \in Executors, NEW w \in Slots, AbortOperation(e, w)
        PROVE  oper'[<<r, t>>] = "failed"
    BY <1>2, <2>0, <2>2 DEF AbortOperation
  <2>3. ASSUME NEW x \in TaskRuns, NEW state, OperationEnds(x, state)
        PROVE  oper'[<<r, t>>] = "failed"
    BY <1>2, <2>0, <2>3 DEF OperationEnds, TypeOK
  <2> QED
    BY <1>2, <2>1, <2>2, <2>3, WhoWritesOper
<1> QED
  BY <1>1, <1>2 DEF Caused

LEMMA RowsStayCaused ==
    ASSUME CauseInv, BadTasks = {}, [Next]_vars
    PROVE  RowsAreCaused'
<1> USE DEF CauseInv
<1>1. ASSUME NEW r \in Runs, drun'[r] = "failed" PROVE Caused(r)
  <2>1. CASE drun[r] = "failed"
    BY <2>1 DEF RowsAreCaused
  <2>2. ASSUME drun[r] # "failed", NEW s \in Schedulers, CommitUpdate(s) PROVE Caused(r)
    <3>1. r = exam[s].run /\ RunState(exam[s].seen) = "failed" /\ exam[s].pc = "update"
      BY <1>1, <2>2 DEF CommitUpdate, TypeOK
    <3>2. AnyFailed(exam[s].seen)
      BY <3>1 DEF RunState
    <3> QED
      BY <3>1, <3>2 DEF SnapshotsAreCaused, Examining
  <2>3. ASSUME NEW q \in Runs, QueueRun(q) PROVE drun[r] = "failed"
    BY <1>1, <2>3 DEF QueueRun, TypeOK
  <2>4. ASSUME NEW e \in Executors, NEW w \in Slots, SetsRun(e, w)
        PROVE  drun[r] = "failed"
    BY <1>1, <2>4 DEF SetsRun, ManifestUnreadable, SetRunRunning, SetRunRunningUnanswered, TypeOK
  <2> QED
    BY <1>1, <2>1, <2>2, <2>3, <2>4, WhoWritesRuns
<1>2. ASSUME NEW tr \in TaskRuns, trow'[tr] = "failed" PROVE Caused(tr[1])
  <2>1. CASE trow[tr] = "failed"
    BY <2>1 DEF RowsAreCaused
  <2>2. ASSUME NEW e \in Executors, NEW w \in Slots, MarkFailed(e, w)
        PROVE  trow[tr] = "failed" \/ Caused(tr[1])
    BY <1>2, <2>2 DEF MarkFailed, WriteRows, WriteTasks, At, JobsAreCaused
  <2>3. ASSUME NEW q \in Runs, QueueRun(q) PROVE trow[tr] = "failed"
    BY <1>2, <2>3 DEF QueueRun
  <2>4. ASSUME NEW s \in Schedulers, CommitUpdate(s) \/ ScheduleTrs(s) PROVE trow[tr] = "failed"
    BY <1>2, <2>4 DEF CommitUpdate, ScheduleTrs, WriteTasks
  <2>5. ASSUME NEW e \in Executors, NEW w \in Slots,
               MarkRunning(e, w) \/ MarkSkipped(e, w) \/ MarkSuccess(e, w)
        PROVE  trow[tr] = "failed"
    BY <1>2, <2>5 DEF MarkRunning, MarkSkipped, MarkSuccess, WriteRows, WriteTasks
  <2> QED
    BY <1>2, <2>1, <2>2, <2>3, <2>4, <2>5, WhoWritesRows
<1>3. ASSUME NEW tr \in TaskRuns, oper'[tr] = "aborted" PROVE Caused(tr[1])
  <2>1. CASE oper[tr] = "aborted"
    BY <2>1 DEF RowsAreCaused
  <2>2. ASSUME NEW e \in Executors, NEW w \in Slots, AbortOperation(e, w)
        PROVE  oper[tr] = "aborted" \/ Caused(tr[1])
    BY <1>3, <2>2 DEF AbortOperation, At, JobsAreCaused
  <2>3. ASSUME NEW trs, Start(trs) PROVE oper[tr] = "aborted"
    BY <1>3, <2>3 DEF Start
  <2>4. ASSUME NEW x \in TaskRuns, NEW state \in {"completed", "failed"}, OperationEnds(x, state)
        PROVE  oper[tr] = "aborted"
    BY <1>3, <2>4 DEF OperationEnds, TypeOK
  <2> QED
    BY <1>3, <2>1, <2>2, <2>3, <2>4, WhoWritesOper
<1>4. \A tr \in TaskRuns : tr[1] \in Runs
  BY DEF TaskRuns
<1>5. ASSUME NEW r \in Runs, drun'[r] = "failed" PROVE Caused(r)'
  BY <1>1, <1>5, CauseStays
<1>6. ASSUME NEW tr \in TaskRuns, trow'[tr] = "failed" \/ oper'[tr] = "aborted" PROVE Caused(tr[1])'
  BY <1>2, <1>3, <1>4, <1>6, CauseStays
<1> QED
  BY <1>5, <1>6 DEF RowsAreCaused

LEMMA SnapshotsStayCaused ==
    ASSUME CauseInv, [Next]_vars
    PROVE  SnapshotsAreCaused'
<1> USE DEF CauseInv
<1>1. ASSUME NEW s \in Schedulers PROVE exam'[s].run \in Runs
  <2>1. exam'[s] \in Exam
    BY TypeNext DEF TypeOK
  <2> QED
    BY <2>1 DEF Exam
<1> SUFFICES ASSUME NEW s \in Schedulers, NEW r \in Runs, r = exam'[s].run,
                    exam'[s].pc # "idle", AnyFailed(exam'[s].seen)
             PROVE  Caused(r)
  <2>1. \A r \in Runs : Caused(r) => (faults' > 0 \/ \E t \in Tasks : oper'[<<r, t>>] = "failed")
    BY CauseStays DEF Caused
  <2> QED
    BY <1>1, <2>1 DEF SnapshotsAreCaused, Examining, AnyFailed, Caused
<1>2. CASE exam[s].pc # "idle" /\ SameExam(s)
  BY <1>2 DEF SnapshotsAreCaused, Examining, SameExam
<1>3. ASSUME NEW q \in Runs, BeginUpdate(s, q) PROVE Caused(r)
  <2>1. exam'[s] = Examination("update", q, [x \in Tasks |-> trow[<<q, x>>]], {}, {})
    BY <1>3 DEF BeginUpdate, TypeOK
  <2>2. q = r /\ \A x \in Tasks : exam'[s].seen[x] = trow[<<r, x>>]
    BY <2>1 DEF Examination
  <2>3. PICK x \in Tasks : trow[<<r, x>>] = "failed"
    BY <2>2 DEF AnyFailed
  <2>4. <<r, x>> \in TaskRuns /\ <<r, x>>[1] = r
    BY DEF TaskRuns
  <2> QED
    BY <2>2, <2>3, <2>4 DEF RowsAreCaused
<1>4. CASE CommitUpdate(s)
  <2>1. exam'[s] = (IF Ready(exam[s].seen) = {} THEN NoExam
                    ELSE Examination("schedule", exam[s].run, exam[s].seen, {}, {}))
    BY <1>4 DEF CommitUpdate, Dirtied
  <2>2. exam'[s].run = exam[s].run /\ exam'[s].seen = exam[s].seen /\ exam[s].pc = "update"
    BY <1>4, <2>1 DEF NoExam, Examination, CommitUpdate
  <2> QED
    BY <2>2 DEF SnapshotsAreCaused, Examining
<1> QED
  BY <1>2, <1>3, <1>4, ExamSteps DEF SameExam

LEMMA JobsStayCaused ==
    ASSUME CauseInv, [Next]_vars
    PROVE  JobsAreCaused'
<1> USE DEF CauseInv
<1>0. TypeOK'
  BY TypeNext
<1> SUFFICES ASSUME NEW e \in Executors, NEW w \in Slots, NEW tr,
                    \/ jobs'[e][w].kind \in {"fail", "amark", "abort"} /\ tr \in jobs'[e][w].trs
                    \/ jobs'[e][w].kind = "abort" /\ tr \in jobs'[e][w].late
             PROVE  Caused(tr[1])'
  BY DEF JobsAreCaused
<1>1. tr \in TaskRuns /\ tr[1] \in Runs
  <2>1. jobs'[e][w] \in Jobs
    BY <1>0 DEF TypeOK
  <2> QED
    BY <2>1 DEF Jobs, TaskRuns
<1>2. CASE jobs'[e][w] \in {jobs[e][w], IdleJob}
  BY <1>1, <1>2, CauseStays DEF JobsAreCaused, IdleJob, Job
<1>3. CASE NewJob(e, jobs'[e][w])
  <2>1. ASSUME pass[e] # <<>>, jobs'[e][w] = PollJob(e, Head(pass[e])) PROVE Caused(tr[1])
    <3> DEFINE x == Head(pass[e])
    <3>1. /\ jobs'[e][w].kind \in {"succeed", "fail", "mark"}
          /\ jobs'[e][w].trs = {x}
          /\ jobs'[e][w].kind = "fail" => oper[x] \in {"failed", "aborted"}
      BY <2>1 DEF PollJob, Job
    <3>2. tr = x
      BY <3>1
    <3>3. oper[tr] \in {"failed", "aborted"}
      BY <3>1, <3>2
    <3>4. tr = <<tr[1], tr[2]>> /\ tr[2] \in Tasks
      BY <1>1 DEF TaskRuns
    <3>5. CASE oper[tr] = "failed"
      BY <3>4, <3>5 DEF Caused
    <3>6. CASE oper[tr] = "aborted"
      BY <1>1, <3>6 DEF RowsAreCaused
    <3> QED
      BY <3>3, <3>5, <3>6
  <2>2. ASSUME NEW kind \in {"start", "oskip"}, NEW trs, NEW late, jobs'[e][w] = Job(kind, trs, late)
        PROVE  FALSE
    BY <2>2 DEF Job
  <2>3. ASSUME NEW aborted \in Orphans, NEW marked \in Orphans,
               jobs'[e][w] = Job("abort", {aborted} \cap RunningOrphans, {marked})
        PROVE  Caused(tr[1])
    <3>1. tr \in {aborted, marked}
      BY <2>3 DEF Job
    <3> QED
      BY <1>1, <3>1 DEF Orphans, RowsAreCaused
  <2> QED
    BY <1>1, <1>3, <2>1, <2>2, <2>3, CauseStays DEF NewJob
<1>4. CASE JobAdvances(e, w)
  <2>1. ASSUME NEW job, Becomes(e, w, job) PROVE jobs'[e][w] = job
    BY <2>1, BecomesElsewhere
  <2>2. CASE RunOperationFault(e, w) \/ SetRunRunningUnanswered(e, w) \/ SetRunRunningFault(e, w)
    <3>1. faults \in Nat /\ faults' = faults + 1
      <4>1. Fault
        BY <2>2 DEF RunOperationFault, SetRunRunningUnanswered, SetRunRunningFault
      <4> QED
        BY <4>1, WorkflowAssumption DEF Fault, TypeOK
    <3> QED
      BY <3>1 DEF Caused
  <2>3. CASE AbortOperation(e, w) \/ AbortOperationFault(e, w)
    <3>1. jobs'[e][w] = Job("amark", jobs[e][w].late, {}) /\ jobs[e][w].kind = "abort"
      BY <2>1, <2>3 DEF AbortOperation, AbortOperationFault, ThenMarkFailed, At
    <3>2. tr \in jobs[e][w].late
      BY <3>1 DEF Job
    <3> QED
      BY <1>1, <3>1, <3>2, CauseStays DEF JobsAreCaused
  <2>4. CASE ReadToFail(e, w)
    <3>1. tr \in jobs[e][w].trs /\ jobs[e][w].kind = "amark"
      BY <2>1, <2>4 DEF ReadToFail, ReadRows, IdleJob, Job, At
    <3> QED
      BY <1>1, <3>1, CauseStays DEF JobsAreCaused
  <2>5. CASE ReadToMark(e, w) \/ ReadToSkip(e, w) \/ ReadToSkipOrphan(e, w)
    <3>1. jobs'[e][w].kind \in {"idle", "markw", "skipw"}
      BY <2>1, <2>5 DEF ReadToMark, ReadToSkip, ReadToSkipOrphan, ReadRows, IdleJob, Job
    <3> QED
      BY <3>1
  <2>6. CASE ReadManifest(e, w) \/ ManifestUnreadable(e, w) \/ RunOperation(e, w) \/ SetRunRunning(e, w)
    <3>1. PICK kind \in {"run", "skip", "drset", "mark"} :
              \E trs, late : jobs'[e][w] = Job(kind, trs, late)
      BY <2>1, <2>6 DEF ReadManifest, ManifestUnreadable, RunOperation, SetRunRunning, Advance
    <3> QED
      BY <3>1 DEF Job
  <2> QED
    BY <1>4, <2>2, <2>3, <2>4, <2>5, <2>6 DEF JobAdvances
<1> QED
  BY <1>2, <1>3, <1>4, JobSteps

(* Without faults and unreadable TaskRefs, a run fails, and an operation   *)
(* is aborted, only when an operation of the run has failed.               *)
THEOREM FailureCorrect == ASSUME BadTasks = {} PROVE Spec => []FailureHasACause
<1>1. Init => CauseInv
  <2> SUFFICES ASSUME Init PROVE CauseInv
    OBVIOUS
  <2>1. NoExam.pc = "idle" /\ IdleJob.kind = "idle" /\ IdleJob.trs = {}
    BY DEF NoExam, Examination, IdleJob, Job
  <2> QED
    BY <2>1, TypeInitial DEF Init, CauseInv, RowsAreCaused, SnapshotsAreCaused, Examining, JobsAreCaused
<1>2. CauseInv /\ [Next]_vars => CauseInv'
  <2> SUFFICES ASSUME CauseInv, [Next]_vars PROVE CauseInv'
    OBVIOUS
  <2>1. TypeOK'
    BY TypeNext DEF CauseInv
  <2> QED
    BY <2>1, RowsStayCaused, SnapshotsStayCaused, JobsStayCaused DEF CauseInv
<1>3. CauseInv => FailureHasACause
  <2> SUFFICES ASSUME CauseInv, NEW r \in Runs, ~ Caused(r)
               PROVE  drun[r] # "failed" /\ \A t \in Tasks : oper[<<r, t>>] # "aborted"
    BY DEF FailureHasACause, Caused
  <2>1. \A t \in Tasks : <<r, t>> \in TaskRuns /\ <<r, t>>[1] = r
    BY DEF TaskRuns
  <2> QED
    BY <2>1 DEF CauseInv, RowsAreCaused
<1> QED
  BY <1>1, <1>2, <1>3, PTL DEF Spec

-----------------------------------------------------------------------------
(* A step of the cluster's operations leaves the dag runs alone. *)
LEMMA OperOrRuns == [Next]_vars => UNCHANGED oper \/ UNCHANGED drun
<1> SUFFICES ASSUME [Next]_vars, drun' # drun PROVE UNCHANGED oper
  OBVIOUS
<1>1. ASSUME NEW r \in Runs, QueueRun(r) PROVE UNCHANGED oper
  BY <1>1 DEF QueueRun
<1>2. ASSUME NEW s \in Schedulers, CommitUpdate(s) PROVE UNCHANGED oper
  BY <1>2 DEF CommitUpdate
<1>3. ASSUME NEW e \in Executors, NEW w \in Slots, SetsRun(e, w)
      PROVE  UNCHANGED oper
  BY <1>3 DEF SetsRun, ManifestUnreadable, SetRunRunning, SetRunRunningUnanswered
<1> QED
  BY <1>1, <1>2, <1>3, WhoWritesRuns

Reported == {r \in Runs : drun[r] = "success"}

LEMMA OperImplements ==
    ASSUME OrderInv, [Next]_vars, oper' # oper
    PROVE  Promise!Next
<1> USE DEF OrderInv, TruthInv
<1>1. oper \in [TaskRuns -> OperationStates] /\ oper' \in [TaskRuns -> OperationStates]
  BY TypeNext DEF TypeOK
<1>2. UNCHANGED Reported
  BY OperOrRuns DEF Reported
<1>3. ASSUME NEW r \in Runs, NEW t \in Tasks, oper[<<r, t>>] = "none", UpstreamDone(<<r, t>>),
             oper' = [oper EXCEPT ![<<r, t>>] = "running"]
      PROVE  Promise!Next
  BY <1>2, <1>3 DEF Promise!Next, Promise!Start, UpstreamDone, Completed, Reported
<1>4. ASSUME NEW r \in Runs, NEW t \in Tasks, NEW state \in {"completed", "failed", "aborted"},
             oper[<<r, t>>] = "running", oper' = [oper EXCEPT ![<<r, t>>] = state]
      PROVE  Promise!Next
  BY <1>2, <1>4 DEF Promise!Next, Promise!End, Reported
<1>5. ASSUME NEW e \in Executors, NEW w \in Slots, At(e, w, "run"), Start(jobs[e][w].trs)
      PROVE  Promise!Next
  <2>1. PICK tr \in TaskRuns : oper'[tr] # oper[tr]
    BY <1>1
  <2>2. tr \in jobs[e][w].trs /\ oper[tr] = "none"
    BY <1>5, <2>1 DEF Start
  <2>3. \A x \in jobs[e][w].trs : x = tr
    BY <1>5, <2>2 DEF OneOperation, At
  <2>4. oper' = [oper EXCEPT ![tr] = "running"]
    BY <1>1, <1>5, <2>2, <2>3 DEF Start
  <2>5. UpstreamDone(tr)
    BY <1>5, <2>2 DEF QueuedIsReady, At
  <2>6. PICK r \in Runs, t \in Tasks : tr = <<r, t>>
    BY DEF TaskRuns
  <2> QED
    BY <1>3, <2>2, <2>4, <2>5, <2>6
<1>6. ASSUME NEW e \in Executors, NEW w \in Slots, AbortOperation(e, w) PROVE Promise!Next
  <2>1. PICK tr \in TaskRuns : oper'[tr] # oper[tr]
    BY <1>1
  <2>2. tr \in jobs[e][w].trs /\ oper[tr] = "running" /\ jobs[e][w].kind = "abort"
    BY <1>6, <2>1 DEF AbortOperation, At
  <2>3. \A x \in jobs[e][w].trs : x = tr
    BY <2>2 DEF OneOperation
  <2>4. oper' = [oper EXCEPT ![tr] = "aborted"]
    BY <1>1, <1>6, <2>2, <2>3 DEF AbortOperation
  <2>5. PICK r \in Runs, t \in Tasks : tr = <<r, t>>
    BY DEF TaskRuns
  <2> QED
    BY <1>4, <2>2, <2>4, <2>5
<1>7. ASSUME NEW tr \in TaskRuns, NEW state \in {"completed", "failed"}, OperationEnds(tr, state)
      PROVE  Promise!Next
  <2>1. PICK r \in Runs, t \in Tasks : tr = <<r, t>>
    BY DEF TaskRuns
  <2> QED
    BY <1>4, <1>7, <2>1 DEF OperationEnds
<1> QED
  BY <1>5, <1>6, <1>7, WhoWritesOper

LEMMA RunsImplement ==
    ASSUME TruthInv, [Next]_vars, Reported' # Reported
    PROVE  Promise!Next
<1> USE DEF TruthInv
<1>1. drun \in [Runs -> DagRunStates] /\ UNCHANGED oper
  BY OperOrRuns DEF TypeOK, Reported
<1>2. ASSUME NEW r \in Runs, NEW state, state # "success", drun' = [drun EXCEPT ![r] = state]
      PROVE  Promise!Next
  <2>1. Reported' = Reported \ {r}
    BY <1>1, <1>2 DEF Reported
  <2> QED
    BY <1>1, <2>1 DEF Promise!Next, Promise!Reopen, Reported
<1>3. ASSUME NEW s \in Schedulers, CommitUpdate(s) PROVE Promise!Next
  <2> DEFINE r == exam[s].run
             state == RunState(exam[s].seen)
  <2>1. r \in Runs /\ exam[s].pc = "update" /\ drun' = [drun EXCEPT ![r] = state]
    BY <1>3 DEF CommitUpdate, TypeOK, Exam
  <2>2. CASE state = "success"
    <3>1. \A t \in Tasks : oper[<<r, t>>] = "completed"
      BY <2>1, <2>2 DEF RunState, AllSuccess, SnapshotsAreTrue, Examining, Completed
    <3>2. Reported' = Reported \cup {r}
      BY <1>1, <2>1, <2>2 DEF Reported
    <3> QED
      BY <1>1, <2>1, <3>1, <3>2 DEF Promise!Next, Promise!Report, Reported
  <2>3. CASE state # "success"
    BY <1>2, <2>1, <2>3
  <2> QED
    BY <2>2, <2>3
<1>4. ASSUME NEW r \in Runs, QueueRun(r) PROVE Promise!Next
  BY <1>2, <1>4 DEF QueueRun
<1>5. ASSUME NEW e \in Executors, NEW w \in Slots, SetsRun(e, w)
      PROVE  Promise!Next
  <2>1. jobs[e][w].trs \subseteq TaskRuns
    BY DEF TypeOK, Jobs
  <2>2. PICK tr \in jobs[e][w].trs, state \in {"failed", "running"} :
            drun' = [drun EXCEPT ![tr[1]] = state]
    BY <1>5 DEF SetsRun, ManifestUnreadable, SetRunRunning, SetRunRunningUnanswered
  <2>3. tr[1] \in Runs
    BY <2>1 DEF TaskRuns
  <2> QED
    BY <1>2, <2>2, <2>3
<1> QED
  BY <1>3, <1>4, <1>5, WhoWritesRuns DEF Reported

(* When all TaskRefs deserialize, the processes keep the promise of        *)
(* Pipeline: every step of theirs is one of its steps, or hidden from it.  *)
THEOREM PromiseCorrect == ASSUME BadTasks = {} PROVE Spec => KeepsPromise
<1>1. Init => Promise!Init
  BY DEF Init, Promise!Init, Promise!TaskRuns, TaskRuns
<1>2. OrderInv /\ [Next]_vars => [Promise!Next]_<<oper, Reported>>
  BY OperImplements, RunsImplement DEF OrderInv
<1> QED
  BY <1>1, <1>2, OrderCorrect, PTL DEF Spec, KeepsPromise, Promise!Spec, Reported
=============================================================================
