------------------------------ MODULE Workflow ------------------------------
(***************************************************************************)
(* The life of dag runs and task runs: scheduler processes examine dag     *)
(* runs (scheduler.py, dagrun.py), executor processes start, poll, abort   *)
(* and skip task runs (executor.py, taskrun.py), and a YT cluster runs the *)
(* operations.  The processes share nothing but the rows of the dag_run    *)
(* and task_run tables and the cluster's operations.                       *)
(*                                                                         *)
(* The grain of atomicity is one access to the tables.  update_state runs  *)
(* in a tablet transaction: it reads a snapshot and its commit fails when  *)
(* a row it writes was written since.  TaskRun.set_state opens its         *)
(* transaction on another client than the one it reads and writes with, so *)
(* its read and its write are two unprotected accesses.                    *)
(***************************************************************************)
EXTENDS Integers, Sequences, FiniteSets

CONSTANTS
    Runs,        \* the dag runs, created by the claiming of metas
    Tasks,       \* the tasks of the dag all the runs execute
    Upstream,    \* Upstream[t]: the tasks that t consumes the outputs of
    BadTasks,    \* tasks whose TaskRef some executor cannot deserialize
    Schedulers,  \* the Scheduler jobs, one for each process
    Executors,   \* the Executor jobs, one for each process
    Slots,       \* the pool jobs an executor has in flight, queued or running
    MaxBatches,  \* bound: fetched batches waiting in a scheduler's callbacks
    MaxFaults    \* bound: failed requests and crashes in one behaviour

TaskRuns == Runs \X Tasks

ASSUME WorkflowAssumption ==
    /\ IsFiniteSet(Runs) /\ Runs # {}
    /\ IsFiniteSet(Tasks) /\ Tasks # {}
    /\ Upstream \in [Tasks -> SUBSET Tasks]
    /\ BadTasks \subseteq Tasks
    /\ MaxBatches \in Nat
    /\ MaxFaults \in Nat

DagRunStates == {"scheduled", "queued", "running", "success", "failed"}
UnfinishedStates == {"scheduled", "queued", "running"}
FinishedStates == {"failed", "success", "skipped"}
TaskRunStates == UnfinishedStates \cup FinishedStates \cup {"absent"}
OperationStates == {"none", "running", "completed", "failed", "aborted"}

(***************************************************************************)
(* A pool job of an executor and the access it performs next:              *)
(*   start    read the dag run and the TaskRef of a queued task run        *)
(*   run      call run_operation                                           *)
(*   drset    the operation started; set the dag run running               *)
(*   mark     read the row, which must be queued; markw: set it running    *)
(*   skip     read the row, which must be queued                           *)
(*   oskip    read the orphans' rows, which must be queued or running      *)
(*   skipw    set the rows read skipped                                    *)
(*   abort    call abort_operation                                         *)
(*   amark    read the row, which must be running                          *)
(*   fail     set the row failed; succeed: set it success                  *)
(* trs: the task runs whose rows the job is about.  late: the task runs    *)
(* bound late, that a closure of the job names only when it is called.     *)
(***************************************************************************)
JobKinds == {"idle", "start", "run", "drset", "mark", "markw", "skip", "oskip",
             "skipw", "abort", "amark", "fail", "succeed"}
Job(kind, trs, late) == [kind |-> kind, trs |-> trs, late |-> late]
IdleJob == Job("idle", {}, {})

(* What a scheduler knows of the dag run it examines: nothing, the snapshot *)
(* of an open transaction ("update"), or the tasks to schedule that the    *)
(* committed one returned ("schedule").  dirty and dirtyRuns: the rows of  *)
(* the run that others wrote since the snapshot.                           *)
Examination(pc, run, seen, dirty, dirtyRuns) ==
    [pc |-> pc, run |-> run, seen |-> seen, dirty |-> dirty, dirtyRuns |-> dirtyRuns]
NoExam == Examination("idle", CHOOSE r \in Runs : TRUE, [t \in Tasks |-> "absent"], {}, {})

VARIABLES
    drun,    \* the state column of the dag_run rows
    trow,    \* the state column of the task_run rows, "absent" before they exist
    oper,    \* the cluster's operation of a task run (its run_id is the mutation id)
    inbox,   \* for each scheduler, the batches fetched and not yet processed
    cur,     \* for each scheduler, the rest of the batch under _schedule_dag_runs
    exam,    \* for each scheduler, the examination in progress
    pend,    \* for each executor, the keys of _pending_operations in dict order
    pass,    \* for each executor, the rest of the poll pass in progress
    cbs,     \* for each executor, the run_ids its queued callbacks will pop
    jobs,    \* for each executor, its pool jobs
    faults   \* failed requests and crashes so far

tables == <<drun, trow>>
schedulerVars == <<inbox, cur, exam>>
executorVars == <<pend, pass, cbs, jobs>>
vars == <<drun, trow, oper, inbox, cur, exam, pend, pass, cbs, jobs, faults>>

Init ==
    /\ drun = [r \in Runs |-> "scheduled"]
    /\ trow = [tr \in TaskRuns |-> "absent"]
    /\ oper = [tr \in TaskRuns |-> "none"]
    /\ inbox = [s \in Schedulers |-> <<>>]
    /\ cur = [s \in Schedulers |-> {}]
    /\ exam = [s \in Schedulers |-> NoExam]
    /\ pend = [e \in Executors |-> <<>>]
    /\ pass = [e \in Executors |-> <<>>]
    /\ cbs = [e \in Executors |-> {}]
    /\ jobs = [e \in Executors |-> [w \in Slots |-> IdleJob]]
    /\ faults = 0

Fault == faults < MaxFaults /\ faults' = faults + 1

-----------------------------------------------------------------------------
(* Writes to the tables. *)

WriteTasks(trs, state) == [tr \in TaskRuns |-> IF tr \in trs THEN state ELSE trow[tr]]

(* The open transactions that will conflict with a write of these rows. *)
Dirtied(trs, runs) ==
    [s \in Schedulers |->
        IF exam[s].pc = "update"
        THEN Examination("update", exam[s].run, exam[s].seen,
                         exam[s].dirty \cup {tr \in trs : tr[1] = exam[s].run},
                         exam[s].dirtyRuns \cup (runs \cap {exam[s].run}))
        ELSE exam[s]]

-----------------------------------------------------------------------------
(* The scheduler. *)

(* queue_run_atomic: a transaction that re-reads the dag run, creates its  *)
(* task runs, the roots queued at once, and sets the run queued.  It writes *)
(* the one row it depends on, so committing it is one atomic step.         *)
Roots == {t \in Tasks : Upstream[t] = {}}

QueueRun(r) ==
    /\ drun[r] = "scheduled"
    /\ drun' = [drun EXCEPT ![r] = "queued"]
    /\ trow' = [tr \in TaskRuns |->
                    IF tr[1] # r THEN trow[tr]
                    ELSE IF tr[2] \in Roots THEN "queued" ELSE "scheduled"]
    /\ UNCHANGED <<oper, schedulerVars, executorVars, faults>>

(* Mutant: the running dag runs are never selected. *)
FetchQueuedRunsOnly(s, state) ==
    LET batch == {r \in Runs : drun[r] = "queued"}
    IN  /\ Len(inbox[s]) < MaxBatches
        /\ batch # {}
        /\ inbox' = [inbox EXCEPT ![s] = Append(@, batch)]
        /\ UNCHANGED <<tables, oper, cur, exam, executorVars, faults>>

(* A pool worker selects the queued or the running dag runs; the batch     *)
(* waits for the scheduler thread to drain its callbacks.                  *)
FetchRuns(s, state) ==
    LET batch == {r \in Runs : drun[r] = state}
    IN  /\ Len(inbox[s]) < MaxBatches
        /\ batch # {}
        /\ inbox' = [inbox EXCEPT ![s] = Append(@, batch)]
        /\ UNCHANGED <<tables, oper, cur, exam, executorVars, faults>>

(* _drain_callbacks calls _schedule_dag_runs with the oldest batch. *)
NextBatch(s) ==
    /\ exam[s].pc = "idle"
    /\ cur[s] = {}
    /\ inbox[s] # <<>>
    /\ cur' = [cur EXCEPT ![s] = Head(inbox[s])]
    /\ inbox' = [inbox EXCEPT ![s] = Tail(@)]
    /\ UNCHANGED <<tables, oper, exam, executorVars, faults>>

(* update_state begins: trs_scheduling_decisions reads the run's rows.  The *)
(* dag run's own row, which the batch may hold a stale copy of, is not read.*)
BeginUpdate(s, r) ==
    /\ exam[s].pc = "idle"
    /\ r \in cur[s]
    /\ cur' = [cur EXCEPT ![s] = @ \ {r}]
    /\ exam' = [exam EXCEPT ![s] =
                   Examination("update", r, [t \in Tasks |-> trow[<<r, t>>]], {}, {})]
    /\ UNCHANGED <<tables, oper, inbox, executorVars, faults>>

AnyFailed(seen) == \E t \in Tasks : seen[t] = "failed"
AllSuccess(seen) == \A t \in Tasks : seen[t] = "success"

(* Mutant: the test for the end of the run comes before that for failures. *)
RunStateFinishedFirst(seen) ==
    IF \A t \in Tasks : seen[t] \in FinishedStates THEN "success"
    ELSE IF AnyFailed(seen) THEN "failed" ELSE "running"

RunState(seen) ==
    IF AnyFailed(seen) THEN "failed"
    ELSE IF AllSuccess(seen) THEN "success" ELSE "running"

Skippable(seen) ==
    {t \in Tasks : AnyFailed(seen) /\ seen[t] \in {"scheduled", "queued"}}

(* Mutant: an upstream task that runs counts as finished. *)
ReadyWhileUpstreamRuns(seen) ==
    {t \in Tasks : /\ ~ AnyFailed(seen)
                   /\ seen[t] = "scheduled"
                   /\ \A u \in Upstream[t] : seen[u] \in FinishedStates \cup {"running"}}

(* _get_ready_trs: a scheduled task whose upstream tasks are all finished, *)
(* whichever way they finished.                                            *)
Ready(seen) ==
    {t \in Tasks : /\ ~ AnyFailed(seen)
                   /\ seen[t] = "scheduled"
                   /\ \A u \in Upstream[t] : seen[u] \in FinishedStates}

(* Mutant: only the dag run's own row is checked for conflicting writes. *)
ConflictOnRunOnly(s) == exam[s].dirtyRuns # {}

SkippedRows(s) == {exam[s].run} \X Skippable(exam[s].seen)
Conflict(s) == exam[s].dirtyRuns # {} \/ SkippedRows(s) \cap exam[s].dirty # {}

(* update_state commits: it skips what a failure makes unreachable, sets   *)
(* the dag run's state and returns the tasks that became ready.            *)
CommitUpdate(s) ==
    LET r == exam[s].run
        seen == exam[s].seen
    IN  /\ exam[s].pc = "update"
        /\ ~ Conflict(s)
        /\ trow' = WriteTasks(SkippedRows(s), "skipped")
        /\ drun' = [drun EXCEPT ![r] = RunState(seen)]
        /\ exam' = [Dirtied(SkippedRows(s), {r}) EXCEPT ![s] =
                       IF Ready(seen) = {} THEN NoExam
                       ELSE Examination("schedule", r, seen, {}, {})]
        /\ UNCHANGED <<oper, inbox, cur, executorVars, faults>>

(* The commit conflicts.  The exception leaves _schedule_dag_runs, so the  *)
(* rest of the batch is dropped with it.                                   *)
ConflictUpdate(s) ==
    /\ exam[s].pc = "update"
    /\ Conflict(s)
    /\ exam' = [exam EXCEPT ![s] = NoExam]
    /\ cur' = [cur EXCEPT ![s] = {}]
    /\ UNCHANGED <<tables, oper, inbox, executorVars, faults>>

(* schedule_trs: a transaction that reads which of the ready task runs are *)
(* still scheduled and queues exactly those.                               *)
ScheduleTrs(s) ==
    LET rows == {tr \in {exam[s].run} \X Ready(exam[s].seen) : trow[tr] = "scheduled"}
    IN  /\ exam[s].pc = "schedule"
        /\ trow' = WriteTasks(rows, "queued")
        /\ exam' = [Dirtied(rows, {}) EXCEPT ![s] = NoExam]
        /\ UNCHANGED <<drun, oper, inbox, cur, executorVars, faults>>

(* An exception under _schedule_dag_runs: a dag that does not load, a      *)
(* failed select or commit.  It drops the rest of the batch.               *)
SchedulerFault(s) ==
    /\ cur[s] # {} \/ exam[s].pc # "idle"
    /\ Fault
    /\ exam' = [exam EXCEPT ![s] = NoExam]
    /\ cur' = [cur EXCEPT ![s] = {}]
    /\ UNCHANGED <<tables, oper, inbox, executorVars>>

(* The scheduler's process dies and another one takes its place. *)
SchedulerCrash(s) ==
    /\ Fault
    /\ inbox' = [inbox EXCEPT ![s] = <<>>]
    /\ exam' = [exam EXCEPT ![s] = NoExam]
    /\ cur' = [cur EXCEPT ![s] = {}]
    /\ UNCHANGED <<tables, oper, executorVars>>

-----------------------------------------------------------------------------
(* The executor: its thread, and the jobs it gives to the pool. *)

Submit(e, job) ==
    \E w \in Slots : jobs[e][w] = IdleJob /\ jobs' = [jobs EXCEPT ![e][w] = job]

Becomes(e, w, job) == jobs' = [jobs EXCEPT ![e][w] = job]
Finish(e, w) == Becomes(e, w, IdleJob)
Advance(e, w, kind) == Becomes(e, w, Job(kind, jobs[e][w].trs, jobs[e][w].late))

At(e, w, kind) == jobs[e][w].kind = kind

(* Mutant: what was started once is not submitted again. *)
SubmitStartOnce(e, tr) ==
    /\ trow[tr] = "queued"
    /\ oper[tr] = "none"
    /\ Submit(e, Job("start", {tr}, {}))
    /\ UNCHANGED <<tables, oper, schedulerVars, pend, pass, cbs, faults>>

(* _start_taskruns selects the queued task runs; its callback submits a    *)
(* start job for each of them, again at a later pass while it stays queued.*)
SubmitStart(e, tr) ==
    /\ trow[tr] = "queued"
    /\ Submit(e, Job("start", {tr}, {}))
    /\ UNCHANGED <<tables, oper, schedulerVars, pend, pass, cbs, faults>>

(* _get_task_run_manifest reads the dag run and deserializes the task. *)
ReadManifest(e, w) ==
    /\ At(e, w, "start")
    /\ Advance(e, w, IF \E tr \in jobs[e][w].trs : drun[tr[1]] = "failed"
                     THEN "skip" ELSE "run")
    /\ UNCHANGED <<tables, oper, schedulerVars, pend, pass, cbs, faults>>

(* The TaskRef does not deserialize: the dag run is set failed there and   *)
(* then, and its copy, failed now, sends the task run to be skipped.       *)
ManifestUnreadable(e, w) ==
    \E tr \in jobs[e][w].trs :
        /\ At(e, w, "start")
        /\ tr[2] \in BadTasks
        /\ drun' = [drun EXCEPT ![tr[1]] = "failed"]
        /\ exam' = Dirtied({}, {tr[1]})
        /\ Advance(e, w, "skip")
        /\ UNCHANGED <<trow, oper, inbox, cur, pend, pass, cbs, faults>>

Items(q) == {q[i] : i \in 1..Len(q)}

(* Mutant: run_operation without a mutation id. *)
StartAgain(trs) ==
    oper' = [tr \in TaskRuns |-> IF tr \in trs THEN "running" ELSE oper[tr]]

(* run_operation with the task run's id as the mutation id: the cluster    *)
(* answers a repeated call with the operation it already has.              *)
Start(trs) ==
    oper' = [tr \in TaskRuns |->
                IF tr \in trs /\ oper[tr] = "none" THEN "running" ELSE oper[tr]]

RunOperation(e, w) ==
    /\ At(e, w, "run")
    /\ Start(jobs[e][w].trs)
    /\ Advance(e, w, "drset")
    /\ UNCHANGED <<tables, schedulerVars, pend, pass, cbs, faults>>

(* run_operation raises, whether or not the cluster got the request. *)
RunOperationFault(e, w) ==
    /\ At(e, w, "run")
    /\ Fault
    /\ Start(jobs[e][w].trs) \/ UNCHANGED oper
    /\ Advance(e, w, "fail")
    /\ UNCHANGED <<tables, schedulerVars, pend, pass, cbs>>

(* dagrun.set_state(RUNNING) from the copy the job read, without a look at *)
(* the row; the task run is pending from then on.                          *)
SetRunRunning(e, w) ==
    \E tr \in jobs[e][w].trs :
        /\ At(e, w, "drset")
        /\ drun' = [drun EXCEPT ![tr[1]] = "running"]
        /\ exam' = Dirtied({}, {tr[1]})
        /\ pend' = [pend EXCEPT ![e] = IF tr \in Items(@) THEN @ ELSE Append(@, tr)]
        /\ Advance(e, w, "mark")
        /\ UNCHANGED <<trow, oper, inbox, cur, pass, cbs, faults>>

(* The same try covers that write: when it raises, the task run is marked  *)
(* failed although its operation runs.  The write may have taken effect.   *)
SetRunRunningUnanswered(e, w) ==
    \E tr \in jobs[e][w].trs :
        /\ At(e, w, "drset")
        /\ Fault
        /\ drun' = [drun EXCEPT ![tr[1]] = "running"]
        /\ exam' = Dirtied({}, {tr[1]})
        /\ Advance(e, w, "fail")
        /\ UNCHANGED <<trow, oper, inbox, cur, pend, pass, cbs>>

SetRunRunningFault(e, w) ==
    /\ At(e, w, "drset")
    /\ Fault
    /\ Advance(e, w, "fail")
    /\ UNCHANGED <<tables, oper, schedulerVars, pend, pass, cbs>>

(* TaskRun.set_state with a required state: the read of the rows.  The job *)
(* goes on with the rows that match and ends when none does.               *)
ReadRows(e, w, kind, required, next) ==
    LET matched == {tr \in jobs[e][w].trs : trow[tr] \in required}
    IN  /\ At(e, w, kind)
        /\ Becomes(e, w, IF matched = {} THEN IdleJob ELSE Job(next, matched, {}))
        /\ UNCHANGED <<tables, oper, schedulerVars, pend, pass, cbs, faults>>

ReadToMark(e, w)       == ReadRows(e, w, "mark",  {"queued"}, "markw")
ReadToSkip(e, w)       == ReadRows(e, w, "skip",  {"queued"}, "skipw")
ReadToSkipOrphan(e, w) == ReadRows(e, w, "oskip", {"queued", "running"}, "skipw")
ReadToFail(e, w)       == ReadRows(e, w, "amark", {"running"}, "fail")

(* TaskRun.set_state: the write.  A job with a completion callback enqueues *)
(* it for the executor's thread.                                           *)
WriteRows(e, w, kind, state) ==
    /\ At(e, w, kind)
    /\ trow' = WriteTasks(jobs[e][w].trs, state)
    /\ exam' = Dirtied(jobs[e][w].trs, {})
    /\ cbs' = [cbs EXCEPT ![e] = @ \cup jobs[e][w].late]
    /\ Finish(e, w)
    /\ UNCHANGED <<drun, oper, inbox, cur, pend, pass, faults>>

(* Mutant: the cluster's name of the state is written to the row. *)
MarkCompleted(e, w) == WriteRows(e, w, "succeed", "completed")

MarkRunning(e, w) == WriteRows(e, w, "markw", "running")
MarkSkipped(e, w) == WriteRows(e, w, "skipw", "skipped")
MarkFailed(e, w)  == WriteRows(e, w, "fail", "failed")
MarkSuccess(e, w) == WriteRows(e, w, "succeed", "success")

(* An access of a job fails.  The job ends, and its completion callback,   *)
(* which does not look at the outcome, is enqueued all the same.           *)
JobFault(e, w) ==
    /\ jobs[e][w].kind \in JobKinds \ {"idle", "run", "drset", "abort"}
    /\ Fault
    /\ cbs' = [cbs EXCEPT ![e] = @ \cup
                  (IF jobs[e][w].kind \in {"fail", "succeed"} THEN jobs[e][w].late ELSE {})]
    /\ Finish(e, w)
    /\ UNCHANGED <<tables, oper, schedulerVars, pend, pass>>

(* _poll_pending_operations copies the pending items and asks the cluster  *)
(* for one operation after the other.                                      *)
BeginPoll(e) ==
    /\ pass[e] = <<>>
    /\ pend[e] # <<>>
    /\ pass' = [pass EXCEPT ![e] = pend[e]]
    /\ UNCHANGED <<tables, oper, schedulerVars, pend, cbs, jobs, faults>>

(* Mutant: every operation that has ended counts as completed. *)
PollJobOfEnded(e, tr) ==
    LET last == {pass[e][Len(pass[e])]}
    IN  IF oper[tr] \in {"completed", "failed", "aborted"}
        THEN Job("succeed", {tr}, last) ELSE Job("mark", {tr}, {})

(* The closure given to on_complete reads the loop's run_id when it is     *)
(* called, after the loop: all the callbacks of a pass pop its last item.  *)
PollJob(e, tr) ==
    LET last == {pass[e][Len(pass[e])]}
    IN  CASE oper[tr] = "completed" -> Job("succeed", {tr}, last)
          [] oper[tr] \in {"failed", "aborted"} -> Job("fail", {tr}, last)
          [] OTHER -> Job("mark", {tr}, {})

PollItem(e) ==
    /\ pass[e] # <<>>
    /\ Submit(e, PollJob(e, Head(pass[e])))
    /\ pass' = [pass EXCEPT ![e] = Tail(@)]
    /\ UNCHANGED <<tables, oper, schedulerVars, pend, cbs, faults>>

PollItemFault(e) ==
    /\ pass[e] # <<>>
    /\ Fault
    /\ pass' = [pass EXCEPT ![e] = Tail(@)]
    /\ UNCHANGED <<tables, oper, schedulerVars, pend, cbs, jobs>>

(* _drain_callbacks, after the poll: a completion callback pops its entry. *)
Without(q, x) ==
    IF x \in Items(q)
    THEN LET i == CHOOSE i \in 1..Len(q) : q[i] = x
         IN  [j \in 1..(Len(q) - 1) |-> IF j < i THEN q[j] ELSE q[j + 1]]
    ELSE q

PopPending(e, tr) ==
    /\ pass[e] = <<>>
    /\ tr \in cbs[e]
    /\ cbs' = [cbs EXCEPT ![e] = @ \ {tr}]
    /\ pend' = [pend EXCEPT ![e] = Without(@, tr)]
    /\ UNCHANGED <<tables, oper, schedulerVars, pass, jobs, faults>>

(* Mutants: the orphans of any dag run; the queued orphans only. *)
OrphansOfAnyRun == {tr \in TaskRuns : trow[tr] \in {"queued", "running"}}
OrphansNeverStarted == {tr \in TaskRuns : trow[tr] = "queued" /\ drun[tr[1]] = "failed"}

(* _orphan_cleanup selects the unfinished task runs of failed dag runs.    *)
Orphans == {tr \in TaskRuns : trow[tr] \in {"queued", "running"} /\ drun[tr[1]] = "failed"}
QueuedOrphans == {tr \in Orphans : trow[tr] = "queued"}
RunningOrphans == Orphans \ QueuedOrphans

SkipOrphans(e) ==
    /\ QueuedOrphans # {}
    /\ Submit(e, Job("oskip", QueuedOrphans, {}))
    /\ UNCHANGED <<tables, oper, schedulerVars, pend, pass, cbs, faults>>

(* _try_abort_run reads the loop's variable tr twice, while the loop may   *)
(* still be moving it: the orphan it aborts and the one it marks can be    *)
(* two.  A queued orphan has no operation_id to abort.                     *)
AbortOrphan(e, aborted, marked) ==
    /\ RunningOrphans # {}
    /\ {aborted, marked} \subseteq Orphans
    /\ Submit(e, Job("abort", {aborted} \cap RunningOrphans, {marked}))
    /\ UNCHANGED <<tables, oper, schedulerVars, pend, pass, cbs, faults>>

ThenMarkFailed(e, w) == Becomes(e, w, Job("amark", jobs[e][w].late, {}))

AbortOperation(e, w) ==
    /\ At(e, w, "abort")
    /\ oper' = [tr \in TaskRuns |->
                   IF tr \in jobs[e][w].trs /\ oper[tr] = "running" THEN "aborted" ELSE oper[tr]]
    /\ ThenMarkFailed(e, w)
    /\ UNCHANGED <<tables, schedulerVars, pend, pass, cbs, faults>>

(* The abort's retries are exhausted, which _try_abort_run ignores. *)
AbortOperationFault(e, w) ==
    /\ At(e, w, "abort")
    /\ Fault
    /\ ThenMarkFailed(e, w)
    /\ UNCHANGED <<tables, oper, schedulerVars, pend, pass, cbs>>

(* The executor's process dies, its jobs with it, and another one takes    *)
(* its place: _update_pending_tasks adopts the running rows, in the order  *)
(* the select returns them.                                                *)
Orders(S) == {q \in [1..Cardinality(S) -> S] : Items(q) = S}

ExecutorCrash(e) ==
    /\ Fault
    /\ \E q \in Orders({tr \in TaskRuns : trow[tr] = "running"}) :
           pend' = [pend EXCEPT ![e] = q]
    /\ pass' = [pass EXCEPT ![e] = <<>>]
    /\ cbs' = [cbs EXCEPT ![e] = {}]
    /\ jobs' = [jobs EXCEPT ![e] = [w \in Slots |-> IdleJob]]
    /\ UNCHANGED <<tables, oper, schedulerVars>>

-----------------------------------------------------------------------------
(* The cluster. *)

OperationEnds(tr, state) ==
    /\ oper[tr] = "running"
    /\ oper' = [oper EXCEPT ![tr] = state]
    /\ UNCHANGED <<tables, schedulerVars, executorVars, faults>>

-----------------------------------------------------------------------------
SchedulerStep(s) ==
    \/ \E state \in {"queued", "running"} : FetchRuns(s, state)
    \/ NextBatch(s)
    \/ \E r \in Runs : BeginUpdate(s, r)
    \/ CommitUpdate(s)
    \/ ConflictUpdate(s)
    \/ ScheduleTrs(s)
    \/ SchedulerFault(s)
    \/ SchedulerCrash(s)

PoolJobStep(e, w) ==
    \/ ReadManifest(e, w)
    \/ ManifestUnreadable(e, w)
    \/ RunOperation(e, w)
    \/ RunOperationFault(e, w)
    \/ SetRunRunning(e, w)
    \/ SetRunRunningUnanswered(e, w)
    \/ SetRunRunningFault(e, w)
    \/ ReadToMark(e, w)
    \/ ReadToSkip(e, w)
    \/ ReadToSkipOrphan(e, w)
    \/ ReadToFail(e, w)
    \/ MarkRunning(e, w)
    \/ MarkSkipped(e, w)
    \/ MarkFailed(e, w)
    \/ MarkSuccess(e, w)
    \/ JobFault(e, w)
    \/ AbortOperation(e, w)
    \/ AbortOperationFault(e, w)

ExecutorStep(e) ==
    \/ \E tr \in TaskRuns : SubmitStart(e, tr)
    \/ BeginPoll(e)
    \/ PollItem(e)
    \/ PollItemFault(e)
    \/ \E tr \in TaskRuns : PopPending(e, tr)
    \/ SkipOrphans(e)
    \/ \E aborted, marked \in TaskRuns : AbortOrphan(e, aborted, marked)
    \/ ExecutorCrash(e)

Next ==
    \/ \E r \in Runs : QueueRun(r)
    \/ \E s \in Schedulers : SchedulerStep(s)
    \/ \E e \in Executors : ExecutorStep(e)
    \/ \E e \in Executors, w \in Slots : PoolJobStep(e, w)
    \/ \E tr \in TaskRuns, state \in {"completed", "failed"} : OperationEnds(tr, state)

Spec == Init /\ [][Next]_vars

-----------------------------------------------------------------------------
(* Every variable has the values the tables, the cluster and the processes *)
(* can give it: a row holds a state of state.py, a job is at one of the    *)
(* accesses above, and no more faults happen than the bound allows.        *)
Exam == [pc        : {"idle", "update", "schedule"},
         run       : Runs,
         seen      : [Tasks -> TaskRunStates],
         dirty     : SUBSET TaskRuns,
         dirtyRuns : SUBSET Runs]

Jobs == [kind : JobKinds, trs : SUBSET TaskRuns, late : SUBSET TaskRuns]

TypeOK ==
    /\ drun \in [Runs -> DagRunStates]
    /\ trow \in [TaskRuns -> TaskRunStates]
    /\ oper \in [TaskRuns -> OperationStates]
    /\ inbox \in [Schedulers -> Seq(SUBSET Runs)]
    /\ cur \in [Schedulers -> SUBSET Runs]
    /\ exam \in [Schedulers -> Exam]
    /\ pend \in [Executors -> Seq(TaskRuns)]
    /\ pass \in [Executors -> Seq(TaskRuns)]
    /\ cbs \in [Executors -> SUBSET TaskRuns]
    /\ jobs \in [Executors -> [Slots -> Jobs]]
    /\ faults \in 0..MaxFaults

-----------------------------------------------------------------------------
(* Safety. *)

(* A dag run is set successful only when every operation of it completed:  *)
(* no snapshot, stale copy, retry or abort turns anything else into a      *)
(* success (update_state, _poll_pending_operations).                       *)
SuccessIsEarned ==
    \A r \in Runs : drun[r] = "success" =>
        \A t \in Tasks : oper[<<r, t>>] = "completed"

(* No operation is started before all those it takes its inputs from have  *)
(* completed, although _get_ready_trs counts failed and skipped tasks as   *)
(* finished and start jobs act on rows read long ago.  It is a property of *)
(* the runs whose TaskRefs all deserialize.                                *)
UpstreamFirst ==
    \A r \in Runs, t \in Tasks : oper[<<r, t>>] # "none" =>
        \A u \in Upstream[t] : oper[<<r, u>>] = "completed"

(* Unless a request failed or a process crashed, a dag run is set failed,  *)
(* and an operation is aborted, only when an operation of that very run    *)
(* failed: the abort jobs, which may name a task run that is not the one   *)
(* they were submitted for, stay within failed runs.                       *)
FailureHasACause ==
    \A r \in Runs :
        \/ faults > 0
        \/ \E t \in Tasks : oper[<<r, t>>] = "failed"
        \/ drun[r] # "failed" /\ \A t \in Tasks : oper[<<r, t>>] # "aborted"

(* update_state skips the waiting tasks of a failed run, and the conflict  *)
(* check of its transaction keeps it from skipping one that an executor    *)
(* has set running or finished since it was read.                          *)
SkipsOnlyWaiting ==
    [][\A s \in Schedulers : CommitUpdate(s) =>
           \A tr \in TaskRuns : trow'[tr] = trow[tr] \/ trow[tr] \in {"scheduled", "queued"}]_vars

(* The promise of Pipeline. *)
Promise == INSTANCE Pipeline WITH reported <- {r \in Runs : drun[r] = "success"}
KeepsPromise == Promise!Spec

-----------------------------------------------------------------------------
(* What the code says of itself, and does not always do. *)

(* The log line of the completion callback, "Finalized run %s as %s": the  *)
(* run it pops from the pending operations has a final state.              *)
FinalizedIsFinished ==
    \A e \in Executors : \A tr \in cbs[e] : trow[tr] \in FinishedStates

(* Marking a task run running requires its row to be queued: a row with a  *)
(* final state is left alone.                                              *)
FinishedIsNotRestarted ==
    [][\A tr \in TaskRuns : trow[tr] \in FinishedStates => trow'[tr] # "running"]_vars

-----------------------------------------------------------------------------
(* Fairness.  Every iteration of a scheduler's loop fetches dag runs and   *)
(* drains its callbacks; every iteration of an executor's fetches, polls,  *)
(* cleans up and drains, in this order, and waits for room in the pool     *)
(* whenever it submits a job; the pool's workers take every job to its end *)
(* and the operations end.  A poll that begins again and again cannot hold *)
(* the draining off for ever, nor can a pool that others fill again and    *)
(* again hold the cleanup off: strong fairness, where weak fairness does   *)
(* not suffice.  Of the orphans of a cleanup pass the last one is named    *)
(* right by its job, so time and again some running orphan is.  Faults are *)
(* only assumed to be finite.                                              *)
SchedulerFairness(s) ==
    /\ WF_vars(\E state \in {"queued", "running"} : FetchRuns(s, state))
    /\ WF_vars(NextBatch(s))
    /\ WF_vars(\E r \in Runs : BeginUpdate(s, r))
    /\ WF_vars(CommitUpdate(s) \/ ConflictUpdate(s))
    /\ WF_vars(ScheduleTrs(s))

(* What a pool job does next when no request fails. *)
PoolJobProgress(e, w) ==
    \/ ReadManifest(e, w) \/ RunOperation(e, w) \/ SetRunRunning(e, w)
    \/ ReadToMark(e, w) \/ ReadToSkip(e, w) \/ ReadToSkipOrphan(e, w) \/ ReadToFail(e, w)
    \/ MarkRunning(e, w) \/ MarkSkipped(e, w) \/ MarkFailed(e, w) \/ MarkSuccess(e, w)
    \/ AbortOperation(e, w)

ExecutorFairness(e) ==
    /\ \A tr \in TaskRuns : WF_vars(SubmitStart(e, tr))
    /\ WF_vars(BeginPoll(e))
    /\ WF_vars(PollItem(e))
    /\ \A tr \in TaskRuns : SF_vars(PopPending(e, tr))
    /\ SF_vars(SkipOrphans(e))
    /\ SF_vars(\E tr \in RunningOrphans : AbortOrphan(e, tr, tr))
    /\ \A w \in Slots : WF_vars(PoolJobProgress(e, w))

Fairness ==
    /\ \A r \in Runs : WF_vars(QueueRun(r))
    /\ \A s \in Schedulers : SchedulerFairness(s)
    /\ \A e \in Executors : ExecutorFairness(e)
    /\ \A tr \in TaskRuns : WF_vars(\E state \in {"completed", "failed"} : OperationEnds(tr, state))

LiveSpec == Spec /\ Fairness

(* Every task run that was queued leaves the queue: it is started, or it   *)
(* is skipped because its run failed, whatever crashes and failed requests *)
(* came in between (SubmitStart is retried, run_operation is idempotent).  *)
QueuedIsTaken ==
    \A tr \in TaskRuns : trow[tr] = "queued" ~> trow[tr] # "queued"

(* When all the task runs of a run have succeeded for good, the run gets a *)
(* final state for good, even if a lagging executor sets it running once   *)
(* more: no run is left running with nothing to run.                       *)
SucceededRunsClose ==
    \A r \in Runs : <>[](\A t \in Tasks : trow[<<r, t>>] = "success") =>
        <>[](drun[r] \in {"success", "failed"})

(* When a run has failed for good, none of its task runs stays queued or   *)
(* running: _orphan_cleanup gets to each of them, although an abort job    *)
(* may name another orphan than the one it was submitted for.              *)
OrphansAreCleared ==
    \A r \in Runs : <>[](drun[r] = "failed") =>
        <>[](\A t \in Tasks : trow[<<r, t>>] \notin {"queued", "running"})
=============================================================================
