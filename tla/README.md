# A verification of the YT DAG scheduler

The repository runs DAGs of YT operations. Users submit a DAG; *scheduler*
processes turn submissions into dag runs and decide which tasks may start;
*executor* processes start the operations, poll them and write down how they
ended. The processes talk to each other only through rows of dynamic tables in
YT. This directory holds TLA+ models of that system, TLC configurations that
check them on small instances, and TLAPS proofs for instances of any size.

- [Inventory](#inventory): the parts of the system, their state, how they interact
- [The modules](#the-modules): what models what
- [The runs](#the-runs): what TLC checks, the bounds, the fairness
- [The proofs](#the-proofs): what is proved, and along which argument
- [Findings](#findings): where the code does not do what it says
- [Not modelled](#not-modelled) and [Plan](#plan)

## Inventory

| component | state it keeps | operations | correct when |
|---|---|---|---|
| `DagRun` (dagrun.py, state.py) | `dag_run` row: state, timestamps | `queue_run_atomic`, `update_state`, `schedule_trs`, `set_state` | a success is earned; a failure has a cause; tasks become ready in dependency order |
| `TaskRun` (taskrun.py) | `task_run` row: state, operation_id, timestamps | `set_state` with a required state, the selects of queued, running and orphaned rows | a finished row is not restarted; a running row has an operation |
| `Scheduler` (scheduler.py) | `_dag_cache`, queued callbacks, created-runs counter | claim metas, reject metas, queue, examine and schedule runs | one run for each submission; every run is examined until it ends |
| `Executor` (executor.py, task.py) | `_pending_operations`, `_pending_task_runs`, last attempts | start, poll, finalize, abort and skip task runs | an operation starts once; every queued row is taken; orphans are cleared |
| adding dags (commands.py, cli_commands.py) | `dags`, `tasks`, `dag_meta` rows | `add_dag`, `try_add_dag` | one dag for one payload, a meta only with its dag and tasks, a failure reaches the user |
| `Pool`, `Promise`, callbacks (pool.py, callback.py) | bounded queue, workers, futures, callback queues | submit, execute, hand a callback over, drain, shut down | a callback comes, after its job and at most twice; a submission ends; only jobs that submit others can jam it |
| sharding (job.py and the selects) | each process's list of active jobs | heartbeat, `compute_shard_index` | jobs that hold the same list share the rows out; lists that differ do not last |
| job runners (job.py, cli_commands.py) | thread, events, job state | start, heartbeat, stop, flush to YT, Ctrl-C | a stopped command ends, its jobs too, and their ends are recorded |
| retries (retrier.py, handle_exceptions.py, rows_clients.py) | attempt, backoff | `Retrier.run`, the wrappers of the row clients | tries are bounded, nothing is applied twice, a refusal means that nothing was written |
| dag graph (dag.py, dagnode.py) | upstream and downstream sets | `resolve_tasks_dependencies` | a task waits for the writers of what it reads; only circles hang |
| serialization (serialized.py) | – | dag and task to JSON and back | what is loaded is what the user wrote |
| row helpers, client plumbing (rows_helpers.py, base_row.py, yt_wrapper.py) | context variables, cached clients | selects, upserts, which client a call uses | a transaction covers the calls under it |
| configuration, command line, logging | – | – | – |

**How they interact.** A user's `add_dag` writes a `dag_meta` row. A scheduler
claims it in one tablet transaction that also creates the `dag_run` row
(*scheduled*). A second transaction creates the `task_run` rows, the roots
*queued*, and sets the run *queued*. An executor selects queued task runs, calls
`run_operation` with the row's run_id as mutation id, sets the dag run
*running*, then the task run *running*, and polls the operation until it can
write *success* or *failed*. A scheduler that examines the run skips what waits
behind a failure, sets the state of the run and queues the tasks that became
ready. If a run has failed, executors abort and mark what is left of it.

Within a process a thread loops: it submits jobs to a pool and drains the
callbacks of those that ended. Everything a job or a callback knows, it read
some time before it acts on it.

**Which behaviours are hard.**

- *Atomicity.* YT transactions are optimistic and apply to the calls made with
  the client they were opened on. `TaskRun.set_state` opens its transaction on
  the global client and `_set_invalid_meta` on the client of another thread, so
  in both the reads and writes below are not protected at all.
- *Stale copies.* A start job sets the dag run running from a copy it read
  before `run_operation`; `update_state` writes the run without reading it.
- *Late binding.* The callbacks of a poll pass and the abort jobs of a cleanup
  are closures over a loop's variable; they act on whatever it holds when they
  are called.
- *Faults.* A request fails before or after it took effect; a process dies
  between any two accesses and its successor adopts the running rows.
- *Processes.* The main thread of a process watches threads that end on their
  own, is interrupted anywhere, and writes down in YT how each job ended; users
  add dags at the same time, and any call of theirs may fail half-way.
- *Liveness.* Every progress is made by polling: a lost job, callback or batch
  must be made good by a later pass.

`PROJECT.json` lists each of these at the line where it bites, with the
properties that would catch it going wrong.

## The modules

| module | what it is |
|---|---|
| `Workflow` | dag runs and task runs: scheduler threads that examine runs, executors and their pool jobs, the cluster |
| `Pipeline` | the abstract promise: operations start once, in dependency order, and success is reported only if all completed |
| `WorkflowInv` | the inductive invariants of `Workflow` |
| `MCWorkflow` | its instances for TLC |
| `WorkflowSteps`, `WorkflowOrder` | its proofs: types, the shape of steps and truth; order, causes and the promise |
| `Claim` | submissions: claiming, rejecting and queueing, in the order of the scheduler's loop |
| `Intake` | the abstract promise to a submission: accepted for one run that is then queued, or rejected for good |
| `MCClaim`, `ClaimProofs` | its instances and its proofs |
| `Pool` | the worker pool of a process: queue, workers, hand-over of callbacks, shutdown |
| `MCPool`, `PoolProofs` | its instances and its proofs |
| `Retry` | one wrapped call: its tries, and what its caller is told |
| `MCRetry`, `RetryProofs` | its instances and its proofs |
| `Runner` | the processes of the command line: main thread, job runners, heartbeats, shards, flushes, Ctrl-C |
| `AddDag` | users' calls that add dags to the same tables |
| `DagGraph`, `Serial` | pure parts: which tasks can start; what storing and loading does to a spec's values |
| `Command` | the composition: `dags add` commands are processes of `Runner` whose job makes a call of `AddDag`, with specs whose graph `DagGraph` works on |
| `StoredSpecs` | `Command` with what `Serial` makes of the values in the specs |
| `MCCommand` | its instances for TLC |
| `RunnerProofs`, `SerialProofs`, `CommandProofs` | the proofs: processes and jobs; stored values; calls, commands and graphs |

### Workflow

| variable | in the code |
|---|---|
| `drun`, `trow` | the state columns of `dag_run` and `task_run`; "absent" before `queue_run_atomic` creates the rows |
| `oper` | the operation YT keeps for the mutation id of a task run |
| `inbox`, `cur` | fetched batches among the scheduler's callbacks; what is left of the batch `_schedule_dag_runs` works on |
| `exam` | an `update_state` in progress: the rows it read, and which of them others have written since |
| `pend`, `pass` | `_pending_operations` in dict order; what is left of a poll pass |
| `cbs` | the run_ids that queued completion callbacks will pop |
| `jobs` | an executor's pool jobs, each at its next access |
| `faults` | counts failed requests and crashes, for the bound |

An action is one access to the tables or to the cluster with everything the code
does up to the next one; who runs in between is left to interleaving.

- `update_state` is `BeginUpdate` (the snapshot), then `CommitUpdate` or
  `ConflictUpdate`. Every write of a row, by anybody, calls `Dirtied`, which
  tells open transactions about it: that is YT's conflict detection.
  `queue_run_atomic` and `schedule_trs` write only rows they read in the same
  transaction, so each is one step.
- `_start_taskrun` is `ReadManifest` or `ManifestUnreadable`, `RunOperation`,
  `SetRunRunning`, `ReadToMark`, `MarkRunning`, with a fault at each of them;
  `SetRunRunningUnanswered` is the write of the dag run that took effect and
  raised, so that the task run is marked failed in a run that is running.
  `SetRunRunning` also adds the pending entry, which no other process sees.
- `_poll_pending_operations` is `BeginPoll`, `PollItem`…; `PollJob` gives each
  completion callback the *last* item of the pass, because `run_id` is bound
  late. `AbortOrphan(e, aborted, marked)` has two task runs for the same reason.
- `ExecutorCrash` includes the restart: `_update_pending_tasks` adopts the
  running rows in any order.

Left out: the timestamp and operation_id columns; the created-runs counter and
`_last_task_start_attempt`, which only delay; sharding, so that any process may
handle any row, which is more than the code allows when the shards are right.

### Claim

`row` is the run_id column of the metas (null, a run, or an `ERR:` text), `runs`
counts the dag runs made for a meta, `queued` holds those that left the state
*scheduled*. A scheduler has a `_dag_cache` (`loaded`), a thread that goes
through the steps of its loop in order (`thread`), callbacks in FIFO order, pool
jobs, and pending rechecks. The thread submits the claim, submits the fetch of
scheduled runs, and drains its callbacks until none is left. (The loop's limit
of 50 callbacks is above what the bounded instances can queue.)

- The claim is `Select` (the metas, and which dags load), `BeginClaim` (the
  transaction re-reads which are unclaimed) and `CommitClaim` or
  `ConflictClaim`. A conflict is not retried: the retry wrapper takes its logger
  from the first positional argument, there is none, and the AttributeError ends
  the job. The next iteration of a loop is the retry.
- The rejection is `Recheck` (load again), then, on the scheduler's thread,
  `ReadInvalid` and `WriteInvalid`, two separate accesses.
- A dag of `BadDags` may load or fail at each attempt; once it is in a process's
  cache it loads there until the process dies. `Recheck` bypasses the cache, as
  the code does.
- A callback comes once or twice (`Call`): both the worker that ends a job and the
  `set_callback` of its submitter may hand it over (see `Pool`). The two come one
  right after the other here; a thread may still do much between them.
- What a submission is promised is `Intake`. `StageOf` reads its stage from the
  tables: *queued* and *accepted* from the dag run, whatever became of the meta's
  row, else *rejected* or *submitted* from the row.
- Two rechecks of the same set of metas that wait at the same time are one in
  the model.

### Pool

`stage` is where a pool job is, from the submitter's wait for room to the end of
`execute`; `cb` is how far its submitter is with `on_complete`; `handed` counts
`add_callback`; `queue`, `at` (the job of each worker) and `pool` (the stop
event, and how far `shutdown` is) are the pool itself. `Parent` says which
thread submits a job: an owner's, or the worker that executes another job, as
`_try_claim_dagruns` and `_orphan_cleanup` do.

- `submit_or_execute` puts twice, without and with waiting; without a timeout
  the second put ends only with success, so `Put` is one action and the
  synchronous fallback is never reached.
- `set_callback` is three steps (`StoreCallback`, `StoreOwner`, `Offer`), the end
  of `execute` two (`Resolve`, `Check`), since they run on two threads. A worker
  that sees the callback before the owner is stored hands over or not by whether
  the owner is there when it looks for it; `Check` is that moment.
- Owners are held by a weak reference; they live until the process ends, so the
  reference is never empty once it is stored.
- After `shutdown` has begun, a worker that waits may still get one job, and one
  that ends a job leaves. Threads may go on submitting.

`Workflow` and `Claim` have free slots for the queue and the workers and hand a
callback over in one step, `Claim` once or twice. `Pool` shows what that rests on (`CallbackNotLost`,
`CalledIsHanded`, `CallbackFindsResult`) and where it stops being true: when all
workers wait on a full queue, and in the second hand-over of a callback, which
`Workflow` leaves out.

### Retry

`stage` is where a call is: in the wrapper's own first try, in an attempt of the
Retrier, in a back-off, or ended with a result, a default (`answered`) or an
error; `attempt` is `Retrier.run`'s, `tries` and `effects` count calls of the
function and how often it changed anything. `Site` gives each call its kind.

- The wrapper tries a call once before it hands it to a Retrier, whose attempts
  then start from one: `retries=2` makes four tries, not three.
- `_action_retry` takes its logger from the first positional argument. Of all
  wrapped calls only `queue_run_atomic(run, dag)` has one with a `log`; for the
  others the AttributeError ends the call (`Logged`). `Workflow` and `Claim`
  therefore model a wrapped call as one try: the retry is the next pass.
- A lock conflict is a refusal, which aborts the transaction; any other error
  leaves open whether the request took effect (`Refused`, `Breaks`). A call ends
  `refused` when its caller is given the conflict itself, `raised` with any
  other error. A default stands for an error in two kinds of call: the abort,
  and the load before a rejection.
- The Retrier of the abort catches every exception and so may abort twice, which
  YT allows; that of `_try_set_metas_invalid` loads a dag.

### Runner

`main` is where the main thread of a process is in `run_command` and at which
runner; `job` is where a job is, from `run_job` to its finished event. `row` and
`beats` are the process's `_active_jobs`, rows and dict order, `fresh` the
heartbeats within the TTL, `saved` the `job_state` table. `dead` is `all_dead`
of the watch loop, `stopping` and `finished` are the events.

- A step of the main thread is one call that others can see or that waits:
  `StartAsync`/`StartSync`, `Watch` (a join with `flush_period`), `Flush`,
  `Stop` and `Join` (the two halves of `runner.stop`), `WaitFinished`,
  `LastFlush`, `Shutdown`. A join or wait with a timeout may end at any time;
  `gaveUp` keeps that it ended without what it waited for.
- A job is `Prepare`, then its loop (`Iterate` begins with a heartbeat, and
  does so only while it is not stopped) or its function (`FunctionEnds`), then `RecordEnd`
  and `Finish`. `LoopEnds` may come at any time: the executor's and the
  scheduler's `finally: return None` turns an exception into an ordinary return.
  A job that waits for room in the pool is `stuck`; `Pool` shows how it gets there.
- `Expire` lets a heartbeat grow old, `ComputeShard` is `compute_shard_index`. It
  keeps in `share` the list its latest call ended with: the active jobs in the
  order of the dict, or, for a job that is not active, these and the job
  itself, sorted by the ids; that call is a heartbeat too. `NoList` is the answer
  of zero shards. `ShardIndex` is the job's place in its list and `Selects` the
  filter of the selects made with it, until the next call.
- Calls at different times see different lists. `ShardsPartition` is about jobs
  that hold the same one, `SharesSettle` says that others do not last.
- Ctrl-C goes to the finally clause from the try clause, through the job's own
  wrapper if it strikes in a lightweight job, and out of the finally clause if it
  strikes there.

### AddDag, DagGraph, Serial, Command and StoredSpecs

`call` is where a user's call is, `found` what its look-up answered; `dags`,
`taskRefs` and `metas` are the rows; `before` is a history variable, the dags
there were when the call began. `Create` is one step, for the three upserts are in
one transaction; it, and `Reuse`, may commit and still raise. No failure is
retried or turned into "not found": these calls have keyword arguments only, so
the wrapper raises (see `Retry`). If it worked as its options intend, a failed
look-up would be answered with None and a second dag be created, which is the
mutant of `SequentialShares`.

Calls that overlap may create two dags for one payload; the property claims
less, that a call which finds a dag shares it, and that is what holds.

`DagGraph` has `Producers` and `Upstream` as `resolve_tasks_dependencies`
computes them, and compares what starts, step after step, with a reference that
has no steps: all but the largest set of tasks each fed by one of the set. `Starts`
is a recursive function on sets of tasks, so that it can be proved about. In
`Serial` a value is a pair of its kind and content, and values come in levels of
nesting (`Level`). `SerializeWith` and `DeserializeWith` follow the branches of the
code; `Serialize` and `Deserialize` tie the knot, as recursive functions on the
values of all levels that a spec of depth `Nesting` can lead to. `Stored` and
`Loaded` are the paths through both layers of JSON, and `Kept` says what should come
out. A dict is the set of its entries; that no two keys have one text is part of
what a dict is here (`IsDict`). Items of a set that are stored alike are stored
once, while the code stores them twice and reads them as one.

In `Command` a `dags add` process runs its call while its job executes
(`CallStep`); the call's end is the job's (`CallEnds`), and Ctrl-C breaks both
off in one step (`InterruptCall`). `StoredSpecs` adds what a payload is made of, the
graph and the stored parameters, and compares what a scheduler loads with what
the user gave.

## The runs

| run | instance | shows |
|---|---|---|
| `workflow_schedulers` | a → b, two schedulers, one executor, 1 fault | `TypeOK`; `SuccessIsEarned` and `UpstreamFirst` although two examinations overlap; `FailureHasACause`: nothing is set failed or aborted unless an operation of that run failed; `KeepsPromise`: the rows implement `Pipeline` |
| `workflow_manifest` | roots a, b, where b's TaskRef may not deserialize, 1 fault | `TruthInv` (the inductive invariant); `SkipsOnlyWaiting`: a snapshot never overwrites a task run that started meanwhile; `OrphansAreCleared` in spite of abort jobs that name the wrong orphan |
| `workflow_live` | one task, two executors, 1 fault | `QueuedIsTaken`, `SucceededRunsClose`, and `KeepsPromise` of two executors that race to start the task |
| `claim` | two submissions, the dag of one loads at times, one scheduler with 2 jobs in flight, callbacks that come twice, 1 fault | `TypeOK`, `OneRun`, `RejectedStays`; `GoodAreNamed`: a submission whose dag loads is not rejected with others; `KeepsPromise`: the tables implement `Intake`; `SubmittedIsTaken`, `RunsAreQueued` |
| `pool` | owners submit p, f and q, p submits c; 2 workers, queue of 1, shutdown at any time | `TypeOK` with the queue's bound, `CallbackNotLost`, `CallbackFindsResult`, `CallbackCount`, `CalledIsHanded`; `OnlyNestingJams`: at a full queue somebody goes on, unless every worker is inside a job that waits for room |
| `retry` | a call of each kind that differs | `TypeOK` with its bounds on tries, `AppliedOnce`; `RefusedWroteNothing`: behind a lock conflict that a caller is told of, no earlier try took effect |
| `command` | a scheduler process, one with two executors, two users who add at once, one user who adds any spec | `RunnerTypeOK`, `AddTypeOK`; `EndsAreSaved`, `WatchSeesAll`; `ShardsPartition`, also after calls of jobs that had expired; `MetasHaveRefs`, `SequentialShares`, `ExitIsTrue`; `OnlyCirclesHang` and `LoadsWhatWasAdded` for every graph and value of the instance; `InterruptEnds`, `StopReachesAll`, `SharesSettle` |
| `workflow_finalized`, `workflow_restarted`, `claim_named`, `claim_blocked`, `pool_stuck` | see [Findings](#findings) | a counterexample each |

**Bounds.** One dag run is enough for `Workflow`: runs share nothing but slots,
batches and orphan passes, and what goes wrong in those needs two *task runs*.
Two tasks give both shapes that matter, an edge and two unordered roots; the
second root is needed for conflicts, late binding and skips to matter. Two
processes are what a race needs; the jobs of one executor share only its
`_pending_operations`.
`MaxBatches = 1` lets a batch go stale while another is worked on. `MaxFaults`
is the number of failed requests and crashes in a behaviour: each fault can
strike at every access. One is what the instances can afford; the theorems hold
for any number. The instances have from 76
thousand to half a million states. The calls of `retry` do not interact. In `pool` a queue of one is full at once, and a
worker is left for the child of the only job that submits one; `pool_stuck`
gives the second worker such a job too. Two schedulers that claim at once are in
`claim_named` and in the proofs; in `claim` two overlapping claim jobs of one
scheduler, and its rejections, take that part.

In `command` the processes that are launched together share nothing but the
tables of `AddDag`, so the scheduler process is launched alone, as are the others. Its
`service` has the JobList of `run_scheduler` and gets two interrupts, one for
each of try and finally; Ann and Bob get one each. `pair` has two executors, which `JobList` allows and
which is the only way that more than one job shares rows out; its ids have the
other order than its list, and the heartbeats come in either order, so that sorted
lists and those of the dict agree and disagree; three hashes tell
one shard, two shards and a wrong modulus apart. It is not interrupted: what
interrupts do is asked of `service`, and to its shards a stop is a loop that ends. Ann and Bob add at once, with
payloads that are equal, differ, or belong to different specs (nan and the text
"nan" are stored alike). Eve adds alone: any of the 1024 graphs in which each of
three tasks reads any of three tables, and each writes its own or two write the
same; or any of the values that nest one or two atoms of each kind up to two deep,
which with the dict of the parameters makes `Nesting` three.

**Scope of `UpstreamFirst`, `KeepsPromise`, `FailureHasACause` of `Workflow`.** They are stated
for runs whose TaskRefs all deserialize (`BadTasks = {}`). With a bad TaskRef the
run is set failed by a start job, other start jobs set it running again, and
`_get_ready_trs` counts the skipped task as finished, so a task may start behind
one that never ran. That same sequence ends in a run with skipped and no failed
rows, which `update_state` keeps *running* for ever.

**Deadlock.** `Workflow` has a fixed set of runs, all of which may end: its
configurations switch the deadlock check off, and so do those of `Pool` and
`Retry`, whose jobs are submitted and calls made once, and of `Command`, whose processes end. `Claim` loops for ever and keeps it.

**Fairness.** Weak fairness for every step a thread or a worker takes while
nothing fails: loops run until they are stopped, workers take jobs to their end,
operations end. Strong fairness only for `PopPending`, `SkipOrphans` and
`AbortOrphan`: a poll pass that begins again and again does not hold the
draining off, since both are in the order of one loop; a submitter waits for room in the
pool, so others cannot fill it for ever; and the last orphan of a cleanup pass
is named right, since the loop's variable stays on it. Faults are finite (their bound) and no
fairness is asked of them. `Claim` models the loop's order itself and needs weak
fairness only, as does `Pool` for its submitters and workers; that a job
submits another one and that the pool is shut down is never required.

In `Runner`, and so in `Command`, the main thread is fair, and so are the statements of a job outside
its loop. The loop itself need not end, and a join may run out of time, until the
stop event is set; then it ends with its iteration, unless the job waits for room in the pool.
A job whose loop runs computes its shard again and again, as every iteration selects rows
(`_start_taskruns`) or submits a job that does (`_try_claim_dagruns`); `SharesSettle` rests on this alone.
Users' calls and lightweight jobs need not end at all.

Every property has a mutant in `PROJECT.json`: a plausible bug in one definition
under which the run finds the property violated.

## The proofs

All for any finite sets of runs and tasks, any processes, slots and fault bounds,
from the assumptions on the constants alone (`WorkflowAssumption`,
`ClaimAssumption`, `PoolAssumption`, `RetryAssumption`, `AddAssumption`,
`RunnerAssumption`, `CommandAssumption`, and for what is stored `SerialAssumption`,
`PayloadAssumption`: specs are dicts, nested to some depth, and two with the same
payload are stored alike).

| theorem | states |
|---|---|
| `TypeCorrect` (WorkflowSteps) | `Spec => []TypeOK` |
| `TruthCorrect` | `Spec => []TruthInv` |
| `SuccessCorrect` | `Spec => []SuccessIsEarned` |
| `FreshCorrect` (WorkflowOrder) | `Spec => []FreshInv` |
| `SkipsCorrect` | `Spec => SkipsOnlyWaiting` |
| `OrderCorrect` | `Spec => []OrderInv`, if `BadTasks = {}` |
| `UpstreamFirstCorrect` | `Spec => []UpstreamFirst`, if `BadTasks = {}` |
| `FailureCorrect` | `Spec => []FailureHasACause`, if `BadTasks = {}` |
| `PromiseCorrect` | `Spec => KeepsPromise`, if `BadTasks = {}` |
| `ClaimTypeCorrect` (ClaimProofs) | `Spec => []TypeOK` |
| `OneRunCorrect` | `Spec => []OneRun` |
| `RejectedCorrect` | `Spec => RejectedStays` |
| `GoodAreNamedCorrect` | `Spec => []GoodAreNamed` |
| `IntakeCorrect` | `Spec => KeepsPromise` |
| `PoolTypeCorrect` (PoolProofs) | `Spec => []TypeOK` |
| `CallbackNotLostCorrect` | `Spec => []CallbackNotLost` |
| `CallbackFindsResultCorrect` | `Spec => []CallbackFindsResult` |
| `CallbackCountCorrect` | `Spec => []CallbackCount` |
| `OnlyNestingJamsCorrect` | `Spec => []OnlyNestingJams` |
| `FewNestingJobsNeverJam` | `Spec => []FullQueueMoves`, if the jobs that submit others are fewer than the workers |
| `RetryTypeCorrect` (RetryProofs) | `Spec => []TypeOK` |
| `AppliedOnceCorrect` | `Spec => []AppliedOnce` |
| `RefusedWroteNothingCorrect` | `Spec => []RefusedWroteNothing` |
| `WatchSeesAllCorrect` (RunnerProofs) | `RunnerSpec => []WatchSeesAll` |
| `EndsAreSavedCorrect` | `RunnerSpec => []EndsAreSaved` |
| `RunnerTypeCorrect` | `RunnerSpec => []RunnerTypeOK` |
| `ShardsPartitionCorrect` | `RunnerSpec => []ShardsPartition` |
| `AddTypeCorrect` (CommandProofs) | `AddSpec => []AddTypeOK` |
| `MetasHaveRefsCorrect` | `AddSpec => []MetasHaveRefs` |
| `SequentialSharesCorrect` | `AddSpec => []SequentialShares` |
| `CommandIsRunner`, `CommandIsAdd` | `CommandSpec => RunnerSpec`, `CommandSpec => AddSpec` |
| `ExitIsTrueCorrect` | `CommandSpec => []ExitIsTrue` |
| `OnlyCirclesHangCorrect` | `CommandSpec => []OnlyCirclesHang` |
| `DagsOfTheirPayloadCorrect` | `CommandSpec => []DagsOfTheirPayload` |
| `LoadsWhatWasAddedCorrect` | `CommandSpec => []LoadsWhatWasAdded` |
| `CommandIsSafe` | `CommandSpec` has the invariants of `Runner`, `AddDag` and `Command` together |

**Why a run's success is earned.** `SuccessIsEarned` is not inductive: a run is
set successful from a snapshot, whose rows were written by jobs, which acted on
what they had polled. `TruthInv` says that each link of that chain is true: a
row, a snapshot, a job about to write and a pending entry that claim an
operation was started or completed are right (`RowsAreTrue`, `SnapshotsAreTrue`,
`JobsAreTrue`, `PendingIsTrue`). It holds although all of these may be *stale*,
because what they claim is stable: `TruthIsStable` shows that a started operation
stays started and a completed one completed in every step, for the
mutation id makes `run_operation` idempotent and only a running operation is
aborted. What is left to show is that each claim is true when it is made.
`WorkflowSteps` says which actions can make one (`WhoWritesRows`, `JobSteps`,
`PendingSteps`, …); one lemma per part of the invariant then shows that part.

**Why skips are of what waits.** While a transaction is open, every write of a row of
its run marks it dirty; only `QueueRun` does not, and it writes a run that was
never examined (`DirtySteps`, `ExaminedWasQueued`). So a snapshot is right
wherever it is not dirty (`SnapshotsAreFresh`), and a commit that would skip a
dirty row conflicts.

**Why operations start in order.** `_get_ready_trs` takes failed and skipped
tasks for finished, and a start job acts on a row read long ago. `OrderInv` says
why neither matters. A run becomes *past* when a failure is recorded: no row of it is scheduled, and none
ever will be again (`Past`). Whatever makes a run failed or a row skipped finds
or leaves the run past: the commit that finds a failure skips *all* scheduled rows in
the transaction that sets the run failed (`FailingIsPast`), a start job that
skips has read a failed run. So a snapshot with a skipped task has no scheduled one, and the upstream
tasks of a ready one have all succeeded (`ReadyIsDone`); by `TruthInv` their operations
completed, for good. With a bad TaskRef the first link breaks: a start job fails
the run with its other rows scheduled. That is why `BadTasks = {}` is assumed.

**Why a failure has a cause.** `CauseInv` follows failures as `TruthInv` follows
successes: rows, snapshots and jobs that fail or abort something belong to a run with
a failed operation, or a fault happened. The two orphans an abort job may name
by its late-bound variable are both of failed runs.

**Why the promise is kept.** A step of `Workflow` changes the operations or the
dag runs, never both (`OperOrRuns`). A change of operations is one operation's
start or end, since a job that starts or aborts names one at most (`OneOperation`), and a start
comes in order; a change of what is reported is a commit that found all tasks
successful, or reopens one run (`OperImplements`, `RunsImplement`).

**Why a submission gets one run.** `ClaimInv` adds to `OneRun` that an unclaimed
meta has no run and that the rows a claim is about to write are unclaimed still,
save those it was told are dirty (`ClaimsAreFree`); with a dirty row it cannot commit.
This is where the conflict check does its work: `WrittenMetas` needs that a
writer dirties every open transaction. The unprotected rejection is harmless for
`OneRun` and `RejectedStays`, as the proof shows, and not for `RunIsNamed`; but what a
callback or a thread is about to reject asks for dags that may fail to load
(`RejectInv`), so only those can lose the name of their run (`GoodAreNamed`).

**Why a submission is accepted or rejected, and nothing in between.** `IntakeInv` follows
dag runs from the fetch to the row: what a callback, a thread or a job is about
to queue has its run, since runs are only ever added, and what a thread is about to
reject was submitted. Then a commit accepts all its metas (they are unclaimed, by
`ClaimsAreFree`), a rejection rejects those of its metas that are unclaimed still
and is hidden for the others, and a second callback, a lost job or a crash
changes no stage (`StepImplements`).

**Why a callback comes.** `HandedInv` bounds `handed` by who has been through:
the worker that checked the job and the submitter that offered the callback, and
says that both together handed it over at least once. That this survives the
steps needs a job that is done to stay done, and only `QueueInv` gives that: the
queue holds queued jobs, each once, so neither a worker nor the shutdown ever
takes a job that has ended or is taken already (`HeadLeaves`).

**Why only nesting jams the pool.** `AtInv` says that a worker is inside a job
that runs or has ended, no two inside the same one, and that none is gone while
the pool is open. So at a full queue a worker that cannot go on (`Serves`) has a
job that is busy submitting; its child either waits for room or has a callback
still to be set. `pool_stuck` is therefore the one way to be stuck, and
`FewNestingJobsNeverJam` says what rules it out: more workers than jobs that
submit others. That the moves which remain are made is fairness, and TLC's.

**Why a call is applied once.** A call that is still `Untouched`, and only such
a call is tried again, has had no effect (`EffectInv`): what the Retrier catches
is what the transaction refused. The abort is the exception, by its `exceptions`.
The same invariant gives `RefusedWroteNothing`: a call that ends refused was untouched
when its last try was refused, and that try changed nothing.

**Why the ends of jobs are saved.** `RunnerInv` follows the main thread. Behind
it in the wait loop all runners it did not give up on are over (`WaitOK`); a job
that is over has written its end first (`RecordInv`); so the last flush finds all
ends in the rows. `WatchSeesAll` is the same for the watch loop: `dead` speaks for the
runners the round has passed (`WatchOK`), which stay dead, since the main thread
has come past every start (`StartOK`). `StaysOK` says once that a process
whose main thread rests keeps all of this, and `MainChange` that a step of one
main thread leaves the other processes alone.

**Why the shards are a partition.** `BeatInv` says that the dict of heartbeats
has exactly the jobs that beat, each once, at its first heartbeat: a job that
executes has beaten, so its later heartbeats only touch its row (`AppendOnce`,
`BeatKeeps`). `ShareInv` says that a list, however old, has only jobs of its owner's
name and process that have a row in that dict, and its owner. So no two jobs of a list have the
same place in it, neither in the dict (`BeatsInOrder`), whose order never
changes, nor by their ids, which differ (`PlacesDiffer`). Jobs that hold the same list,
in the same one of the two orders, have in it their ranks as indices. That the ranks in any finite set
of numbers are 0, 1, … without gap or repetition is `Ranks`, proved from the
library's facts on injections between finite sets: an injection into a set of
the same size reaches all of it. The residue of a hash is thus one job's rank, and only one's (`AgreedSharesOut`).

**Why every meta has its refs.** `AddInv` (in CommandProofs) says of a call that
is about to reuse a dag that the dag is there with its task refs and has the call's payload;
rows are only ever added, so it stays so until the meta is written. With the payload
that `DagsAreWhole` gives a dag, `DagsOfTheirPayload` follows: what is loaded of a
meta's dag is what would be loaded of its own user's spec, so that only the round
trip of a single value is left of `LoadsWhatWasAdded`.

**Why what is loaded is what was written.** The prover knows nothing of a recursive
function but its definition, a choice among the functions that satisfy the
equation, so `SerializeExists`, `DeserializeExists` and `KeptExists` first show that
there is one. That what becomes of a value depends on its items only
(`SerializeLocal`, …) and that the items are a level below lets a solution on one
level be extended to the next. Everything after that goes up the levels in the same way,
by a minimal counterexample (`UpTo`): an encoding adds at most two levels to each of a value's
(`SerializeLevel`), which bounds how far the encoding of an encoding reaches;
what deserialize reads is what serialize wrote, up to `Kept`
(`RoundTripWith`, one case per kind of container, `RoundTrip`); and what is stored is
kept as it is when it is stored again (`KeptJson`, `JsonKept`), which the second layer of JSON
needs. `LoadedStored` puts the two layers together. It also shows that a user's dict with the
keys `__type` and `__var` is no trap: it is encoded like any other.

**Why the parts hold of the whole.** Every step of `Command` is one of `Runner` and
one of `AddDag`, or leaves them alone, and its fairness is that of `Runner`: all
that is true of the parts, `InterruptEnds` and `StopReachesAll` included, is true of the commands.

**Why a good exit is true.** `CallInv` follows a user's call outwards: a call that was
answered has written its meta or was refused; a job that returned has failed or had its call
answered; a main thread past its job found it finished and not failed, or ends with
an error. An interrupt that strikes after the commit leaves "raised", which
claims nothing.

**Why only circles hang.** What starts is the least set of tasks that holds
every task whose upstream it holds (`StartsAfterIsLeast`). The induction behind this, over
the tasks not yet done, is a minimal counterexample: of the sets for which it
fails one has no other one closer to all tasks (`LeastSubset`, from the library's
well-founded order on the subsets of a finite set), and the next round of it is
such a one. `StartsAfterExists` shows first that the recursion of `Starts` has a solution at
all. A task is left out for ever just if it is in a set in which each is fed by
another, which is the definition of `BehindCircles` (`CirclesHang`).

**Only model-checked.** Liveness, `SharesSettle` included: the prover has no rules for fairness and ENABLED.
All safety properties that the runs check are proved. No module of the project
has a recursive operator; what recurs is a recursive function.

## Findings

| run | what happens |
|---|---|
| `workflow_finalized` | executor.py:196. All completion callbacks of a poll pass pop the last item of the pass. A run that is not finished is dropped from the pending operations, announced as finalized, and polled again only after a restart; a finished one stays pending. |
| `workflow_restarted` | taskrun.py:264. The check of the required state and the write it guards are not in one transaction: a task run that got its final state in between is set running. |
| `claim_named` | scheduler.py:32. A scheduler rejects a meta while another claims it: the meta ends with an `ERR:` text, its dag run goes on. |
| `claim_blocked` | scheduler.py:216. A dag that does not load is to be skipped with a warning, but formatting the warning raises; every pass stops at the bad run and the others are not queued. |
| `pool_stuck` | pool.py:152. The wait for room has no timeout, so the synchronous fallback behind it is never reached: when each worker executes a job that submits another one and the queue is full, all of them wait for ever. `OnlyNestingJams` is proved: nothing else does that. |

Four things were met that no document or test says anything about, so no run
refutes a claim:

- serialized.py:123. A datetime in a spec is stored as a timestamp and read with
  `fromisoformat`: the dag is added, but never loads, so its meta is rejected
  (`Kept` has it as `Raises`).
- cli_commands.py:70. A second Ctrl-C in the finally clause leaves runners
  without their stop event. Their threads are not daemons, so the process goes on
  (`StopReachesAll` names the exception).
- job.py:110. The call of a job that has expired sorts the list, that of the
  others does not. With A after B in the dict and before it by id, A expires and its call gives it shard 0 of
  2; B's next call gives it shard 0 of 2 as well: until A's next call both select the
  same rows and nobody the others. If A's heartbeat has expired at each of its calls, this
  goes on. `ShardsPartition` therefore asks for lists in the same order, and
  `SharesSettle` for heartbeats that come to rest.
- executor.py:88. An exception that ends a loop is swallowed; the job ends as a
  success and the command goes on without it (`LoopEnds`).

## Not modelled

Timestamps and other columns that no decision reads. Query text, context
variables, configuration and logging: no state that others depend on; what they
mean for atomicity, namely which client a call goes
through, is in the models of the callers. One effect of it is not: while
`_set_invalid_meta` holds a transaction on a worker's client, that worker's own
requests fall into it; how such a client's stack of transactions unwinds is YT's.
An interrupt between the statements of `_complete_execution`, the failure of the
pool's or a client's construction, dicts with two keys of one text.

## Plan

Modelled, checked and, but for what is listed as only model-checked, proved:
`Workflow` with `Pipeline`, `Claim` with `Intake`, `Pool`, `Retry`, `Command` with its parts.

What could come next:

1. `Claim` and `AddDag` composed through the metas: that a submission which was
   added with an answer is taken.
2. `RowTimes`: the timestamps that `set_state` writes are ordered.
