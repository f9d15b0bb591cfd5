------------------------------- MODULE Claim -------------------------------
(***************************************************************************)
(* How a submitted dag gets its dag run: schedulers claim the metas that   *)
(* add_dag wrote, reject those whose dag does not load, and queue the runs *)
(* (the first two steps of a scheduler's loop, scheduler.py).  A scheduler *)
(* is a process with a thread, which submits jobs to the pool and drains   *)
(* the callbacks, and the pool's workers.  Schedulers share only the       *)
(* dag_meta and dag_run tables.                                            *)
(*                                                                         *)
(* The grain of atomicity is one access to the tables.  The claim runs in  *)
(* a tablet transaction, whose commit fails when a row it writes was       *)
(* written since it began.  _set_invalid_meta opens its transaction on the *)
(* client of the worker that submitted it, and reads and writes with the   *)
(* client of the thread: its read and its write are unprotected.           *)
(***************************************************************************)
EXTENDS Integers, Sequences, FiniteSets

CONSTANTS
    Metas,       \* the submissions: each is one row of dag_meta
    Dags,        \* the dags submitted
    DagOf,       \* DagOf[m]: the dag that submission m asks a run of
    BadDags,     \* dags that a scheduler may fail to load from their DagRef
    Schedulers,  \* the Scheduler jobs, one for each process
    Slots,       \* the pool jobs a scheduler has in flight, queued or running
    MaxFaults    \* bound: failed requests and crashes in one behaviour

ASSUME ClaimAssumption ==
    /\ DagOf \in [Metas -> Dags]
    /\ BadDags \subseteq Dags
    /\ MaxFaults \in Nat

(* The run_id column of a meta, before the row exists, while it is null,   *)
(* when it names a dag run, and when it holds an ERR: text.                *)
MetaStates == {"absent", "unclaimed", "run", "error"}

(***************************************************************************)
(* A pool job of a scheduler and what it does next:                        *)
(*   select  select the unclaimed metas and load their dags                *)
(*   begin   begin the claim's transaction: re-read which are unclaimed    *)
(*   commit  commit it; dirty: the rows it writes that were written since  *)
(*   fetch   select the scheduled dag runs                                 *)
(*   queue   queue_run_atomic of one dag run                               *)
(* What a scheduler's thread does next: submit the claim, submit the fetch *)
(* of scheduled runs, take a callback, and within a callback: read the     *)
(* metas to reject (invalid), write them (reject), go through the          *)
(* scheduled runs (queue).                                                 *)
(***************************************************************************)
JobKinds == {"idle", "select", "begin", "commit", "fetch", "queue"}
Job(kind, metas, dirty) == [kind |-> kind, metas |-> metas, dirty |-> dirty]
IdleJob == Job("idle", {}, {})

ThreadKinds == {"claim", "fetch", "drain", "invalid", "reject", "queue"}
CallbackKinds == {"invalid", "queue"}
Doing(kind, metas) == [kind |-> kind, metas |-> metas]

Jobs == [kind : JobKinds, metas : SUBSET Metas, dirty : SUBSET Metas]
Callbacks == [kind : CallbackKinds, metas : SUBSET Metas]
Threads == [kind : ThreadKinds, metas : SUBSET Metas]

VARIABLES
    row,        \* the run_id column of the metas
    runs,       \* how many dag runs were created for a meta
    queued,     \* the metas whose dag run has left the state scheduled
    loaded,     \* for each scheduler, the dags in its _dag_cache
    jobs,       \* for each scheduler, its pool jobs
    rechecks,   \* for each scheduler, its pending _try_set_metas_invalid jobs
    callbacks,  \* for each scheduler, its queued callbacks
    thread,     \* for each scheduler, what its thread does
    faults      \* failed requests and crashes so far

tables == <<row, runs, queued>>
vars == <<row, runs, queued, loaded, jobs, rechecks, callbacks, thread, faults>>

Init ==
    /\ row = [m \in Metas |-> "absent"]
    /\ runs = [m \in Metas |-> 0]
    /\ queued = {}
    /\ loaded = [s \in Schedulers |-> {}]
    /\ jobs = [s \in Schedulers |-> [w \in Slots |-> IdleJob]]
    /\ rechecks = [s \in Schedulers |-> {}]
    /\ callbacks = [s \in Schedulers |-> <<>>]
    /\ thread = [s \in Schedulers |-> Doing("claim", {})]
    /\ faults = 0

Fault == faults < MaxFaults /\ faults' = faults + 1

-----------------------------------------------------------------------------
(* try_add_dag writes a meta, with its DagRef in one transaction or to a   *)
(* DagRef that exists.                                                     *)
AddDag(m) ==
    /\ row[m] = "absent"
    /\ row' = [row EXCEPT ![m] = "unclaimed"]
    /\ UNCHANGED <<runs, queued, loaded, jobs, rechecks, callbacks, thread, faults>>

-----------------------------------------------------------------------------
(* The scheduler's thread. *)

Becomes(s, w, job) == jobs' = [jobs EXCEPT ![s][w] = job]
Finish(s, w) == Becomes(s, w, IdleJob)
Submit(s, job) == \E w \in Slots : jobs[s][w] = IdleJob /\ Becomes(s, w, job)

Goes(s, kind, metas) == thread' = [thread EXCEPT ![s] = Doing(kind, metas)]

(* The thread has gone through some of its rows; what is left of them. *)
GoesOn(s, kind, metas) ==
    IF metas = {} THEN Goes(s, "drain", {}) ELSE Goes(s, kind, metas)

SubmitClaim(s) ==
    /\ thread[s].kind = "claim"
    /\ Submit(s, Job("select", {}, {}))
    /\ Goes(s, "fetch", {})
    /\ UNCHANGED <<tables, loaded, rechecks, callbacks, faults>>

SubmitFetch(s) ==
    /\ thread[s].kind = "fetch"
    /\ Submit(s, Job("fetch", {}, {}))
    /\ Goes(s, "drain", {})
    /\ UNCHANGED <<tables, loaded, rechecks, callbacks, faults>>

NextCallback(s) ==
    /\ thread[s].kind = "drain"
    /\ callbacks[s] # <<>>
    /\ thread' = [thread EXCEPT ![s] = Head(callbacks[s])]
    /\ callbacks' = [callbacks EXCEPT ![s] = Tail(@)]
    /\ UNCHANGED <<tables, loaded, jobs, rechecks, faults>>

LoopAgain(s) ==
    /\ thread[s].kind = "drain"
    /\ callbacks[s] = <<>>
    /\ Goes(s, "claim", {})
    /\ UNCHANGED <<tables, loaded, jobs, rechecks, callbacks, faults>>

Unclaimed(metas) == {m \in metas : row[m] = "unclaimed"}

(* Mutant: the read selects all unclaimed metas, for any ids.              *)
ReadAllInvalid(s) ==
    /\ thread[s].kind = "invalid"
    /\ GoesOn(s, "reject", Unclaimed(Metas))
    /\ UNCHANGED <<tables, loaded, jobs, rechecks, callbacks, faults>>

(* _set_invalid_meta: the read. *)
ReadInvalid(s) ==
    /\ thread[s].kind = "invalid"
    /\ GoesOn(s, "reject", Unclaimed(thread[s].metas))
    /\ UNCHANGED <<tables, loaded, jobs, rechecks, callbacks, faults>>

(* The open transactions that will conflict with a write of these metas. *)
Dirtied(metas) ==
    [s \in Schedulers |-> [w \in Slots |->
        IF jobs[s][w].kind = "commit"
        THEN Job("commit", jobs[s][w].metas, jobs[s][w].dirty \cup (metas \cap jobs[s][w].metas))
        ELSE jobs[s][w]]]

WriteMetas(metas, state) == [m \in Metas |-> IF m \in metas THEN state ELSE row[m]]

(* _set_invalid_meta: the write. *)
WriteInvalid(s) ==
    /\ thread[s].kind = "reject"
    /\ row' = WriteMetas(thread[s].metas, "error")
    /\ jobs' = Dirtied(thread[s].metas)
    /\ Goes(s, "drain", {})
    /\ UNCHANGED <<runs, queued, loaded, rechecks, callbacks, faults>>

(* Dags that may fail to load here: _get_dag keeps those that loaded. *)
Unloadable(s) == BadDags \ loaded[s]

(* Mutant: the cache is keyed by the submission. *)
DagsOfMetas(metas) == metas
DagsOf(metas) == {DagOf[m] : m \in metas}

(* The callback of _queue_scheduled_dagruns loads the dag of a scheduled   *)
(* run, one after the other, and submits the run to be queued.             *)
QueueNext(s, m) ==
    /\ thread[s].kind = "queue"
    /\ m \in thread[s].metas
    /\ Submit(s, Job("queue", {m}, {}))
    /\ loaded' = [loaded EXCEPT ![s] = @ \cup {DagOf[m]}]
    /\ GoesOn(s, "queue", thread[s].metas \ {m})
    /\ UNCHANGED <<tables, rechecks, callbacks, faults>>

(* The dag does not load.  The warning asks for the dag_id of no dag; the  *)
(* AttributeError leaves the callback and drops the runs left in it.       *)
QueueStops(s, m) ==
    /\ thread[s].kind = "queue"
    /\ m \in thread[s].metas
    /\ DagOf[m] \in Unloadable(s)
    /\ Goes(s, "drain", {})
    /\ UNCHANGED <<tables, loaded, jobs, rechecks, callbacks, faults>>

(* Mutant: an exception of a callback ends the thread. *)
CallbackFaultEnds(s) ==
    /\ thread[s].kind \in {"invalid", "reject", "queue"}
    /\ Fault
    /\ Goes(s, "idle", {})
    /\ UNCHANGED <<tables, loaded, jobs, rechecks, callbacks>>

(* A request of a callback fails: _drain_callbacks logs it and goes on. *)
CallbackFault(s) ==
    /\ thread[s].kind \in {"invalid", "reject", "queue"}
    /\ Fault
    /\ Goes(s, "drain", {})
    /\ UNCHANGED <<tables, loaded, jobs, rechecks, callbacks>>

-----------------------------------------------------------------------------
(* The pool's jobs. *)

At(s, w, kind) == jobs[s][w].kind = kind

(* Mutant: the owner of the callback is gone. *)
CallNobody(s, kind, metas) == UNCHANGED callbacks

(* _forward_callback: a callback comes from the worker, from set_callback, *)
(* or from both (see Pool), one right after the other here.  One without   *)
(* rows does nothing.                                                      *)
Call(s, kind, metas) ==
    LET called == Append(callbacks[s], Doing(kind, metas))
    IN  IF metas = {} THEN UNCHANGED callbacks
        ELSE \/ callbacks' = [callbacks EXCEPT ![s] = called]
             \/ callbacks' = [callbacks EXCEPT ![s] = Append(called, Doing(kind, metas))]

(* _try_claim_dagruns selects the unclaimed metas and loads their dags.    *)
(* Those that do not load go to a job of their own, the others are claimed.*)
Select(s, w) ==
    LET metas == Unclaimed(Metas)
    IN  /\ At(s, w, "select")
        /\ \E failing \in SUBSET {m \in metas : DagOf[m] \in Unloadable(s)} :
               /\ loaded' = [loaded EXCEPT ![s] = @ \cup DagsOf(metas \ failing)]
               /\ rechecks' = [rechecks EXCEPT ![s] = @ \cup ({failing} \ {{}})]
               /\ Becomes(s, w, IF metas = failing THEN IdleJob
                                ELSE Job("begin", metas \ failing, {}))
        /\ UNCHANGED <<tables, callbacks, thread, faults>>

(* _try_set_metas_invalid loads the dags anew, each up to two times; its   *)
(* callback rejects the metas of those that fail for good.                 *)
Recheck(s, metas) ==
    /\ metas \in rechecks[s]
    /\ rechecks' = [rechecks EXCEPT ![s] = @ \ {metas}]
    /\ \E failing \in SUBSET {m \in metas : DagOf[m] \in BadDags} :
           /\ loaded' = [loaded EXCEPT ![s] = @ \cup DagsOf(metas \ failing)]
           /\ Call(s, "invalid", failing)
    /\ UNCHANGED <<tables, jobs, thread, faults>>

(* Mutant: the claim trusts the metas selected before its transaction. *)
BeginClaimUnchecked(s, w) ==
    /\ At(s, w, "begin")
    /\ Becomes(s, w, Job("commit", jobs[s][w].metas, {}))
    /\ UNCHANGED <<tables, loaded, rechecks, callbacks, thread, faults>>

(* _create_dag_runs_atomic: the transaction begins and reads which of the  *)
(* metas are unclaimed still.                                              *)
BeginClaim(s, w) ==
    LET metas == Unclaimed(jobs[s][w].metas)
    IN  /\ At(s, w, "begin")
        /\ Becomes(s, w, IF metas = {} THEN IdleJob ELSE Job("commit", metas, {}))
        /\ UNCHANGED <<tables, loaded, rechecks, callbacks, thread, faults>>

(* Mutant: the claim conflicts with nothing. *)
NoConflict(s, w) == FALSE
ClaimConflict(s, w) == jobs[s][w].dirty # {}

(* Mutant: without the transaction a failure may leave metas that are      *)
(* claimed and have no dag run.                                            *)
CommitInParts(s, w) ==
    LET metas == jobs[s][w].metas
    IN  /\ At(s, w, "commit")
        /\ ~ ClaimConflict(s, w)
        /\ row' = WriteMetas(metas, "run")
        /\ \/ runs' = [m \in Metas |-> IF m \in metas THEN runs[m] + 1 ELSE runs[m]]
           \/ runs' = runs
        /\ jobs' = [Dirtied(metas) EXCEPT ![s][w] = IdleJob]
        /\ UNCHANGED <<queued, loaded, rechecks, callbacks, thread, faults>>

(* _create_dag_runs_atomic commits: a new dag run for each of the metas.   *)
CommitClaim(s, w) ==
    LET metas == jobs[s][w].metas
    IN  /\ At(s, w, "commit")
        /\ ~ ClaimConflict(s, w)
        /\ row' = WriteMetas(metas, "run")
        /\ runs' = [m \in Metas |-> IF m \in metas THEN runs[m] + 1 ELSE runs[m]]
        /\ jobs' = [Dirtied(metas) EXCEPT ![s][w] = IdleJob]
        /\ UNCHANGED <<queued, loaded, rechecks, callbacks, thread, faults>>

(* The commit conflicts, and the wrapper that should retry raises instead: *)
(* all the metas of the claim are left to the next iteration of a loop.    *)
ConflictClaim(s, w) ==
    /\ At(s, w, "commit")
    /\ ClaimConflict(s, w)
    /\ Finish(s, w)
    /\ UNCHANGED <<tables, loaded, rechecks, callbacks, thread, faults>>

(* get_scheduled_dag_runs_to_queue. *)
FetchScheduled(s, w) ==
    /\ At(s, w, "fetch")
    /\ Finish(s, w)
    /\ Call(s, "queue", {m \in Metas : runs[m] > 0 /\ m \notin queued})
    /\ UNCHANGED <<tables, loaded, rechecks, thread, faults>>

(* queue_run_atomic, whose transaction re-reads the run: a run that is not *)
(* scheduled any more is left alone.                                       *)
QueueRun(s, w) ==
    /\ At(s, w, "queue")
    /\ queued' = queued \cup jobs[s][w].metas
    /\ Finish(s, w)
    /\ UNCHANGED <<row, runs, loaded, rechecks, callbacks, thread, faults>>

JobFault(s, w) ==
    /\ jobs[s][w] # IdleJob
    /\ Fault
    /\ Finish(s, w)
    /\ UNCHANGED <<tables, loaded, rechecks, callbacks, thread>>

(* A scheduler's process dies and another one takes its place. *)
SchedulerCrash(s) ==
    /\ Fault
    /\ loaded' = [loaded EXCEPT ![s] = {}]
    /\ jobs' = [jobs EXCEPT ![s] = [w \in Slots |-> IdleJob]]
    /\ rechecks' = [rechecks EXCEPT ![s] = {}]
    /\ callbacks' = [callbacks EXCEPT ![s] = <<>>]
    /\ Goes(s, "claim", {})
    /\ UNCHANGED tables

-----------------------------------------------------------------------------
(* What a thread and a job do when no request fails. *)
ThreadProgress(s) ==
    \/ SubmitClaim(s)
    \/ SubmitFetch(s)
    \/ NextCallback(s)
    \/ LoopAgain(s)
    \/ ReadInvalid(s)
    \/ WriteInvalid(s)
    \/ \E m \in Metas : QueueNext(s, m)
    \/ \E m \in Metas : QueueStops(s, m)

JobProgress(s, w) ==
    \/ Select(s, w)
    \/ BeginClaim(s, w)
    \/ CommitClaim(s, w)
    \/ ConflictClaim(s, w)
    \/ FetchScheduled(s, w)
    \/ QueueRun(s, w)

Rechecking(s) == \E metas \in rechecks[s] : Recheck(s, metas)

Next ==
    \/ \E m \in Metas : AddDag(m)
    \/ \E s \in Schedulers : ThreadProgress(s)
    \/ \E s \in Schedulers, w \in Slots : JobProgress(s, w)
    \/ \E s \in Schedulers : Rechecking(s)
    \/ \E s \in Schedulers : CallbackFault(s)
    \/ \E s \in Schedulers, w \in Slots : JobFault(s, w)
    \/ \E s \in Schedulers : SchedulerCrash(s)

Spec == Init /\ [][Next]_vars

(* Threads loop and workers work until they are stopped. *)
Fairness ==
    /\ \A s \in Schedulers : WF_vars(ThreadProgress(s)) /\ WF_vars(Rechecking(s))
    /\ \A s \in Schedulers, w \in Slots : WF_vars(JobProgress(s, w))

LiveSpec == Spec /\ Fairness

-----------------------------------------------------------------------------
(* Every variable has the values the tables and the schedulers can give it. *)
TypeOK ==
    /\ row \in [Metas -> MetaStates]
    /\ runs \in [Metas -> Nat]
    /\ queued \in SUBSET Metas
    /\ loaded \in [Schedulers -> SUBSET Dags]
    /\ jobs \in [Schedulers -> [Slots -> Jobs]]
    /\ rechecks \in [Schedulers -> SUBSET SUBSET Metas]
    /\ callbacks \in [Schedulers -> Seq(Callbacks)]
    /\ thread \in [Schedulers -> Threads]
    /\ faults \in 0..MaxFaults

(* A submission gets at most one dag run, whichever schedulers claim it,   *)
(* reject it, crash and claim again (_create_dag_runs_atomic).             *)
OneRun == \A m \in Metas : runs[m] <= 1

(* A rejected submission stays rejected and gets no run from then on: a    *)
(* claim that read it before it was rejected conflicts.                    *)
RejectedStays ==
    [][\A m \in Metas : row[m] = "error" => row'[m] = "error" /\ runs'[m] = runs[m]]_vars

(* A submission whose dag always loads is never rejected, although others  *)
(* of its batch are, and once it has a run its row names it: what is wrong *)
(* with RunIsNamed befalls only metas that were about to be rejected.      *)
GoodAreNamed ==
    \A m \in Metas : DagOf[m] \notin BadDags =>
        row[m] # "error" /\ (runs[m] > 0 => row[m] = "run")

(* The promise of Intake.  A rejection that strikes a claimed meta spoils  *)
(* its row, and neither its run nor its way into the queue.                *)
StageOf(m) ==
    IF m \in queued THEN "queued"
    ELSE IF runs[m] > 0 THEN "accepted"
    ELSE IF row[m] = "error" THEN "rejected"
    ELSE IF row[m] = "unclaimed" THEN "submitted"
    ELSE "new"

Promise == INSTANCE Intake WITH stage <- [m \in Metas |-> StageOf(m)]
KeepsPromise == Promise!Spec

(* Strengthening of OneRun: a meta that is not claimed has no run, and the *)
(* transaction of a claim writes only metas that are unclaimed still, or   *)
(* it will conflict.                                                       *)
UnclaimedHaveNone ==
    \A m \in Metas : row[m] \in {"absent", "unclaimed"} => runs[m] = 0

ClaimsAreFree ==
    \A s \in Schedulers, w \in Slots : jobs[s][w].kind = "commit" =>
        \A m \in jobs[s][w].metas \ jobs[s][w].dirty : row[m] = "unclaimed"

ClaimInv == TypeOK /\ OneRun /\ UnclaimedHaveNone /\ ClaimsAreFree

-----------------------------------------------------------------------------
(* Every submission is claimed or rejected, whatever conflicts, failed     *)
(* loads, failed requests and crashes come in between.                     *)
SubmittedIsTaken ==
    \A m \in Metas : row[m] = "unclaimed" ~> row[m] # "unclaimed"

Waiting(m) == runs[m] > 0 /\ m \notin queued

(* Every dag run that was created is queued, unless a run whose dag does   *)
(* not load waits as well.                                                 *)
RunsAreQueued ==
    \A m \in Metas : Waiting(m) ~>
        (m \in queued \/ \E n \in Metas : Waiting(n) /\ DagOf[n] \in BadDags)

-----------------------------------------------------------------------------
(* What the code and its tests say, and what does not always hold. *)

(* The warning of _queue_scheduled_dagruns, "skipping queue dagrun": a dag *)
(* that does not load costs its own run the queue, and no other run.       *)
OnlyBadRunsSkipped ==
    \A m \in Metas : Waiting(m) ~> (m \in queued \/ DagOf[m] \in BadDags)

(* A test of concurrent claims: the meta names the dag run it got. *)
RunIsNamed == \A m \in Metas : runs[m] > 0 => row[m] = "run"
=============================================================================
