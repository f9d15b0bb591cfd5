-------------------------------- MODULE Pool --------------------------------
(***************************************************************************)
(* The worker pool that the jobs of a process share (pool.py): a bounded   *)
(* queue, workers that take from it, pool jobs that submit to it           *)
(* themselves, the handing over of a completion callback, and shutdown.    *)
(*                                                                         *)
(* Workflow and Claim take a pool for slots and a callback for one step;   *)
(* here is what happens inside.  The thread that submits a pool job sets   *)
(* its callback afterwards, while a worker may be executing it already.    *)
(***************************************************************************)
EXTENDS Integers, Sequences

CONSTANTS
    Jobs,       \* the pool jobs that may be submitted
    Parent,     \* Parent[j]: the pool job, or the owner's thread, that submits j
    Owners,     \* the threads of Scheduler and Executor
    Called,     \* the pool jobs that get a completion callback
    Workers,    \* the pool's threads
    QueueSize,  \* max_queue_size
    None, Gone  \* a worker that waits for a job; one that has left its loop

ASSUME PoolAssumption ==
    /\ Parent \in [Jobs -> Jobs \cup Owners]
    /\ Called \subseteq Jobs
    /\ QueueSize \in Nat \ {0}
    /\ None \notin Jobs /\ Gone \notin Jobs /\ None # Gone

(***************************************************************************)
(* The stages of a pool job:                                               *)
(*   new        not submitted                                              *)
(*   putting    its submitter waits for room in the queue                  *)
(*   queued, running                                                       *)
(*   resolved   its promise has a result or an exception                   *)
(*   checked    the worker has looked for its callback and is done with it *)
(*   cancelled  shutdown gave its promise an exception                     *)
(* and how far its submitter is with set_callback: callback stored, the    *)
(* owner's add_callback stored, promise looked at.                         *)
(***************************************************************************)
Stages == {"new", "putting", "queued", "running", "resolved", "checked", "cancelled"}
CallbackStages == {"unset", "stored", "linked", "offered"}
PoolStates == {"open", "draining", "shut"}

VARIABLES
    stage,      \* the stage of each pool job
    cb,         \* how far set_callback of each pool job is
    handed,     \* how often the callback of each was put into its owner's queue
    queue,      \* the pool's queue
    at,         \* the pool job of each worker
    pool        \* before, during and after shutdown's draining of the queue

vars == <<stage, cb, handed, queue, at, pool>>

Init ==
    /\ stage = [j \in Jobs |-> "new"]
    /\ cb = [j \in Jobs |-> "unset"]
    /\ handed = [j \in Jobs |-> 0]
    /\ queue = <<>>
    /\ at = [w \in Workers |-> None]
    /\ pool = "open"

Becomes(j, s) == stage' = [stage EXCEPT ![j] = s]
Done(j) == stage[j] \in {"resolved", "checked", "cancelled"}

-----------------------------------------------------------------------------
(* Submitting. *)

(* A thread submits one job after the other: the call has returned when the *)
(* job is in the queue, and the callback is set before the next call.      *)
Submitting(j) ==
    \/ stage[j] = "putting"
    \/ stage[j] # "new" /\ j \in Called /\ cb[j] # "offered"

Busy(x) == \E j \in Jobs : Parent[j] = x /\ Submitting(j)

Submit(j) ==
    /\ stage[j] = "new"
    /\ Parent[j] \in Jobs => stage[Parent[j]] = "running"
    /\ ~ Busy(Parent[j])
    /\ Becomes(j, "putting")
    /\ UNCHANGED <<cb, handed, queue, at, pool>>

(* Mutant: a queue without the bound. *)
PutUnbounded(j) ==
    /\ stage[j] = "putting"
    /\ queue' = Append(queue, j)
    /\ Becomes(j, "queued")
    /\ UNCHANGED <<cb, handed, at, pool>>

(* submit_or_execute puts without waiting and then, when the queue is full, *)
(* waits for room.  No caller gives a timeout, so the wait has no end and  *)
(* the job is never executed by the submitting thread.                     *)
Put(j) ==
    /\ stage[j] = "putting"
    /\ Len(queue) < QueueSize
    /\ queue' = Append(queue, j)
    /\ Becomes(j, "queued")
    /\ UNCHANGED <<cb, handed, at, pool>>

SetCallback(j, from, to) ==
    /\ cb[j] = from
    /\ cb' = [cb EXCEPT ![j] = to]

StoreCallback(j) ==
    /\ j \in Called
    /\ stage[j] \notin {"new", "putting"}
    /\ SetCallback(j, "unset", "stored")
    /\ UNCHANGED <<stage, handed, queue, at, pool>>

StoreOwner(j) ==
    /\ SetCallback(j, "stored", "linked")
    /\ UNCHANGED <<stage, handed, queue, at, pool>>

(* Mutant: set_callback leaves a finished job to the worker. *)
OfferNever(j) ==
    /\ SetCallback(j, "linked", "offered")
    /\ UNCHANGED <<stage, handed, queue, at, pool>>

(* Mutant: set_callback hands over without looking at the promise. *)
OfferAlways(j) ==
    /\ SetCallback(j, "linked", "offered")
    /\ handed' = [handed EXCEPT ![j] = @ + 1]
    /\ UNCHANGED <<stage, queue, at, pool>>

(* The end of set_callback: a job that is done already may have been       *)
(* checked before the callback was there.                                  *)
Offer(j) ==
    /\ SetCallback(j, "linked", "offered")
    /\ handed' = [handed EXCEPT ![j] = @ + IF Done(j) THEN 1 ELSE 0]
    /\ UNCHANGED <<stage, queue, at, pool>>

-----------------------------------------------------------------------------
(* The workers. *)

Take(w) ==
    /\ at[w] = None
    /\ queue # <<>>
    /\ at' = [at EXCEPT ![w] = Head(queue)]
    /\ queue' = Tail(queue)
    /\ Becomes(Head(queue), "running")
    /\ UNCHANGED <<cb, handed, pool>>

(* Mutant: a job that raises leaves its worker for good. *)
ResolveDies(w) ==
    /\ at[w] \in Jobs
    /\ stage[at[w]] = "running"
    /\ ~ Busy(at[w])
    /\ Becomes(at[w], "resolved")
    /\ at' = [at EXCEPT ![w] = Gone]
    /\ UNCHANGED <<cb, handed, queue, pool>>

(* The job returns or raises, having submitted what it submits. *)
Resolve(w) ==
    /\ at[w] \in Jobs
    /\ stage[at[w]] = "running"
    /\ ~ Busy(at[w])
    /\ Becomes(at[w], "resolved")
    /\ UNCHANGED <<cb, handed, queue, at, pool>>

(* A worker that ends a job looks at the stop event before it waits again. *)
Freed(w) == [at EXCEPT ![w] = IF pool = "open" THEN None ELSE Gone]

(* _forward_callback does nothing while the owner is not stored. *)
HandsOver(j) == cb[j] \in {"linked", "offered"}

(* The end of execute: the worker looks whether a callback is set. *)
Check(w) ==
    /\ at[w] \in Jobs
    /\ stage[at[w]] = "resolved"
    /\ Becomes(at[w], "checked")
    /\ handed' = [handed EXCEPT ![at[w]] = @ + IF HandsOver(at[w]) THEN 1 ELSE 0]
    /\ at' = Freed(w)
    /\ UNCHANGED <<cb, queue, pool>>

(* A worker that waits for a job notices the stop event, or gets one more. *)
Leave(w) ==
    /\ at[w] = None
    /\ pool # "open"
    /\ at' = [at EXCEPT ![w] = Gone]
    /\ UNCHANGED <<stage, cb, handed, queue, pool>>

-----------------------------------------------------------------------------
(* Shutdown, called by run_command when it ends. *)

Stop ==
    /\ pool = "open"
    /\ pool' = "draining"
    /\ UNCHANGED <<stage, cb, handed, queue, at>>

(* Mutant: shutdown forwards the callback of a job that it cancels. *)
DrainForwards ==
    /\ pool = "draining"
    /\ queue # <<>>
    /\ queue' = Tail(queue)
    /\ Becomes(Head(queue), "cancelled")
    /\ handed' = [handed EXCEPT ![Head(queue)] = @ + IF HandsOver(Head(queue)) THEN 1 ELSE 0]
    /\ UNCHANGED <<cb, at, pool>>

(* A queued job gets an exception; its callback, if set, is not handed over. *)
Drain ==
    /\ pool = "draining"
    /\ queue # <<>>
    /\ queue' = Tail(queue)
    /\ Becomes(Head(queue), "cancelled")
    /\ UNCHANGED <<cb, handed, at, pool>>

DrainEnds ==
    /\ pool = "draining"
    /\ queue = <<>>
    /\ pool' = "shut"
    /\ UNCHANGED <<stage, cb, handed, queue, at>>

-----------------------------------------------------------------------------
SubmitterStep(j) ==
    Submit(j) \/ Put(j) \/ StoreCallback(j) \/ StoreOwner(j) \/ Offer(j)
WorkerStep(w) == Take(w) \/ Resolve(w) \/ Check(w) \/ Leave(w)
ShutdownStep == Stop \/ Drain \/ DrainEnds

Next ==
    \/ \E j \in Jobs : SubmitterStep(j)
    \/ \E w \in Workers : WorkerStep(w)
    \/ ShutdownStep

Spec == Init /\ [][Next]_vars

(* The pool need not be stopped, and a job need not submit more jobs. *)
Fairness ==
    /\ \A j \in Jobs : WF_vars(Put(j) \/ StoreCallback(j) \/ StoreOwner(j) \/ Offer(j))
    /\ \A w \in Workers : WF_vars(WorkerStep(w))

LiveSpec == Spec /\ Fairness

-----------------------------------------------------------------------------
(* The variables have their types, and the queue its bound (pool.py:107).  *)
TypeOK ==
    /\ stage \in [Jobs -> Stages]
    /\ cb \in [Jobs -> CallbackStages]
    /\ handed \in [Jobs -> Nat]
    /\ queue \in Seq(Jobs) /\ Len(queue) <= QueueSize
    /\ at \in [Workers -> Jobs \cup {None, Gone}]
    /\ pool \in PoolStates

(* No callback is lost between the worker that ends a job and the thread   *)
(* that sets its callback, in whichever order they come (pool.py:81-89):   *)
(* once both are through, the callback was put into its owner's queue.     *)
CallbackNotLost ==
    \A j \in Jobs : stage[j] = "checked" /\ cb[j] = "offered" => handed[j] > 0

(* A callback that is handed over finds the promise done.  The callbacks   *)
(* ask for promise.result with no timeout (scheduler.py:158, executor.py), *)
(* so one that came early would stop its owner's thread for as long as the *)
(* job takes.                                                              *)
CallbackFindsResult ==
    \A j \in Jobs : handed[j] > 0 => Done(j)

(* A callback may come twice, from the worker and from set_callback, but   *)
(* not more often, and a job that the shutdown took from the queue is not  *)
(* among those: only set_callback hands its callback over (pool.py:179).   *)
CallbackCount ==
    \A j \in Jobs : handed[j] <= IF stage[j] = "cancelled" THEN 1 ELSE 2

(* A worker can go on without room in the queue. *)
Serves(w) ==
    \/ at[w] = None /\ queue # <<>>
    \/ /\ at[w] \in Jobs
       /\ stage[at[w]] = "resolved" \/ (stage[at[w]] = "running" /\ ~ Busy(at[w]))

(* So can a thread that is about to set a callback. *)
SetsCallback(j) ==
    j \in Called /\ stage[j] \notin {"new", "putting"} /\ cb[j] # "offered"

(* The worker's own job waits for room. *)
WaitsForRoom(w) ==
    at[w] \in Jobs /\ \E j \in Jobs : Parent[j] = at[w] /\ stage[j] = "putting"

(* What submit_or_execute can be stuck in (pool.py:152) is one thing only: *)
(* while the pool is open, a full queue at which nobody goes on means that *)
(* every worker is inside a job that waits for room itself, each inside a  *)
(* different one.  Neither jobs that raise, nor callbacks, nor jobs that   *)
(* submit while fewer of them run than there are workers can jam the pool. *)
OnlyNestingJams ==
    pool = "open" /\ Len(queue) = QueueSize =>
        \/ \E w \in Workers : Serves(w)
        \/ \E j \in Jobs : SetsCallback(j)
        \/ /\ \A w \in Workers : WaitsForRoom(w)
           /\ \A w, x \in Workers : at[w] = at[x] => w = x

(* While the pool is open, a job that was put into the queue and has a     *)
(* callback gets it handed over, whether it returns or raises, unless the  *)
(* workers wait for each other (pool.py:73-89).                            *)
CalledIsHanded ==
    \A j \in Called : stage[j] = "queued" ~> (handed[j] > 0 \/ pool # "open")

(* The log of submit_or_execute says that a job for which there is no room *)
(* is executed synchronously after a while (pool.py:154): while the pool is *)
(* open, the call returns.                                                 *)
SubmitEnds ==
    \A j \in Jobs : stage[j] = "putting" ~> (stage[j] # "putting" \/ pool # "open")
=============================================================================
