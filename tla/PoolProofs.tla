----------------------------- MODULE PoolProofs -----------------------------
(***************************************************************************)
(* Proofs about Pool, for every set of pool jobs, owners and workers and   *)
(* every size of the queue: the types with the queue's bound, that every   *)
(* callback is handed over, after its job is done and at most twice, and   *)
(* that only jobs which submit others can jam the pool.                    *)
(***************************************************************************)
EXTENDS Pool, TLAPS

(* What a job's callback depends on is that the shutdown and the workers   *)
(* find only queued jobs in the queue, each of them once.                  *)
QueueInv ==
    /\ \A i \in 1 .. Len(queue) : stage[queue[i]] = "queued"
    /\ \A i, k \in 1 .. Len(queue) : queue[i] = queue[k] => i = k

(* The worker hands a callback over when it checks the job, set_callback   *)
(* when it ends, and both only when the job is done.                       *)
ByWorker(j) == IF stage[j] = "checked" THEN 1 ELSE 0
BySubmitter(j) == IF cb[j] = "offered" THEN 1 ELSE 0
HandedInv ==
    \A j \in Jobs :
        /\ handed[j] <= ByWorker(j) + BySubmitter(j)
        /\ handed[j] > 0 => Done(j)
        /\ stage[j] = "checked" /\ cb[j] = "offered" => handed[j] > 0

(* A worker executes a job that left the queue, no two workers the same    *)
(* one, and none ends its loop before the pool is stopped.                 *)
AtInv ==
    /\ \A w \in Workers : at[w] \in Jobs => stage[at[w]] \in {"running", "resolved"}
    /\ \A w, x \in Workers : at[w] \in Jobs /\ at[w] = at[x] => w = x
    /\ pool = "open" => \A w \in Workers : at[w] # Gone

IInv == TypeOK /\ QueueInv /\ HandedInv /\ AtInv

-----------------------------------------------------------------------------
(* The tail of a queue holds what follows the head, one place further on.  *)
LEMMA TailOfQueue ==
    ASSUME NEW S, NEW s \in Seq(S), s # <<>>
    PROVE  /\ Head(s) \in S /\ Head(s) = s[1]
           /\ Tail(s) \in Seq(S) /\ Len(Tail(s)) = Len(s) - 1
           /\ Len(s) \in Nat \ {0}
           /\ \A i \in 1 .. Len(Tail(s)) : Tail(s)[i] = s[i + 1]
    OBVIOUS

(* Taking the head leaves queued jobs in the queue, each once, and the job *)
(* that was taken is not among them.                                       *)
LEMMA HeadLeaves ==
    ASSUME TypeOK, QueueInv, queue # <<>>,
           NEW s \in Stages, Becomes(Head(queue), s), queue' = Tail(queue)
    PROVE  /\ stage[Head(queue)] = "queued" /\ Head(queue) \in Jobs
           /\ QueueInv'
           /\ queue' \in Seq(Jobs) /\ Len(queue') <= QueueSize
           /\ stage' \in [Jobs -> Stages]
<1>1. /\ Head(queue) \in Jobs /\ Head(queue) = queue[1]
      /\ Tail(queue) \in Seq(Jobs) /\ Len(Tail(queue)) = Len(queue) - 1
      /\ Len(queue) \in Nat \ {0}
      /\ \A i \in 1 .. Len(Tail(queue)) : Tail(queue)[i] = queue[i + 1]
  BY TailOfQueue DEF TypeOK
<1>2. stage[Head(queue)] = "queued"
  BY <1>1 DEF QueueInv
<1>3. stage' \in [Jobs -> Stages]
  BY DEF TypeOK, Becomes
<1>4. Len(queue') <= QueueSize
  BY <1>1, PoolAssumption DEF TypeOK
<1>5. \A i \in 1 .. Len(queue') : stage'[queue'[i]] = "queued"
  <2> TAKE i \in 1 .. Len(queue')
  <2>1. i + 1 \in 1 .. Len(queue) /\ queue'[i] = queue[i + 1] /\ i + 1 # 1
    BY <1>1
  <2>2. queue'[i] # Head(queue) /\ queue'[i] \in Jobs
    BY <2>1, <1>1 DEF QueueInv, TypeOK
  <2> QED BY <2>1, <2>2 DEF Becomes, TypeOK, QueueInv
<1>6. \A i, k \in 1 .. Len(queue') : queue'[i] = queue'[k] => i = k
  <2> TAKE i, k \in 1 .. Len(queue')
  <2>1. /\ i + 1 \in 1 .. Len(queue) /\ queue'[i] = queue[i + 1]
        /\ k + 1 \in 1 .. Len(queue) /\ queue'[k] = queue[k + 1]
    BY <1>1
  <2> QED BY <2>1 DEF QueueInv
<1> QED BY <1>1, <1>2, <1>3, <1>4, <1>5, <1>6 DEF QueueInv

(* A step that leaves the queue alone and changes the stage of no queued   *)
(* job keeps the queue as it should be.                                    *)
LEMMA QueueKept ==
    ASSUME TypeOK, QueueInv, queue' = queue,
           \A j \in Jobs : stage[j] = "queued" => stage'[j] = "queued"
    PROVE  QueueInv'
<1>1. \A i \in 1 .. Len(queue) : queue[i] \in Jobs
  BY DEF TypeOK
<1> QED BY <1>1 DEF QueueInv

(* A step that changes no stage, no callback's progress and no count, of   *)
(* the jobs that are or become checked or done, keeps the counts right.    *)
LEMMA HandedKept ==
    ASSUME TypeOK, HandedInv, handed' = handed, NEW j \in Jobs,
           stage'[j] = "checked" <=> stage[j] = "checked",
           cb'[j] = "offered" <=> cb[j] = "offered",
           Done(j) => Done(j)'
    PROVE  /\ handed'[j] <= ByWorker(j)' + BySubmitter(j)'
           /\ handed'[j] > 0 => Done(j)'
           /\ stage'[j] = "checked" /\ cb'[j] = "offered" => handed'[j] > 0
  BY DEF HandedInv, TypeOK, ByWorker, BySubmitter

(* A step that moves no worker and changes the stage of no job that a      *)
(* worker executes, and does not open the pool, keeps the workers right.   *)
LEMMA AtKept ==
    ASSUME TypeOK, AtInv, at' = at, pool' = "open" => pool = "open",
           \A j \in Jobs : stage[j] \in {"running", "resolved"} => stage'[j] = stage[j]
    PROVE  AtInv'
  BY DEF AtInv

-----------------------------------------------------------------------------
LEMMA InitInv == Init => IInv
<1> SUFFICES ASSUME Init PROVE IInv
  OBVIOUS
<1>1. TypeOK
  BY PoolAssumption DEF Init, TypeOK, Stages, CallbackStages, PoolStates
<1>2. QueueInv
  BY DEF Init, QueueInv
<1>3. ASSUME NEW j \in Jobs
      PROVE  /\ handed[j] <= ByWorker(j) + BySubmitter(j)
             /\ handed[j] > 0 => Done(j)
             /\ stage[j] = "checked" /\ cb[j] = "offered" => handed[j] > 0
  <2>1. ByWorker(j) = 0 /\ BySubmitter(j) = 0 /\ handed[j] = 0 /\ stage[j] = "new"
    BY DEF Init, ByWorker, BySubmitter
  <2> QED BY <2>1
<1>4. HandedInv
  BY <1>3 DEF HandedInv
<1>5. AtInv
  BY PoolAssumption DEF Init, AtInv
<1> QED BY <1>1, <1>2, <1>4, <1>5 DEF IInv

LEMMA SubmitterKeeps ==
    ASSUME IInv, NEW j \in Jobs, SubmitterStep(j)
    PROVE  IInv'
<1> USE DEF IInv
<1>1. CASE Submit(j)
  <2>1. TypeOK'
    BY <1>1 DEF Submit, Becomes, TypeOK, Stages
  <2>2. QueueInv'
    <3>1. \A k \in Jobs : stage[k] = "queued" => stage'[k] = "queued"
      BY <1>1 DEF Submit, Becomes, TypeOK
    <3> QED BY <3>1, <1>1, QueueKept DEF Submit
  <2>3. HandedInv'
    BY <1>1, HandedKept DEF Submit, Becomes, TypeOK, Done, HandedInv, ByWorker, BySubmitter
  <2>4. AtInv'
    BY <1>1, AtKept DEF Submit, Becomes, TypeOK
  <2> QED BY <2>1, <2>2, <2>3, <2>4
<1>2. CASE Put(j)
  <2>1. /\ queue' \in Seq(Jobs) /\ Len(queue') = Len(queue) + 1
        /\ \A i \in 1 .. Len(queue) : queue'[i] = queue[i] /\ queue[i] \in Jobs
        /\ queue'[Len(queue) + 1] = j /\ Len(queue) \in Nat
        /\ \A i \in 1 .. Len(queue') : i \in 1 .. Len(queue) \/ i = Len(queue) + 1
    BY <1>2 DEF Put, TypeOK
  <2>2. stage' = [stage EXCEPT ![j] = "queued"] /\ stage[j] = "putting"
    BY <1>2 DEF Put, Becomes
  <2>3. TypeOK'
    <3>1. Len(queue') <= QueueSize
      BY <2>1, <1>2, PoolAssumption DEF Put, TypeOK
    <3> QED BY <3>1, <2>1, <2>2, <1>2 DEF Put, TypeOK, Stages
  <2>4. QueueInv'
    <3>1. \A i \in 1 .. Len(queue) : queue[i] # j
      BY <2>2 DEF QueueInv
    <3>2. \A i \in 1 .. Len(queue') : stage'[queue'[i]] = "queued"
      BY <2>1, <2>2 DEF QueueInv, TypeOK
    <3>3. \A i, k \in 1 .. Len(queue') : queue'[i] = queue'[k] => i = k
      BY <2>1, <3>1 DEF QueueInv
    <3> QED BY <3>2, <3>3 DEF QueueInv
  <2>5. HandedInv'
    BY <1>2, <2>2, HandedKept DEF Put, TypeOK, Done, HandedInv, ByWorker, BySubmitter
  <2>6. AtInv'
    BY <1>2, <2>2, AtKept DEF Put, TypeOK
  <2> QED BY <2>3, <2>4, <2>5, <2>6
<1>3. CASE StoreCallback(j)
  <2>1. TypeOK'
    BY <1>3 DEF StoreCallback, SetCallback, TypeOK, CallbackStages
  <2>2. QueueInv'
    BY <1>3 DEF StoreCallback, QueueInv
  <2>3. HandedInv'
    BY <1>3, HandedKept DEF StoreCallback, SetCallback, TypeOK, Done, HandedInv, ByWorker, BySubmitter
  <2>4. AtInv'
    BY <1>3 DEF StoreCallback, AtInv
  <2> QED BY <2>1, <2>2, <2>3, <2>4
<1>4. CASE StoreOwner(j)
  <2>1. TypeOK'
    BY <1>4 DEF StoreOwner, SetCallback, TypeOK, CallbackStages
  <2>2. QueueInv'
    BY <1>4 DEF StoreOwner, QueueInv
  <2>3. HandedInv'
    BY <1>4, HandedKept DEF StoreOwner, SetCallback, TypeOK, Done, HandedInv, ByWorker, BySubmitter
  <2>4. AtInv'
    BY <1>4 DEF StoreOwner, AtInv
  <2> QED BY <2>1, <2>2, <2>3, <2>4
<1>5. CASE Offer(j)
  <2>1. TypeOK'
    BY <1>5 DEF Offer, SetCallback, TypeOK, CallbackStages
  <2>2. QueueInv'
    BY <1>5 DEF Offer, QueueInv
  <2>3. HandedInv'
    BY <1>5 DEF Offer, SetCallback, TypeOK, Done, HandedInv, ByWorker, BySubmitter
  <2>4. AtInv'
    BY <1>5 DEF Offer, AtInv
  <2> QED BY <2>1, <2>2, <2>3, <2>4
<1> QED BY <1>1, <1>2, <1>3, <1>4, <1>5 DEF SubmitterStep

LEMMA WorkerKeeps ==
    ASSUME IInv, NEW w \in Workers, WorkerStep(w)
    PROVE  IInv'
<1> USE DEF IInv
<1>1. CASE Take(w)
  <2>1. /\ stage[Head(queue)] = "queued" /\ Head(queue) \in Jobs
        /\ QueueInv'
        /\ queue' \in Seq(Jobs) /\ Len(queue') <= QueueSize
        /\ stage' \in [Jobs -> Stages]
    BY <1>1, HeadLeaves DEF Take, Stages
  <2>2. TypeOK'
    BY <1>1, <2>1 DEF Take, TypeOK
  <2>3. HandedInv'
    BY <1>1, <2>1, HandedKept DEF Take, Becomes, TypeOK, Done, HandedInv, ByWorker, BySubmitter
  <2>4. AtInv'
    BY <1>1, <2>1, PoolAssumption DEF Take, Becomes, TypeOK, AtInv
  <2> QED BY <2>1, <2>2, <2>3, <2>4
<1>2. CASE Resolve(w)
  <2>1. TypeOK'
    BY <1>2 DEF Resolve, Becomes, TypeOK, Stages
  <2>2. QueueInv'
    <3>1. \A k \in Jobs : stage[k] = "queued" => stage'[k] = "queued"
      BY <1>2 DEF Resolve, Becomes, TypeOK
    <3> QED BY <3>1, <1>2, QueueKept DEF Resolve
  <2>3. HandedInv'
    BY <1>2, HandedKept DEF Resolve, Becomes, TypeOK, Done, HandedInv, ByWorker, BySubmitter
  <2>4. AtInv'
    BY <1>2 DEF Resolve, Becomes, TypeOK, AtInv
  <2> QED BY <2>1, <2>2, <2>3, <2>4
<1>3. CASE Check(w)
  <2>1. TypeOK'
    BY <1>3 DEF Check, Freed, Becomes, TypeOK, Stages
  <2>2. QueueInv'
    <3>1. \A k \in Jobs : stage[k] = "queued" => stage'[k] = "queued"
      BY <1>3 DEF Check, Becomes, TypeOK
    <3> QED BY <3>1, <1>3, QueueKept DEF Check
  <2>3. HandedInv'
    BY <1>3 DEF Check, HandsOver, Becomes, TypeOK, Done, HandedInv, ByWorker, BySubmitter, CallbackStages
  <2>4. AtInv'
    BY <1>3, PoolAssumption DEF Check, Freed, Becomes, TypeOK, AtInv
  <2> QED BY <2>1, <2>2, <2>3, <2>4
<1>4. CASE Leave(w)
  <2>1. TypeOK'
    BY <1>4 DEF Leave, TypeOK
  <2>2. QueueInv' /\ HandedInv'
    BY <1>4 DEF Leave, QueueInv, HandedInv, Done, ByWorker, BySubmitter
  <2>3. AtInv'
    BY <1>4, PoolAssumption DEF Leave, TypeOK, AtInv
  <2> QED BY <2>1, <2>2, <2>3
<1> QED BY <1>1, <1>2, <1>3, <1>4 DEF WorkerStep

LEMMA ShutdownKeeps ==
    ASSUME IInv, ShutdownStep
    PROVE  IInv'
<1> USE DEF IInv
<1>1. CASE Stop
  BY <1>1 DEF Stop, TypeOK, PoolStates, QueueInv, HandedInv, AtInv, Done,
          ByWorker, BySubmitter
<1>2. CASE Drain
  <2>1. /\ stage[Head(queue)] = "queued" /\ Head(queue) \in Jobs
        /\ QueueInv'
        /\ queue' \in Seq(Jobs) /\ Len(queue') <= QueueSize
        /\ stage' \in [Jobs -> Stages]
    BY <1>2, HeadLeaves DEF Drain, Stages
  <2>2. TypeOK'
    BY <1>2, <2>1 DEF Drain, TypeOK
  <2>3. HandedInv'
    BY <1>2, <2>1, HandedKept DEF Drain, Becomes, TypeOK, Done, HandedInv, ByWorker, BySubmitter
  <2>4. AtInv'
    BY <1>2, <2>1, AtKept DEF Drain, Becomes, TypeOK
  <2> QED BY <2>1, <2>2, <2>3, <2>4
<1>3. CASE DrainEnds
  BY <1>3 DEF DrainEnds, TypeOK, PoolStates, QueueInv, HandedInv, AtInv, Done,
          ByWorker, BySubmitter
<1> QED BY <1>1, <1>2, <1>3 DEF ShutdownStep

(* The invariant that the results below follow from. *)
LEMMA InvCorrect == Spec => []IInv
<1>1. IInv /\ UNCHANGED vars => IInv'
  BY DEF IInv, TypeOK, QueueInv, HandedInv, AtInv, Done, vars,
          ByWorker, BySubmitter
<1>2. IInv /\ [Next]_vars => IInv'
  BY <1>1, SubmitterKeeps, WorkerKeeps, ShutdownKeeps DEF Next
<1> QED BY InitInv, <1>2, PTL DEF Spec

-----------------------------------------------------------------------------
(* The types, and the bound of the queue (pool.py:107). *)
THEOREM PoolTypeCorrect == Spec => []TypeOK
<1>1. IInv => TypeOK
  BY DEF IInv
<1> QED BY <1>1, InvCorrect, PTL

(* No callback falls between execute and set_callback (pool.py:81-89). *)
THEOREM CallbackNotLostCorrect == Spec => []CallbackNotLost
<1>1. IInv => CallbackNotLost
  BY DEF IInv, HandedInv, CallbackNotLost
<1> QED BY <1>1, InvCorrect, PTL

(* A callback that is handed over does not wait for its promise. *)
THEOREM CallbackFindsResultCorrect == Spec => []CallbackFindsResult
<1>1. IInv => CallbackFindsResult
  BY DEF IInv, HandedInv, CallbackFindsResult
<1> QED BY <1>1, InvCorrect, PTL

(* A callback comes at most twice, that of a cancelled job at most once. *)
THEOREM CallbackCountCorrect == Spec => []CallbackCount
<1>1. ASSUME IInv, NEW j \in Jobs
      PROVE  handed[j] <= IF stage[j] = "cancelled" THEN 1 ELSE 2
  <2>1. handed[j] <= ByWorker(j) + BySubmitter(j) /\ handed[j] \in Nat
    BY <1>1 DEF IInv, HandedInv, TypeOK
  <2>2. /\ ByWorker(j) \in 0 .. 1 /\ BySubmitter(j) \in 0 .. 1
        /\ stage[j] = "cancelled" => ByWorker(j) = 0
    BY DEF ByWorker, BySubmitter
  <2> QED BY <2>1, <2>2
<1>2. IInv => CallbackCount
  BY <1>1 DEF CallbackCount
<1> QED BY <1>2, InvCorrect, PTL

(* Who waits at a full queue (pool.py:152): every worker, each inside a    *)
(* different job whose own child finds no room, or somebody goes on.       *)
THEOREM OnlyNestingJamsCorrect == Spec => []OnlyNestingJams
<1>1. ASSUME IInv, pool = "open", Len(queue) = QueueSize,
             NEW w \in Workers, ~ Serves(w), \A j \in Jobs : ~ SetsCallback(j)
      PROVE  WaitsForRoom(w)
  <2>1. queue # <<>>
    BY <1>1, PoolAssumption DEF IInv, TypeOK
  <2>2. at[w] \in Jobs
    BY <1>1, <2>1 DEF Serves, IInv, TypeOK, AtInv
  <2>3. stage[at[w]] = "running" /\ Busy(at[w])
    BY <1>1, <2>2 DEF Serves, IInv, AtInv
  <2>4. PICK j \in Jobs : Parent[j] = at[w] /\ Submitting(j)
    BY <2>3 DEF Busy
  <2>5. stage[j] = "putting"
    BY <1>1, <2>4 DEF Submitting, SetsCallback
  <2> QED BY <2>2, <2>4, <2>5 DEF WaitsForRoom
<1>2. ASSUME IInv, NEW w \in Workers, NEW x \in Workers, WaitsForRoom(w), at[w] = at[x]
      PROVE  w = x
  BY <1>2 DEF IInv, AtInv, WaitsForRoom
<1>3. IInv => OnlyNestingJams
  BY <1>1, <1>2 DEF OnlyNestingJams
<1> QED BY <1>3, InvCorrect, PTL
(* The jobs that submit others are fewer than the workers: the workers     *)
(* cannot be inside different ones.                                        *)
NestingJobs == {k \in Jobs : \E j \in Jobs : Parent[j] = k}
FewNestingJobs ==
    \A f \in [Workers -> NestingJobs] : \E w, x \in Workers : f[w] = f[x] /\ w # x

(* At a full queue somebody can go on: a worker, or a thread with a        *)
(* callback to set.                                                        *)
FullQueueMoves ==
    pool = "open" /\ Len(queue) = QueueSize =>
        (\E w \in Workers : Serves(w)) \/ (\E j \in Jobs : SetsCallback(j))

(* With more workers than jobs that submit others, the missing timeout of  *)
(* submit_or_execute (pool.py:152) does no harm.                           *)
THEOREM FewNestingJobsNeverJam == FewNestingJobs => (Spec => []FullQueueMoves)
<1> SUFFICES ASSUME FewNestingJobs PROVE Spec => []FullQueueMoves
  OBVIOUS
<1>1. ASSUME OnlyNestingJams PROVE FullQueueMoves
  <2> DEFINE f == [w \in Workers |-> at[w]]
  <2>1. ASSUME \A w \in Workers : WaitsForRoom(w),
               \A w, x \in Workers : at[w] = at[x] => w = x
        PROVE  FALSE
    <3>1. f \in [Workers -> NestingJobs]
      BY <2>1 DEF WaitsForRoom, NestingJobs
    <3>2. PICK w, x \in Workers : f[w] = f[x] /\ w # x
      BY <3>1 DEF FewNestingJobs
    <3> QED BY <3>2, <2>1
  <2> QED BY <1>1, <2>1 DEF OnlyNestingJams, FullQueueMoves
<1> QED BY <1>1, OnlyNestingJamsCorrect, PTL
=============================================================================
