---------------------------- MODULE ClaimProofs ----------------------------
(* Proofs about Claim, for any submissions, schedulers, slots and faults.  *)
EXTENDS Claim, TLAPS

LEMMA JobType ==
    ASSUME NEW kind \in JobKinds, NEW metas \in SUBSET Metas, NEW dirty \in SUBSET Metas
    PROVE  Job(kind, metas, dirty) \in Jobs
BY DEF Job, Jobs

LEMMA IdleType == IdleJob \in Jobs
BY JobType DEF IdleJob, JobKinds

LEMMA BecomesType ==
    ASSUME TypeOK, NEW s \in Schedulers, NEW w \in Slots, NEW job \in Jobs, Becomes(s, w, job)
    PROVE  jobs' \in [Schedulers -> [Slots -> Jobs]]
BY DEF TypeOK, Becomes

LEMMA SubmitType ==
    ASSUME TypeOK, NEW s \in Schedulers, NEW job \in Jobs, Submit(s, job)
    PROVE  jobs' \in [Schedulers -> [Slots -> Jobs]]
BY BecomesType DEF Submit

LEMMA DirtiedType ==
    ASSUME TypeOK, NEW metas \in SUBSET Metas
    PROVE  Dirtied(metas) \in [Schedulers -> [Slots -> Jobs]]
<1> SUFFICES ASSUME NEW s \in Schedulers, NEW w \in Slots, jobs[s][w].kind = "commit"
             PROVE  Dirtied(metas)[s][w] \in Jobs
  BY DEF Dirtied, TypeOK
<1>1. jobs[s][w] \in Jobs
  BY DEF TypeOK
<1> QED
  BY <1>1, JobType DEF Dirtied, Jobs, JobKinds

LEMMA GoesType ==
    ASSUME TypeOK, NEW s \in Schedulers, NEW kind \in ThreadKinds,
           NEW metas \in SUBSET Metas, Goes(s, kind, metas) \/ GoesOn(s, kind, metas)
    PROVE  thread' \in [Schedulers -> Threads]
<1>1. ASSUME NEW k \in ThreadKinds, NEW ms \in SUBSET Metas, Goes(s, k, ms)
      PROVE  thread' \in [Schedulers -> Threads]
  <2>1. Doing(k, ms) \in Threads
    BY DEF Doing, Threads
  <2> QED
    BY <1>1, <2>1 DEF TypeOK, Goes
<1>2. "drain" \in ThreadKinds /\ {} \in SUBSET Metas
  BY DEF ThreadKinds
<1> QED
  BY <1>1, <1>2 DEF GoesOn

LEMMA CallType ==
    ASSUME TypeOK, NEW s \in Schedulers, NEW kind \in CallbackKinds,
           NEW metas \in SUBSET Metas, Call(s, kind, metas)
    PROVE  callbacks' \in [Schedulers -> Seq(Callbacks)]
<1>1. Doing(kind, metas) \in Callbacks
  BY DEF Doing, Callbacks
<1> DEFINE called == Append(callbacks[s], Doing(kind, metas))
           again == Append(called, Doing(kind, metas))
<1>2. called \in Seq(Callbacks) /\ again \in Seq(Callbacks)
  BY <1>1 DEF TypeOK
<1>3. callbacks' = callbacks \/ \E q \in {called, again} : callbacks' = [callbacks EXCEPT ![s] = q]
  BY DEF Call
<1> HIDE DEF called, again
<1> QED
  BY <1>2, <1>3 DEF TypeOK

LEMMA FaultType == ASSUME TypeOK, Fault PROVE faults' \in 0..MaxFaults
BY ClaimAssumption DEF TypeOK, Fault

LEMMA LoadType ==
    ASSUME TypeOK, NEW s \in Schedulers, NEW metas \in SUBSET Metas,
           loaded' = [loaded EXCEPT ![s] = @ \cup DagsOf(metas)]
    PROVE  loaded' \in [Schedulers -> SUBSET Dags]
BY ClaimAssumption DEF TypeOK, DagsOf

LEMMA WriteType ==
    ASSUME TypeOK, NEW metas, NEW state \in MetaStates
    PROVE  WriteMetas(metas, state) \in [Metas -> MetaStates]
BY DEF TypeOK, WriteMetas

LEMMA ThreadTypes ==
    ASSUME TypeOK, NEW s \in Schedulers, ThreadProgress(s) \/ CallbackFault(s)
    PROVE  TypeOK'
<1> USE DEF tables, TypeOK
<1>1. /\ thread[s].metas \in SUBSET Metas
      /\ Unclaimed(thread[s].metas) \in SUBSET Metas
  BY DEF Threads, Unclaimed
<1>2. ASSUME SubmitClaim(s) PROVE TypeOK'
  <2>1. Job("select", {}, {}) \in Jobs
    BY JobType DEF JobKinds
  <2>2. jobs' \in [Schedulers -> [Slots -> Jobs]]
    BY <1>2, <2>1, SubmitType DEF SubmitClaim
  <2>3. thread' \in [Schedulers -> Threads]
    BY <1>2, GoesType DEF SubmitClaim, ThreadKinds
  <2> QED
    BY <1>2, <2>2, <2>3 DEF SubmitClaim
<1>3. ASSUME SubmitFetch(s) PROVE TypeOK'
  <2>1. Job("fetch", {}, {}) \in Jobs
    BY JobType DEF JobKinds
  <2>2. jobs' \in [Schedulers -> [Slots -> Jobs]]
    BY <1>3, <2>1, SubmitType DEF SubmitFetch
  <2>3. thread' \in [Schedulers -> Threads]
    BY <1>3, GoesType DEF SubmitFetch, ThreadKinds
  <2> QED
    BY <1>3, <2>2, <2>3 DEF SubmitFetch
<1>4. ASSUME NextCallback(s) PROVE TypeOK'
  <2>1. Head(callbacks[s]) \in Callbacks /\ Tail(callbacks[s]) \in Seq(Callbacks)
    BY <1>4 DEF NextCallback
  <2>2. Callbacks \subseteq Threads
    BY DEF Callbacks, Threads, CallbackKinds, ThreadKinds
  <2> QED
    BY <1>4, <2>1, <2>2 DEF NextCallback
<1>5. ASSUME LoopAgain(s) PROVE TypeOK'
  BY <1>5, GoesType DEF LoopAgain, ThreadKinds
<1>6. ASSUME ReadInvalid(s) PROVE TypeOK'
  BY <1>6, <1>1, GoesType DEF ReadInvalid, ThreadKinds
<1>7. ASSUME WriteInvalid(s) PROVE TypeOK'
  BY <1>7, <1>1, GoesType, WriteType, DirtiedType DEF WriteInvalid, ThreadKinds, MetaStates
<1>8. ASSUME NEW m \in Metas, QueueNext(s, m) PROVE TypeOK'
  <2>1. Job("queue", {m}, {}) \in Jobs
    BY JobType DEF JobKinds
  <2>2. thread' \in [Schedulers -> Threads]
    BY <1>8, <1>1, GoesType DEF QueueNext, ThreadKinds
  <2>3. jobs' \in [Schedulers -> [Slots -> Jobs]]
    BY <1>8, <2>1, SubmitType DEF QueueNext
  <2>4. loaded' \in [Schedulers -> SUBSET Dags]
    BY <1>8, ClaimAssumption DEF QueueNext
  <2> QED
    BY <1>8, <2>2, <2>3, <2>4 DEF QueueNext
<1>9. ASSUME NEW m \in Metas, QueueStops(s, m) PROVE TypeOK'
  BY <1>9, GoesType DEF QueueStops, ThreadKinds
<1>10. ASSUME CallbackFault(s) PROVE TypeOK'
  BY <1>10, GoesType, FaultType DEF CallbackFault, ThreadKinds
<1> QED
  BY <1>2, <1>3, <1>4, <1>5, <1>6, <1>7, <1>8, <1>9, <1>10 DEF ThreadProgress

LEMMA JobTypes ==
    ASSUME TypeOK, NEW s \in Schedulers, NEW w \in Slots, JobProgress(s, w) \/ JobFault(s, w)
    PROVE  TypeOK'
<1> USE DEF tables, TypeOK
<1>1. jobs[s][w].metas \in SUBSET Metas
  BY DEF Jobs
<1>2. ASSUME Select(s, w) PROVE TypeOK'
  <2> DEFINE metas == Unclaimed(Metas)
  <2>1. PICK failing \in SUBSET {m \in metas : DagOf[m] \in Unloadable(s)} :
            /\ loaded' = [loaded EXCEPT ![s] = @ \cup DagsOf(metas \ failing)]
            /\ rechecks' = [rechecks EXCEPT ![s] = @ \cup ({failing} \ {{}})]
            /\ Becomes(s, w, IF metas = failing THEN IdleJob
                             ELSE Job("begin", metas \ failing, {}))
    BY <1>2 DEF Select
  <2>2. failing \in SUBSET Metas /\ metas \ failing \in SUBSET Metas
    BY DEF Unclaimed
  <2>3. Job("begin", metas \ failing, {}) \in Jobs
    BY <2>2, JobType DEF JobKinds
  <2>4. jobs' \in [Schedulers -> [Slots -> Jobs]]
    BY <2>1, <2>3, IdleType, BecomesType
  <2>5. loaded' \in [Schedulers -> SUBSET Dags]
    <3> DEFINE loads == metas \ failing
    <3>1. loads \in SUBSET Metas /\ loaded' = [loaded EXCEPT ![s] = @ \cup DagsOf(loads)]
      BY <2>1, <2>2
    <3> HIDE DEF loads
    <3> QED
      BY <3>1, LoadType
  <2>6. rechecks' \in [Schedulers -> SUBSET SUBSET Metas]
    BY <2>1, <2>2
  <2> QED
    BY <1>2, <2>4, <2>5, <2>6 DEF Select
<1>3. ASSUME BeginClaim(s, w) PROVE TypeOK'
  <2>1. Unclaimed(jobs[s][w].metas) \in SUBSET Metas
    BY <1>1 DEF Unclaimed
  <2>2. Job("commit", Unclaimed(jobs[s][w].metas), {}) \in Jobs
    BY <2>1, JobType DEF JobKinds
  <2>3. jobs' \in [Schedulers -> [Slots -> Jobs]]
    BY <1>3, <2>2, IdleType, BecomesType DEF BeginClaim
  <2> QED
    BY <1>3, <2>3 DEF BeginClaim
<1>4. ASSUME CommitClaim(s, w) PROVE TypeOK'
  <2>1. jobs' \in [Schedulers -> [Slots -> Jobs]]
    BY <1>4, <1>1, DirtiedType, IdleType DEF CommitClaim
  <2>2. row' \in [Metas -> MetaStates]
    BY <1>4, WriteType DEF CommitClaim, MetaStates
  <2>3. runs' \in [Metas -> Nat]
    BY <1>4 DEF CommitClaim
  <2> QED
    BY <1>4, <2>1, <2>2, <2>3 DEF CommitClaim
<1>5. ASSUME ConflictClaim(s, w) PROVE TypeOK'
  BY <1>5, IdleType, BecomesType DEF ConflictClaim, Finish
<1>6. ASSUME FetchScheduled(s, w) PROVE TypeOK'
  BY <1>6, IdleType, BecomesType, CallType DEF FetchScheduled, Finish, CallbackKinds
<1>7. ASSUME QueueRun(s, w) PROVE TypeOK'
  BY <1>7, <1>1, IdleType, BecomesType DEF QueueRun, Finish
<1>8. ASSUME JobFault(s, w) PROVE TypeOK'
  BY <1>8, IdleType, BecomesType, FaultType DEF JobFault, Finish
<1> QED
  BY <1>2, <1>3, <1>4, <1>5, <1>6, <1>7, <1>8 DEF JobProgress

(* The metas, runs and schedulers start with values of their types. *)
THEOREM ClaimTypeInitial == Init => TypeOK
<1> SUFFICES ASSUME Init PROVE TypeOK
  OBVIOUS
<1>1. Doing("claim", {}) \in Threads
  BY DEF Doing, Threads, ThreadKinds
<1> QED
  BY <1>1, IdleType, ClaimAssumption DEF Init, TypeOK, MetaStates

(* No step of a scheduler or a user leads out of these types. *)
THEOREM ClaimTypeNext == TypeOK /\ [Next]_vars => TypeOK'
<1> SUFFICES ASSUME TypeOK, [Next]_vars PROVE TypeOK'
  OBVIOUS
<1>1. ASSUME NEW m \in Metas, AddDag(m) PROVE TypeOK'
  BY <1>1 DEF AddDag, TypeOK, MetaStates
<1>2. ASSUME NEW s \in Schedulers, Rechecking(s) PROVE TypeOK'
  <2>1. PICK metas \in rechecks[s] : Recheck(s, metas)
    BY <1>2 DEF Rechecking
  <2>2. PICK failing \in SUBSET {m \in metas : DagOf[m] \in BadDags} :
            /\ loaded' = [loaded EXCEPT ![s] = @ \cup DagsOf(metas \ failing)]
            /\ Call(s, "invalid", failing)
    BY <2>1 DEF Recheck
  <2>3. metas \in SUBSET Metas
    BY DEF TypeOK
  <2>4. loaded' \in [Schedulers -> SUBSET Dags]
    <3> DEFINE loads == metas \ failing
    <3>1. loads \in SUBSET Metas /\ loaded' = [loaded EXCEPT ![s] = @ \cup DagsOf(loads)]
      BY <2>2, <2>3
    <3> HIDE DEF loads
    <3> QED
      BY <3>1, LoadType
  <2>5. callbacks' \in [Schedulers -> Seq(Callbacks)]
    BY <2>2, <2>3, CallType DEF CallbackKinds
  <2> QED
    BY <2>1, <2>4, <2>5 DEF Recheck, TypeOK, tables
<1>3. ASSUME NEW s \in Schedulers, SchedulerCrash(s) PROVE TypeOK'
  BY <1>3, GoesType, FaultType, IdleType DEF SchedulerCrash, TypeOK, tables, ThreadKinds
<1>4. CASE UNCHANGED vars
  BY <1>4 DEF vars, TypeOK
<1> QED
  BY <1>1, <1>2, <1>3, <1>4, ThreadTypes, JobTypes DEF Next

(* Every reachable state of the claiming is type correct. *)
THEOREM ClaimTypeCorrect == Spec => []TypeOK
BY ClaimTypeInitial, ClaimTypeNext, PTL DEF Spec

-----------------------------------------------------------------------------
(* The inductive invariant.  A job stays at its transaction's commit with  *)
(* the rows it read, and is told of every write of them.                   *)

LEMMA OtherJobs ==
    ASSUME TypeOK, NEW s \in Schedulers, NEW w \in Slots, NEW job \in Jobs, Becomes(s, w, job),
           job.kind = "commit" => \A m \in job.metas \ job.dirty : row[m] = "unclaimed",
           ClaimsAreFree, row' = row
    PROVE  ClaimsAreFree'
BY DEF ClaimsAreFree, Becomes, TypeOK

LEMMA SubmittedJobs ==
    ASSUME TypeOK, NEW s \in Schedulers, NEW job \in Jobs, Submit(s, job),
           job.kind # "commit", ClaimsAreFree, row' = row
    PROVE  ClaimsAreFree'
<1>1. PICK w \in Slots : Becomes(s, w, job)
  BY DEF Submit
<1> QED
  BY <1>1, OtherJobs

LEMMA WrittenMetas ==
    ASSUME TypeOK, ClaimsAreFree, NEW metas \in SUBSET Metas, NEW state \in MetaStates,
           row' = WriteMetas(metas, state),
           \A s \in Schedulers, w \in Slots :
               jobs'[s][w] = Dirtied(metas)[s][w] \/ jobs'[s][w] = IdleJob
    PROVE  ClaimsAreFree'
<1> SUFFICES ASSUME NEW s \in Schedulers, NEW w \in Slots, jobs'[s][w].kind = "commit",
                    NEW m \in jobs'[s][w].metas \ jobs'[s][w].dirty
             PROVE  row'[m] = "unclaimed"
  BY DEF ClaimsAreFree
<1>1. jobs'[s][w] = Dirtied(metas)[s][w]
  BY DEF IdleJob, Job
<1>2. jobs[s][w].kind = "commit"
  BY <1>1 DEF Dirtied, Job
<1>3. /\ jobs'[s][w].metas = jobs[s][w].metas
      /\ jobs'[s][w].dirty = jobs[s][w].dirty \cup (metas \cap jobs[s][w].metas)
  BY <1>1, <1>2 DEF Dirtied, Job
<1>4. m \in Metas /\ m \notin metas /\ row[m] = "unclaimed"
  BY <1>2, <1>3 DEF ClaimsAreFree, TypeOK, Jobs
<1> QED
  BY <1>4 DEF WriteMetas

LEMMA ClaimsStayFree ==
    ASSUME ClaimInv, [Next]_vars
    PROVE  ClaimsAreFree'
<1> USE DEF ClaimInv, tables
<1>1. ASSUME NEW m \in Metas, AddDag(m) PROVE ClaimsAreFree'
  BY <1>1 DEF AddDag, ClaimsAreFree, TypeOK
<1>2. ASSUME NEW s \in Schedulers, ThreadProgress(s) PROVE ClaimsAreFree'
  <2>1. ASSUME SubmitClaim(s) PROVE ClaimsAreFree'
    <3>1. Job("select", {}, {}) \in Jobs /\ Job("select", {}, {}).kind # "commit"
      BY JobType DEF Job, JobKinds
    <3> QED
      BY <2>1, <3>1, SubmittedJobs DEF SubmitClaim
  <2>2. ASSUME SubmitFetch(s) PROVE ClaimsAreFree'
    <3>1. Job("fetch", {}, {}) \in Jobs /\ Job("fetch", {}, {}).kind # "commit"
      BY JobType DEF Job, JobKinds
    <3> QED
      BY <2>2, <3>1, SubmittedJobs DEF SubmitFetch
  <2>3. ASSUME NEW m \in Metas, QueueNext(s, m) PROVE ClaimsAreFree'
    <3>1. Job("queue", {m}, {}) \in Jobs /\ Job("queue", {m}, {}).kind # "commit"
      BY JobType DEF Job, JobKinds
    <3> QED
      BY <2>3, <3>1, SubmittedJobs DEF QueueNext
  <2>4. ASSUME WriteInvalid(s) PROVE ClaimsAreFree'
    <3>1. thread[s].metas \in SUBSET Metas
      BY DEF TypeOK, Threads
    <3> QED
      BY <2>4, <3>1, WrittenMetas DEF WriteInvalid, MetaStates
  <2>5. ASSUME UNCHANGED <<row, jobs>> PROVE ClaimsAreFree'
    BY <2>5 DEF ClaimsAreFree
  <2> QED
    BY <1>2, <2>1, <2>2, <2>3, <2>4, <2>5
    DEF ThreadProgress, NextCallback, LoopAgain, ReadInvalid, QueueStops
<1>3. ASSUME NEW s \in Schedulers, NEW w \in Slots, JobProgress(s, w) \/ JobFault(s, w)
      PROVE  ClaimsAreFree'
  <2>1. IdleJob \in Jobs /\ IdleJob.kind # "commit"
    BY IdleType DEF IdleJob, Job
  <2>2. ASSUME Finish(s, w), row' = row PROVE ClaimsAreFree'
    BY <2>1, <2>2, OtherJobs DEF Finish
  <2>3. ASSUME Select(s, w) PROVE ClaimsAreFree'
    <3>1. PICK failing : Becomes(s, w, IF Unclaimed(Metas) = failing THEN IdleJob
                                       ELSE Job("begin", Unclaimed(Metas) \ failing, {}))
      BY <2>3 DEF Select
    <3>2. Job("begin", Unclaimed(Metas) \ failing, {}) \in Jobs
      BY JobType DEF JobKinds, Unclaimed
    <3>3. Job("begin", Unclaimed(Metas) \ failing, {}).kind # "commit"
      BY DEF Job
    <3> QED
      BY <2>1, <2>3, <3>1, <3>2, <3>3, OtherJobs DEF Select
  <2>4. ASSUME BeginClaim(s, w) PROVE ClaimsAreFree'
    <3> DEFINE metas == Unclaimed(jobs[s][w].metas)
               job == Job("commit", metas, {})
    <3>1. metas \in SUBSET Metas /\ \A m \in metas : row[m] = "unclaimed"
      BY DEF Unclaimed, TypeOK, Jobs
    <3>2. job \in Jobs
      BY <3>1, JobType DEF JobKinds
    <3>3. \A m \in job.metas \ job.dirty : row[m] = "unclaimed"
      BY <3>1 DEF Job
    <3>4. Becomes(s, w, IF metas = {} THEN IdleJob ELSE job)
      BY <2>4 DEF BeginClaim
    <3>5. row' = row
      BY <2>4 DEF BeginClaim
    <3> HIDE DEF metas, job
    <3> QED
      BY <2>1, <3>2, <3>3, <3>4, <3>5, OtherJobs
  <2>5. ASSUME CommitClaim(s, w) PROVE ClaimsAreFree'
    <3>1. jobs[s][w].metas \in SUBSET Metas
      BY DEF TypeOK, Jobs
    <3>2. Dirtied(jobs[s][w].metas) \in [Schedulers -> [Slots -> Jobs]]
      BY <3>1, DirtiedType
    <3>3. \A z \in Schedulers, v \in Slots :
              jobs'[z][v] = Dirtied(jobs[s][w].metas)[z][v] \/ jobs'[z][v] = IdleJob
      BY <2>5, <3>2 DEF CommitClaim
    <3> QED
      BY <2>5, <3>1, <3>3, WrittenMetas DEF CommitClaim, MetaStates
  <2> QED
    BY <1>3, <2>2, <2>3, <2>4, <2>5
    DEF JobProgress, ConflictClaim, FetchScheduled, QueueRun, JobFault
<1>4. ASSUME NEW s \in Schedulers, SchedulerCrash(s) PROVE ClaimsAreFree'
  BY <1>4 DEF SchedulerCrash, ClaimsAreFree, TypeOK, IdleJob, Job
<1>5. ASSUME NEW s \in Schedulers, Rechecking(s) \/ CallbackFault(s) PROVE ClaimsAreFree'
  BY <1>5 DEF Rechecking, Recheck, CallbackFault, ClaimsAreFree
<1>6. CASE UNCHANGED vars
  BY <1>6 DEF vars, ClaimsAreFree
<1> QED
  BY <1>1, <1>2, <1>3, <1>4, <1>5, <1>6 DEF Next

(* Who writes the metas and creates dag runs. *)
LEMMA WhoWritesMetas ==
    ASSUME ClaimInv, [Next]_vars
    PROVE  \/ \E m \in Metas : AddDag(m)
           \/ \E s \in Schedulers : WriteInvalid(s)
           \/ \E s \in Schedulers, w \in Slots : CommitClaim(s, w)
           \/ row' = row /\ runs' = runs
<1> USE DEF tables
<1>1. ASSUME NEW s \in Schedulers, ThreadProgress(s)
      PROVE  WriteInvalid(s) \/ (row' = row /\ runs' = runs)
  BY <1>1 DEF ThreadProgress, SubmitClaim, SubmitFetch, NextCallback, LoopAgain, ReadInvalid,
              QueueNext, QueueStops
<1>2. ASSUME NEW s \in Schedulers, NEW w \in Slots, JobProgress(s, w)
      PROVE  CommitClaim(s, w) \/ (row' = row /\ runs' = runs)
  BY <1>2 DEF JobProgress, Select, BeginClaim, ConflictClaim, FetchScheduled, QueueRun
<1>3. ASSUME NEW s \in Schedulers, Rechecking(s) \/ CallbackFault(s) \/ SchedulerCrash(s)
      PROVE  row' = row /\ runs' = runs
  BY <1>3 DEF Rechecking, Recheck, CallbackFault, SchedulerCrash
<1>4. ASSUME NEW s \in Schedulers, NEW w \in Slots, JobFault(s, w)
      PROVE  row' = row /\ runs' = runs
  BY <1>4 DEF JobFault
<1>5. CASE UNCHANGED vars
  BY <1>5 DEF vars
<1> QED
  BY <1>1, <1>2, <1>3, <1>4, <1>5 DEF Next

(* A claim that commits writes metas that are unclaimed and have no run.   *)
LEMMA CommitsAreFree ==
    ASSUME ClaimInv, NEW s \in Schedulers, NEW w \in Slots, CommitClaim(s, w),
           NEW m \in jobs[s][w].metas
    PROVE  m \in Metas /\ row[m] = "unclaimed" /\ runs[m] = 0
<1>1. m \in Metas
  BY DEF ClaimInv, TypeOK, Jobs
<1>2. row[m] = "unclaimed"
  BY DEF ClaimInv, ClaimsAreFree, CommitClaim, ClaimConflict, At
<1> QED
  BY <1>1, <1>2 DEF ClaimInv, UnclaimedHaveNone

(* At first no meta is claimed and no claim is about to write. *)
THEOREM ClaimInitial == Init => ClaimInv
<1> SUFFICES ASSUME Init PROVE ClaimInv
  OBVIOUS
<1>1. OneRun /\ UnclaimedHaveNone
  BY DEF Init, OneRun, UnclaimedHaveNone
<1>2. ClaimsAreFree
  BY DEF Init, ClaimsAreFree, IdleJob, Job
<1> QED
  BY <1>1, <1>2, ClaimTypeInitial DEF ClaimInv

(* No step takes a meta that is claimed, or forgets that one is dirty. *)
THEOREM ClaimNext == ClaimInv /\ [Next]_vars => ClaimInv'
<1> SUFFICES ASSUME ClaimInv, [Next]_vars PROVE ClaimInv'
  OBVIOUS
<1>1. TypeOK'
  BY ClaimTypeNext DEF ClaimInv
<1>2. OneRun' /\ UnclaimedHaveNone'
  <2> USE DEF ClaimInv, TypeOK, OneRun, UnclaimedHaveNone
  <2>1. ASSUME NEW m \in Metas, AddDag(m) PROVE OneRun' /\ UnclaimedHaveNone'
    BY <2>1 DEF AddDag
  <2>2. ASSUME NEW s \in Schedulers, WriteInvalid(s) PROVE OneRun' /\ UnclaimedHaveNone'
    BY <2>2 DEF WriteInvalid, WriteMetas
  <2>3. ASSUME NEW s \in Schedulers, NEW w \in Slots, CommitClaim(s, w)
        PROVE  OneRun' /\ UnclaimedHaveNone'
    <3>1. \A m \in jobs[s][w].metas : m \in Metas /\ runs[m] = 0
      BY <2>3, CommitsAreFree
    <3>2. /\ row' = WriteMetas(jobs[s][w].metas, "run")
          /\ runs' = [m \in Metas |-> IF m \in jobs[s][w].metas THEN runs[m] + 1 ELSE runs[m]]
      BY <2>3 DEF CommitClaim
    <3> QED
      BY <3>1, <3>2 DEF WriteMetas
  <2>4. CASE row' = row /\ runs' = runs
    BY <2>4
  <2> QED
    BY <2>1, <2>2, <2>3, <2>4, WhoWritesMetas
<1> QED
  BY <1>1, <1>2, ClaimsStayFree DEF ClaimInv

(* A submission gets at most one dag run, with any number of schedulers    *)
(* that claim, reject, fail and crash.                                     *)
THEOREM OneRunCorrect == Spec => []OneRun
<1>1. ClaimInv => OneRun
  BY DEF ClaimInv
<1> QED
  BY <1>1, ClaimInitial, ClaimNext, PTL DEF Spec

(* A rejected submission stays rejected and gets no run from then on. *)
THEOREM RejectedCorrect == Spec => RejectedStays
<1> DEFINE Kept == \A m \in Metas : row[m] = "error" => row'[m] = "error" /\ runs'[m] = runs[m]
<1>1. ASSUME ClaimInv, [Next]_vars PROVE [Kept]_vars
  <2> SUFFICES ASSUME NEW m \in Metas, row[m] = "error"
               PROVE  row'[m] = "error" /\ runs'[m] = runs[m]
    OBVIOUS
  <2> USE <1>1 DEF ClaimInv, TypeOK
  <2>1. ASSUME NEW n \in Metas, AddDag(n) PROVE row'[m] = "error" /\ runs'[m] = runs[m]
    BY <2>1 DEF AddDag
  <2>2. ASSUME NEW s \in Schedulers, WriteInvalid(s)
        PROVE  row'[m] = "error" /\ runs'[m] = runs[m]
    BY <2>2 DEF WriteInvalid, WriteMetas
  <2>3. ASSUME NEW s \in Schedulers, NEW w \in Slots, CommitClaim(s, w)
        PROVE  row'[m] = "error" /\ runs'[m] = runs[m]
    <3>1. m \notin jobs[s][w].metas
      BY <2>3, CommitsAreFree
    <3> QED
      BY <2>3, <3>1 DEF CommitClaim, WriteMetas
  <2> QED
    BY <2>1, <2>2, <2>3, WhoWritesMetas
<1> QED
  BY <1>1, ClaimInitial, ClaimNext, PTL DEF Spec, RejectedStays
-----------------------------------------------------------------------------
(* Claim implements Intake.  Whatever is about to be queued, by a callback,*)
(* a thread or a job, has its run, and whatever a thread is about to reject*)
(* was submitted.                                                          *)

HaveRuns(metas) == \A m \in metas : runs[m] > 0

CallbacksHaveRuns ==
    \A s \in Schedulers : \A i \in 1..Len(callbacks[s]) :
        callbacks[s][i].kind = "queue" => HaveRuns(callbacks[s][i].metas)

ThreadsHaveRuns ==
    \A s \in Schedulers : thread[s].kind = "queue" => HaveRuns(thread[s].metas)

JobsHaveRuns ==
    \A s \in Schedulers, w \in Slots :
        jobs[s][w].kind = "queue" => \E m \in Metas : jobs[s][w].metas = {m} /\ runs[m] > 0

RejectsWereAdded ==
    \A s \in Schedulers :
        thread[s].kind = "reject" => \A m \in thread[s].metas : row[m] # "absent"

RowsHaveRuns ==
    /\ \A m \in Metas : row[m] = "run" => runs[m] > 0
    /\ HaveRuns(queued)

IntakeInv ==
    /\ ClaimInv
    /\ CallbacksHaveRuns
    /\ ThreadsHaveRuns
    /\ JobsHaveRuns
    /\ RejectsWereAdded
    /\ RowsHaveRuns

LEMMA IntakeInitial == Init => IntakeInv
<1> SUFFICES ASSUME Init PROVE IntakeInv
  OBVIOUS
<1> QED
  BY ClaimInitial DEF Init, IntakeInv, CallbacksHaveRuns, ThreadsHaveRuns, JobsHaveRuns,
                      RejectsWereAdded, RowsHaveRuns, HaveRuns, IdleJob, Job, Doing

(* No step takes a run away or makes a submission unmade. *)
LEMMA RunsStay ==
    ASSUME ClaimInv, [Next]_vars, NEW m \in Metas
    PROVE  /\ runs[m] > 0 => runs'[m] > 0
           /\ row[m] # "absent" => row'[m] # "absent"
<1> USE DEF ClaimInv, TypeOK
<1>1. ASSUME NEW n \in Metas, AddDag(n)
      PROVE  runs'[m] = runs[m] /\ (row[m] # "absent" => row'[m] # "absent")
  BY <1>1 DEF AddDag
<1>2. ASSUME NEW s \in Schedulers, WriteInvalid(s)
      PROVE  runs'[m] = runs[m] /\ (row[m] # "absent" => row'[m] # "absent")
  BY <1>2 DEF WriteInvalid, WriteMetas
<1>3. ASSUME NEW s \in Schedulers, NEW w \in Slots, CommitClaim(s, w)
      PROVE  /\ runs[m] > 0 => runs'[m] > 0
             /\ row[m] # "absent" => row'[m] # "absent"
  BY <1>3 DEF CommitClaim, WriteMetas
<1> QED
  BY <1>1, <1>2, <1>3, WhoWritesMetas

LEMMA RowsKeepRuns ==
    ASSUME IntakeInv, [Next]_vars
    PROVE  \A m \in Metas : row'[m] = "run" => runs'[m] > 0
<1> USE DEF IntakeInv, ClaimInv, TypeOK, RowsHaveRuns
<1>1. ASSUME NEW n \in Metas, AddDag(n) PROVE \A m \in Metas : row'[m] = "run" => runs'[m] > 0
  BY <1>1 DEF AddDag
<1>2. ASSUME NEW s \in Schedulers, WriteInvalid(s)
      PROVE  \A m \in Metas : row'[m] = "run" => runs'[m] > 0
  BY <1>2 DEF WriteInvalid, WriteMetas
<1>3. ASSUME NEW s \in Schedulers, NEW w \in Slots, CommitClaim(s, w)
      PROVE  \A m \in Metas : row'[m] = "run" => runs'[m] > 0
  BY <1>3 DEF CommitClaim, WriteMetas
<1> QED
  BY <1>1, <1>2, <1>3, WhoWritesMetas
(* Whatever stays in a scheduler's queue has its run still. *)
LEMMA HaveRunsStays ==
    ASSUME ClaimInv, [Next]_vars, NEW metas, metas \subseteq Metas, HaveRuns(metas)
    PROVE  \A m \in metas : runs'[m] > 0
BY RunsStay DEF HaveRuns

(* A callback for runs to queue is put there by a job that read them. *)
LEMMA CallsHaveRuns ==
    ASSUME IntakeInv, [Next]_vars, NEW s \in Schedulers, NEW kind \in CallbackKinds,
           NEW metas \in SUBSET Metas, Call(s, kind, metas), kind = "queue" => HaveRuns(metas)
    PROVE  CallbacksHaveRuns'
<1> SUFFICES ASSUME NEW z \in Schedulers, NEW i \in 1..Len(callbacks'[z]),
                    callbacks'[z][i].kind = "queue"
             PROVE  \A m \in callbacks'[z][i].metas : runs'[m] > 0
  BY DEF CallbacksHaveRuns, HaveRuns
<1> DEFINE one == Doing(kind, metas)
<1>1. one \in Callbacks /\ one.kind = kind /\ one.metas = metas
  BY DEF Doing, Callbacks
<1>2. callbacks[z] \in Seq(Callbacks) /\ callbacks[s] \in Seq(Callbacks)
  BY DEF IntakeInv, ClaimInv, TypeOK
<1>3. \/ callbacks'[z] = callbacks[z]
      \/ callbacks'[z] = Append(callbacks[z], one)
      \/ callbacks'[z] = Append(Append(callbacks[z], one), one)
  BY DEF Call, IntakeInv, ClaimInv, TypeOK
<1> HIDE DEF one
<1>4. callbacks'[z][i] = one \/ (i \in 1..Len(callbacks[z]) /\ callbacks'[z][i] = callbacks[z][i])
  BY <1>1, <1>2, <1>3
<1>5. CASE callbacks'[z][i] = one
  BY <1>1, <1>5, HaveRunsStays DEF IntakeInv
<1>6. CASE i \in 1..Len(callbacks[z]) /\ callbacks'[z][i] = callbacks[z][i]
  <2>1. callbacks[z][i] \in Callbacks
    BY <1>2, <1>6
  <2>2. callbacks[z][i].metas \subseteq Metas
    BY <2>1 DEF Callbacks
  <2>3. HaveRuns(callbacks[z][i].metas)
    BY <1>6 DEF IntakeInv, CallbacksHaveRuns
  <2> QED
    BY <1>6, <2>2, <2>3, HaveRunsStays DEF IntakeInv
<1> QED
  BY <1>4, <1>5, <1>6

LEMMA CallbacksStay ==
    ASSUME IntakeInv, [Next]_vars, callbacks' = callbacks
    PROVE  CallbacksHaveRuns'
<1> SUFFICES ASSUME NEW s \in Schedulers, NEW i \in 1..Len(callbacks[s]),
                    callbacks[s][i].kind = "queue"
             PROVE  \A m \in callbacks[s][i].metas : runs'[m] > 0
  BY DEF CallbacksHaveRuns, HaveRuns
<1>1. callbacks[s][i] \in Callbacks
  BY DEF IntakeInv, ClaimInv, TypeOK
<1>2. callbacks[s][i].metas \subseteq Metas
  BY <1>1 DEF Callbacks
<1>3. HaveRuns(callbacks[s][i].metas)
  BY DEF IntakeInv, CallbacksHaveRuns
<1> QED
  BY <1>2, <1>3, HaveRunsStays DEF IntakeInv

LEMMA CallbacksKeepRuns ==
    ASSUME IntakeInv, [Next]_vars
    PROVE  CallbacksHaveRuns'
<1>1. ASSUME NEW s \in Schedulers, NextCallback(s) PROVE CallbacksHaveRuns'
  <2> SUFFICES ASSUME NEW z \in Schedulers, NEW i \in 1..Len(callbacks'[z]),
                      callbacks'[z][i].kind = "queue"
               PROVE  \A m \in callbacks'[z][i].metas : runs'[m] > 0
    BY DEF CallbacksHaveRuns, HaveRuns
  <2>1. callbacks[z] \in Seq(Callbacks)
    BY DEF IntakeInv, ClaimInv, TypeOK
  <2>2. callbacks'[z] = callbacks[z] \/ (callbacks'[z] = Tail(callbacks[z]) /\ callbacks[z] # <<>>)
    BY <1>1 DEF NextCallback, IntakeInv, ClaimInv, TypeOK
  <2>3. PICK k \in 1..Len(callbacks[z]) : callbacks'[z][i] = callbacks[z][k]
    <3>1. CASE callbacks'[z] = callbacks[z]
      BY <3>1
    <3>2. CASE callbacks'[z] = Tail(callbacks[z]) /\ callbacks[z] # <<>>
      <4>1. i + 1 \in 1..Len(callbacks[z]) /\ Tail(callbacks[z])[i] = callbacks[z][i + 1]
        BY <2>1, <3>2
      <4> QED
        BY <3>2, <4>1
    <3> QED
      BY <2>2, <3>1, <3>2
  <2>4. callbacks[z][k] \in Callbacks
    BY <2>1
  <2>5. callbacks[z][k].metas \subseteq Metas
    BY <2>4 DEF Callbacks
  <2>6. HaveRuns(callbacks[z][k].metas)
    BY <2>3 DEF IntakeInv, CallbacksHaveRuns
  <2> QED
    BY <2>3, <2>5, <2>6, HaveRunsStays DEF IntakeInv
<1>2. ASSUME NEW s \in Schedulers, ThreadProgress(s), callbacks' # callbacks
      PROVE  NextCallback(s)
  BY <1>2 DEF ThreadProgress, SubmitClaim, SubmitFetch, LoopAgain, ReadInvalid, WriteInvalid,
              QueueNext, QueueStops
<1>3. ASSUME NEW s \in Schedulers, NEW w \in Slots, FetchScheduled(s, w) PROVE CallbacksHaveRuns'
  <2> DEFINE metas == {m \in Metas : runs[m] > 0 /\ m \notin queued}
  <2>1. Call(s, "queue", metas)
    BY <1>3 DEF FetchScheduled
  <2>2. HaveRuns(metas) /\ metas \in SUBSET Metas
    BY DEF HaveRuns
  <2> HIDE DEF metas
  <2> QED
    BY <2>1, <2>2, CallsHaveRuns DEF CallbackKinds
<1>4. ASSUME NEW s \in Schedulers, NEW w \in Slots, JobProgress(s, w) \/ JobFault(s, w),
             callbacks' # callbacks
      PROVE  FetchScheduled(s, w)
  BY <1>4 DEF JobProgress, Select, BeginClaim, CommitClaim, ConflictClaim, QueueRun, JobFault
<1>5. ASSUME NEW s \in Schedulers, Rechecking(s) PROVE CallbacksHaveRuns'
  <2>1. PICK metas \in rechecks[s] : \E failing \in SUBSET metas : Call(s, "invalid", failing)
    BY <1>5 DEF Rechecking, Recheck
  <2>2. PICK failing \in SUBSET Metas : Call(s, "invalid", failing)
    BY <2>1 DEF IntakeInv, ClaimInv, TypeOK
  <2> QED
    BY <2>2, CallsHaveRuns DEF CallbackKinds
<1>6. ASSUME NEW s \in Schedulers, SchedulerCrash(s) PROVE CallbacksHaveRuns'
  <2> SUFFICES ASSUME NEW z \in Schedulers, NEW i \in 1..Len(callbacks'[z]),
                      callbacks'[z][i].kind = "queue"
               PROVE  \A m \in callbacks'[z][i].metas : runs'[m] > 0
    BY DEF CallbacksHaveRuns, HaveRuns
  <2>1. callbacks' = [callbacks EXCEPT ![s] = <<>>] /\ callbacks \in [Schedulers -> Seq(Callbacks)]
    BY <1>6 DEF SchedulerCrash, IntakeInv, ClaimInv, TypeOK
  <2>2. z # s /\ callbacks'[z] = callbacks[z]
    BY <2>1
  <2>3. callbacks[z][i] \in Callbacks
    BY <2>1, <2>2
  <2>4. callbacks[z][i].metas \subseteq Metas
    BY <2>3 DEF Callbacks
  <2>5. HaveRuns(callbacks[z][i].metas)
    BY <2>2 DEF IntakeInv, CallbacksHaveRuns
  <2> QED
    BY <2>2, <2>4, <2>5, HaveRunsStays DEF IntakeInv
<1>7. ASSUME NEW s \in Schedulers, CallbackFault(s) PROVE callbacks' = callbacks
  BY <1>7 DEF CallbackFault
<1>8. ASSUME NEW m \in Metas, AddDag(m) PROVE callbacks' = callbacks
  BY <1>8 DEF AddDag
<1>9. CASE UNCHANGED vars
  BY <1>9, CallbacksStay DEF vars
<1> QED
  BY <1>1, <1>2, <1>3, <1>4, <1>5, <1>6, <1>7, <1>8, <1>9, CallbacksStay DEF Next
(* A thread goes through runs that a callback gave it.                     *)
LEMMA ThreadsStay ==
    ASSUME IntakeInv, [Next]_vars, NEW s \in Schedulers, NEW kind \in ThreadKinds,
           NEW metas \in SUBSET Metas, Goes(s, kind, metas) \/ GoesOn(s, kind, metas),
           kind = "queue" => HaveRuns(metas),
           kind = "reject" => \A m \in metas : row[m] # "absent"
    PROVE  ThreadsHaveRuns' /\ RejectsWereAdded'
<1>1. ASSUME NEW k \in ThreadKinds, NEW ms \in SUBSET Metas, Goes(s, k, ms),
             k = "queue" => HaveRuns(ms),
             k = "reject" => \A m \in ms : row[m] # "absent",
             NEW z \in Schedulers
      PROVE  /\ thread'[z].kind = "queue" => \A m \in thread'[z].metas : runs'[m] > 0
             /\ thread'[z].kind = "reject" => \A m \in thread'[z].metas : row'[m] # "absent"
  <2>1. thread[z].metas \subseteq Metas
    BY DEF IntakeInv, ClaimInv, TypeOK, Threads
  <2>2. CASE thread'[z] = thread[z]
    BY <2>1, <2>2, HaveRunsStays, RunsStay
    DEF IntakeInv, ThreadsHaveRuns, RejectsWereAdded
  <2>3. CASE thread'[z] = Doing(k, ms)
    <3>1. thread'[z].kind = k /\ thread'[z].metas = ms
      BY <2>3 DEF Doing
    <3> QED
      BY <1>1, <3>1, HaveRunsStays, RunsStay DEF IntakeInv
  <2> QED
    BY <1>1, <2>2, <2>3 DEF Goes, IntakeInv, ClaimInv, TypeOK
<1>2. "drain" \in ThreadKinds /\ {} \in SUBSET Metas
  BY DEF ThreadKinds
<1>3. \A z \in Schedulers :
          /\ thread'[z].kind = "queue" => \A m \in thread'[z].metas : runs'[m] > 0
          /\ thread'[z].kind = "reject" => \A m \in thread'[z].metas : row'[m] # "absent"
  BY <1>1, <1>2 DEF GoesOn
<1> QED
  BY <1>3 DEF ThreadsHaveRuns, RejectsWereAdded, HaveRuns

LEMMA ThreadsUnchanged ==
    ASSUME IntakeInv, [Next]_vars, thread' = thread
    PROVE  ThreadsHaveRuns' /\ RejectsWereAdded'
<1>1. \A z \in Schedulers : thread[z].metas \subseteq Metas
  BY DEF IntakeInv, ClaimInv, TypeOK, Threads
<1> QED
  BY <1>1, HaveRunsStays, RunsStay
  DEF IntakeInv, ThreadsHaveRuns, RejectsWereAdded, HaveRuns

LEMMA ThreadsKeepRuns ==
    ASSUME IntakeInv, [Next]_vars
    PROVE  ThreadsHaveRuns' /\ RejectsWereAdded'
<1> DEFINE Goal == ThreadsHaveRuns' /\ RejectsWereAdded'
<1>1. ASSUME NEW s \in Schedulers, ThreadProgress(s) PROVE Goal
  <2>1. thread[s].metas \in SUBSET Metas
    BY DEF IntakeInv, ClaimInv, TypeOK, Threads
  <2>2. ASSUME NextCallback(s) PROVE Goal
    <3> DEFINE head == callbacks[s][1]
    <3>1. callbacks[s] \in Seq(Callbacks) /\ callbacks[s] # <<>>
          /\ thread' = [thread EXCEPT ![s] = Head(callbacks[s])]
      BY <2>2 DEF NextCallback, IntakeInv, ClaimInv, TypeOK
    <3>2. 1 \in 1..Len(callbacks[s]) /\ Head(callbacks[s]) = head /\ head \in Callbacks
      BY <3>1
    <3>3. /\ head = Doing(head.kind, head.metas)
          /\ head.kind \in {"invalid", "queue"}
          /\ head.metas \in SUBSET Metas
      BY <3>2 DEF Callbacks, CallbackKinds, Doing
    <3>4. head.kind = "queue" => HaveRuns(head.metas)
      BY <3>2 DEF IntakeInv, CallbacksHaveRuns
    <3>5. Goes(s, head.kind, head.metas)
      BY <3>1, <3>2, <3>3 DEF Goes
    <3>6. head.kind \in ThreadKinds /\ head.kind # "reject"
      BY <3>3 DEF ThreadKinds
    <3> HIDE DEF head
    <3> QED
      BY <3>3, <3>4, <3>5, <3>6, ThreadsStay
  <2>3. ASSUME ReadInvalid(s) PROVE Goal
    <3> DEFINE metas == Unclaimed(thread[s].metas)
    <3>1. metas \in SUBSET Metas /\ \A m \in metas : row[m] # "absent"
      BY <2>1 DEF Unclaimed
    <3>2. GoesOn(s, "reject", metas)
      BY <2>3 DEF ReadInvalid
    <3> HIDE DEF metas
    <3> QED
      BY <3>1, <3>2, ThreadsStay DEF ThreadKinds
  <2>4. ASSUME NEW m \in Metas, QueueNext(s, m) PROVE Goal
    <3> DEFINE metas == thread[s].metas \ {m}
    <3>1. metas \in SUBSET Metas /\ HaveRuns(metas)
      BY <2>1, <2>4 DEF QueueNext, IntakeInv, ThreadsHaveRuns, HaveRuns
    <3>2. GoesOn(s, "queue", metas)
      BY <2>4 DEF QueueNext
    <3> HIDE DEF metas
    <3> QED
      BY <3>1, <3>2, ThreadsStay DEF ThreadKinds
  <2>5. ASSUME NEW kind \in {"claim", "fetch", "drain"}, Goes(s, kind, {}) PROVE Goal
    BY <2>5, ThreadsStay DEF ThreadKinds
  <2> QED
    BY <1>1, <2>2, <2>3, <2>4, <2>5
    DEF ThreadProgress, SubmitClaim, SubmitFetch, LoopAgain, WriteInvalid, QueueStops
<1>2. ASSUME NEW s \in Schedulers, CallbackFault(s) \/ SchedulerCrash(s) PROVE Goal
  <2>1. PICK kind \in {"claim", "drain"} : Goes(s, kind, {})
    BY <1>2 DEF CallbackFault, SchedulerCrash
  <2> QED
    BY <2>1, ThreadsStay DEF ThreadKinds
<1>3. ASSUME NEW s \in Schedulers, NEW w \in Slots, JobProgress(s, w) \/ JobFault(s, w)
      PROVE  thread' = thread
  BY <1>3 DEF JobProgress, Select, BeginClaim, CommitClaim, ConflictClaim, FetchScheduled,
              QueueRun, JobFault
<1>4. ASSUME NEW s \in Schedulers, Rechecking(s) PROVE thread' = thread
  BY <1>4 DEF Rechecking, Recheck
<1>5. ASSUME NEW m \in Metas, AddDag(m) PROVE thread' = thread
  BY <1>5 DEF AddDag
<1>6. CASE UNCHANGED vars
  BY <1>6, ThreadsUnchanged DEF vars
<1> QED
  BY <1>1, <1>2, <1>3, <1>4, <1>5, <1>6, ThreadsUnchanged DEF Next
(* A job that queues a run was given it by its thread.                     *)
LEMMA JobsStay ==
    ASSUME IntakeInv, [Next]_vars, NEW s \in Schedulers, NEW w \in Slots,
           jobs'[s][w] = jobs[s][w] \/ jobs'[s][w].kind # "queue"
    PROVE  jobs'[s][w].kind = "queue" =>
               \E m \in Metas : jobs'[s][w].metas = {m} /\ runs'[m] > 0
BY RunsStay DEF IntakeInv, JobsHaveRuns

LEMMA JobsBecome ==
    ASSUME IntakeInv, [Next]_vars, NEW s \in Schedulers, NEW w \in Slots, NEW job,
           Becomes(s, w, job), job.kind # "queue"
    PROVE  JobsHaveRuns'
<1>1. ASSUME NEW z \in Schedulers, NEW v \in Slots
      PROVE  jobs'[z][v] = jobs[z][v] \/ jobs'[z][v].kind # "queue"
  BY DEF Becomes, IntakeInv, ClaimInv, TypeOK
<1> QED
  BY <1>1, JobsStay DEF JobsHaveRuns

(* Telling transactions of a write makes no job one that queues. *)
LEMMA JobsDirtied ==
    ASSUME IntakeInv, [Next]_vars, NEW metas,
           \A s \in Schedulers, w \in Slots :
               jobs'[s][w] = Dirtied(metas)[s][w] \/ jobs'[s][w] = IdleJob
    PROVE  JobsHaveRuns'
<1>1. ASSUME NEW z \in Schedulers, NEW v \in Slots
      PROVE  jobs'[z][v] = jobs[z][v] \/ jobs'[z][v].kind # "queue"
  <2>1. CASE jobs'[z][v] = IdleJob
    BY <2>1 DEF IdleJob, Job
  <2>2. CASE jobs'[z][v] = Dirtied(metas)[z][v]
    <3> DEFINE dirty == jobs[z][v].dirty \cup (metas \cap jobs[z][v].metas)
    <3>1. Dirtied(metas)[z][v] = IF jobs[z][v].kind = "commit"
                                 THEN Job("commit", jobs[z][v].metas, dirty) ELSE jobs[z][v]
      BY DEF Dirtied
    <3>2. Job("commit", jobs[z][v].metas, dirty).kind # "queue"
      BY DEF Job
    <3> QED
      BY <2>2, <3>1, <3>2
  <2> QED
    BY <2>1, <2>2
<1> QED
  BY <1>1, JobsStay DEF JobsHaveRuns

LEMMA JobsKeepRuns ==
    ASSUME IntakeInv, [Next]_vars
    PROVE  JobsHaveRuns'
<1> USE DEF tables
<1>1. ASSUME UNCHANGED jobs PROVE JobsHaveRuns'
  BY <1>1, JobsStay DEF JobsHaveRuns
<1>2. ASSUME NEW s \in Schedulers, NEW kind \in {"select", "fetch"}, Submit(s, Job(kind, {}, {}))
      PROVE  JobsHaveRuns'
  BY <1>2, JobsBecome DEF Submit, Job
<1>3. ASSUME NEW s \in Schedulers, NEW m \in Metas, QueueNext(s, m) PROVE JobsHaveRuns'
  <2>1. PICK w \in Slots : Becomes(s, w, Job("queue", {m}, {}))
    BY <1>3 DEF QueueNext, Submit
  <2>2. runs[m] > 0 /\ runs' = runs
    BY <1>3 DEF QueueNext, IntakeInv, ThreadsHaveRuns, HaveRuns
  <2>3. ASSUME NEW z \in Schedulers, NEW v \in Slots
        PROVE  jobs'[z][v] = jobs[z][v] \/ jobs'[z][v].metas = {m}
    BY <2>1 DEF Becomes, Job, IntakeInv, ClaimInv, TypeOK
  <2> QED
    BY <2>2, <2>3 DEF IntakeInv, JobsHaveRuns
<1>4. ASSUME NEW s \in Schedulers, WriteInvalid(s) PROVE JobsHaveRuns'
  BY <1>4, JobsDirtied DEF WriteInvalid
<1>5. ASSUME NEW s \in Schedulers, ThreadProgress(s) PROVE JobsHaveRuns'
  BY <1>1, <1>2, <1>3, <1>4, <1>5
  DEF ThreadProgress, SubmitClaim, SubmitFetch, NextCallback, LoopAgain, ReadInvalid, QueueStops
<1>6. ASSUME NEW s \in Schedulers, NEW w \in Slots, Finish(s, w) PROVE JobsHaveRuns'
  BY <1>6, JobsBecome DEF Finish, IdleJob, Job
<1>7. ASSUME NEW s \in Schedulers, NEW w \in Slots, Select(s, w) PROVE JobsHaveRuns'
  <2>1. PICK failing : Becomes(s, w, IF Unclaimed(Metas) = failing THEN IdleJob
                                     ELSE Job("begin", Unclaimed(Metas) \ failing, {}))
    BY <1>7 DEF Select
  <2>2. IdleJob.kind # "queue" /\ Job("begin", Unclaimed(Metas) \ failing, {}).kind # "queue"
    BY DEF IdleJob, Job
  <2> QED
    BY <2>1, <2>2, JobsBecome
<1>8. ASSUME NEW s \in Schedulers, NEW w \in Slots, BeginClaim(s, w) PROVE JobsHaveRuns'
  <2> DEFINE metas == Unclaimed(jobs[s][w].metas)
  <2>1. Becomes(s, w, IF metas = {} THEN IdleJob ELSE Job("commit", metas, {}))
    BY <1>8 DEF BeginClaim
  <2>2. IdleJob.kind # "queue" /\ Job("commit", metas, {}).kind # "queue"
    BY DEF IdleJob, Job
  <2> QED
    BY <2>1, <2>2, JobsBecome
<1>9. ASSUME NEW s \in Schedulers, NEW w \in Slots, CommitClaim(s, w) PROVE JobsHaveRuns'
  <2>1. jobs[s][w].metas \in SUBSET Metas
    BY DEF IntakeInv, ClaimInv, TypeOK, Jobs
  <2>2. Dirtied(jobs[s][w].metas) \in [Schedulers -> [Slots -> Jobs]]
    BY <2>1, DirtiedType DEF IntakeInv, ClaimInv
  <2>3. \A z \in Schedulers, v \in Slots :
            jobs'[z][v] = Dirtied(jobs[s][w].metas)[z][v] \/ jobs'[z][v] = IdleJob
    BY <1>9, <2>2 DEF CommitClaim
  <2> QED
    BY <2>3, JobsDirtied
<1>10. ASSUME NEW s \in Schedulers, NEW w \in Slots, JobProgress(s, w) \/ JobFault(s, w)
       PROVE  JobsHaveRuns'
  BY <1>6, <1>7, <1>8, <1>9, <1>10
  DEF JobProgress, ConflictClaim, FetchScheduled, QueueRun, JobFault
<1>11. ASSUME NEW s \in Schedulers, SchedulerCrash(s) PROVE JobsHaveRuns'
  <2>1. ASSUME NEW z \in Schedulers, NEW v \in Slots
        PROVE  jobs'[z][v] = jobs[z][v] \/ jobs'[z][v].kind # "queue"
    BY <1>11 DEF SchedulerCrash, IntakeInv, ClaimInv, TypeOK, IdleJob, Job
  <2> QED
    BY <2>1, JobsStay DEF JobsHaveRuns
<1>12. ASSUME NEW s \in Schedulers, CallbackFault(s) \/ Rechecking(s) PROVE UNCHANGED jobs
  BY <1>12 DEF CallbackFault, Rechecking, Recheck
<1>13. ASSUME NEW m \in Metas, AddDag(m) PROVE UNCHANGED jobs
  BY <1>13 DEF AddDag
<1>14. CASE UNCHANGED vars
  BY <1>1, <1>14 DEF vars
<1> QED
  BY <1>1, <1>5, <1>10, <1>11, <1>12, <1>13, <1>14 DEF Next

(* Only queue_run_atomic takes runs out of the state scheduled. *)
LEMMA WhoQueues ==
    ASSUME [Next]_vars
    PROVE  \/ UNCHANGED queued
           \/ \E s \in Schedulers, w \in Slots : QueueRun(s, w)
<1> USE DEF tables
<1>1. ASSUME NEW s \in Schedulers, ThreadProgress(s) PROVE UNCHANGED queued
  BY <1>1 DEF ThreadProgress, SubmitClaim, SubmitFetch, NextCallback, LoopAgain, ReadInvalid,
              WriteInvalid, QueueNext, QueueStops
<1>2. ASSUME NEW s \in Schedulers, NEW w \in Slots, JobProgress(s, w)
      PROVE  QueueRun(s, w) \/ UNCHANGED queued
  BY <1>2 DEF JobProgress, Select, BeginClaim, CommitClaim, ConflictClaim, FetchScheduled
<1>3. ASSUME NEW s \in Schedulers, Rechecking(s) \/ CallbackFault(s) \/ SchedulerCrash(s)
      PROVE  UNCHANGED queued
  BY <1>3 DEF Rechecking, Recheck, CallbackFault, SchedulerCrash
<1>4. ASSUME NEW s \in Schedulers, NEW w \in Slots, JobFault(s, w) PROVE UNCHANGED queued
  BY <1>4 DEF JobFault
<1>5. ASSUME NEW m \in Metas, AddDag(m) PROVE UNCHANGED queued
  BY <1>5 DEF AddDag
<1>6. CASE UNCHANGED vars
  BY <1>6 DEF vars
<1> QED
  BY <1>1, <1>2, <1>3, <1>4, <1>5, <1>6 DEF Next

LEMMA QueuedHaveRuns ==
    ASSUME IntakeInv, [Next]_vars
    PROVE  HaveRuns(queued)'
<1>1. HaveRuns(queued) /\ queued \subseteq Metas
  BY DEF IntakeInv, RowsHaveRuns, ClaimInv, TypeOK
<1>2. \A m \in queued : runs'[m] > 0
  BY <1>1, HaveRunsStays DEF IntakeInv
<1>3. ASSUME NEW s \in Schedulers, NEW w \in Slots, QueueRun(s, w)
      PROVE  \A m \in queued' : runs'[m] > 0
  BY <1>2, <1>3 DEF QueueRun, At, IntakeInv, JobsHaveRuns
<1> QED
  BY <1>2, <1>3, WhoQueues DEF HaveRuns

(* No step forgets that a run was there when it was to be queued. *)
LEMMA IntakeStep == IntakeInv /\ [Next]_vars => IntakeInv'
  BY ClaimNext, CallbacksKeepRuns, ThreadsKeepRuns, JobsKeepRuns, RowsKeepRuns, QueuedHaveRuns
  DEF IntakeInv, RowsHaveRuns

LEMMA IntakeHolds == Spec => []IntakeInv
  BY IntakeInitial, IntakeStep, PTL DEF Spec
(* How far each submission is. *)
Stage == [m \in Metas |-> StageOf(m)]

(* A step that moves some submissions on, from where they are. *)
LEMMA Moves ==
    ASSUME NEW metas \in SUBSET Metas, NEW from, NEW to,
           \A m \in metas : StageOf(m) = from /\ StageOf(m)' = to,
           \A m \in Metas \ metas : StageOf(m)' = StageOf(m)
    PROVE  Promise!Move(metas, from, to)
<1>1. \A m \in metas : Stage[m] = from
  BY DEF Stage
<1>2. Stage' = [m \in Metas |-> IF m \in metas THEN to ELSE Stage[m]]
  BY DEF Stage
<1> QED
  BY <1>1, <1>2 DEF Promise!Move, Stage

LEMMA AddImplements ==
    ASSUME IntakeInv, NEW m \in Metas, AddDag(m)
    PROVE  Promise!Next
<1>1. row[m] = "absent" /\ runs[m] = 0 /\ m \notin queued
  BY DEF AddDag, IntakeInv, ClaimInv, UnclaimedHaveNone, RowsHaveRuns, HaveRuns
<1>2. row' = [row EXCEPT ![m] = "unclaimed"] /\ UNCHANGED <<runs, queued>>
  BY DEF AddDag
<1>3. StageOf(m) = "new" /\ StageOf(m)' = "submitted"
  BY <1>1, <1>2 DEF StageOf, IntakeInv, ClaimInv, TypeOK
<1>4. \A n \in Metas \ {m} : StageOf(n)' = StageOf(n)
  BY <1>2 DEF StageOf, IntakeInv, ClaimInv, TypeOK
<1>5. Promise!Move({m}, "new", "submitted")
  BY <1>3, <1>4, Moves
<1> QED
  BY <1>2, <1>5 DEF Promise!Next, Promise!Submit

(* A rejection takes the submissions that are unclaimed still; for those   *)
(* that were claimed meanwhile nothing changes but the text in their row.  *)
LEMMA RejectImplements ==
    ASSUME IntakeInv, NEW s \in Schedulers, WriteInvalid(s)
    PROVE  Promise!Next
<1> DEFINE metas == {m \in thread[s].metas : StageOf(m) = "submitted"}
<1>1. thread[s].metas \subseteq Metas /\ \A m \in thread[s].metas : row[m] # "absent"
  BY DEF WriteInvalid, IntakeInv, ClaimInv, TypeOK, Threads, RejectsWereAdded
<1>2. /\ row' = [m \in Metas |-> IF m \in thread[s].metas THEN "error" ELSE row[m]]
      /\ UNCHANGED <<runs, queued>>
  BY DEF WriteInvalid, WriteMetas
<1>3. ASSUME NEW m \in metas PROVE StageOf(m)' = "rejected"
  BY <1>1, <1>2, <1>3 DEF StageOf
<1>4. ASSUME NEW m \in Metas \ metas PROVE StageOf(m)' = StageOf(m)
  <2>1. CASE m \in thread[s].metas
    <3>1. row[m] \in {"unclaimed", "run", "error"} /\ runs[m] \in Nat
      BY <1>1, <2>1 DEF IntakeInv, ClaimInv, TypeOK, MetaStates
    <3>2. row[m] = "run" => runs[m] > 0
      BY <1>4 DEF IntakeInv, RowsHaveRuns
    <3>3. StageOf(m) # "submitted"
      BY <1>4, <2>1
    <3> QED
      BY <1>2, <1>4, <2>1, <3>1, <3>2, <3>3 DEF StageOf
  <2>2. CASE m \notin thread[s].metas
    BY <1>2, <2>2 DEF StageOf
  <2> QED
    BY <2>1, <2>2
<1>5. metas \in SUBSET Metas /\ \A m \in metas : StageOf(m) = "submitted"
  BY <1>1
<1> HIDE DEF metas
<1>6. Promise!Move(metas, "submitted", "rejected")
  BY <1>3, <1>4, <1>5, Moves
<1> QED
  BY <1>2, <1>5, <1>6 DEF Promise!Next, Promise!Reject

LEMMA CommitImplements ==
    ASSUME IntakeInv, NEW s \in Schedulers, NEW w \in Slots, CommitClaim(s, w)
    PROVE  Promise!Next
<1> DEFINE metas == jobs[s][w].metas
<1>1. metas \in SUBSET Metas /\ \A m \in metas : row[m] = "unclaimed" /\ runs[m] = 0
  BY CommitsAreFree DEF IntakeInv
<1>2. /\ row' = [m \in Metas |-> IF m \in metas THEN "run" ELSE row[m]]
      /\ runs' = [m \in Metas |-> IF m \in metas THEN runs[m] + 1 ELSE runs[m]]
      /\ queued' = queued
  BY DEF CommitClaim, WriteMetas
<1>3. \A m \in metas : m \notin queued
  BY <1>1 DEF IntakeInv, RowsHaveRuns, HaveRuns
<1> HIDE DEF metas
<1>4. \A m \in metas : StageOf(m) = "submitted" /\ StageOf(m)' = "accepted"
  BY <1>1, <1>2, <1>3 DEF StageOf
<1>5. \A m \in Metas \ metas : StageOf(m)' = StageOf(m)
  BY <1>2 DEF StageOf
<1>6. Promise!Move(metas, "submitted", "accepted")
  BY <1>1, <1>4, <1>5, Moves
<1>7. runs' = [m \in Metas |-> IF m \in metas THEN 1 ELSE runs[m]]
  BY <1>1, <1>2
<1> QED
  BY <1>1, <1>6, <1>7 DEF Promise!Next, Promise!Accept

LEMMA QueueImplements ==
    ASSUME IntakeInv, NEW s \in Schedulers, NEW w \in Slots, QueueRun(s, w)
    PROVE  Promise!Next \/ UNCHANGED <<Stage, runs>>
<1>1. PICK m \in Metas : jobs[s][w].metas = {m} /\ runs[m] > 0
  BY DEF QueueRun, At, IntakeInv, JobsHaveRuns
<1>2. queued' = queued \cup {m} /\ UNCHANGED <<row, runs>>
  BY <1>1 DEF QueueRun
<1>3. CASE m \in queued
  BY <1>2, <1>3 DEF Stage, StageOf
<1>4. CASE m \notin queued
  <2>1. StageOf(m) = "accepted" /\ StageOf(m)' = "queued"
    BY <1>1, <1>2, <1>4 DEF StageOf
  <2>2. \A n \in Metas \ {m} : StageOf(n)' = StageOf(n)
    BY <1>2 DEF StageOf
  <2>3. Promise!Move({m}, "accepted", "queued")
    BY <2>1, <2>2, Moves
  <2> QED
    BY <1>2, <2>3 DEF Promise!Next, Promise!Queue
<1> QED
  BY <1>3, <1>4

LEMMA StepImplements ==
    ASSUME IntakeInv, [Next]_vars
    PROVE  [Promise!Next]_<<Stage, runs>>
<1>1. CASE row' = row /\ runs' = runs
  <2>1. CASE UNCHANGED queued
    BY <1>1, <2>1 DEF Stage, StageOf
  <2> QED
    BY <2>1, WhoQueues, QueueImplements
<1> QED
  BY <1>1, WhoWritesMetas, AddImplements, RejectImplements, CommitImplements DEF IntakeInv

(* Any number of schedulers keep the promise of Intake, whatever claims,   *)
(* rejections, repeated callbacks, failures and crashes meet: a submission *)
(* gets exactly one run, which alone is queued, or is rejected for good.   *)
THEOREM IntakeCorrect == Spec => KeepsPromise
<1>1. Init => Promise!Init
  <2> SUFFICES ASSUME Init PROVE Promise!Init
    OBVIOUS
  <2>1. \A m \in Metas : StageOf(m) = "new"
    BY DEF Init, StageOf
  <2> QED
    BY <2>1 DEF Init, Promise!Init
<1>2. IntakeInv /\ [Next]_vars => [Promise!Next]_<<Stage, runs>>
  BY StepImplements
<1> QED
  BY <1>1, <1>2, IntakeHolds, PTL DEF Spec, KeepsPromise, Promise!Spec, Stage

-----------------------------------------------------------------------------
(* A good submission is never rejected: what callbacks and threads are     *)
(* about to reject asks for dags that may fail to load.                    *)

MayFail == {m \in Metas : DagOf[m] \in BadDags}

Rejections == {c \in Callbacks : c.kind = "invalid" => c.metas \subseteq MayFail}
Rejecting == {t \in Threads : t.kind \in {"invalid", "reject"} => t.metas \subseteq MayFail}

RejectInv ==
    /\ ClaimInv
    /\ callbacks \in [Schedulers -> Seq(Rejections)]
    /\ thread \in [Schedulers -> Rejecting]
    /\ \A m \in Metas : row[m] = "error" => m \in MayFail

LEMMA RejectInitial == Init => RejectInv
<1> SUFFICES ASSUME Init PROVE RejectInv
  OBVIOUS
<1>1. Doing("claim", {}) \in Rejecting
  BY DEF Rejecting, Doing, Threads, ThreadKinds
<1> QED
  BY <1>1, ClaimInitial DEF Init, RejectInv

LEMMA CallsAreRejections ==
    ASSUME RejectInv, NEW s \in Schedulers, NEW kind \in CallbackKinds,
           NEW metas \in SUBSET Metas, Call(s, kind, metas),
           kind = "invalid" => metas \subseteq MayFail
    PROVE  callbacks' \in [Schedulers -> Seq(Rejections)]
<1>1. Doing(kind, metas) \in Rejections
  BY DEF Doing, Rejections, Callbacks
<1> DEFINE called == Append(callbacks[s], Doing(kind, metas))
           again == Append(called, Doing(kind, metas))
<1>2. called \in Seq(Rejections) /\ again \in Seq(Rejections)
  BY <1>1 DEF RejectInv
<1>3. callbacks' = callbacks \/ \E q \in {called, again} : callbacks' = [callbacks EXCEPT ![s] = q]
  BY DEF Call
<1> HIDE DEF called, again
<1> QED
  BY <1>2, <1>3 DEF RejectInv

LEMMA ThreadsReject ==
    ASSUME RejectInv, NEW s \in Schedulers, NEW kind \in ThreadKinds,
           NEW metas \in SUBSET Metas, Goes(s, kind, metas) \/ GoesOn(s, kind, metas),
           kind \in {"invalid", "reject"} => metas \subseteq MayFail
    PROVE  thread' \in [Schedulers -> Rejecting]
<1>1. Doing(kind, metas) \in Rejecting /\ Doing("drain", {}) \in Rejecting
  BY DEF Doing, Rejecting, Threads, ThreadKinds
<1> QED
  BY <1>1 DEF RejectInv, Goes, GoesOn

LEMMA CallbacksReject ==
    ASSUME RejectInv, [Next]_vars
    PROVE  callbacks' \in [Schedulers -> Seq(Rejections)]
<1> DEFINE Goal == callbacks' \in [Schedulers -> Seq(Rejections)]
<1>1. callbacks' = callbacks => Goal
  BY DEF RejectInv
<1>2. ASSUME NEW s \in Schedulers, NextCallback(s) PROVE Goal
  <2>1. callbacks[s] \in Seq(Rejections) /\ callbacks[s] # <<>>
    BY <1>2 DEF NextCallback, RejectInv
  <2>2. Tail(callbacks[s]) \in Seq(Rejections)
    BY <2>1
  <2> QED
    BY <1>2, <2>2 DEF NextCallback, RejectInv
<1>3. ASSUME NEW s \in Schedulers, ThreadProgress(s), callbacks' # callbacks
      PROVE  NextCallback(s)
  BY <1>3 DEF ThreadProgress, SubmitClaim, SubmitFetch, LoopAgain, ReadInvalid, WriteInvalid,
              QueueNext, QueueStops
<1>4. ASSUME NEW s \in Schedulers, NEW w \in Slots, FetchScheduled(s, w) PROVE Goal
  <2> DEFINE metas == {m \in Metas : runs[m] > 0 /\ m \notin queued}
  <2>1. Call(s, "queue", metas) /\ metas \in SUBSET Metas
    BY <1>4 DEF FetchScheduled
  <2> HIDE DEF metas
  <2> QED
    BY <2>1, CallsAreRejections DEF CallbackKinds
<1>5. ASSUME NEW s \in Schedulers, NEW w \in Slots, JobProgress(s, w) \/ JobFault(s, w),
             callbacks' # callbacks
      PROVE  FetchScheduled(s, w)
  BY <1>5 DEF JobProgress, Select, BeginClaim, CommitClaim, ConflictClaim, QueueRun, JobFault
<1>6. ASSUME NEW s \in Schedulers, Rechecking(s) PROVE Goal
  <2>1. PICK metas \in rechecks[s] :
            \E failing \in SUBSET {m \in metas : DagOf[m] \in BadDags} : Call(s, "invalid", failing)
    BY <1>6 DEF Rechecking, Recheck
  <2>2. metas \in SUBSET Metas
    BY DEF RejectInv, ClaimInv, TypeOK
  <2>3. PICK failing \in SUBSET MayFail : Call(s, "invalid", failing)
    BY <2>1, <2>2 DEF MayFail
  <2>4. failing \in SUBSET Metas
    BY DEF MayFail
  <2> QED
    BY <2>3, <2>4, CallsAreRejections DEF CallbackKinds
<1>7. ASSUME NEW s \in Schedulers, SchedulerCrash(s) PROVE Goal
  BY <1>7 DEF SchedulerCrash, RejectInv
<1>8. ASSUME NEW s \in Schedulers, CallbackFault(s) PROVE callbacks' = callbacks
  BY <1>8 DEF CallbackFault
<1>9. ASSUME NEW m \in Metas, AddDag(m) PROVE callbacks' = callbacks
  BY <1>9 DEF AddDag
<1>10. CASE UNCHANGED vars
  BY <1>1, <1>10 DEF vars
<1> QED
  BY <1>1, <1>2, <1>3, <1>4, <1>5, <1>6, <1>7, <1>8, <1>9, <1>10 DEF Next

LEMMA ThreadsRejectBad ==
    ASSUME RejectInv, [Next]_vars
    PROVE  thread' \in [Schedulers -> Rejecting]
<1> DEFINE Goal == thread' \in [Schedulers -> Rejecting]
<1>1. thread' = thread => Goal
  BY DEF RejectInv
<1>2. ASSUME NEW s \in Schedulers, ThreadProgress(s) PROVE Goal
  <2>1. thread[s] \in Rejecting /\ thread[s].metas \in SUBSET Metas
    BY DEF RejectInv, Rejecting, Threads
  <2>2. ASSUME NextCallback(s) PROVE Goal
    <3>1. callbacks[s] \in Seq(Rejections) /\ callbacks[s] # <<>>
      BY <2>2 DEF NextCallback, RejectInv
    <3>2. Head(callbacks[s]) \in Rejections
      BY <3>1
    <3>3. Rejections \subseteq Rejecting
      BY DEF Rejections, Rejecting, Callbacks, Threads, CallbackKinds, ThreadKinds
    <3> QED
      BY <2>2, <3>2, <3>3 DEF NextCallback, RejectInv
  <2>3. ASSUME ReadInvalid(s) PROVE Goal
    <3> DEFINE metas == Unclaimed(thread[s].metas)
    <3>1. metas \in SUBSET Metas /\ metas \subseteq MayFail
      BY <2>1, <2>3 DEF Unclaimed, Rejecting, ReadInvalid
    <3>2. GoesOn(s, "reject", metas)
      BY <2>3 DEF ReadInvalid
    <3> HIDE DEF metas
    <3> QED
      BY <3>1, <3>2, ThreadsReject DEF ThreadKinds
  <2>4. ASSUME NEW m \in Metas, QueueNext(s, m) PROVE Goal
    <3> DEFINE metas == thread[s].metas \ {m}
    <3>1. metas \in SUBSET Metas /\ GoesOn(s, "queue", metas)
      BY <2>1, <2>4 DEF QueueNext
    <3> HIDE DEF metas
    <3> QED
      BY <3>1, ThreadsReject DEF ThreadKinds
  <2>5. ASSUME NEW kind \in {"claim", "fetch", "drain"}, Goes(s, kind, {}) PROVE Goal
    BY <2>5, ThreadsReject DEF ThreadKinds
  <2> QED
    BY <1>2, <2>2, <2>3, <2>4, <2>5
    DEF ThreadProgress, SubmitClaim, SubmitFetch, LoopAgain, WriteInvalid, QueueStops
<1>3. ASSUME NEW s \in Schedulers, CallbackFault(s) \/ SchedulerCrash(s) PROVE Goal
  <2>1. PICK kind \in {"claim", "drain"} : Goes(s, kind, {})
    BY <1>3 DEF CallbackFault, SchedulerCrash
  <2> QED
    BY <2>1, ThreadsReject DEF ThreadKinds
<1>4. ASSUME NEW s \in Schedulers, NEW w \in Slots, JobProgress(s, w) \/ JobFault(s, w)
      PROVE  thread' = thread
  BY <1>4 DEF JobProgress, Select, BeginClaim, CommitClaim, ConflictClaim, FetchScheduled,
              QueueRun, JobFault
<1>5. ASSUME NEW s \in Schedulers, Rechecking(s) PROVE thread' = thread
  BY <1>5 DEF Rechecking, Recheck
<1>6. ASSUME NEW m \in Metas, AddDag(m) PROVE thread' = thread
  BY <1>6 DEF AddDag
<1>7. CASE UNCHANGED vars
  BY <1>1, <1>7 DEF vars
<1> QED
  BY <1>1, <1>2, <1>3, <1>4, <1>5, <1>6, <1>7 DEF Next

LEMMA ErrorsMayFail ==
    ASSUME RejectInv, [Next]_vars
    PROVE  \A m \in Metas : row'[m] = "error" => m \in MayFail
<1> USE DEF RejectInv, ClaimInv, TypeOK
<1>1. ASSUME NEW n \in Metas, AddDag(n)
      PROVE  \A m \in Metas : row'[m] = "error" => m \in MayFail
  BY <1>1 DEF AddDag
<1>2. ASSUME NEW s \in Schedulers, WriteInvalid(s)
      PROVE  \A m \in Metas : row'[m] = "error" => m \in MayFail
  <2>1. thread[s].metas \subseteq MayFail
    BY <1>2 DEF WriteInvalid, Rejecting
  <2> QED
    BY <1>2, <2>1 DEF WriteInvalid, WriteMetas
<1>3. ASSUME NEW s \in Schedulers, NEW w \in Slots, CommitClaim(s, w)
      PROVE  \A m \in Metas : row'[m] = "error" => m \in MayFail
  BY <1>3 DEF CommitClaim, WriteMetas
<1> QED
  BY <1>1, <1>2, <1>3, WhoWritesMetas

(* A submission whose dag always loads is never rejected, although others  *)
(* of its batch are, and once it has a run its row names it                *)
(* (_try_set_metas_invalid, _set_invalid_meta).                            *)
THEOREM GoodAreNamedCorrect == Spec => []GoodAreNamed
<1>1. RejectInv /\ [Next]_vars => RejectInv'
  BY ClaimNext, CallbacksReject, ThreadsRejectBad, ErrorsMayFail DEF RejectInv
<1>2. RejectInv => GoodAreNamed
  <2> SUFFICES ASSUME RejectInv, NEW m \in Metas, DagOf[m] \notin BadDags
               PROVE  row[m] # "error" /\ (runs[m] > 0 => row[m] = "run")
    BY DEF GoodAreNamed
  <2>1. row[m] \in {"absent", "unclaimed", "run", "error"} /\ row[m] # "error"
    BY DEF RejectInv, ClaimInv, TypeOK, MetaStates, MayFail
  <2>2. row[m] \in {"absent", "unclaimed"} => runs[m] = 0
    BY DEF RejectInv, ClaimInv, UnclaimedHaveNone
  <2> QED
    BY <2>1, <2>2
<1> QED
  BY <1>1, <1>2, RejectInitial, PTL DEF Spec
=============================================================================
