--------------------------- MODULE CommandProofs ----------------------------
(* Proofs about Command, with what it stores, and its parts AddDag and     *)
(* DagGraph, for any processes, users, specs, payloads and graphs.         *)
EXTENDS StoredSpecs, RunnerProofs, SerialProofs

-----------------------------------------------------------------------------
(* AddDag. *)

RowsOf(u) == {d \in dags : d.id = u}

(* A dag has the payload of its creator's spec, and its tasks' rows; a     *)
(* call that has not ended has created none.                               *)
DagsAreWhole ==
    /\ \A d \in dags : d = NewDag(d.id) /\ d.id \in taskRefs
    /\ \A u \in Users : call[u] \in CallStages => RowsOf(u) = {}

(* A call that is to reuse a dag has found it. *)
FoundIsThere ==
    \A u \in Users :
        call[u] = "reusing" => [id |-> found[u], payload |-> Payload[spec[u]]] \in dags

(* A call that is to create a dag saw none of its payload when it began. *)
CreatesWhatWasMissing ==
    \A u \in Users :
        /\ before[u] \subseteq dags
        /\ call[u] = "idle" => before[u] = {}
        /\ call[u] = "creating" => \A e \in before[u] : e.payload # Payload[spec[u]]

AddInv ==
    /\ AddTypeOK
    /\ DagsAreWhole
    /\ FoundIsThere
    /\ CreatesWhatWasMissing
    /\ MetasHaveRefs
    /\ SequentialShares

LEMMA AddInitInv == AddInit => AddInv
  BY AddAssumption
  DEF AddInit, AddInv, AddTypeOK, DagsAreWhole, FoundIsThere, CreatesWhatWasMissing,
      MetasHaveRefs, SequentialShares, RowsOf, CallStages, DagRows

(* A step that writes nothing and sends its call to another stage. *)
LEMMA StageStep ==
    ASSUME AddInv, NEW u \in Users, NEW stage \in CallStages \cup Ended,
           Goto(u, stage), call[u] \in CallStages,
           UNCHANGED <<spec, found, tableVars, before>>,
           stage \notin {"reusing", "creating", "idle"}
    PROVE  AddInv'
  BY DEF AddInv, AddTypeOK, DagsAreWhole, FoundIsThere, CreatesWhatWasMissing,
         MetasHaveRefs, SequentialShares, RowsOf, NewDag, tableVars, Goto,
         CallStages, Ended, DagRows

LEMMA BeginStep == ASSUME AddInv, NEW u \in Users, Begin(u) PROVE AddInv'
  BY DEF AddInv, AddTypeOK, DagsAreWhole, FoundIsThere, CreatesWhatWasMissing,
         MetasHaveRefs, SequentialShares, RowsOf, NewDag, tableVars, Begin, From, Goto,
         CallStages, Ended, DagRows

LEMMA LookupStep == ASSUME AddInv, NEW u \in Users, Lookup(u) PROVE AddInv'
  BY DEF AddInv, AddTypeOK, DagsAreWhole, FoundIsThere, CreatesWhatWasMissing,
         MetasHaveRefs, SequentialShares, RowsOf, NewDag, tableVars, Lookup, Goto,
         CallStages, Ended, DagRows

LEMMA CreateStep == ASSUME AddInv, NEW u \in Users, Create(u) PROVE AddInv'
  <1>1. AddTypeOK'
    BY AddAssumption DEF AddInv, AddTypeOK, Create, NewDag, NewMeta, Goto, Ended, CallStages, DagRows
  <1>2. DagsAreWhole'
    BY DEF AddInv, AddTypeOK, DagsAreWhole, RowsOf, Create, NewDag, Goto, Ended, CallStages
  <1>3. FoundIsThere'
    BY DEF AddInv, AddTypeOK, FoundIsThere, Create, Goto, Ended, CallStages
  <1>4. CreatesWhatWasMissing'
    BY DEF AddInv, AddTypeOK, CreatesWhatWasMissing, Create, Goto, Ended, CallStages
  <1>5. MetasHaveRefs'
    BY DEF AddInv, AddTypeOK, MetasHaveRefs, Create, NewDag, NewMeta
  <1>6. SequentialShares'
    BY DEF AddInv, AddTypeOK, SequentialShares, CreatesWhatWasMissing, Create, NewDag
  <1> QED
    BY <1>1, <1>2, <1>3, <1>4, <1>5, <1>6 DEF AddInv

LEMMA ReuseStep == ASSUME AddInv, NEW u \in Users, Reuse(u) PROVE AddInv'
  <1>1. [id |-> found[u], payload |-> Payload[spec[u]]] \in dags
    BY DEF AddInv, FoundIsThere, Reuse
  <1>2. found[u] \in Users
    BY <1>1 DEF AddInv, AddTypeOK, DagRows
  <1>3. AddTypeOK'
    BY <1>2 DEF AddInv, AddTypeOK, Reuse, NewMeta, Goto, Ended, CallStages
  <1>4. DagsAreWhole' /\ FoundIsThere' /\ CreatesWhatWasMissing' /\ SequentialShares'
    BY DEF AddInv, AddTypeOK, DagsAreWhole, FoundIsThere, CreatesWhatWasMissing,
           SequentialShares, RowsOf, NewDag, Reuse, Goto, Ended, CallStages
  <1>5. MetasHaveRefs'
    BY <1>1 DEF AddInv, DagsAreWhole, MetasHaveRefs, Reuse, NewMeta
  <1> QED
    BY <1>3, <1>4, <1>5 DEF AddInv

LEMMA AddInvStep == AddInv /\ [AddNext]_addVars => AddInv'
  <1> SUFFICES ASSUME AddInv, [AddNext]_addVars PROVE AddInv'
    OBVIOUS
  <1>1. CASE UNCHANGED addVars
    BY <1>1 DEF AddInv, AddTypeOK, DagsAreWhole, FoundIsThere, CreatesWhatWasMissing,
                MetasHaveRefs, SequentialShares, RowsOf, NewDag, addVars, tableVars
  <1>2. ASSUME NEW u \in Users, Work(u) PROVE AddInv'
    <2>1. CASE Begin(u)
      BY <2>1, BeginStep
    <2>2. CASE ReadSpec(u)
      BY <2>2, StageStep DEF ReadSpec, From, CallStages, Ended
    <2>3. CASE Build(u)
      BY <2>3, StageStep DEF Build, From, CallStages, Ended
    <2>4. CASE Lookup(u)
      BY <2>4, LookupStep
    <2>5. CASE Create(u)
      BY <2>5, CreateStep
    <2>6. CASE Reuse(u)
      BY <2>6, ReuseStep
    <2>7. CASE Break(u)
      BY <2>7, StageStep DEF Break, AddInv, AddTypeOK, CallStages, Ended
    <2> QED
      BY <1>2, <2>1, <2>2, <2>3, <2>4, <2>5, <2>6, <2>7 DEF Work
  <1> QED
    BY <1>1, <1>2 DEF AddNext

LEMMA AddInvHolds == AddSpec => []AddInv
  BY AddInitInv, AddInvStep, PTL DEF AddSpec

(* The states of AddDag are of the declared types. *)
THEOREM AddTypeCorrect == AddSpec => []AddTypeOK
  BY AddInvHolds, PTL DEF AddInv

(* Every meta has its dag, of its own payload, and the rows of its tasks.  *)
THEOREM MetasHaveRefsCorrect == AddSpec => []MetasHaveRefs
  BY AddInvHolds, PTL DEF AddInv

(* No call that began after a dag of its payload was there creates another.*)
THEOREM SequentialSharesCorrect == AddSpec => []SequentialShares
  BY AddInvHolds, PTL DEF AddInv

-----------------------------------------------------------------------------
(* A user's command has one job, a lightweight one. *)
LEMMA UserOf ==
    ASSUME NEW u \in Users
    PROVE  /\ u \in Processes /\ LastRunner(u) = 1
           /\ JobOf(u) \in Runners /\ Process(JobOf(u)) = u
           /\ Sync(JobOf(u))
           /\ \A r \in RunnersOf(u) : r = JobOf(u)
  <1>1. u \in Processes /\ List[u] = <<"lightweight">> /\ Len(List[u]) = 1
    BY CommandAssumption
  <1>2. LastRunner(u) = 1
    BY <1>1 DEF LastRunner
  <1>3. 1 \in 1..LastRunner(u) /\ \A i \in 1..LastRunner(u) : i = 1
    BY <1>2
  <1>4. JobOf(u) \in Runners /\ Process(JobOf(u)) = u /\ \A r \in RunnersOf(u) : r = JobOf(u)
    BY <1>1, <1>3, RunnerOf DEF JobOf
  <1>5. Sync(JobOf(u))
    BY <1>1 DEF Sync, NameOf, JobOf
  <1> QED
    BY <1>1, <1>2, <1>4, <1>5

(* Command makes the steps of its parts, and no others. *)
LEMMA CommandInitParts == CommandInit => RunnerInit /\ AddInit
  BY DEF CommandInit

LEMMA CommandStepIsRunners == [CommandNext]_commandVars => [RunnerNext]_runnerVars
  <1> SUFFICES ASSUME [CommandNext]_commandVars PROVE [RunnerNext]_runnerVars
    OBVIOUS
  <1>1. ASSUME NEW r \in Runners, JobStep(r)
        PROVE  RunnerNext
    BY <1>1 DEF RunnerNext
  <1>2. ASSUME NEW p \in Processes, MainProgress(p) \/ InterruptTry(p) \/ InterruptFinally(p)
        PROVE  RunnerNext
    BY <1>2 DEF RunnerNext, MainStep
  <1>3. ASSUME NEW u \in Users, CallEnds(u)
        PROVE  RunnerNext
    <2>1. JobOf(u) \in Runners
      BY UserOf
    <2>2. FunctionEnds(JobOf(u), call[u] = "raised") /\ (call[u] = "raised") \in BOOLEAN
      BY <1>3 DEF CallEnds
    <2> QED
      BY <2>1, <2>2 DEF RunnerNext
  <1>4. ASSUME NEW u \in Users, InterruptCall(u)
        PROVE  RunnerNext
    BY <1>4, UserOf DEF InterruptCall, RunnerNext, MainStep
  <1>5. ASSUME NEW u \in Users, CallStep(u)
        PROVE  UNCHANGED runnerVars
    BY <1>5 DEF CallStep
  <1>6. CASE UNCHANGED commandVars
    BY <1>6 DEF commandVars
  <1> QED
    BY <1>1, <1>2, <1>3, <1>4, <1>5, <1>6 DEF CommandNext

LEMMA CommandStepIsAdds == [CommandNext]_commandVars => [AddNext]_addVars
  <1> SUFFICES ASSUME [CommandNext]_commandVars PROVE [AddNext]_addVars
    OBVIOUS
  <1>1. ASSUME NEW u \in Users, CallStep(u)
        PROVE  AddNext
    BY <1>1 DEF CallStep, AddNext
  <1>2. ASSUME NEW u \in Users, InterruptCall(u)
        PROVE  [AddNext]_addVars
    BY <1>2 DEF InterruptCall, AddNext, Work
  <1>3. CASE UNCHANGED addVars
    BY <1>3
  <1>4. CASE UNCHANGED commandVars
    BY <1>4 DEF commandVars
  <1> QED
    BY <1>1, <1>2, <1>3, <1>4 DEF CommandNext, CallEnds

(* Command implements Runner, with the fairness of its processes and jobs, *)
(* so that whatever is true of Runner is true of the commands.             *)
THEOREM CommandIsRunner == CommandSpec => RunnerSpec
  BY CommandInitParts, CommandStepIsRunners, PTL DEF CommandSpec, RunnerSpec

(* Command implements AddDag: the calls of users, which jobs make and      *)
(* interrupts break off, are calls as AddDag has them.                     *)
THEOREM CommandIsAdd == CommandSpec => AddSpec
  BY CommandInitParts, CommandStepIsAdds, PTL DEF CommandSpec, AddSpec

-----------------------------------------------------------------------------
(* A `dags add`: its job does not return before its call has ended, but    *)
(* for an interrupt, and its main thread goes past its job only when the   *)
(* job is finished, or else with an error.                                 *)
Done == {"returned", "recorded", "finished"}

CallInv(u) ==
    /\ job[JobOf(u)] \in Done => JobOf(u) \in failed \/ call[u] \in {"added", "refused"}
    /\ call[u] = "added" => \E m \in metas : m.id = u
    /\ call[u] = "refused" => spec[u] \in Invalid
    /\ main[u].pc \notin {"absent", "start", "inside"} =>
           ended[u] = "error" \/ (job[JobOf(u)] = "finished" /\ JobOf(u) \notin failed)

CommandInv == RunnerFullInv /\ AddInv /\ \A u \in Users : CallInv(u)

LEMMA CommandInitInv == CommandInit => CommandInv
  <1> SUFFICES ASSUME CommandInit PROVE CommandInv
    OBVIOUS
  <1>1. RunnerFullInv /\ AddInv
    BY CommandInitParts, FullInitInv, AddInitInv
  <1>2. \A u \in Users : job[JobOf(u)] = "new" /\ call[u] = "idle"
    <2>1. job = [r \in Runners |-> "new"]
      BY CommandInitParts DEF RunnerInit
    <2>2. call = [u \in Users |-> "idle"]
      BY CommandInitParts DEF AddInit
    <2> QED
      BY <2>1, <2>2, UserOf
  <1>3. \A p \in Processes : main[p].pc \in {"start", "absent"}
    <2>1. PICK launched \in Launches :
               main = [p \in Processes |->
                          [pc |-> IF p \in launched THEN "start" ELSE "absent", at |-> 1]]
      BY CommandInitParts DEF RunnerInit
    <2> QED
      BY <2>1
  <1>4. \A u \in Users : main[u].pc \in {"start", "absent"}
    BY <1>3, UserOf
  <1> QED
    BY <1>1, <1>2, <1>4 DEF CommandInv, CallInv, Done

(* The rows and the specs that a call was answered for stay. *)
LEMMA AddKeeps ==
    ASSUME [AddNext]_addVars
    PROVE  metas \subseteq metas' /\ spec' = spec
  BY DEF AddNext, Work, Begin, From, ReadSpec, Build, Lookup, Create, Reuse, Break, addVars,
         tableVars

(* A step of the call itself. *)
LEMMA CallMoves ==
    ASSUME AddInv, NEW u \in Users, Work(u), CallInv(u)
    PROVE  /\ call'[u] = "added" => \E m \in metas' : m.id = u
           /\ call'[u] = "refused" => spec'[u] \in Invalid
           /\ \A v \in Users \ {u} : call'[v] = call[v]
           /\ call[u] \notin Ended
  <1>1. call \in [Users -> CallStages \cup Ended]
    BY DEF AddInv, AddTypeOK
  <1>2. CASE Begin(u) \/ ReadSpec(u) \/ Build(u) \/ Lookup(u) \/ Break(u)
    BY <1>1, <1>2 DEF Begin, From, ReadSpec, Build, Lookup, Break, Goto, Ended, CallStages
  <1>3. CASE Create(u) \/ Reuse(u)
    <2>1. \E d : NewMeta(u, d) \in metas' /\ NewMeta(u, d).id = u
      BY <1>3 DEF Create, Reuse, NewMeta
    <2>2. /\ \E stage \in {"added", "raised"} : call' = [call EXCEPT ![u] = stage]
          /\ call[u] \in {"creating", "reusing"}
      BY <1>3 DEF Create, Reuse, Goto
    <2> QED
      BY <1>1, <2>1, <2>2 DEF Ended
  <1> QED
    BY <1>2, <1>3 DEF Work

(* What a step of others leaves alone, and the jobs' own steps.            *)
LEMMA CallStays ==
    ASSUME NEW u \in Users, CallInv(u), [AddNext]_addVars,
           call'[u] = call[u], failed' = failed, main'[u] = main[u],
           ended'[u] = ended[u],
           job[JobOf(u)] = "finished" => job'[JobOf(u)] = "finished",
           job'[JobOf(u)] \in Done => job[JobOf(u)] \in Done
    PROVE  CallInv(u)'
  BY AddKeeps DEF CallInv, Done, JobOf

LEMMA CallUnderJobStep ==
    ASSUME CommandInv, NEW r \in Runners, JobStep(r), UNCHANGED addVars, NEW u \in Users
    PROVE  CallInv(u)'
  <1>1. JobOf(u) \in Runners /\ Sync(JobOf(u)) /\ CallInv(u)
    BY UserOf DEF CommandInv
  <1>2. job \in [Runners -> Stages]
    BY DEF CommandInv, RunnerFullInv, RunnerInv, Types
  <1>3. failed' = failed /\ main' = main /\ ended' = ended /\ call' = call
    BY DEF JobStep, JobProgress, Prepare, LoopEnds, RecordEnd, Finish, Iterate, GetsStuck, Expire,
       ComputeShard, mainVars, jobVars, addVars
  <1>4. /\ job[JobOf(u)] = "finished" => job'[JobOf(u)] = "finished"
        /\ job'[JobOf(u)] \in Done => job[JobOf(u)] \in Done
    BY <1>1, <1>2 DEF Done, JobStep, JobProgress, Prepare, LoopEnds, RecordEnd, Finish, Iterate,
       GetsStuck, Expire, ComputeShard, Stage, jobVars
  <1> QED
    BY <1>1, <1>3, <1>4, CallStays

LEMMA CallUnderMain ==
    ASSUME CommandInv, NEW p \in Processes, UNCHANGED addVars, NEW u \in Users,
           MainProgress(p) \/ InterruptTry(p) \/ InterruptFinally(p)
    PROVE  CallInv(u)'
  <1>1. /\ JobOf(u) \in Runners /\ Sync(JobOf(u)) /\ CallInv(u)
        /\ u \in Processes /\ LastRunner(u) = 1 /\ Process(JobOf(u)) = u
    BY UserOf DEF CommandInv
  <1>0. main[u].at \in 1..LastRunner(u)
    BY <1>1 DEF CommandInv, RunnerFullInv, RunnerInv, Types
  <1>2. /\ job \in [Runners -> Stages]
        /\ main \in [Processes -> [pc : MainPcs, at : Nat]]
        /\ ended \in [Processes -> {"not yet", "well", "error"}]
    BY DEF CommandInv, RunnerFullInv, RunnerInv, Types
  <1>3. failed' = failed /\ call' = call
    BY DEF MainProgress, StartAsync, StartSync, SyncEnds, Watch, Flush, Stop, Join, WaitFinished,
       LastFlush, Shutdown, InterruptTry, InterruptFinally, jobVars, addVars
  <1>4. job' = job \/ (job' = [job EXCEPT ![Here(p)] = "starting"] /\ main[p].pc = "start")
    BY DEF MainProgress, StartAsync, StartSync, SyncEnds, Watch, Flush, Stop, Join, WaitFinished,
       LastFlush, Shutdown, InterruptTry, InterruptFinally, jobVars, Stage, At
  <1>5. CASE p # u
    <2>1. \E pc \in MainPcs, i \in Nat : Goes(p, pc, i)
      <3>1. main[p] \in [pc : MainPcs, at : Nat]
        BY <1>2
      <3>2. main[p].at \in Nat /\ main[p].at + 1 \in Nat
        BY <3>1
      <3> QED
        BY <3>2 DEF MainProgress, StartAsync, StartSync, SyncEnds, Watch, Flush, Stop, Join,
           WaitFinished, LastFlush, Shutdown, InterruptTry, InterruptFinally, NextRunner, MainPcs,
           Tries, Finally
    <2>2. main'[u] = main[u]
      BY <1>1, <1>2, <1>5, <2>1 DEF Goes
    <2>3. ended'[u] = ended[u]
      BY <1>1, <1>2, <1>5 DEF MainProgress, StartAsync, StartSync, SyncEnds, Watch, Flush, Stop,
         Join, WaitFinished, LastFlush, Shutdown, InterruptTry, InterruptFinally, Interrupted
    <2>4. job'[JobOf(u)] = job[JobOf(u)]
      BY <1>1, <1>2, <1>4, <1>5 DEF Here, JobOf
    <2> QED
      BY <1>1, <1>3, <2>2, <2>3, <2>4, CallStays
  <1>6. CASE p = u
    <2>1. main[u].at = 1 /\ Here(u) = JobOf(u)
      <3>1. \A i \in 1..LastRunner(u) : i = 1
        BY <1>1
      <3> QED
        BY <1>0, <3>1 DEF Here, JobOf
    <2>2. \/ main'[u].pc \in {"start", "inside"}
          \/ ended'[u] = "error"
          \/ /\ main[u].pc \notin {"absent", "start", "inside"}
             /\ ended[u] # "error" /\ job' = job
          \/ main[u].pc = "inside" /\ job' = job /\ job[JobOf(u)] = "finished"
             /\ JobOf(u) \notin failed
      <3>1. CASE StartAsync(u)
        BY <1>1, <2>1, <3>1 DEF StartAsync
      <3>2. CASE StartSync(u)
        BY <1>1, <1>2, <3>2 DEF StartSync, Goes
      <3>3. CASE SyncEnds(u)
        BY <1>1, <1>2, <2>1, <3>3 DEF SyncEnds, At, jobVars
      <3>4. CASE Watch(u) \/ Flush(u) \/ Stop(u) \/ Join(u) \/ WaitFinished(u) \/ LastFlush(u)
        BY <1>1, <1>2, <3>4 DEF Watch, Flush, Stop, Join, WaitFinished, LastFlush, At, jobVars
      <3>5. CASE Shutdown(u)
        BY <1>1, <1>2, <3>5 DEF Shutdown, At, jobVars
      <3>6. CASE InterruptTry(u) \/ InterruptFinally(u)
        BY <1>1, <1>2, <3>6 DEF InterruptTry, InterruptFinally, Interrupted
      <3> QED
        BY <1>6, <3>1, <3>2, <3>3, <3>4, <3>5, <3>6 DEF MainProgress
    <2>3. job'[JobOf(u)] \in Done => job[JobOf(u)] \in Done
      BY <1>1, <1>2, <1>4 DEF Done
    <2>4. main'[u].pc \notin {"absent", "start", "inside"} =>
              ended'[u] = "error" \/ (job'[JobOf(u)] = "finished" /\ JobOf(u) \notin failed')
      BY <1>1, <1>3, <2>2 DEF CallInv
    <2>5. UNCHANGED <<metas, spec>>
      BY DEF addVars, tableVars
    <2> QED
      BY <1>1, <1>3, <2>3, <2>4, <2>5 DEF CallInv, JobOf
  <1> QED
    BY <1>5, <1>6

LEMMA CallUnderWork ==
    ASSUME CommandInv, NEW v \in Users, CallStep(v), NEW u \in Users
    PROVE  CallInv(u)'
  <1>1. CallInv(u) /\ CallInv(v) /\ AddInv
    BY DEF CommandInv
  <1>2. /\ call'[v] = "added" => \E m \in metas' : m.id = v
        /\ call'[v] = "refused" => spec'[v] \in Invalid
        /\ \A w \in Users \ {v} : call'[w] = call[w]
    BY <1>1, CallMoves DEF CallStep
  <1>3. job[JobOf(v)] = "executing" /\ UNCHANGED <<job, failed, main, ended>>
    BY DEF CallStep, runnerVars, mainVars, jobVars
  <1>4. CASE u = v
    <2>1. job'[JobOf(u)] \notin Done
      BY <1>3, <1>4 DEF Done, JobOf
    <2>2. main'[u].pc \notin {"absent", "start", "inside"} => ended'[u] = "error"
      BY <1>1, <1>3, <1>4 DEF CallInv
    <2> QED
      BY <1>2, <1>4, <2>1, <2>2 DEF CallInv, JobOf
  <1>5. CASE u # v
    <2>1. AddNext
      BY DEF CallStep, AddNext
    <2> QED
      BY <1>1, <1>2, <1>3, <1>5, <2>1, CallStays DEF JobOf
  <1> QED
    BY <1>4, <1>5

LEMMA CallUnderEnd ==
    ASSUME CommandInv, NEW v \in Users, CallEnds(v), NEW u \in Users
    PROVE  CallInv(u)'
  <1>1. CallInv(u) /\ JobOf(v) \in Runners /\ job \in [Runners -> Stages]
    BY UserOf DEF CommandInv, RunnerFullInv, RunnerInv, Types
  <1>2. /\ call[v] \in Ended
        /\ job[JobOf(v)] = "executing"
        /\ job' = [job EXCEPT ![JobOf(v)] = "returned"]
        /\ failed' = IF call[v] = "raised" THEN failed \cup {JobOf(v)} ELSE failed
        /\ main' = main /\ ended' = ended
    BY DEF CallEnds, FunctionEnds, Stage, mainVars
  <1>3. UNCHANGED <<call, metas, spec>>
    BY DEF CallEnds, addVars, tableVars
  <1>4. CASE u = v
    <2>1. JobOf(u) \in failed' \/ call'[u] \in {"added", "refused"}
      BY <1>2, <1>3, <1>4 DEF Ended, JobOf
    <2>2. main'[u].pc \notin {"absent", "start", "inside"} => ended'[u] = "error"
      BY <1>1, <1>2, <1>4 DEF CallInv
    <2> QED
      BY <1>1, <1>3, <2>1, <2>2 DEF CallInv, JobOf
  <1>5. CASE u # v
    <2>1. job'[JobOf(u)] = job[JobOf(u)] /\ (JobOf(u) \in failed' <=> JobOf(u) \in failed)
      <3>1. JobOf(u) # JobOf(v)
        BY <1>5 DEF JobOf
      <3>2. JobOf(u) \in Runners
        BY UserOf
      <3> QED
        BY <1>1, <1>2, <3>1, <3>2
    <2> QED
      BY <1>1, <1>2, <1>3, <2>1 DEF CallInv, JobOf
  <1> QED
    BY <1>4, <1>5

LEMMA CallUnderInterrupt ==
    ASSUME CommandInv, NEW v \in Users, InterruptCall(v), NEW u \in Users
    PROVE  CallInv(u)'
  <1>1. /\ CallInv(u) /\ CallInv(v) /\ AddInv /\ job \in [Runners -> Stages]
        /\ main[v].at \in 1..LastRunner(v)
        /\ ended \in [Processes -> {"not yet", "well", "error"}]
    BY UserOf DEF CommandInv, RunnerFullInv, RunnerInv, Types
  <1>2. Here(v) = JobOf(v) /\ JobOf(v) \in Runners /\ v \in Processes /\ u \in Processes
    <2>1. v \in Processes /\ u \in Processes /\ LastRunner(v) = 1 /\ JobOf(v) \in Runners
      BY UserOf
    <2>2. \A i \in 1..LastRunner(v) : i = 1
      BY <2>1
    <2> QED
      BY <1>1, <2>1, <2>2 DEF Here, JobOf
  <1>3. /\ job' = [job EXCEPT ![JobOf(v)] = "returned"]
        /\ failed' = failed \cup {JobOf(v)}
        /\ main' = main
        /\ ended' = [ended EXCEPT ![v] = "error"]
    BY <1>2 DEF InterruptCall, InterruptInside, Interrupted, Stage
  <1>4. /\ call'[v] = "added" => \E m \in metas' : m.id = v
        /\ call'[v] = "refused" => spec'[v] \in Invalid
        /\ \A w \in Users \ {v} : call'[w] = call[w]
    <2>1. CASE UNCHANGED addVars
      BY <1>1, <2>1 DEF CallInv, addVars, tableVars
    <2>2. CASE Work(v)
      BY <1>1, <2>2, CallMoves
    <2> QED
      BY <2>1, <2>2 DEF InterruptCall, Work
  <1>5. [AddNext]_addVars
    BY DEF InterruptCall, AddNext, Work
  <1>6. CASE u = v
    BY <1>1, <1>2, <1>3, <1>4, <1>6 DEF CallInv, JobOf
  <1>7. CASE u # v
    <2>1. /\ job'[JobOf(u)] = job[JobOf(u)] /\ (JobOf(u) \in failed' <=> JobOf(u) \in failed)
      <3>1. JobOf(u) # JobOf(v)
        BY <1>7 DEF JobOf
      <3>2. JobOf(u) \in Runners
        BY UserOf
      <3> QED
        BY <1>1, <1>3, <3>1, <3>2
    <2>2. ended'[u] = ended[u] /\ call'[u] = call[u]
      BY <1>1, <1>2, <1>3, <1>4, <1>7
    <2> QED
      BY <1>1, <1>3, <1>5, <2>1, <2>2, AddKeeps DEF CallInv, JobOf
  <1> QED
    BY <1>6, <1>7

LEMMA CommandInvStep == CommandInv /\ [CommandNext]_commandVars => CommandInv'
  <1> SUFFICES ASSUME CommandInv, [CommandNext]_commandVars PROVE CommandInv'
    OBVIOUS
  <1>1. RunnerFullInv'
    BY CommandStepIsRunners, RunnerFullStep DEF CommandInv
  <1>2. AddInv'
    BY CommandStepIsAdds, AddInvStep DEF CommandInv
  <1>3. ASSUME NEW u \in Users
        PROVE  CallInv(u)'
    <2>1. CASE UNCHANGED commandVars
      BY <2>1 DEF CommandInv, CallInv, JobOf, commandVars, runnerVars, mainVars, jobVars,
         addVars, tableVars
    <2> QED
      BY <1>3, <2>1, CallUnderJobStep, CallUnderMain, CallUnderWork, CallUnderEnd,
         CallUnderInterrupt DEF CommandNext
  <1> QED
    BY <1>1, <1>2, <1>3 DEF CommandInv

LEMMA CommandInvHolds == CommandSpec => []CommandInv
  BY CommandInitInv, CommandInvStep, PTL DEF CommandSpec

(* A `dags add` that ends well added its dag, or its spec was refused,     *)
(* whatever interrupts and failures it met, among any other commands.      *)
THEOREM ExitIsTrueCorrect == CommandSpec => []ExitIsTrue
  <1>1. CommandInv => ExitIsTrue
    BY DEF CommandInv, CallInv, ExitIsTrue, Done
  <1> QED
    BY <1>1, CommandInvHolds, PTL

-----------------------------------------------------------------------------
(* DagGraph. *)

Closed(graph, done) == Ready(graph, done) \subseteq done

(* The equation of startsAfter in Starts. *)
IsStartsAfter(graph, f) ==
    f = [done \in SUBSET TasksOf(graph) |->
            IF Ready(graph, done) \subseteq done THEN done
            ELSE f[done \cup Ready(graph, done)]]

LEMMA ReadyGrows ==
    ASSUME NEW graph, NEW D, NEW E, D \subseteq E
    PROVE  Ready(graph, D) \subseteq Ready(graph, E)
  BY DEF Ready

LEMMA ReadyAreTasks == ASSUME NEW graph, NEW D PROVE Ready(graph, D) \subseteq TasksOf(graph)
  BY DEF Ready

(* The recursion is well defined: the least closed sets solve its equation.*)
LEMMA StartsAfterExists ==
    ASSUME NEW graph
    PROVE  \E f : IsStartsAfter(graph, f)
  <1> DEFINE T == TasksOf(graph)
             Around(done) == {D \in SUBSET T : done \subseteq D /\ Closed(graph, D)}
             Least(done)  == {t \in T : \A D \in Around(done) : t \in D}
             f == [done \in SUBSET T |-> Least(done)]
  <1>1. \A done \in SUBSET T : Closed(graph, done) => Least(done) = done
    OBVIOUS
  <1>2. \A done \in SUBSET T : Around(done \cup Ready(graph, done)) = Around(done)
    <2> SUFFICES ASSUME NEW done \in SUBSET T, NEW D \in SUBSET T, Closed(graph, D),
                        done \subseteq D
                 PROVE  Ready(graph, done) \subseteq D
      OBVIOUS
    <2> QED
      BY ReadyGrows DEF Closed
  <1>3. \A done \in SUBSET T : Least(done \cup Ready(graph, done)) = Least(done)
    <2> HIDE DEF Around
    <2> QED
      BY <1>2
  <1>4. \A done \in SUBSET T : done \cup Ready(graph, done) \in SUBSET T
    BY ReadyAreTasks
  <1>5. \A done \in SUBSET T : f[done] = IF Ready(graph, done) \subseteq done THEN done
                                         ELSE f[done \cup Ready(graph, done)]
    <2> HIDE DEF Least
    <2> QED
      BY <1>1, <1>3, <1>4 DEF Closed
  <1>6. IsStartsAfter(graph, f)
    <2> DEFINE h == [done \in SUBSET T |-> IF Ready(graph, done) \subseteq done THEN done
                                           ELSE f[done \cup Ready(graph, done)]]
    <2> HIDE DEF Least
    <2>1. f = h
      BY <1>5
    <2> QED
      BY <2>1 DEF IsStartsAfter
  <1> QED
    BY <1>6

(* What starts after done: a closed set, and the least one.                *)
IsLeastAfter(graph, done, result) ==
    /\ done \subseteq result
    /\ result \subseteq TasksOf(graph)
    /\ Closed(graph, result)
    /\ \A D \in SUBSET TasksOf(graph) :
           done \subseteq D /\ Closed(graph, D) => result \subseteq D

LEMMA StartsAfterIsLeast ==
    ASSUME NEW graph, IsGraph(graph), NEW f, IsStartsAfter(graph, f)
    PROVE  \A done \in SUBSET TasksOf(graph) : IsLeastAfter(graph, done, f[done])
  <1> DEFINE T == TasksOf(graph)
             Wrong == {done \in SUBSET T : ~IsLeastAfter(graph, done, f[done])}
             Left  == {T \ done : done \in Wrong}
  <1>1. \A done \in SUBSET T :
            f[done] = IF Ready(graph, done) \subseteq done THEN done
                      ELSE f[done \cup Ready(graph, done)]
    BY DEF IsStartsAfter
  <1>2. SUFFICES ASSUME Wrong # {} PROVE FALSE
    OBVIOUS
  <1>3. Left \subseteq SUBSET T /\ Left # {} /\ IsFiniteSet(T)
    BY <1>2 DEF IsGraph
  <1>4. \E x \in Left : \A y \in Left : y \subseteq x => y = x
    <2> HIDE DEF Left
    <2> QED
      BY <1>3, LeastSubset
  <1>5. PICK done \in Wrong : \A other \in Wrong : T \ other \subseteq T \ done =>
                                                   T \ other = T \ done
    <2>1. PICK x \in Left : \A y \in Left : y \subseteq x => y = x
      BY <1>4
    <2>2. PICK done \in Wrong : x = T \ done
      OBVIOUS
    <2>3. \A other \in Wrong : T \ other \in Left
      OBVIOUS
    <2> HIDE DEF Left, Wrong
    <2>4. \A other \in Wrong : T \ other \subseteq T \ done => T \ other = T \ done
      BY <2>1, <2>2, <2>3
    <2> QED
      BY <2>2, <2>4
  <1> DEFINE next == done \cup Ready(graph, done)
  <1>6. next \in SUBSET T /\ T \ next \subseteq T \ done
    BY ReadyAreTasks
  <1>7. ~Closed(graph, done)
    BY <1>1 DEF Closed, IsLeastAfter
  <1>8. f[done] = f[next]
    BY <1>1, <1>7 DEF Closed
  <1>9. IsLeastAfter(graph, next, f[next])
    <2>1. T \ next # T \ done
      BY <1>6, <1>7 DEF Closed
    <2> QED
      BY <1>5, <1>6, <2>1
  <1>10. \A D \in SUBSET T : done \subseteq D /\ Closed(graph, D) => next \subseteq D
    BY ReadyGrows DEF Closed
  <1>11. IsLeastAfter(graph, done, f[done])
    <2> HIDE DEF next
    <2>1. done \subseteq next
      BY DEF next
    <2> QED
      BY <1>8, <1>9, <1>10, <2>1 DEF IsLeastAfter
  <1> QED
    BY <1>11

LEMMA StartsIsLeast ==
    ASSUME NEW graph, IsGraph(graph)
    PROVE  IsLeastAfter(graph, {}, Starts(graph))
  <1> DEFINE f == CHOOSE g : IsStartsAfter(graph, g)
  <1>1. IsStartsAfter(graph, f)
    BY StartsAfterExists
  <1>2. Starts(graph) = f[{}]
    BY DEF Starts, IsStartsAfter
  <1> HIDE DEF f
  <1> QED
    BY <1>1, <1>2, StartsAfterIsLeast

(* Upstream of a task are those that feed it. *)
LEMMA UpstreamFeeds ==
    ASSUME NEW graph, NEW t \in TasksOf(graph)
    PROVE  Upstream(graph, t) = {u \in TasksOf(graph) : Feeds(graph, u, t)}
  BY DEF Upstream, Producers, Feeds

(* What never starts: the tasks on circles or behind them, of any graph.   *)
LEMMA CirclesHang ==
    ASSUME NEW graph, IsGraph(graph)
    PROVE  Starts(graph) = TasksOf(graph) \ BehindCircles(graph)
  <1> DEFINE T == TasksOf(graph)
             S == Starts(graph)
             Fed(W) == \A u \in W : \E t \in W : Feeds(graph, t, u)
  <1>1. S \subseteq T /\ Closed(graph, S)
        /\ \A D \in SUBSET T : Closed(graph, D) => S \subseteq D
    BY StartsIsLeast DEF IsLeastAfter
  <1>2. \A W \in SUBSET T : Fed(W) => Closed(graph, T \ W)
    <2> SUFFICES ASSUME NEW W \in SUBSET T, Fed(W), NEW u \in Ready(graph, T \ W), u \in W
                 PROVE  FALSE
      BY ReadyAreTasks DEF Closed
    <2>1. PICK t \in W : Feeds(graph, t, u)
      OBVIOUS
    <2>2. t \in Upstream(graph, u)
      BY <2>1, UpstreamFeeds
    <2> QED
      BY <2>2 DEF Ready
  <1>3. Fed(T \ S)
    <2> SUFFICES ASSUME NEW u \in T \ S
                 PROVE  \E t \in T \ S : Feeds(graph, t, u)
      OBVIOUS
    <2>1. u \notin Ready(graph, S)
      BY <1>1 DEF Closed
    <2>2. PICK t \in Upstream(graph, u) : t \notin S
      BY <2>1 DEF Ready
    <2> QED
      BY <2>2, UpstreamFeeds
  <1>4. BehindCircles(graph) = UNION {W \in SUBSET T : Fed(W)}
    BY DEF BehindCircles
  <1> HIDE DEF S, Fed
  <1>5. T \ S \subseteq BehindCircles(graph)
    BY <1>3, <1>4
  <1>6. \A W \in SUBSET T : Fed(W) => W \cap S = {}
    BY <1>1, <1>2
  <1> QED
    BY <1>1, <1>4, <1>5, <1>6 DEF S

(* Of a dag that was added exactly the tasks on circles of tables, or      *)
(* behind one, never start, for any graph: nothing else can hang a run.    *)
THEOREM OnlyCirclesHangCorrect == CommandSpec => []OnlyCirclesHang
  <1>1. CommandInv => OnlyCirclesHang
    <2> SUFFICES ASSUME CommandInv, NEW d \in dags
                 PROVE  LET graph == Content[spec[d.id]].graph
                        IN  Starts(graph) = TasksOf(graph) \ BehindCircles(graph)
      BY DEF OnlyCirclesHang
    <2>1. spec[d.id] \in Specs
      BY DEF CommandInv, AddInv, AddTypeOK, DagRows
    <2> QED
      BY <2>1, CommandAssumption, CirclesHang
  <1> QED
    BY <1>1, CommandInvHolds, PTL
-----------------------------------------------------------------------------
(* Command as a whole. *)

(* What a run of a dag is loaded from, whoever added it, has the payload   *)
(* of the spec that the user of the meta gave.                             *)
DagsOfTheirPayload ==
    \A m \in metas, d \in dags :
        d.id = m.dag => Payload[spec[d.id]] = Payload[spec[m.id]]

(* Every run's dag is stored in the form of its own user's spec: with this,*)
(* what is loaded of a dag depends on how one spec is written and read,    *)
(* and not on the calls, interrupts and failures that met on the way.      *)
THEOREM DagsOfTheirPayloadCorrect == CommandSpec => []DagsOfTheirPayload
  <1>1. ASSUME CommandInv, NEW m \in metas, NEW d \in dags, d.id = m.dag
        PROVE  Payload[spec[d.id]] = Payload[spec[m.id]]
    <2> DEFINE e == [id |-> m.dag, payload |-> Payload[spec[m.id]]]
    <2>1. e \in dags
      BY <1>1 DEF CommandInv, AddInv, MetasHaveRefs
    <2>2. d.payload = Payload[spec[d.id]] /\ e.payload = Payload[spec[e.id]]
      BY <1>1, <2>1 DEF CommandInv, AddInv, DagsAreWhole, NewDag
    <2> QED
      BY <1>1, <2>2
  <1>2. CommandInv => DagsOfTheirPayload
    BY <1>1 DEF DagsOfTheirPayload
  <1> QED
    BY <1>2, CommandInvHolds, PTL

(* What is loaded for a meta is what its user wrote, but for what the      *)
(* encoding gives up: the dag may be another user's, but what is stored of *)
(* it is what would be stored of the user's own spec (PayloadAssumption),  *)
(* and that is read as it was written (LoadedStored).                      *)
THEOREM LoadsWhatWasAddedCorrect == CommandSpec => []LoadsWhatWasAdded
  <1>1. ASSUME CommandInv, DagsOfTheirPayload, NEW m \in metas, NEW d \in dags, d.id = m.dag
        PROVE  Loaded(Repr(spec[d.id]).params) = Kept[Content[spec[m.id]].params]
    <2> DEFINE own == spec[m.id]
               params == Content[own].params
    <2>1. d.id \in Users /\ m.id \in Users
      BY <1>1 DEF CommandInv, AddInv, AddTypeOK, DagRows
    <2>2. own \in Specs /\ spec[d.id] \in Specs
      BY <1>1, <2>1 DEF CommandInv, AddInv, AddTypeOK
    <2>3. Payload[spec[d.id]] = Payload[own]
      BY <1>1 DEF DagsOfTheirPayload
    <2> HIDE DEF own
    <2>4. Repr(spec[d.id]) = Repr(own)
      BY <2>2, <2>3, PayloadAssumption
    <2>5. Repr(own).params = Stored(params)
      BY DEF Repr
    <2>6. params \in Level[Nesting] /\ params[1] = "dict"
      BY <2>2, PayloadAssumption
    <2> HIDE DEF params
    <2>7. Loaded(Stored(params)) = Kept[params]
      BY <2>6, LoadedStored
    <2> QED
      BY <2>4, <2>5, <2>7 DEF own, params
  <1>2. CommandInv /\ DagsOfTheirPayload => LoadsWhatWasAdded
    BY <1>1 DEF LoadsWhatWasAdded
  <1> QED
    BY <1>2, CommandInvHolds, DagsOfTheirPayloadCorrect, PTL

(* The invariants of processes, jobs and calls hold of the commands taken  *)
(* together: users that add dags beside schedulers and task runners.       *)
THEOREM CommandIsSafe ==
    CommandSpec =>
        [](/\ RunnerTypeOK /\ EndsAreSaved /\ WatchSeesAll /\ ShardsPartition
           /\ AddTypeOK /\ MetasHaveRefs /\ SequentialShares
           /\ ExitIsTrue /\ OnlyCirclesHang /\ LoadsWhatWasAdded)
  BY CommandIsRunner, RunnerTypeCorrect, EndsAreSavedCorrect, WatchSeesAllCorrect,
     ShardsPartitionCorrect, CommandIsAdd, AddTypeCorrect, MetasHaveRefsCorrect,
     SequentialSharesCorrect, ExitIsTrueCorrect, OnlyCirclesHangCorrect,
     LoadsWhatWasAddedCorrect, PTL
=============================================================================
