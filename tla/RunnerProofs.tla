---------------------------- MODULE RunnerProofs ----------------------------
(* Proofs about Runner, for any processes, job lists and bounds. *)
EXTENDS Runner, FiniteSetTheorems, TLAPS

(* The part of RunnerTypeOK that the proofs need. *)
Types ==
    /\ main \in [Processes -> [pc : MainPcs, at : Nat]]
    /\ \A p \in Processes : main[p].at \in 1..LastRunner(p)
    /\ dead \subseteq Processes
    /\ job \in [Runners -> Stages]
    /\ row \in [Runners -> RowStates]
    /\ saved \in [Runners -> RowStates]
    /\ ended \in [Processes -> {"not yet", "well", "error"}]

(* The runners that the main thread has not come to are new. *)
StartOK(p) ==
    /\ main[p].pc = "start" => \A r \in RunnersOf(p) : r[2] >= main[p].at => job[r] = "new"
    /\ main[p].pc = "inside" => \A r \in RunnersOf(p) : r[2] > main[p].at => job[r] = "new"

(* all_dead is true only of the runners that the round has seen. *)
WatchOK(p) ==
    /\ main[p].pc = "watch" /\ p \in dead =>
           \A r \in RunnersOf(p) : r[2] < main[p].at => ~Alive(r)
    /\ main[p].pc = "flush" /\ p \in dead =>
           \A r \in RunnersOf(p) : r[2] <= main[p].at => ~Alive(r)
    /\ main[p].pc \in Finally \cup {"exited"} /\ ended[p] # "error" =>
           \A r \in RunnersOf(p) : ~Alive(r)

(* A job whose event is set has written its end. *)
RecordInv ==
    /\ finished = {r \in Runners : job[r] = "finished"}
    /\ \A r \in Runners : job[r] \in {"recorded", "finished"} => row[r] = "ended"

Over(r) == job[r] \in {"new", "finished"}

(* What was waited for is over, unless the wait ran out of time, and what  *)
(* the last flush saw is in the table.                                     *)
WaitOK(p) ==
    p \notin gaveUp =>
        /\ main[p].pc = "wait" =>
               \A r \in RunnersOf(p) : r[2] < main[p].at => Over(r)
        /\ main[p].pc \in {"lastflush", "shutdown", "exited"} =>
               \A r \in RunnersOf(p) : Over(r)
        /\ main[p].pc \in {"shutdown", "exited"} /\ p \notin unflushed =>
               \A r \in RunnersOf(p) : job[r] # "new" => saved[r] = "ended"

MainOK(p) == StartOK(p) /\ WatchOK(p) /\ WaitOK(p)

RunnerInv == Types /\ RecordInv /\ \A p \in Processes : MainOK(p)

LEMMA LastIsNat == \A p \in Processes : LastRunner(p) \in Nat /\ LastRunner(p) >= 1
  <1> SUFFICES ASSUME NEW p \in Processes
               PROVE  LastRunner(p) \in Nat /\ LastRunner(p) >= 1
    OBVIOUS
  <1>1. List[p] \in Seq(Names) /\ List[p] # <<>>
    BY RunnerAssumption
  <1> QED
    BY <1>1 DEF LastRunner

LEMMA AtIsNat ==
    ASSUME NEW p \in Processes
    PROVE  1 \in 1..LastRunner(p) /\ \A i \in 1..LastRunner(p) : i \in Nat
  BY LastIsNat

LEMMA RunnerOf ==
    ASSUME NEW p \in Processes
    PROVE  /\ \A r \in RunnersOf(p) :
                  r \in Runners /\ r = <<p, r[2]>> /\ r[2] \in 1..LastRunner(p)
           /\ \A i \in 1..LastRunner(p) :
                  <<p, i>> \in Runners /\ <<p, i>> \in RunnersOf(p) /\ Process(<<p, i>>) = p
  BY DEF LastRunner, Runners, RunnersOf, Process

LEMMA ItsProcess ==
    ASSUME NEW r \in Runners
    PROVE  Process(r) \in Processes /\ r \in RunnersOf(Process(r))
  BY DEF Runners, RunnersOf, Process

LEMMA RunnerInitInv == RunnerInit => RunnerInv
  <1> SUFFICES ASSUME RunnerInit PROVE RunnerInv
    OBVIOUS
  <1> USE DEF RunnerInit
  <1>0. PICK launched \in Launches :
             main = [p \in Processes |->
                        [pc |-> IF p \in launched THEN "start" ELSE "absent", at |-> 1]]
    OBVIOUS
  <1>1. Types
    <2>1. main \in [Processes -> [pc : MainPcs, at : Nat]]
      BY <1>0 DEF MainPcs, Tries
    <2>2. \A p \in Processes : main[p].at \in 1..LastRunner(p)
      <3>1. \A p \in Processes : main[p].at = 1
        BY <1>0
      <3> QED
        BY <3>1, AtIsNat
    <2> QED
      BY <2>1, <2>2 DEF Types, Stages, RowStates
  <1>2. \A p \in Processes : main[p].pc \in {"start", "absent"}
    BY <1>0
  <1>3. \A p \in Processes : MainOK(p)
    BY <1>2 DEF MainOK, StartOK, WatchOK, WaitOK, Finally, RunnersOf
  <1>4. RecordInv
    BY DEF RecordInv
  <1> QED
    BY <1>1, <1>3, <1>4 DEF RunnerInv

-----------------------------------------------------------------------------
(* What is true of a process stays true when its main thread does nothing  *)
(* and its jobs go on: an ended or a new one stays that.                   *)
LEMMA StaysOK ==
    ASSUME NEW p \in Processes, MainOK(p),
           main'[p] = main[p],
           p \in dead' <=> p \in dead,
           ended'[p] = ended[p] \/ ended'[p] = "error",
           p \in gaveUp' <=> p \in gaveUp,
           p \in unflushed' <=> p \in unflushed,
           \A r \in RunnersOf(p) :
               /\ saved'[r] = saved[r]
               /\ ~Alive(r) => ~Alive(r)'
               /\ Over(r) => Over(r)'
               /\ job'[r] = "new" <=> job[r] = "new"
    PROVE  MainOK(p)'
  <1>1. StartOK(p)'
    BY DEF MainOK, StartOK, RunnersOf
  <1>2. WatchOK(p)'
    BY DEF MainOK, WatchOK, RunnersOf
  <1>3. WaitOK(p)'
    BY DEF MainOK, WaitOK, RunnersOf
  <1> QED
    BY <1>1, <1>2, <1>3 DEF MainOK

(* A step of a job that goes on to a stage s: an ended or a new one does   *)
(* not, and it records its end before it is finished.                      *)
LEMMA JobChange ==
    ASSUME RunnerInv, NEW r \in Runners, NEW s \in Stages, NEW x \in RowStates,
           job' = [job EXCEPT ![r] = s],
           row' = [row EXCEPT ![r] = x],
           s = job[r] \/ (job[r] \notin {"new", "finished"} /\ s # "new"),
           s \in {"recorded", "finished"} => x = "ended",
           finished' = (IF s = "finished" THEN finished \cup {r} ELSE finished),
           UNCHANGED <<main, dead, gaveUp, unflushed, saved>>,
           ended' \in [Processes -> {"not yet", "well", "error"}],
           \A p \in Processes : ended'[p] = ended[p] \/ ended'[p] = "error"
    PROVE  RunnerInv'
  <1>1. \A q \in Runners : ~Alive(q) => ~Alive(q)'
    BY DEF RunnerInv, Types, Alive, Sync, NameOf
  <1>2. \A q \in Runners : (Over(q) => Over(q)') /\ (job'[q] = "new" <=> job[q] = "new")
    BY DEF RunnerInv, Types, Over
  <1>3. Types'
    BY DEF RunnerInv, Types, LastRunner
  <1>4. RecordInv'
    BY DEF RunnerInv, Types, RecordInv
  <1>5. ASSUME NEW q \in Processes
        PROVE  MainOK(q)'
    <2>1. \A t \in RunnersOf(q) : t \in Runners
      BY DEF RunnersOf
    <2> QED
      BY <1>1, <1>2, <2>1, StaysOK DEF RunnerInv
  <1> QED
    BY <1>3, <1>4, <1>5 DEF RunnerInv

LEMMA JobSteps ==
    ASSUME RunnerInv, NEW r \in Runners, NEW raises \in BOOLEAN,
           JobStep(r) \/ FunctionEnds(r, raises)
    PROVE  RunnerInv'
  <1> USE DEF Stage, Beat, mainVars, jobVars, beatVars, Stages, RowStates
  <1>1. /\ job = [job EXCEPT ![r] = job[r]] /\ row = [row EXCEPT ![r] = row[r]]
        /\ job[r] \in Stages /\ row[r] \in RowStates
        /\ ended \in [Processes -> {"not yet", "well", "error"}]
        /\ job[r] = "finished" <=> r \in finished
        /\ job[r] \in {"recorded", "finished"} => row[r] = "ended"
    BY DEF RunnerInv, Types, RecordInv
  <1>2. CASE Prepare(r)
    BY <1>1, <1>2, JobChange DEF Prepare
  <1>3. CASE LoopEnds(r)
    BY <1>1, <1>3, JobChange DEF LoopEnds
  <1>4. CASE RecordEnd(r)
    BY <1>1, <1>4, JobChange DEF RecordEnd
  <1>5. CASE Finish(r)
    BY <1>1, <1>5, JobChange DEF Finish
  <1>6. CASE Iterate(r)
    BY <1>1, <1>6, JobChange DEF Iterate
  <1>7. CASE GetsStuck(r)
    BY <1>1, <1>7, JobChange DEF GetsStuck
  <1>8. CASE Expire(r)
    <2> finished' = (IF job[r] = "finished" THEN finished \cup {r} ELSE finished)
      BY <1>1, <1>8 DEF Expire
    <2> QED
      BY <1>1, <1>8, JobChange DEF Expire
  <1>9. CASE ComputeShard(r)
    <2> finished' = (IF job[r] = "finished" THEN finished \cup {r} ELSE finished)
      BY <1>1, <1>9 DEF ComputeShard
    <2>1. row' = [row EXCEPT ![r] = row[r]]
      BY <1>1, <1>9 DEF ComputeShard
    <2> QED
      BY <1>1, <1>9, <2>1, JobChange DEF ComputeShard
  <1>10. CASE FunctionEnds(r, raises)
    BY <1>1, <1>10, JobChange DEF FunctionEnds
  <1> QED
    BY <1>2, <1>3, <1>4, <1>5, <1>6, <1>7, <1>8, <1>9, <1>10 DEF JobStep, JobProgress

-----------------------------------------------------------------------------
(* A step of the main thread of p leaves the other processes alone. *)
LEMMA MainChange ==
    ASSUME RunnerInv, NEW p \in Processes, NEW pc \in MainPcs, NEW i \in 1..LastRunner(p),
           main' = [main EXCEPT ![p] = [pc |-> pc, at |-> i]],
           job' \in [Runners -> Stages],
           UNCHANGED row,
           RecordInv',
           dead' \subseteq Processes,
           ended' \in [Processes -> {"not yet", "well", "error"}],
           saved' \in [Runners -> RowStates],
           \A q \in Processes \ {p} :
               /\ q \in dead' <=> q \in dead
               /\ ended'[q] = ended[q]
               /\ q \in gaveUp' <=> q \in gaveUp
               /\ q \in unflushed' <=> q \in unflushed
               /\ \A r \in RunnersOf(q) : saved'[r] = saved[r] /\ job'[r] = job[r],
           main'[p].pc = pc /\ main'[p].at = i => MainOK(p)'
    PROVE  RunnerInv'
  <1>1. /\ main'[p].pc = pc /\ main'[p].at = i
        /\ \A q \in Processes \ {p} : main'[q] = main[q]
    BY DEF RunnerInv, Types
  <1>2. i \in Nat
    BY AtIsNat
  <1>3. Types'
    BY <1>1, <1>2 DEF RunnerInv, Types, LastRunner
  <1>5. ASSUME NEW q \in Processes, q # p
        PROVE  MainOK(q)'
    <2>1. \A r \in RunnersOf(q) : (~Alive(r) => ~Alive(r)') /\ (Over(r) => Over(r)')
      BY <1>5 DEF Alive, Sync, NameOf, Over
    <2> QED
      BY <1>1, <1>5, <2>1, StaysOK DEF RunnerInv
  <1> QED
    BY <1>1, <1>3, <1>5 DEF RunnerInv

(* The same of a step that changes no job. *)
LEMMA MainMoves ==
    ASSUME RunnerInv, NEW p \in Processes, NEW pc \in MainPcs, NEW i \in 1..LastRunner(p),
           main' = [main EXCEPT ![p] = [pc |-> pc, at |-> i]],
           UNCHANGED <<job, row, finished>>,
           dead' \subseteq Processes,
           ended' \in [Processes -> {"not yet", "well", "error"}],
           saved' \in [Runners -> RowStates],
           \A q \in Processes \ {p} :
               /\ q \in dead' <=> q \in dead
               /\ ended'[q] = ended[q]
               /\ q \in gaveUp' <=> q \in gaveUp
               /\ q \in unflushed' <=> q \in unflushed
               /\ \A r \in RunnersOf(q) : saved'[r] = saved[r],
           main'[p].pc = pc /\ main'[p].at = i => MainOK(p)'
    PROVE  RunnerInv'
  <1>1. job' \in [Runners -> Stages]
    BY DEF RunnerInv, Types
  <1>2. RecordInv'
    BY DEF RunnerInv, RecordInv
  <1> QED
    BY <1>1, <1>2, MainChange

(* Where the main thread is after a runner of a phase, and what is known   *)
(* of the runners before it.                                               *)
LEMMA NextIs ==
    ASSUME RunnerInv, NEW p \in Processes, NEW pc, NEW nextPc, NextRunner(p, pc, nextPc)
    PROVE  \/ /\ main[p].at + 1 \in 1..LastRunner(p)
              /\ main' = [main EXCEPT ![p] = [pc |-> pc, at |-> main[p].at + 1]]
           \/ /\ \A r \in RunnersOf(p) : r[2] <= main[p].at
              /\ 1 \in 1..LastRunner(p)
              /\ main' = [main EXCEPT ![p] = [pc |-> nextPc, at |-> 1]]
  <1>1. main[p].at \in 1..LastRunner(p) /\ LastRunner(p) \in Nat
    BY LastIsNat DEF RunnerInv, Types
  <1>2. \A r \in RunnersOf(p) : r[2] \in 1..LastRunner(p)
    BY RunnerOf
  <1> QED
    BY <1>1, <1>2 DEF NextRunner, Goes

LEMMA HereIs ==
    ASSUME RunnerInv, NEW p \in Processes
    PROVE  /\ main[p].at \in 1..LastRunner(p)
           /\ main[p].at \in Nat
           /\ Here(p) \in Runners /\ Here(p) \in RunnersOf(p)
           /\ Here(p)[2] = main[p].at
           /\ \A r \in RunnersOf(p) :
                  r \in Runners /\ r[2] \in Nat /\ (r[2] = main[p].at => r = Here(p))
           /\ \A q \in Processes \ {p} : Here(p) \notin RunnersOf(q)
  <1>1. main[p].at \in 1..LastRunner(p) /\ LastRunner(p) \in Nat
    BY LastIsNat DEF RunnerInv, Types
  <1>2. \A r \in RunnersOf(p) : r \in Runners /\ r = <<p, r[2]>> /\ r[2] \in 1..LastRunner(p)
    BY RunnerOf
  <1>3. Here(p) \in Runners /\ Here(p) \in RunnersOf(p) /\ Process(Here(p)) = p
    BY <1>1, RunnerOf DEF Here
  <1> QED
    BY <1>1, <1>2, <1>3 DEF Here, RunnersOf

(* The job of the runner the main thread is at starts. *)
LEMMA StartSteps ==
    ASSUME RunnerInv, NEW p \in Processes, StartAsync(p) \/ StartSync(p)
    PROVE  RunnerInv'
  <1>1. /\ main[p].pc = "start" /\ job[Here(p)] = "new"
        /\ \A r \in RunnersOf(p) : r[2] >= main[p].at => job[r] = "new"
    BY HereIs DEF RunnerInv, MainOK, StartOK, At, StartAsync, StartSync
  <1>2. job' = [job EXCEPT ![Here(p)] = "starting"]
    BY DEF StartAsync, StartSync, Stage
  <1>3. UNCHANGED <<dead, row, ended, gaveUp, unflushed, saved, finished>>
    BY DEF StartAsync, StartSync, beatVars
  <1>4. job' \in [Runners -> Stages] /\ RecordInv'
    BY <1>1, <1>2, <1>3 DEF RunnerInv, Types, RecordInv, Stages
  <1>5. /\ \A r \in Runners : r # Here(p) => job'[r] = job[r]
        /\ \A q \in Processes \ {p} : \A r \in RunnersOf(q) : job'[r] = job[r]
    BY <1>2, HereIs DEF RunnerInv, Types, RunnersOf
  <1>6. dead \subseteq Processes /\ ended \in [Processes -> {"not yet", "well", "error"}]
        /\ saved \in [Runners -> RowStates]
    BY DEF RunnerInv, Types
  <1>7. "start" \in MainPcs /\ "watch" \in MainPcs /\ "inside" \in MainPcs
    BY DEF MainPcs, Tries
  <1>8. CASE StartAsync(p)
    <2>1. CASE /\ main[p].at + 1 \in 1..LastRunner(p)
               /\ main' = [main EXCEPT ![p] = [pc |-> "start", at |-> main[p].at + 1]]
      <3>1. main'[p].pc = "start" /\ main'[p].at = main[p].at + 1 => MainOK(p)'
        <4> SUFFICES ASSUME main'[p].pc = "start", main'[p].at = main[p].at + 1
                     PROVE  \A r \in RunnersOf(p) : r[2] >= main[p].at + 1 => job'[r] = "new"
          BY DEF MainOK, StartOK, WatchOK, WaitOK, Finally, RunnersOf
        <4> QED
          BY <1>1, <1>5, HereIs
      <3> QED
        BY <2>1, <3>1, <1>3, <1>4, <1>5, <1>6, <1>7, MainChange
    <2>2. CASE /\ 1 \in 1..LastRunner(p)
               /\ main' = [main EXCEPT ![p] = [pc |-> "watch", at |-> 1]]
      <3>1. main'[p].pc = "watch" /\ main'[p].at = 1 => MainOK(p)'
        <4> SUFFICES ASSUME main'[p].pc = "watch", main'[p].at = 1
                     PROVE  \A r \in RunnersOf(p) : ~(r[2] < 1)
          BY DEF MainOK, StartOK, WatchOK, WaitOK, Finally, RunnersOf
        <4>1. \A r \in RunnersOf(p) : r[2] \in 1..LastRunner(p)
          BY RunnerOf
        <4> QED
          BY <4>1, LastIsNat
      <3> QED
        BY <2>2, <3>1, <1>3, <1>4, <1>5, <1>6, <1>7, MainChange
    <2> QED
      BY <1>8, <2>1, <2>2, NextIs DEF StartAsync
  <1>9. CASE StartSync(p)
    <2>1. main' = [main EXCEPT ![p] = [pc |-> "inside", at |-> main[p].at]]
      BY <1>9 DEF StartSync, Goes
    <2>2. main'[p].pc = "inside" /\ main'[p].at = main[p].at => MainOK(p)'
      <3> SUFFICES ASSUME main'[p].pc = "inside", main'[p].at = main[p].at
                   PROVE  \A r \in RunnersOf(p) : r[2] > main[p].at => job'[r] = "new"
        BY DEF MainOK, StartOK, WatchOK, WaitOK, Finally, RunnersOf
      <3> QED
        BY <1>1, <1>5, HereIs
    <2>3. main[p].at \in 1..LastRunner(p)
      BY HereIs
    <2> QED
      BY <2>1, <2>2, <2>3, <1>3, <1>4, <1>5, <1>6, <1>7, MainChange
  <1> QED
    BY <1>8, <1>9

-----------------------------------------------------------------------------
(* The other steps of the main thread, one lemma for each. *)
LEMMA SyncEndsStep ==
    ASSUME RunnerInv, NEW p \in Processes, SyncEnds(p)
    PROVE  RunnerInv'
  <1>1. UNCHANGED <<job, row, finished, dead, gaveUp, unflushed, saved>>
    BY DEF SyncEnds, jobVars, beatVars
  <1>2. /\ dead \subseteq Processes /\ ended \in [Processes -> {"not yet", "well", "error"}]
        /\ saved \in [Runners -> RowStates]
    BY DEF RunnerInv, Types
  <1>3. {"start", "watch", "stop"} \subseteq MainPcs
    BY DEF MainPcs, Tries, Finally
  <1>4. \A r \in RunnersOf(p) : r[2] \in 1..LastRunner(p) /\ LastRunner(p) \in Nat /\ ~(r[2] < 1)
    BY RunnerOf, LastIsNat
  <1>5. CASE Here(p) \in failed
    <2>1. /\ main' = [main EXCEPT ![p] = [pc |-> "stop", at |-> 1]]
          /\ ended' = [ended EXCEPT ![p] = "error"]
          /\ 1 \in 1..LastRunner(p)
      BY <1>5, AtIsNat DEF SyncEnds, Goes
    <2>2. /\ ended' \in [Processes -> {"not yet", "well", "error"}]
          /\ ended'[p] = "error" /\ \A q \in Processes \ {p} : ended'[q] = ended[q]
      BY <1>2, <2>1
    <2>3. main'[p].pc = "stop" /\ main'[p].at = 1 => MainOK(p)'
      BY <2>2 DEF MainOK, StartOK, WatchOK, WaitOK, Finally, RunnersOf
    <2>4. /\ \A q \in Processes \ {p} :
                 /\ q \in dead' <=> q \in dead
                 /\ ended'[q] = ended[q]
                 /\ q \in gaveUp' <=> q \in gaveUp
                 /\ q \in unflushed' <=> q \in unflushed
                 /\ \A r \in RunnersOf(q) : saved'[r] = saved[r]
          /\ "stop" \in MainPcs /\ dead' \subseteq Processes
          /\ saved' \in [Runners -> RowStates]
      BY <1>1, <1>2, <1>3, <2>2
    <2> QED
      BY <1>1, <2>1, <2>2, <2>3, <2>4, MainMoves
  <1>6. CASE Here(p) \notin failed
    <2>0. NextRunner(p, "start", "watch") /\ UNCHANGED ended
      BY <1>6 DEF SyncEnds
    <2>1. CASE /\ main[p].at + 1 \in 1..LastRunner(p)
               /\ main' = [main EXCEPT ![p] = [pc |-> "start", at |-> main[p].at + 1]]
      <3>1. \A r \in RunnersOf(p) : r[2] >= main[p].at + 1 => job[r] = "new"
        <4>1. main[p].pc = "inside"
          BY DEF SyncEnds, At
        <4> QED
          BY <4>1, HereIs DEF RunnerInv, MainOK, StartOK
      <3>2. main'[p].pc = "start" /\ main'[p].at = main[p].at + 1 => MainOK(p)'
        BY <1>1, <3>1 DEF MainOK, StartOK, WatchOK, WaitOK, Finally, RunnersOf
      <3> QED
        BY <1>1, <1>2, <1>3, <2>0, <2>1, <3>2, MainMoves
    <2>2. CASE /\ 1 \in 1..LastRunner(p)
               /\ main' = [main EXCEPT ![p] = [pc |-> "watch", at |-> 1]]
      <3>1. main'[p].pc = "watch" /\ main'[p].at = 1 => MainOK(p)'
        BY <1>4 DEF MainOK, StartOK, WatchOK, WaitOK, Finally, RunnersOf
      <3> QED
        BY <1>1, <1>2, <1>3, <2>0, <2>2, <3>1, MainMoves
    <2> QED
      BY <2>0, <2>1, <2>2, NextIs
  <1> QED
    BY <1>5, <1>6

LEMMA WatchStep ==
    ASSUME RunnerInv, NEW p \in Processes, Watch(p)
    PROVE  RunnerInv'
  <1>1. UNCHANGED <<job, row, finished, ended, gaveUp, unflushed, saved>>
    BY DEF Watch, jobVars, beatVars
  <1>2. /\ dead \subseteq Processes /\ ended \in [Processes -> {"not yet", "well", "error"}]
        /\ saved \in [Runners -> RowStates]
    BY DEF RunnerInv, Types
  <1>3. dead' \subseteq Processes /\ \A q \in Processes \ {p} : q \in dead' <=> q \in dead
    BY <1>2 DEF Watch
  <1>4. /\ main' = [main EXCEPT ![p] = [pc |-> "flush", at |-> main[p].at]]
        /\ main[p].at \in 1..LastRunner(p) /\ "flush" \in MainPcs
    BY HereIs DEF Watch, Goes, MainPcs, Tries
  <1>5. p \in dead' => \A r \in RunnersOf(p) : r[2] <= main[p].at => ~Alive(r)
    <2>1. main[p].pc = "watch"
      BY DEF Watch, At
    <2>2. p \in dead => \A r \in RunnersOf(p) : r[2] < main[p].at => ~Alive(r)
      BY <2>1 DEF RunnerInv, MainOK, WatchOK
    <2>3. p \in dead' => ~Alive(Here(p)) /\ (p \in dead \/ main[p].at = 1)
      BY DEF Watch
    <2>4. \A r \in RunnersOf(p) : r[2] \in Nat /\ r[2] >= 1
      BY RunnerOf, LastIsNat
    <2> QED
      BY <2>2, <2>3, <2>4, HereIs
  <1>6. main'[p].pc = "flush" /\ main'[p].at = main[p].at => MainOK(p)'
    <2>1. \A r \in RunnersOf(p) : Alive(r)' => Alive(r)
      BY <1>1 DEF Alive, Sync, NameOf
    <2> QED
      BY <1>5, <2>1 DEF MainOK, StartOK, WatchOK, WaitOK, Finally, RunnersOf
  <1> QED
    BY <1>1, <1>2, <1>3, <1>4, <1>6, MainMoves

LEMMA SavedBy ==
    ASSUME RunnerInv, NEW p \in Processes, Flushed(p) \/ UNCHANGED saved
    PROVE  /\ saved' \in [Runners -> RowStates]
           /\ \A q \in Processes \ {p} : \A r \in RunnersOf(q) : saved'[r] = saved[r]
           /\ Flushed(p) => \A r \in RunnersOf(p) : saved'[r] = row[r]
  BY DEF RunnerInv, Types, Flushed, RunnersOf

LEMMA FlushStep ==
    ASSUME RunnerInv, NEW p \in Processes, Flush(p)
    PROVE  RunnerInv'
  <1>1. UNCHANGED <<job, row, finished, dead, ended, gaveUp, unflushed>>
    BY DEF Flush, jobVars, beatVars
  <1>2. dead \subseteq Processes /\ ended \in [Processes -> {"not yet", "well", "error"}]
    BY DEF RunnerInv, Types
  <1>3. /\ saved' \in [Runners -> RowStates]
        /\ \A q \in Processes \ {p} : \A r \in RunnersOf(q) : saved'[r] = saved[r]
    BY SavedBy DEF Flush
  <1>4. /\ main[p].pc = "flush"
        /\ p \in dead => \A r \in RunnersOf(p) : r[2] <= main[p].at => ~Alive(r)
    BY DEF RunnerInv, MainOK, WatchOK, Flush, At
  <1>5. \A r \in RunnersOf(p) :
            r[2] \in 1..LastRunner(p) /\ LastRunner(p) \in Nat /\ (Alive(r)' => Alive(r))
    BY <1>1, RunnerOf, LastIsNat DEF Alive, Sync, NameOf
  <1>6. "watch" \in MainPcs /\ "stop" \in MainPcs /\ 1 \in 1..LastRunner(p)
    BY AtIsNat DEF MainPcs, Tries, Finally
  <1>7. CASE /\ main[p].at < LastRunner(p)
             /\ main' = [main EXCEPT ![p] = [pc |-> "watch", at |-> main[p].at + 1]]
    <2>1. main[p].at + 1 \in 1..LastRunner(p)
      BY <1>7, HereIs, LastIsNat
    <2>2. p \in dead => \A r \in RunnersOf(p) : r[2] < main[p].at + 1 => ~Alive(r)
      BY <1>4, HereIs
    <2>3. main'[p].pc = "watch" /\ main'[p].at = main[p].at + 1 => MainOK(p)'
      BY <1>1, <1>5, <2>2 DEF MainOK, StartOK, WatchOK, WaitOK, Finally, RunnersOf
    <2> QED
      BY <1>1, <1>2, <1>3, <1>6, <1>7, <2>1, <2>3, MainMoves
  <1>8. CASE /\ main[p].at >= LastRunner(p)
             /\ p \in dead
             /\ main' = [main EXCEPT ![p] = [pc |-> "stop", at |-> 1]]
    <2>1. \A r \in RunnersOf(p) : ~Alive(r)
      BY <1>4, <1>5, <1>8, HereIs
    <2>2. main'[p].pc = "stop" /\ main'[p].at = 1 => MainOK(p)'
      BY <1>1, <1>5, <2>1 DEF MainOK, StartOK, WatchOK, WaitOK, Finally, RunnersOf
    <2> QED
      BY <1>1, <1>2, <1>3, <1>6, <1>8, <2>2, MainMoves
  <1>9. CASE main' = [main EXCEPT ![p] = [pc |-> "watch", at |-> 1]]
    <2>1. \A r \in RunnersOf(p) : ~(r[2] < 1)
      BY <1>5
    <2>2. main'[p].pc = "watch" /\ main'[p].at = 1 => MainOK(p)'
      BY <1>1, <1>5, <2>1 DEF MainOK, StartOK, WatchOK, WaitOK, Finally, RunnersOf
    <2> QED
      BY <1>1, <1>2, <1>3, <1>6, <1>9, <2>2, MainMoves
  <1> QED
    BY <1>7, <1>8, <1>9, HereIs, LastIsNat DEF Flush, Goes

(* What the finally clause knows: the command failed or no job is alive. *)
LEMMA InFinally ==
    ASSUME RunnerInv, NEW p \in Processes, main[p].pc \in Finally, UNCHANGED job,
           ended'[p] = ended[p] \/ (ended[p] = "not yet" /\ ended'[p] = "well")
    PROVE  ended'[p] # "error" => \A r \in RunnersOf(p) : ~Alive(r) /\ ~Alive(r)'
  <1>1. ended[p] # "error" => \A r \in RunnersOf(p) : ~Alive(r)
    BY DEF RunnerInv, MainOK, WatchOK
  <1>2. \A r \in RunnersOf(p) : Alive(r)' => Alive(r)
    BY DEF Alive, Sync, NameOf
  <1> QED
    BY <1>1, <1>2

(* The steps of the finally clause before its end leave the watch's and    *)
(* the start's part of the invariant with nothing more to show.            *)
LEMMA FinallyOK ==
    ASSUME RunnerInv, NEW p \in Processes, NEW pc \in Finally \cup {"exited"}, NEW i,
           main[p].pc \in Finally, UNCHANGED job,
           main'[p].pc = pc, main'[p].at = i,
           ended'[p] = ended[p] \/ (ended[p] = "not yet" /\ ended'[p] = "well"),
           WaitOK(p)'
    PROVE  MainOK(p)'
  <1>1. pc \notin {"start", "inside", "watch", "flush"}
    BY DEF Finally
  <1>2. ended'[p] # "error" => \A r \in RunnersOf(p) : ~Alive(r)'
    BY InFinally
  <1>3. StartOK(p)'
    BY <1>1 DEF StartOK
  <1>4. WatchOK(p)'
    BY <1>1, <1>2 DEF WatchOK, RunnersOf
  <1> QED
    BY <1>3, <1>4 DEF MainOK

LEMMA StopStep ==
    ASSUME RunnerInv, NEW p \in Processes, Stop(p)
    PROVE  RunnerInv'
  <1>1. UNCHANGED <<job, row, finished, dead, ended, gaveUp, unflushed, saved>>
    BY DEF Stop, jobVars, beatVars
  <1>2. /\ dead \subseteq Processes /\ ended \in [Processes -> {"not yet", "well", "error"}]
        /\ saved \in [Runners -> RowStates]
    BY DEF RunnerInv, Types
  <1>3. /\ main[p].pc \in Finally /\ "join" \in Finally /\ "join" \in MainPcs
        /\ main' = [main EXCEPT ![p] = [pc |-> "join", at |-> main[p].at]]
        /\ main[p].at \in 1..LastRunner(p)
    BY HereIs DEF Stop, At, Goes, Finally, MainPcs
  <1>4. main'[p].pc = "join" /\ main'[p].at = main[p].at => MainOK(p)'
    <2>1. main'[p].pc = "join" /\ main'[p].at = main[p].at => WaitOK(p)'
      BY DEF WaitOK
    <2> QED
      BY <1>1, <1>3, <2>1, FinallyOK
  <1> QED
    BY <1>1, <1>2, <1>3, <1>4, MainMoves

(* A wait that was well leaves its runner over. *)
LEMMA JoinStep ==
    ASSUME RunnerInv, NEW p \in Processes, Join(p)
    PROVE  RunnerInv'
  <1>1. UNCHANGED <<job, row, finished, dead, ended, unflushed, saved>>
    BY DEF Join, jobVars, beatVars
  <1>2. /\ dead \subseteq Processes /\ ended \in [Processes -> {"not yet", "well", "error"}]
        /\ saved \in [Runners -> RowStates]
    BY DEF RunnerInv, Types
  <1>3. \A q \in Processes \ {p} : q \in gaveUp' <=> q \in gaveUp
    BY DEF Join, Waited
  <1>4. main[p].pc \in Finally /\ {"stop", "wait"} \subseteq Finally
        /\ {"stop", "wait"} \subseteq MainPcs
    BY DEF Join, At, Finally, MainPcs
  <1>5. CASE /\ main[p].at + 1 \in 1..LastRunner(p)
             /\ main' = [main EXCEPT ![p] = [pc |-> "stop", at |-> main[p].at + 1]]
    <2>1. main'[p].pc = "stop" /\ main'[p].at = main[p].at + 1 => MainOK(p)'
      <3>1. main'[p].pc = "stop" => WaitOK(p)'
        BY DEF WaitOK
      <3> QED
        BY <1>1, <1>4, <3>1, FinallyOK
    <2> QED
      BY <1>1, <1>2, <1>3, <1>4, <1>5, <2>1, MainMoves
  <1>6. CASE /\ 1 \in 1..LastRunner(p)
             /\ main' = [main EXCEPT ![p] = [pc |-> "wait", at |-> 1]]
    <2>1. main'[p].pc = "wait" /\ main'[p].at = 1 => MainOK(p)'
      <3>1. \A r \in RunnersOf(p) : ~(r[2] < 1)
        BY RunnerOf, LastIsNat
      <3>2. main'[p].pc = "wait" /\ main'[p].at = 1 => WaitOK(p)'
        BY <3>1 DEF WaitOK, RunnersOf
      <3> QED
        BY <1>1, <1>4, <3>2, FinallyOK
    <2> QED
      BY <1>1, <1>2, <1>3, <1>4, <1>6, <2>1, MainMoves
  <1> QED
    BY <1>5, <1>6, NextIs DEF Join

LEMMA WaitFinishedStep ==
    ASSUME RunnerInv, NEW p \in Processes, WaitFinished(p)
    PROVE  RunnerInv'
  <1>1. UNCHANGED <<job, row, finished, dead, ended, unflushed, saved>>
    BY DEF WaitFinished, jobVars, beatVars
  <1>2. /\ dead \subseteq Processes /\ ended \in [Processes -> {"not yet", "well", "error"}]
        /\ saved \in [Runners -> RowStates]
    BY DEF RunnerInv, Types
  <1>3. \A q \in Processes \ {p} : q \in gaveUp' <=> q \in gaveUp
    BY DEF WaitFinished, Waited
  <1>4. main[p].pc \in Finally /\ {"wait", "lastflush"} \subseteq Finally
        /\ {"wait", "lastflush"} \subseteq MainPcs
    BY DEF WaitFinished, At, Finally, MainPcs
  <1>5. p \notin gaveUp' => \A r \in RunnersOf(p) : r[2] <= main[p].at => Over(r)'
    <2>1. p \notin gaveUp' =>
              p \notin gaveUp /\ (Here(p) \in finished \/ job[Here(p)] = "new")
      BY DEF WaitFinished, Waited
    <2>2. p \notin gaveUp' => Over(Here(p))
      BY <2>1 DEF RunnerInv, RecordInv, Over
    <2>3. p \notin gaveUp' => \A r \in RunnersOf(p) : r[2] < main[p].at => Over(r)
      BY <2>1 DEF RunnerInv, MainOK, WaitOK, WaitFinished, At
    <2> QED
      BY <1>1, <2>2, <2>3, HereIs DEF Over
  <1>6. CASE /\ main[p].at + 1 \in 1..LastRunner(p)
             /\ main' = [main EXCEPT ![p] = [pc |-> "wait", at |-> main[p].at + 1]]
    <2>1. p \notin gaveUp' => \A r \in RunnersOf(p) : r[2] < main[p].at + 1 => Over(r)'
      BY <1>5, HereIs
    <2>2. main'[p].pc = "wait" /\ main'[p].at = main[p].at + 1 => MainOK(p)'
      <3>1. main'[p].pc = "wait" /\ main'[p].at = main[p].at + 1 => WaitOK(p)'
        BY <2>1 DEF WaitOK, RunnersOf
      <3> QED
        BY <1>1, <1>4, <3>1, FinallyOK
    <2> QED
      BY <1>1, <1>2, <1>3, <1>4, <1>6, <2>2, MainMoves
  <1>7. CASE /\ \A r \in RunnersOf(p) : r[2] <= main[p].at
             /\ 1 \in 1..LastRunner(p)
             /\ main' = [main EXCEPT ![p] = [pc |-> "lastflush", at |-> 1]]
    <2>1. p \notin gaveUp' => \A r \in RunnersOf(p) : Over(r)'
      BY <1>5, <1>7
    <2>2. main'[p].pc = "lastflush" /\ main'[p].at = 1 => MainOK(p)'
      <3>1. main'[p].pc = "lastflush" /\ main'[p].at = 1 => WaitOK(p)'
        BY <2>1 DEF WaitOK, RunnersOf
      <3> QED
        BY <1>1, <1>4, <3>1, FinallyOK
    <2> QED
      BY <1>1, <1>2, <1>3, <1>4, <1>7, <2>2, MainMoves
  <1> QED
    BY <1>6, <1>7, NextIs DEF WaitFinished

(* The last flush finds the end of every job in its row. *)
LEMMA LastFlushStep ==
    ASSUME RunnerInv, NEW p \in Processes, LastFlush(p)
    PROVE  RunnerInv'
  <1>1. UNCHANGED <<job, row, finished, dead, ended, gaveUp>>
    BY DEF LastFlush, jobVars, beatVars
  <1>2. dead \subseteq Processes /\ ended \in [Processes -> {"not yet", "well", "error"}]
    BY DEF RunnerInv, Types
  <1>3. \A q \in Processes \ {p} : q \in unflushed' <=> q \in unflushed
    BY DEF LastFlush
  <1>4. /\ saved' \in [Runners -> RowStates]
        /\ \A q \in Processes \ {p} : \A r \in RunnersOf(q) : saved'[r] = saved[r]
        /\ p \notin unflushed' => \A r \in RunnersOf(p) : saved'[r] = row[r]
    BY SavedBy DEF LastFlush
  <1>5. /\ main[p].pc = "lastflush" /\ "lastflush" \in Finally
        /\ "shutdown" \in Finally /\ "shutdown" \in MainPcs
        /\ main' = [main EXCEPT ![p] = [pc |-> "shutdown", at |-> 1]]
        /\ 1 \in 1..LastRunner(p)
    BY AtIsNat DEF LastFlush, At, Goes, Finally, MainPcs
  <1>6. p \notin gaveUp =>
            \A r \in RunnersOf(p) : Over(r)' /\ (job[r] # "new" => row[r] = "ended")
    <2>1. p \notin gaveUp => \A r \in RunnersOf(p) : r \in Runners /\ Over(r)
      BY <1>5, HereIs DEF RunnerInv, MainOK, WaitOK
    <2> QED
      BY <1>1, <2>1 DEF RunnerInv, RecordInv, Over
  <1>7. main'[p].pc = "shutdown" /\ main'[p].at = 1 => MainOK(p)'
    <2>1. main'[p].pc = "shutdown" /\ main'[p].at = 1 => WaitOK(p)'
      BY <1>1, <1>4, <1>6 DEF WaitOK, RunnersOf
    <2> QED
      BY <1>1, <1>5, <2>1, FinallyOK
  <1> QED
    BY <1>1, <1>2, <1>3, <1>4, <1>5, <1>7, MainMoves

LEMMA ShutdownStep ==
    ASSUME RunnerInv, NEW p \in Processes, Shutdown(p)
    PROVE  RunnerInv'
  <1>1. UNCHANGED <<job, row, finished, dead, gaveUp, unflushed, saved>>
    BY DEF Shutdown, jobVars, beatVars
  <1>2. /\ dead \subseteq Processes /\ saved \in [Runners -> RowStates]
    BY DEF RunnerInv, Types
  <1>3. /\ ended' \in [Processes -> {"not yet", "well", "error"}]
        /\ \A q \in Processes \ {p} : ended'[q] = ended[q]
        /\ ended'[p] = ended[p] \/ (ended[p] = "not yet" /\ ended'[p] = "well")
    BY DEF RunnerInv, Types, Shutdown
  <1>4. /\ main[p].pc = "shutdown" /\ "shutdown" \in Finally /\ "exited" \in MainPcs
        /\ main' = [main EXCEPT ![p] = [pc |-> "exited", at |-> 1]]
        /\ 1 \in 1..LastRunner(p)
    BY AtIsNat DEF Shutdown, At, Goes, Finally, MainPcs
  <1>5. main'[p].pc = "exited" /\ main'[p].at = 1 => MainOK(p)'
    <2>1. main'[p].pc = "exited" /\ main'[p].at = 1 => WaitOK(p)'
      BY <1>1, <1>4 DEF RunnerInv, MainOK, WaitOK, Over, RunnersOf
    <2> QED
      BY <1>1, <1>3, <1>4, <2>1, FinallyOK
  <1> QED
    BY <1>1, <1>2, <1>3, <1>4, <1>5, MainMoves

LEMMA InterruptStep ==
    ASSUME RunnerInv, NEW p \in Processes, InterruptTry(p) \/ InterruptFinally(p)
    PROVE  RunnerInv'
  <1>1. UNCHANGED <<job, row, finished, dead, gaveUp, unflushed, saved>>
    BY DEF InterruptTry, InterruptFinally, jobVars, beatVars
  <1>2. /\ dead \subseteq Processes /\ saved \in [Runners -> RowStates]
    BY DEF RunnerInv, Types
  <1>3. /\ ended' \in [Processes -> {"not yet", "well", "error"}]
        /\ ended'[p] = "error" /\ \A q \in Processes \ {p} : ended'[q] = ended[q]
    BY DEF RunnerInv, Types, InterruptTry, InterruptFinally, Interrupted
  <1>4. PICK pc \in {"stop", "escaped"} : main' = [main EXCEPT ![p] = [pc |-> pc, at |-> 1]]
    BY DEF InterruptTry, InterruptFinally, Goes
  <1>5. pc \in MainPcs /\ 1 \in 1..LastRunner(p)
    BY AtIsNat DEF MainPcs, Finally
  <1>6. main'[p].pc = pc /\ main'[p].at = 1 => MainOK(p)'
    BY <1>3 DEF MainOK, StartOK, WatchOK, WaitOK
  <1> QED
    BY <1>1, <1>2, <1>3, <1>4, <1>5, <1>6, MainMoves

LEMMA InterruptInsideStep ==
    ASSUME RunnerInv, NEW p \in Processes, InterruptInside(p)
    PROVE  RunnerInv'
  <1>1. /\ Here(p) \in Runners
        /\ job[Here(p)] \notin {"new", "finished"}
        /\ job' = [job EXCEPT ![Here(p)] = "returned"]
        /\ "returned" \in Stages
    BY HereIs DEF InterruptInside, Stage, Stages
  <1>2. row' = [row EXCEPT ![Here(p)] = row[Here(p)]] /\ row[Here(p)] \in RowStates
    BY <1>1 DEF InterruptInside, beatVars, RunnerInv, Types
  <1>3. UNCHANGED <<main, dead, gaveUp, unflushed, saved, finished>>
    BY DEF InterruptInside
  <1>4. /\ ended' \in [Processes -> {"not yet", "well", "error"}]
        /\ \A q \in Processes : ended'[q] = ended[q] \/ ended'[q] = "error"
    BY DEF RunnerInv, Types, InterruptInside, Interrupted
  <1> QED
    BY <1>1, <1>2, <1>3, <1>4, JobChange

-----------------------------------------------------------------------------
LEMMA RunnerInvStep == RunnerInv /\ [RunnerNext]_runnerVars => RunnerInv'
  <1> SUFFICES ASSUME RunnerInv, [RunnerNext]_runnerVars PROVE RunnerInv'
    OBVIOUS
  <1>1. ASSUME NEW r \in Runners, JobStep(r)
        PROVE  RunnerInv'
    BY <1>1, JobSteps
  <1>2. ASSUME NEW r \in Runners, NEW raises \in BOOLEAN, FunctionEnds(r, raises)
        PROVE  RunnerInv'
    BY <1>2, JobSteps
  <1>3. ASSUME NEW p \in Processes, MainStep(p)
        PROVE  RunnerInv'
    BY <1>3, StartSteps, SyncEndsStep, WatchStep, FlushStep, StopStep, JoinStep, WaitFinishedStep,
       LastFlushStep, ShutdownStep, InterruptStep, InterruptInsideStep
       DEF MainStep, MainProgress
  <1>4. CASE UNCHANGED runnerVars
    BY <1>4 DEF runnerVars, mainVars, jobVars, beatVars, RunnerInv, Types, RecordInv, MainOK,
       StartOK, WatchOK, WaitOK, Over, Alive, Sync, NameOf, LastRunner, RunnersOf
  <1> QED
    BY <1>1, <1>2, <1>3, <1>4 DEF RunnerNext

LEMMA RunnerInvCorrect == RunnerSpec => []RunnerInv
  BY RunnerInitInv, RunnerInvStep, PTL DEF RunnerSpec

(* A command whose watch loop ended by itself left no job's thread alive,  *)
(* whichever jobs the process runs and however many.                       *)
THEOREM WatchSeesAllCorrect == RunnerSpec => []WatchSeesAll
  <1>1. RunnerInv => WatchSeesAll
    BY DEF RunnerInv, MainOK, WatchOK, WatchSeesAll
  <1> QED
    BY <1>1, RunnerInvCorrect, PTL

(* The job_state table has the end of every job that a command started,    *)
(* unless the command gave a wait up or its last flush failed.             *)
THEOREM EndsAreSavedCorrect == RunnerSpec => []EndsAreSaved
  <1>1. RunnerInv => EndsAreSaved
    BY DEF RunnerInv, MainOK, WaitOK, EndsAreSaved
  <1> QED
    BY <1>1, RunnerInvCorrect, PTL

-----------------------------------------------------------------------------
(* The rest of RunnerTypeOK.  The dict of heartbeats has each job once, at *)
(* its first heartbeat, and a job that executes has had one.               *)
BeatInv ==
    /\ beats \in [Processes -> Seq(Runners)]
    /\ \A p \in Processes :
           /\ \A i, j \in DOMAIN beats[p] : beats[p][i] = beats[p][j] => i = j
           /\ Range(beats[p]) = {r \in RunnersOf(p) : row[r] # "none"}
    /\ fresh \subseteq {r \in Runners : row[r] # "none"}
    /\ \A r \in Runners : job[r] = "executing" => row[r] # "none"

(* A list of compute_shard_index has the job that asked for it, and else   *)
(* jobs of its name and its process that had a heartbeat.                  *)
Listed(x, r) ==
    row[x] # "none" /\ Process(x) = Process(r) /\ NameOf(x) = NameOf(r)

ShareInv ==
    /\ share \in [Runners -> [jobs : SUBSET Runners, sorted : BOOLEAN]]
    /\ \A r \in Runners :
           /\ \A x \in share[r].jobs : Listed(x, r)
           /\ share[r] = NoList \/ r \in share[r].jobs

(* Only a lightweight job runs on the main thread and can have raised. *)
SyncInv ==
    /\ \A p \in Processes : At(p, "inside") => Sync(Here(p))
    /\ failed \subseteq {r \in Runners : Sync(r)}

CountInv ==
    /\ stopping \subseteq Runners
    /\ pool \in [Processes -> {"none", "up", "down"}]
    /\ interrupts \in [Processes -> Nat]
    /\ \A p \in Processes : interrupts[p] <= MaxInterrupts[p]
    /\ gaveUp \subseteq Processes
    /\ unflushed \subseteq Processes

RunnerFullInv == RunnerInv /\ BeatInv /\ ShareInv /\ SyncInv /\ CountInv

LEMMA FullInitInv == RunnerInit => RunnerFullInv
  <1> SUFFICES ASSUME RunnerInit PROVE RunnerFullInv
    OBVIOUS
  <1>0. PICK launched \in Launches :
             main = [p \in Processes |->
                        [pc |-> IF p \in launched THEN "start" ELSE "absent", at |-> 1]]
    BY DEF RunnerInit
  <1>1. \A p \in Processes : main[p].pc \in {"start", "absent"}
    BY <1>0
  <1>2. BeatInv
    <2>1. beats = [p \in Processes |-> <<>>] /\ row = [r \in Runners |-> "none"]
          /\ fresh = {} /\ job = [r \in Runners |-> "new"]
      BY DEF RunnerInit
    <2>2. <<>> \in Seq(Runners) /\ DOMAIN <<>> = {}
      OBVIOUS
    <2>3. \A p \in Processes : Range(beats[p]) = {}
      BY <2>1, <2>2 DEF Range
    <2> QED
      BY <2>1, <2>2, <2>3 DEF BeatInv, RunnersOf
  <1>3. SyncInv
    BY <1>1 DEF SyncInv, At, RunnerInit
  <1>4. CountInv
    <2>1. interrupts = [p \in Processes |-> 0] /\ \A p \in Processes : MaxInterrupts[p] \in Nat
      BY RunnerAssumption DEF RunnerInit
    <2>2. \A p \in Processes : interrupts[p] <= MaxInterrupts[p]
      BY <2>1
    <2>3. interrupts \in [Processes -> Nat]
      BY <2>1
    <2>4. pool \in [Processes -> {"none", "up", "down"}]
      BY DEF RunnerInit
    <2> QED
      BY <2>2, <2>3, <2>4 DEF CountInv, RunnerInit
  <1>5. ShareInv
    BY DEF ShareInv, NoList, RunnerInit
  <1> QED
    BY <1>2, <1>3, <1>4, <1>5, RunnerInitInv DEF RunnerFullInv

(* A sequence without repetitions gets an element that it does not have. *)
LEMMA AppendOnce ==
    ASSUME NEW S, NEW q \in Seq(S), NEW x \in S, x \notin Range(q),
           \A i, j \in DOMAIN q : q[i] = q[j] => i = j
    PROVE  /\ Append(q, x) \in Seq(S)
           /\ \A i, j \in DOMAIN Append(q, x) : Append(q, x)[i] = Append(q, x)[j] => i = j
           /\ Range(Append(q, x)) = Range(q) \cup {x}
  <1>1. /\ Len(q) \in Nat /\ DOMAIN q = 1..Len(q)
        /\ Append(q, x) \in Seq(S)
        /\ DOMAIN Append(q, x) = 1..(Len(q) + 1)
        /\ \A i \in 1..Len(q) : Append(q, x)[i] = q[i]
        /\ Append(q, x)[Len(q) + 1] = x
    OBVIOUS
  <1>2. 1..(Len(q) + 1) = 1..Len(q) \cup {Len(q) + 1}
    BY <1>1
  <1>3. \A i \in 1..Len(q) : q[i] # x
    BY <1>1 DEF Range
  <1>4. \A i, j \in DOMAIN Append(q, x) : Append(q, x)[i] = Append(q, x)[j] => i = j
    BY <1>1, <1>2, <1>3
  <1>5. Range(Append(q, x)) = Range(q) \cup {x}
    BY <1>1, <1>2 DEF Range
  <1> QED
    BY <1>1, <1>4, <1>5

(* A heartbeat keeps the dict in order. *)
LEMMA BeatKeeps ==
    ASSUME Types, BeatInv, NEW r \in Runners, NEW x \in RowStates,
           Beat(r, x), x # "none",
           \A q \in Runners : q # r => job'[q] = job[q]
    PROVE  BeatInv'
  <1> DEFINE p == Process(r)
  <1>1. p \in Processes /\ r \in RunnersOf(p)
    BY ItsProcess
  <1>2. row' = [row EXCEPT ![r] = x] /\ row \in [Runners -> RowStates]
    BY DEF Beat, Types
  <1>3. /\ \A q \in Runners : job'[q] = "executing" => row'[q] # "none"
        /\ fresh' \subseteq {q \in Runners : row'[q] # "none"}
    BY <1>2 DEF BeatInv, Beat
  <1>4. CASE row[r] = "none"
    <2>1. beats' = [beats EXCEPT ![p] = Append(beats[p], r)]
      BY <1>4 DEF Beat
    <2>2. r \notin Range(beats[p])
      BY <1>1, <1>4 DEF BeatInv
    <2>3. /\ beats[p] \in Seq(Runners)
          /\ \A i, j \in DOMAIN beats[p] : beats[p][i] = beats[p][j] => i = j
          /\ Range(beats[p]) = {q \in RunnersOf(p) : row[q] # "none"}
      BY <1>1 DEF BeatInv
    <2> DEFINE b == beats[p]
               c == Append(b, r)
    <2>4. /\ c \in Seq(Runners)
          /\ \A i, j \in DOMAIN c : c[i] = c[j] => i = j
          /\ Range(c) = Range(b) \cup {r}
      <3> HIDE DEF b
      <3> QED
        BY <2>2, <2>3, AppendOnce DEF b
    <2>5. beats'[p] = c /\ \A q \in Processes \ {p} : beats'[q] = beats[q]
      BY <1>1, <2>1 DEF BeatInv
    <2>6. Range(c) = {q \in RunnersOf(p) : row'[q] # "none"}
      BY <1>1, <1>2, <2>3, <2>4 DEF RunnersOf
    <2>7. \A q \in Processes \ {p} :
              {s \in RunnersOf(q) : row'[s] # "none"} = {s \in RunnersOf(q) : row[s] # "none"}
      BY <1>2 DEF RunnersOf
    <2>8. beats' \in [Processes -> Seq(Runners)]
      BY <1>1, <2>1, <2>4 DEF BeatInv
    <2> HIDE DEF c
    <2>9. \A q \in Processes :
              /\ \A i, j \in DOMAIN beats'[q] : beats'[q][i] = beats'[q][j] => i = j
              /\ Range(beats'[q]) = {s \in RunnersOf(q) : row'[s] # "none"}
      BY <2>4, <2>5, <2>6, <2>7 DEF BeatInv
    <2> QED
      BY <1>3, <2>8, <2>9 DEF BeatInv, RunnersOf
  <1>5. CASE row[r] # "none"
    <2>1. beats' = beats
      BY <1>5 DEF Beat
    <2>2. \A q \in Processes :
              {s \in RunnersOf(q) : row'[s] # "none"} = {s \in RunnersOf(q) : row[s] # "none"}
      BY <1>2, <1>5 DEF RunnersOf
    <2> QED
      BY <1>3, <2>1, <2>2 DEF BeatInv, RunnersOf
  <1> QED
    BY <1>4, <1>5

LEMMA BeatInvStep ==
    ASSUME RunnerFullInv, [RunnerNext]_runnerVars
    PROVE  BeatInv'
  <1> USE DEF RunnerFullInv
  <1>1. ASSUME beats' = beats, row' = row, fresh' \subseteq fresh,
               \A q \in Runners : job'[q] = "executing" => job[q] = "executing"
        PROVE  BeatInv'
    BY <1>1 DEF BeatInv, RunnersOf
  <1>2. Types
    BY DEF RunnerInv
  <1>3. ASSUME NEW r \in Runners, JobStep(r)
        PROVE  BeatInv'
    <2>1. CASE Prepare(r)
      BY <1>2, <2>1, BeatKeeps DEF Prepare, Stage, Types, RowStates
    <2>2. CASE RecordEnd(r)
      BY <1>2, <2>2, BeatKeeps DEF RecordEnd, Stage, Types, RowStates
    <2>3. CASE Iterate(r)
      BY <1>2, <2>3, BeatKeeps DEF Iterate, jobVars, Types, BeatInv
    <2>4. CASE ComputeShard(r)
      <3>1. job' = job /\ row[r] # "none" /\ row[r] \in RowStates
        BY <1>2, <2>4 DEF ComputeShard, jobVars, Types
      <3>2. CASE Beat(r, row[r])
        BY <1>1, <1>2, <3>1, <3>2, BeatKeeps
      <3>3. CASE UNCHANGED <<row, beats, fresh>>
        BY <1>1, <3>1, <3>3 DEF BeatInv
      <3> QED
        BY <2>4, <3>2, <3>3 DEF ComputeShard
    <2>5. CASE LoopEnds(r) \/ GetsStuck(r) \/ Finish(r) \/ Expire(r)
      BY <1>1, <1>2, <2>5
         DEF LoopEnds, GetsStuck, Finish, Expire, Stage, beatVars, jobVars, Types
    <2> QED
      BY <1>3, <2>1, <2>2, <2>3, <2>4, <2>5 DEF JobStep, JobProgress
  <1>4. ASSUME NEW r \in Runners, NEW raises \in BOOLEAN, FunctionEnds(r, raises)
        PROVE  BeatInv'
    BY <1>1, <1>2, <1>4 DEF FunctionEnds, Stage, beatVars, Types
  <1>5. ASSUME NEW p \in Processes, MainStep(p)
        PROVE  BeatInv'
    <2>1. UNCHANGED beatVars
      BY <1>5 DEF MainStep, MainProgress, StartAsync, StartSync, SyncEnds, Watch, Flush, Stop,
         Join, WaitFinished, LastFlush, Shutdown, InterruptTry, InterruptInside, InterruptFinally
    <2>2. \A q \in Runners : job'[q] = "executing" => job[q] = "executing"
      <3>1. job \in [Runners -> Stages]
        BY <1>2 DEF Types
      <3>2. \/ job' = job
            \/ \E s \in {"starting", "returned"} : job' = [job EXCEPT ![Here(p)] = s]
        BY <1>5 DEF MainStep, MainProgress, StartAsync, StartSync, SyncEnds, Watch, Flush, Stop,
           Join, WaitFinished, LastFlush, Shutdown, InterruptTry, InterruptInside,
           InterruptFinally, Stage, jobVars
      <3> QED
        BY <3>1, <3>2
    <2> QED
      BY <1>1, <2>1, <2>2 DEF beatVars
  <1>6. CASE UNCHANGED runnerVars
    BY <1>1, <1>6 DEF runnerVars, beatVars, jobVars
  <1> QED
    BY <1>3, <1>4, <1>5, <1>6 DEF RunnerNext

(* Only ComputeShard makes a list, and a row that there is stays.          *)
LEMMA ShareInvStep ==
    ASSUME RunnerFullInv, [RunnerNext]_runnerVars
    PROVE  ShareInv'
  <1>1. BeatInv /\ ShareInv /\ Types
    BY DEF RunnerFullInv, RunnerInv
  <1>2. ASSUME UNCHANGED share, \A x \in Runners : row[x] # "none" => row'[x] # "none"
        PROVE  ShareInv'
    BY <1>1, <1>2 DEF ShareInv, Listed, NameOf
  <1>3. ASSUME NEW r \in Runners, ComputeShard(r)
        PROVE  ShareInv'
    <2>1. row' = row
      BY <1>1, <1>3 DEF ComputeShard, Beat, Types
    <2>2. ActiveJobs(r) \subseteq Runners /\ \A x \in ActiveJobs(r) : Listed(x, r)
      BY <1>1 DEF ActiveJobs, Listed, BeatInv
    <2>3. Listed(r, r)
      BY <1>3 DEF ComputeShard, Listed
    <2>4. \/ ShardList(r) = NoList
          \/ ShardList(r) = [jobs |-> ActiveJobs(r) \cup {r}, sorted |-> r \notin fresh]
      BY DEF ShardList
    <2>5. /\ ShardList(r) \in [jobs : SUBSET Runners, sorted : BOOLEAN]
          /\ \A x \in ShardList(r).jobs : Listed(x, r)
          /\ ShardList(r) = NoList \/ r \in ShardList(r).jobs
      <3>1. CASE ShardList(r) = NoList
        BY <3>1 DEF NoList
      <3>2. CASE ShardList(r) = [jobs |-> ActiveJobs(r) \cup {r}, sorted |-> r \notin fresh]
        <4>1. ActiveJobs(r) \cup {r} \in SUBSET Runners /\ (r \notin fresh) \in BOOLEAN
          BY <2>2
        <4>2. \A x \in ActiveJobs(r) \cup {r} : Listed(x, r)
          BY <2>2, <2>3
        <4> HIDE DEF ShardList, ActiveJobs, Listed
        <4> QED
          BY <3>2, <4>1, <4>2
      <3> QED
        BY <2>4, <3>1, <3>2
    <2>6. share' = [share EXCEPT ![r] = ShardList(r)]
      BY <1>3 DEF ComputeShard
    <2> HIDE DEF ShardList
    <2> QED
      BY <1>1, <2>1, <2>5, <2>6 DEF ShareInv, Listed, NameOf
  <1>4. ASSUME NEW r \in Runners, JobStep(r), ~ComputeShard(r)
        PROVE  ShareInv'
    <2>1. UNCHANGED share
      BY <1>4 DEF JobStep, JobProgress, Prepare, LoopEnds, RecordEnd, Finish, Iterate, GetsStuck,
         Expire, beatVars
    <2>2. \/ UNCHANGED row
          \/ \E x \in {row[r], "started", "ended"} : row' = [row EXCEPT ![r] = x]
      BY <1>4 DEF JobStep, JobProgress, Prepare, LoopEnds, RecordEnd, Finish, Iterate, GetsStuck,
         Expire, Beat, beatVars
    <2> QED
      BY <1>1, <1>2, <2>1, <2>2 DEF Types
  <1>5. ASSUME NEW r \in Runners, NEW raises \in BOOLEAN, FunctionEnds(r, raises)
        PROVE  ShareInv'
    BY <1>2, <1>5 DEF FunctionEnds, beatVars
  <1>6. ASSUME NEW p \in Processes, MainStep(p)
        PROVE  ShareInv'
    <2>1. UNCHANGED beatVars
      BY <1>6 DEF MainStep, MainProgress, StartAsync, StartSync, SyncEnds, Watch, Flush, Stop,
         Join, WaitFinished, LastFlush, Shutdown, InterruptTry, InterruptInside, InterruptFinally
    <2> QED
      BY <1>2, <2>1 DEF beatVars
  <1>7. CASE UNCHANGED runnerVars
    BY <1>2, <1>7 DEF runnerVars, beatVars
  <1> QED
    BY <1>3, <1>4, <1>5, <1>6, <1>7 DEF RunnerNext

(* The main thread enters a job in StartSync only. *)
LEMMA SyncInvStep ==
    ASSUME RunnerFullInv, [RunnerNext]_runnerVars
    PROVE  SyncInv'
  <1> USE DEF RunnerFullInv
  <1>1. main \in [Processes -> [pc : MainPcs, at : Nat]]
    BY DEF RunnerInv, Types
  <1>2. ASSUME NEW p \in Processes, NEW pc \in MainPcs, NEW i \in Nat, Goes(p, pc, i),
               pc = "inside" => Sync(<<p, i>>), failed' = failed
        PROVE  SyncInv'
    <2>1. \A q \in Processes \ {p} : main'[q] = main[q]
      BY <1>1, <1>2 DEF Goes
    <2>2. main'[p].pc = pc /\ main'[p].at = i
      BY <1>1, <1>2 DEF Goes
    <2> QED
      BY <1>2, <2>1, <2>2 DEF SyncInv, At, Here, Sync, NameOf
  <1>3. ASSUME UNCHANGED main, failed' \subseteq {r \in Runners : Sync(r)}
        PROVE  SyncInv'
    BY <1>3 DEF SyncInv, At, Here, Sync, NameOf
  <1>4. ASSUME NEW r \in Runners, JobStep(r)
        PROVE  SyncInv'
    BY <1>3, <1>4 DEF SyncInv, JobStep, JobProgress, Prepare, LoopEnds, RecordEnd, Finish, Iterate,
       GetsStuck, Expire, ComputeShard, mainVars, jobVars
  <1>5. ASSUME NEW r \in Runners, NEW raises \in BOOLEAN, FunctionEnds(r, raises)
        PROVE  SyncInv'
    BY <1>3, <1>5 DEF SyncInv, FunctionEnds, mainVars
  <1>6. ASSUME NEW p \in Processes, MainStep(p)
        PROVE  SyncInv'
    <2>1. main[p].at \in Nat /\ main[p].at + 1 \in Nat
      BY <1>1
    <2>2. CASE StartSync(p)
      <3>1. Goes(p, "inside", main[p].at) /\ Sync(<<p, main[p].at>>) /\ failed' = failed
        BY <2>2 DEF StartSync, Here
      <3> QED
        BY <1>2, <2>1, <3>1 DEF MainPcs, Tries
    <2>3. CASE InterruptInside(p)
      <3>1. Here(p) \in Runners /\ Sync(Here(p))
        BY <2>3, HereIs DEF InterruptInside, SyncInv
      <3> QED
        BY <1>3, <2>3, <3>1 DEF SyncInv, InterruptInside
    <2>4. CASE ~StartSync(p) /\ ~InterruptInside(p)
      <3>1. failed' = failed
        BY <1>6, <2>4 DEF MainStep, MainProgress, StartAsync, SyncEnds, Watch, Flush, Stop,
           Join, WaitFinished, LastFlush, Shutdown, InterruptTry, InterruptFinally, jobVars
      <3>2. \E pc \in MainPcs \ {"inside"} :
                Goes(p, pc, 1) \/ Goes(p, pc, main[p].at) \/ Goes(p, pc, main[p].at + 1)
        BY <1>6, <2>4 DEF MainStep, MainProgress, StartAsync, SyncEnds, Watch, Flush, Stop,
           Join, WaitFinished, LastFlush, Shutdown, InterruptTry, InterruptFinally, NextRunner,
           MainPcs, Tries, Finally
      <3> QED
        BY <1>2, <2>1, <3>1, <3>2
    <2> QED
      BY <2>2, <2>3, <2>4
  <1>7. CASE UNCHANGED runnerVars
    BY <1>3, <1>7 DEF SyncInv, runnerVars, mainVars, jobVars
  <1> QED
    BY <1>4, <1>5, <1>6, <1>7 DEF RunnerNext

LEMMA CountInvStep ==
    ASSUME RunnerFullInv, [RunnerNext]_runnerVars
    PROVE  CountInv'
  <1> USE DEF RunnerFullInv
  <1>1. ASSUME UNCHANGED <<stopping, pool, interrupts, gaveUp, unflushed>>
        PROVE  CountInv'
    BY <1>1 DEF CountInv
  <1>2. ASSUME NEW r \in Runners, JobStep(r)
        PROVE  CountInv'
    BY <1>1, <1>2 DEF JobStep, JobProgress, Prepare, LoopEnds, RecordEnd, Finish, Iterate,
       GetsStuck, Expire, ComputeShard, mainVars
  <1>3. ASSUME NEW r \in Runners, NEW raises \in BOOLEAN, FunctionEnds(r, raises)
        PROVE  CountInv'
    BY <1>1, <1>3 DEF FunctionEnds, mainVars
  <1>4. ASSUME NEW p \in Processes, MainStep(p)
        PROVE  CountInv'
    <2>1. CASE StartAsync(p) \/ StartSync(p) \/ SyncEnds(p) \/ Watch(p) \/ Flush(p)
      BY <1>1, <2>1 DEF StartAsync, StartSync, SyncEnds, Watch, Flush
    <2>2. CASE Stop(p)
      BY <2>2, HereIs DEF CountInv, Stop
    <2>3. CASE Join(p) \/ WaitFinished(p) \/ LastFlush(p)
      BY <2>3 DEF CountInv, Join, WaitFinished, LastFlush, Waited
    <2>4. CASE Shutdown(p)
      BY <2>4 DEF CountInv, Shutdown
    <2>5. CASE InterruptTry(p) \/ InterruptInside(p) \/ InterruptFinally(p)
      <3>1. /\ interrupts[p] < MaxInterrupts[p]
            /\ interrupts' = [interrupts EXCEPT ![p] = @ + 1]
            /\ UNCHANGED <<stopping, pool, gaveUp, unflushed>>
        BY <2>5 DEF InterruptTry, InterruptInside, InterruptFinally, Interrupted
      <3>2. MaxInterrupts[p] \in Nat
        BY RunnerAssumption
      <3>3. interrupts' \in [Processes -> Nat]
        BY <3>1 DEF CountInv
      <3>4. \A q \in Processes : interrupts'[q] <= MaxInterrupts[q]
        BY <3>1, <3>2 DEF CountInv
      <3> QED
        BY <3>1, <3>3, <3>4 DEF CountInv
    <2> QED
      BY <1>4, <2>1, <2>2, <2>3, <2>4, <2>5 DEF MainStep, MainProgress
  <1>5. CASE UNCHANGED runnerVars
    BY <1>1, <1>5 DEF runnerVars, mainVars
  <1> QED
    BY <1>2, <1>3, <1>4, <1>5 DEF RunnerNext

LEMMA RunnerFullStep == RunnerFullInv /\ [RunnerNext]_runnerVars => RunnerFullInv'
  <1> SUFFICES ASSUME RunnerFullInv, [RunnerNext]_runnerVars PROVE RunnerFullInv'
    OBVIOUS
  <1>1. RunnerInv'
    BY RunnerInvStep DEF RunnerFullInv
  <1> QED
    BY <1>1, BeatInvStep, ShareInvStep, SyncInvStep, CountInvStep DEF RunnerFullInv

LEMMA RunnerFullTypes == RunnerFullInv => RunnerTypeOK
  <1> SUFFICES ASSUME RunnerFullInv PROVE RunnerTypeOK
    OBVIOUS
  <1>1. Types /\ BeatInv /\ ShareInv /\ SyncInv /\ CountInv /\ finished \subseteq Runners
    BY DEF RunnerFullInv, RunnerInv, RecordInv
  <1> QED
    BY <1>1 DEF RunnerTypeOK, Types, BeatInv, ShareInv, SyncInv, CountInv

LEMMA RunnerFullCorrect == RunnerSpec => []RunnerFullInv
  BY FullInitInv, RunnerFullStep, PTL DEF RunnerSpec

(* Every reachable state of Runner is of the declared types; the dict of   *)
(* heartbeats has each job that had one, once.                             *)
THEOREM RunnerTypeCorrect == RunnerSpec => []RunnerTypeOK
  BY RunnerFullCorrect, RunnerFullTypes, PTL

-----------------------------------------------------------------------------
(* How many elements of S come before s in the order that f puts them in. *)
RankIn(S, f, s) == Cardinality({x \in S : f[x] < f[s]})

(* The elements of a finite set have ranks from zero to the last, each a   *)
(* different one.                                                          *)
LEMMA Ranks ==
    ASSUME NEW S, IsFiniteSet(S), NEW f \in [S -> Nat],
           \A x, y \in S : f[x] = f[y] => x = y
    PROVE  /\ Cardinality(S) \in Nat
           /\ \A n \in 0..(Cardinality(S) - 1) :
                  \E s \in S : RankIn(S, f, s) = n /\ \A t \in S \ {s} : RankIn(S, f, t) # n
  <1> DEFINE N == Cardinality(S)
             Below(s) == {x \in S : f[x] < f[s]}
             rank == [s \in S |-> Cardinality(Below(s))]
  <1>1. N \in Nat
    BY FS_CardinalityType
  <1>2. \A s \in S : Below(s) \in SUBSET S /\ s \notin Below(s)
    OBVIOUS
  <1>3. \A s \in S : IsFiniteSet(Below(s)) /\ Cardinality(Below(s)) \in Nat
                     /\ Cardinality(Below(s)) < N
    <2> HIDE DEF Below
    <2> TAKE s \in S
    <2>1. IsFiniteSet(Below(s)) /\ Cardinality(Below(s)) <= N
          /\ (N = Cardinality(Below(s)) => S = Below(s))
      BY <1>2, FS_Subset
    <2>2. Cardinality(Below(s)) \in Nat
      BY <2>1, FS_CardinalityType
    <2> QED
      BY <1>1, <1>2, <2>1, <2>2
  <1>4. \A s, t \in S : f[s] < f[t] => Cardinality(Below(s)) # Cardinality(Below(t))
    <2> SUFFICES ASSUME NEW s \in S, NEW t \in S, f[s] < f[t]
                 PROVE  Cardinality(Below(s)) # Cardinality(Below(t))
      OBVIOUS
    <2>1. Below(s) \subseteq Below(t) /\ s \in Below(t) /\ s \notin Below(s)
      OBVIOUS
    <2> HIDE DEF Below
    <2>2. Below(s) \in SUBSET Below(t) /\ Below(t) # Below(s)
      BY <2>1
    <2> QED
      BY <1>3, <2>2, FS_Subset
  <1>5. \A s, t \in S : rank[s] = rank[t] => s = t
    <2> SUFFICES ASSUME NEW s \in S, NEW t \in S, s # t
                 PROVE  Cardinality(Below(s)) # Cardinality(Below(t))
      OBVIOUS
    <2>1. f[s] \in Nat /\ f[t] \in Nat /\ f[s] # f[t]
      OBVIOUS
    <2>2. f[s] < f[t] \/ f[t] < f[s]
      BY <2>1
    <2> QED
      BY <1>4, <2>2
  <1>6. rank \in [S -> 0..(N - 1)]
    <2> HIDE DEF Below, N
    <2>1. \A s \in S : Cardinality(Below(s)) \in 0..(N - 1)
      BY <1>1, <1>3
    <2> QED
      BY <2>1
  <1>7. rank \in Injection(S, 0..(N - 1))
    BY <1>5, <1>6 DEF Injection, IsInjective
  <1>8. IsFiniteSet(0..(N - 1)) /\ Cardinality(0..(N - 1)) = N
    BY <1>1, FS_Interval
  <1>9. rank \in Surjection(S, 0..(N - 1))
    <2> HIDE DEF rank, N
    <2> QED
      BY <1>7, <1>8, FS_Injection DEF N
  <1>10. \A n \in 0..(N - 1) : \E s \in S : rank[s] = n
    BY <1>9 DEF Surjection
  <1>11. \A n \in 0..(N - 1) :
             \E s \in S : /\ Cardinality(Below(s)) = n
                         /\ \A t \in S \ {s} : Cardinality(Below(t)) # n
    <2> HIDE DEF Below, N
    <2> QED
      BY <1>5, <1>10
  <1> QED
    BY <1>1, <1>11 DEF RankIn

(* The jobs that have a row come one after the other in the dict. *)
LEMMA BeatsInOrder ==
    ASSUME BeatInv, NEW p \in Processes
    PROVE  \A r \in RunnersOf(p) :
               row[r] # "none" =>
                   /\ FirstBeat(r) \in 1..Len(beats[p])
                   /\ beats[p][FirstBeat(r)] = r
  <1> SUFFICES ASSUME NEW r \in RunnersOf(p), row[r] # "none"
               PROVE  FirstBeat(r) \in 1..Len(beats[p]) /\ beats[p][FirstBeat(r)] = r
    OBVIOUS
  <1>1. Process(r) = p
    BY DEF RunnersOf
  <1>2. r \in Range(beats[p])
    BY DEF BeatInv
  <1>3. \E i \in DOMAIN beats[p] : beats[p][i] = r
    BY <1>2 DEF Range
  <1>4. beats[p] \in Seq(Runners) /\ DOMAIN beats[p] = 1..Len(beats[p])
    BY DEF BeatInv
  <1> QED
    BY <1>1, <1>3, <1>4 DEF FirstBeat

(* A list has finitely many jobs, and no two of them have the same place   *)
(* in it, be it that in the dict or that of the id.                        *)
LEMMA PlacesDiffer ==
    ASSUME BeatInv, ShareInv, NEW r \in Runners
    PROVE  /\ IsFiniteSet(share[r].jobs)
           /\ \A x \in share[r].jobs : Place(share[r], x) \in Nat
           /\ \A x, y \in share[r].jobs : Place(share[r], x) = Place(share[r], y) => x = y
  <1> DEFINE p == Process(r)
             b == beats[p]
             places == 1..Len(b)
             S == share[r].jobs
             first == [x \in S |-> FirstBeat(x)]
  <1>1. p \in Processes /\ Len(b) \in Nat
    BY ItsProcess DEF BeatInv
  <1>2. \A x \in S : x \in Runners /\ row[x] # "none" /\ Process(x) = p
    BY DEF ShareInv, Listed
  <1>3. \A x \in S : FirstBeat(x) \in places /\ b[FirstBeat(x)] = x
    BY <1>1, <1>2, BeatsInOrder DEF RunnersOf
  <1>4. \A x \in S : Id[x] \in Nat
    BY <1>2, RunnerAssumption
  <1>5. \A x, y \in S : Id[x] = Id[y] => x = y
    BY <1>2, RunnerAssumption
  <1> HIDE DEF S, b
  <1>6. IsFiniteSet(S)
    <2>1. first \in Injection(S, places)
      BY <1>3 DEF Injection, IsInjective
    <2>2. IsFiniteSet(places)
      BY <1>1, FS_Interval
    <2> HIDE DEF first, places
    <2> QED
      BY <2>1, <2>2, FS_Injection
  <1>7. \A x \in S : Place(share[r], x) \in Nat
    BY <1>1, <1>3, <1>4 DEF Place
  <1>8. \A x, y \in S : Place(share[r], x) = Place(share[r], y) => x = y
    BY <1>3, <1>5 DEF Place
  <1> QED
    BY <1>6, <1>7, <1>8 DEF S

LEMMA AgreedSharesOut ==
    ASSUME BeatInv, ShareInv, NEW r \in Runners, share[r] # NoList, SameList(share[r].jobs)
    PROVE  SharesOut(share[r].jobs)
  <1> DEFINE list == share[r]
             S == list.jobs
             N == Cardinality(S)
             place == [x \in S |-> Place(list, x)]
             Rank(s) == Cardinality({x \in S : Place(list, x) < Place(list, s)})
  <1>1. r \in S
    BY DEF ShareInv
  <1>2. \A s \in S : share[s] = list
    <2>1. PICK sorted \in BOOLEAN : \A s \in S : share[s] = [jobs |-> S, sorted |-> sorted]
      BY DEF SameList
    <2> QED
      BY <1>1, <2>1
  <1>3. /\ IsFiniteSet(S)
        /\ \A x \in S : Place(list, x) \in Nat
        /\ \A x, y \in S : Place(list, x) = Place(list, y) => x = y
    BY PlacesDiffer
  <1>4. \A s \in S : NumShards(s) = N /\ ShardIndex(s) = Rank(s)
    <2> HIDE DEF list
    <2> QED
      BY <1>2 DEF NumShards, ShardIndex
  <1> HIDE DEF list, S
  <1>5. /\ N \in Nat
        /\ \A n \in 0..(N - 1) :
               \E s \in S : Rank(s) = n /\ \A t \in S \ {s} : Rank(t) # n
    <2>1. place \in [S -> Nat] /\ \A x, y \in S : place[x] = place[y] => x = y
      BY <1>3
    <2>2. \A s \in S : Rank(s) = RankIn(S, place, s)
      <3>1. \A s \in S :
                {x \in S : Place(list, x) < Place(list, s)} = {x \in S : place[x] < place[s]}
        OBVIOUS
      <3> QED
        BY <3>1 DEF RankIn
    <2>3. /\ N \in Nat
          /\ \A n \in 0..(N - 1) :
                 \E s \in S :
                     RankIn(S, place, s) = n /\ \A t \in S \ {s} : RankIn(S, place, t) # n
      <3> HIDE DEF place
      <3> QED
        BY <1>3, <2>1, Ranks
    <2> HIDE DEF Rank, N, place
    <2> QED
      BY <2>2, <2>3
  <1>6. N # 0
    BY <1>1, <1>3, FS_EmptySet
  <1> HIDE DEF N, Rank
  <1>7. SUFFICES ASSUME NEW h \in Hashes
                 PROVE  \E s \in S : Selects(s, h) /\ \A t \in S \ {s} : ~Selects(t, h)
    BY DEF SharesOut, S, list
  <1>8. h % N \in 0..(N - 1)
    <2>1. h \in Nat
      BY RunnerAssumption
    <2> QED
      BY <1>5, <1>6, <2>1
  <1>9. PICK s \in S : Rank(s) = h % N /\ \A t \in S \ {s} : Rank(t) # h % N
    BY <1>5, <1>8
  <1>10. \A t \in S : Selects(t, h) <=> Rank(t) = h % N
    BY <1>4, <1>6 DEF Selects
  <1> QED
    BY <1>9, <1>10

(* Jobs whose latest calls of compute_shard_index ended with the same list *)
(* share the rows out, for any number of jobs, any order of their          *)
(* heartbeats and of their ids, and whichever of them had expired and      *)
(* joined the list itself: every hash is selected by exactly one of them.  *)
THEOREM ShardsPartitionCorrect == RunnerSpec => []ShardsPartition
  <1>1. RunnerFullInv => ShardsPartition
    BY AgreedSharesOut DEF RunnerFullInv, ShardsPartition
  <1> QED
    BY <1>1, RunnerFullCorrect, PTL
=============================================================================
