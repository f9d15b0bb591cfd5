------------------------------- MODULE Runner -------------------------------
(***************************************************************************)
(* The processes of the command line (cli_commands.run_command) and the    *)
(* jobs they run (job.py): start, heartbeats, stop, the flush of job rows  *)
(* to YT, and the shards that jobs of one name compute from the heartbeats.*)
(*                                                                         *)
(* A process has a main thread, a runner for each job of its JobList, and  *)
(* a pool unless all its jobs are lightweight.  A lightweight job runs on  *)
(* the main thread; any other one has a thread, which is not a daemon.     *)
(***************************************************************************)
EXTENDS Naturals, Sequences, Functions, FiniteSets

CONSTANTS
    Processes,
    List,           \* the names of the jobs of a process, in JobList order
    Launches,       \* which processes are launched together
    Id,             \* the job ids, which are uuids: their order is any order
    Hashes,         \* values of farm_hash(key) % num_virtual_shards
    MaxInterrupts   \* bounds the KeyboardInterrupts of each process

Names == {"task_runner", "scheduler", "lightweight"}

Runners == UNION {{<<p, i>> : i \in 1..Len(List[p])} : p \in Processes}

Process(r) == r[1]

ASSUME RunnerAssumption ==
    /\ List \in [Processes -> Seq(Names)]
    /\ \A p \in Processes : List[p] # <<>>
    /\ Launches \subseteq SUBSET Processes
    /\ Id \in [Runners -> Nat]
    /\ \A q, r \in Runners : Process(q) = Process(r) /\ Id[q] = Id[r] => q = r
    /\ Hashes \subseteq Nat
    /\ MaxInterrupts \in [Processes -> Nat]

NameOf(r)  == List[r[1]][r[2]]
Sync(r)    == NameOf(r) = "lightweight"
RunnersOf(p) == {r \in Runners : Process(r) = p}
HasPool(p) == \E r \in RunnersOf(p) : ~Sync(r)

(* Where the main thread is: it starts the runners; it is inside a         *)
(* lightweight job; it watches (join, then flush, for one runner after the *)
(* other); then, in the finally clause, it stops them and joins them,      *)
(* waits for their finished events, flushes a last time, shuts the pool    *)
(* down and leaves.  An interrupt in the finally clause escapes from it.   *)
Tries    == {"start", "inside", "watch", "flush"}
Finally  == {"stop", "join", "wait", "lastflush", "shutdown"}
MainPcs  == Tries \cup Finally \cup {"absent", "exited", "escaped"}

(* Where a job is: executing until it returns, then it has returned, has   *)
(* written its end into its row, has set its finished event and is gone.   *)
(* A job that is stuck waits for ever for room in the pool.                *)
Stages   == {"new", "starting", "executing", "stuck", "returned", "recorded", "finished"}
RowStates == {"none", "started", "ended"}

VARIABLES
    main,       \* [pc, at] of the main thread: where, and at which runner
    dead,       \* processes where all_dead of the watch loop is true
    job,        \* where a job is
    failed,     \* lightweight jobs that raised
    stopping,   \* runners whose stop event is set
    finished,   \* runners whose finished event is set
    row,        \* a job's row in JobContext._active_jobs: its two dates
    beats,      \* the runners in the order _active_jobs got them
    fresh,      \* runners whose last heartbeat is not older than the TTL
    share,      \* the list that a job's latest compute_shard_index ended with
    saved,      \* a job's row in the job_state table
    pool,       \* "none", "up" or "down"
    interrupts, \* KeyboardInterrupts so far
    ended,      \* how run_command ended: "not yet", "well" or "error"
    gaveUp,     \* processes one of whose timed waits in finally ran out
    unflushed   \* processes whose last flush failed

jobVars  == <<job, failed, finished>>
mainVars == <<main, dead, stopping, pool, interrupts, ended, gaveUp, unflushed>>
beatVars == <<row, beats, fresh, share>>
runnerVars == <<mainVars, jobVars, beatVars, saved>>

(* A list of jobs, in the order of the dict or sorted by their ids; the    *)
(* empty one stands for no call and for a call that found no active job.   *)
NoList == [jobs |-> {}, sorted |-> FALSE]

RunnerInit ==
    /\ \E launched \in Launches :
           main = [p \in Processes |->
                      [pc |-> IF p \in launched THEN "start" ELSE "absent", at |-> 1]]
    /\ dead = Processes
    /\ job = [r \in Runners |-> "new"]
    /\ failed = {}
    /\ stopping = {}
    /\ finished = {}
    /\ row = [r \in Runners |-> "none"]
    /\ beats = [p \in Processes |-> <<>>]
    /\ fresh = {}
    /\ share = [r \in Runners |-> NoList]
    /\ saved = [r \in Runners |-> "none"]
    /\ pool = [p \in Processes |-> IF HasPool(p) THEN "up" ELSE "none"]
    /\ interrupts = [p \in Processes |-> 0]
    /\ ended = [p \in Processes |-> "not yet"]
    /\ gaveUp = {}
    /\ unflushed = {}

-----------------------------------------------------------------------------
(* Jobs. *)

Stage(r, s) == job' = [job EXCEPT ![r] = s]

(* Mutant: every heartbeat is taken for the first. *)
BeatAnew(r, state) ==
    /\ row' = [row EXCEPT ![r] = state]
    /\ beats' = [beats EXCEPT ![Process(r)] = Append(@, r)]
    /\ fresh' = fresh \cup {r}

(* JobContext.touch_job: the row is made at the first heartbeat.           *)
Beat(r, state) ==
    /\ row' = [row EXCEPT ![r] = state]
    /\ beats' = IF row[r] = "none"
                THEN [beats EXCEPT ![Process(r)] = Append(@, r)] ELSE beats
    /\ fresh' = fresh \cup {r}

(* _prepare_for_execution: the heartbeat with the start date. *)
Prepare(r) ==
    /\ job[r] = "starting"
    /\ Beat(r, "started")
    /\ Stage(r, "executing")
    /\ UNCHANGED <<mainVars, failed, finished, share, saved>>

(* An iteration of the loop of _run_executor_loop or _run_scheduler_loop   *)
(* begins with a heartbeat.                                                *)
Iterate(r) ==
    /\ ~Sync(r)
    /\ job[r] = "executing"
    /\ r \notin stopping
    /\ Beat(r, row[r])
    /\ UNCHANGED <<mainVars, jobVars, share, saved>>

(* The loop ends by the stop event, or by an exception: the return in the  *)
(* finally clause of _execute swallows it, so the runner does not see it.  *)
LoopEnds(r) ==
    /\ ~Sync(r)
    /\ job[r] = "executing"
    /\ Stage(r, "returned")
    /\ UNCHANGED <<mainVars, failed, finished, beatVars, saved>>

(* Every worker waits for room in the pool's queue, or they have left it,  *)
(* and the queue is full: submit_or_execute does not return.               *)
GetsStuck(r) ==
    /\ ~Sync(r)
    /\ job[r] = "executing"
    /\ Stage(r, "stuck")
    /\ UNCHANGED <<mainVars, failed, finished, beatVars, saved>>

(* The function of a lightweight job returns or raises. *)
FunctionEnds(r, raises) ==
    /\ Sync(r)
    /\ job[r] = "executing"
    /\ Stage(r, "returned")
    /\ failed' = IF raises THEN failed \cup {r} ELSE failed
    /\ UNCHANGED <<mainVars, finished, beatVars, saved>>

(* Mutant: the heartbeat at the end has no end date. *)
RecordEndDateless(r) ==
    /\ job[r] = "returned"
    /\ Beat(r, row[r])
    /\ Stage(r, "recorded")
    /\ UNCHANGED <<mainVars, failed, finished, share, saved>>

(* _complete_execution: the heartbeat with the end date, then the event. *)
RecordEnd(r) ==
    /\ job[r] = "returned"
    /\ Beat(r, "ended")
    /\ Stage(r, "recorded")
    /\ UNCHANGED <<mainVars, failed, finished, share, saved>>

Finish(r) ==
    /\ job[r] = "recorded"
    /\ Stage(r, "finished")
    /\ finished' = finished \cup {r}
    /\ UNCHANGED <<mainVars, failed, beatVars, saved>>

(* The heartbeat grows older than the TTL; of a lightweight job nobody     *)
(* asks for it.                                                            *)
Expire(r) ==
    /\ ~Sync(r)
    /\ r \in fresh
    /\ fresh' = fresh \ {r}
    /\ UNCHANGED <<mainVars, jobVars, row, beats, share, saved>>

-----------------------------------------------------------------------------
(* Shards. *)

(* get_active_jobs: those of the job's name. *)
ActiveJobs(r) ==
    {x \in fresh : Process(x) = Process(r) /\ NameOf(x) = NameOf(r)}

(* compute_shard_index lists the active jobs in the order of the dict; a   *)
(* job that is not active itself joins them, and then the list is sorted   *)
(* by the ids.  With no active job it answers zero shards.                 *)
ShardList(r) ==
    IF ActiveJobs(r) = {} THEN NoList
    ELSE [jobs |-> ActiveJobs(r) \cup {r}, sorted |-> r \notin fresh]

(* The place of a job in the dict, which only grows at its end.            *)
FirstBeat(r) ==
    CHOOSE i \in DOMAIN beats[Process(r)] : beats[Process(r)][i] = r

Place(list, x) == IF list.sorted THEN Id[x] ELSE FirstBeat(x)

NumShards(r) == Cardinality(share[r].jobs)

(* Mutant: the job that joins the list stays at its end. *)
ShardIndexUnsorted(r) ==
    IF share[r].sorted THEN NumShards(r) - 1
    ELSE Cardinality({x \in share[r].jobs : FirstBeat(x) < FirstBeat(r)})

(* jobs.index: how many jobs are before it in its list. *)
ShardIndex(r) ==
    Cardinality({x \in share[r].jobs : Place(share[r], x) < Place(share[r], r)})

(* The filter of the selects; with zero shards the select fails.           *)
Selects(r, h) == NumShards(r) # 0 /\ h % NumShards(r) = ShardIndex(r)

(* Mutant: the shard is computed once and kept. *)
ComputeShardOnce(r) ==
    /\ ~Sync(r)
    /\ row[r] # "none"
    /\ share' = [share EXCEPT ![r] = IF @ = NoList THEN ShardList(r) ELSE @]
    /\ IF r \in fresh \/ ActiveJobs(r) = {} THEN UNCHANGED <<row, beats, fresh>>
       ELSE Beat(r, row[r])
    /\ UNCHANGED <<mainVars, jobVars, saved>>

(* The thread of a job or a pool worker computes the job's shard for a     *)
(* select; for a job that joins the list this is a heartbeat as well.      *)
ComputeShard(r) ==
    /\ ~Sync(r)
    /\ row[r] # "none"
    /\ share' = [share EXCEPT ![r] = ShardList(r)]
    /\ IF r \in fresh \/ ActiveJobs(r) = {} THEN UNCHANGED <<row, beats, fresh>>
       ELSE Beat(r, row[r])
    /\ UNCHANGED <<mainVars, jobVars, saved>>

-----------------------------------------------------------------------------
(* The main thread. *)

LastRunner(p) == Len(List[p])
Here(p) == <<p, main[p].at>>
At(p, pc) == main[p].pc = pc
Goes(p, pc, i) == main' = [main EXCEPT ![p] = [pc |-> pc, at |-> i]]

(* Goes on with the next runner, or, after the last one, with the next     *)
(* phase.                                                                  *)
NextRunner(p, pc, nextPc) ==
    IF main[p].at < LastRunner(p) THEN Goes(p, pc, main[p].at + 1) ELSE Goes(p, nextPc, 1)

StartAsync(p) ==
    /\ At(p, "start")
    /\ ~Sync(Here(p))
    /\ Stage(Here(p), "starting")
    /\ NextRunner(p, "start", "watch")
    /\ UNCHANGED <<dead, stopping, pool, interrupts, ended, gaveUp, unflushed,
                   failed, finished, beatVars, saved>>

StartSync(p) ==
    /\ At(p, "start")
    /\ Sync(Here(p))
    /\ Stage(Here(p), "starting")
    /\ Goes(p, "inside", main[p].at)
    /\ UNCHANGED <<dead, stopping, pool, interrupts, ended, gaveUp, unflushed,
                   failed, finished, beatVars, saved>>

(* Mutant: an exception of the job is kept in the runner and not raised. *)
SyncEndsQuietly(p) ==
    /\ At(p, "inside")
    /\ job[Here(p)] = "finished"
    /\ NextRunner(p, "start", "watch")
    /\ UNCHANGED <<dead, stopping, pool, interrupts, ended, gaveUp, unflushed,
                   jobVars, beatVars, saved>>

(* An exception of a lightweight job leaves run_job and the try clause. *)
SyncEnds(p) ==
    /\ At(p, "inside")
    /\ job[Here(p)] = "finished"
    /\ IF Here(p) \in failed
       THEN /\ Goes(p, "stop", 1)
            /\ ended' = [ended EXCEPT ![p] = "error"]
       ELSE /\ NextRunner(p, "start", "watch")
            /\ UNCHANGED ended
    /\ UNCHANGED <<dead, stopping, pool, interrupts, gaveUp, unflushed,
                   jobVars, beatVars, saved>>

(* runner._thread.is_alive(). *)
Alive(r) == ~Sync(r) /\ job[r] \notin {"new", "finished"}

(* Mutant: what the watch loop saw of the other runners is forgotten. *)
WatchLast(p) ==
    /\ At(p, "watch")
    /\ dead' = IF Alive(Here(p)) THEN dead \ {p} ELSE dead \cup {p}
    /\ Goes(p, "flush", main[p].at)
    /\ UNCHANGED <<stopping, pool, interrupts, ended, gaveUp, unflushed,
                   jobVars, beatVars, saved>>

(* The join of the watch loop returns when the thread ends or after        *)
(* flush_period.                                                           *)
Watch(p) ==
    /\ At(p, "watch")
    /\ dead' = IF Alive(Here(p)) THEN dead \ {p}
               ELSE IF main[p].at = 1 THEN dead \cup {p} ELSE dead
    /\ Goes(p, "flush", main[p].at)
    /\ UNCHANGED <<stopping, pool, interrupts, ended, gaveUp, unflushed,
                   jobVars, beatVars, saved>>

(* flush_to_yt writes the rows there are, or fails, which is logged.       *)
Flushed(p) ==
    saved' = [r \in Runners |-> IF Process(r) = p THEN row[r] ELSE saved[r]]

Flush(p) ==
    /\ At(p, "flush")
    /\ Flushed(p) \/ UNCHANGED saved
    /\ IF main[p].at < LastRunner(p) THEN Goes(p, "watch", main[p].at + 1)
       ELSE IF p \in dead THEN Goes(p, "stop", 1) ELSE Goes(p, "watch", 1)
    /\ UNCHANGED <<dead, stopping, pool, interrupts, ended, gaveUp, unflushed,
                   jobVars, beatVars>>

(* Mutant: only the first runner gets the event. *)
StopFirst(p) ==
    /\ At(p, "stop")
    /\ stopping' = stopping \cup {<<p, 1>>}
    /\ Goes(p, "join", main[p].at)
    /\ UNCHANGED <<dead, pool, interrupts, ended, gaveUp, unflushed,
                   jobVars, beatVars, saved>>

(* runner.stop: the event, then a join with a timeout. *)
Stop(p) ==
    /\ At(p, "stop")
    /\ stopping' = stopping \cup {Here(p)}
    /\ Goes(p, "join", main[p].at)
    /\ UNCHANGED <<dead, pool, interrupts, ended, gaveUp, unflushed,
                   jobVars, beatVars, saved>>

(* A wait of the finally clause ends well or runs out of time. *)
Waited(p, well) ==
    gaveUp' = IF well THEN gaveUp ELSE gaveUp \cup {p}

(* Mutant: the join has no timeout. *)
JoinForEver(p) ==
    /\ At(p, "join")
    /\ ~Alive(Here(p))
    /\ NextRunner(p, "stop", "wait")
    /\ UNCHANGED <<dead, stopping, pool, interrupts, ended, gaveUp, unflushed,
                   jobVars, beatVars, saved>>

Join(p) ==
    /\ At(p, "join")
    /\ Waited(p, ~Alive(Here(p)))
    /\ NextRunner(p, "stop", "wait")
    /\ UNCHANGED <<dead, stopping, pool, interrupts, ended, unflushed,
                   jobVars, beatVars, saved>>

(* A job that was never started does not set its event. *)
WaitFinished(p) ==
    /\ At(p, "wait")
    /\ Waited(p, Here(p) \in finished \/ job[Here(p)] = "new")
    /\ NextRunner(p, "wait", "lastflush")
    /\ UNCHANGED <<dead, stopping, pool, interrupts, ended, unflushed,
                   jobVars, beatVars, saved>>

LastFlush(p) ==
    /\ At(p, "lastflush")
    /\ \/ Flushed(p) /\ UNCHANGED unflushed
       \/ unflushed' = unflushed \cup {p} /\ UNCHANGED saved
    /\ Goes(p, "shutdown", 1)
    /\ UNCHANGED <<dead, stopping, pool, interrupts, ended, gaveUp,
                   jobVars, beatVars>>

(* pool.shutdown, if there is a pool, and the end of run_command. *)
Shutdown(p) ==
    /\ At(p, "shutdown")
    /\ pool' = [pool EXCEPT ![p] = IF @ = "up" THEN "down" ELSE @]
    /\ ended' = [ended EXCEPT ![p] = IF @ = "not yet" THEN "well" ELSE @]
    /\ Goes(p, "exited", 1)
    /\ UNCHANGED <<dead, stopping, interrupts, gaveUp, unflushed,
                   jobVars, beatVars, saved>>

(* Ctrl-C.  In the try clause it leads to the finally clause; inside a     *)
(* lightweight job it ends the job first.  In the finally clause it skips  *)
(* what is left of it.                                                     *)
Interrupted(p) ==
    /\ interrupts[p] < MaxInterrupts[p]
    /\ interrupts' = [interrupts EXCEPT ![p] = @ + 1]
    /\ ended' = [ended EXCEPT ![p] = "error"]

InterruptTry(p) ==
    /\ main[p].pc \in Tries \ {"inside"}
    /\ Interrupted(p)
    /\ Goes(p, "stop", 1)
    /\ UNCHANGED <<dead, stopping, pool, gaveUp, unflushed, jobVars, beatVars, saved>>

InterruptInside(p) ==
    /\ At(p, "inside")
    /\ job[Here(p)] \in {"starting", "executing"}
    /\ Interrupted(p)
    /\ Stage(Here(p), "returned")
    /\ failed' = failed \cup {Here(p)}
    /\ UNCHANGED <<main, dead, stopping, pool, gaveUp, unflushed, finished, beatVars, saved>>

InterruptFinally(p) ==
    /\ main[p].pc \in Finally
    /\ Interrupted(p)
    /\ Goes(p, "escaped", 1)
    /\ UNCHANGED <<dead, stopping, pool, gaveUp, unflushed, jobVars, beatVars, saved>>

-----------------------------------------------------------------------------
(* Properties. *)

RunnerTypeOK ==
    /\ main \in [Processes -> [pc : MainPcs, at : Nat]]
    /\ \A p \in Processes : main[p].at \in 1..LastRunner(p)
    /\ dead \subseteq Processes
    /\ job \in [Runners -> Stages]
    /\ failed \subseteq {r \in Runners : Sync(r)}
    /\ stopping \subseteq Runners
    /\ finished \subseteq Runners
    /\ row \in [Runners -> RowStates]
    /\ beats \in [Processes -> Seq(Runners)]
    /\ \A p \in Processes :
           /\ \A i, j \in DOMAIN beats[p] : beats[p][i] = beats[p][j] => i = j
           /\ Range(beats[p]) = {r \in RunnersOf(p) : row[r] # "none"}
    /\ fresh \subseteq {r \in Runners : row[r] # "none"}
    /\ share \in [Runners -> [jobs : SUBSET Runners, sorted : BOOLEAN]]
    /\ saved \in [Runners -> RowStates]
    /\ pool \in [Processes -> {"none", "up", "down"}]
    /\ interrupts \in [Processes -> Nat]
    /\ \A p \in Processes : interrupts[p] <= MaxInterrupts[p]
    /\ ended \in [Processes -> {"not yet", "well", "error"}]
    /\ gaveUp \subseteq Processes
    /\ unflushed \subseteq Processes

(* A command that left its finally clause without giving up on a job and   *)
(* whose last flush succeeded has the end of every job it started in the   *)
(* job_state table, however the job, the interrupt and the flushes met.    *)
EndsAreSaved ==
    \A p \in Processes \ (gaveUp \cup unflushed) :
        main[p].pc = "exited" =>
            \A r \in RunnersOf(p) : job[r] # "new" => saved[r] = "ended"

(* The watch loop ends by itself only when no job's thread is alive: a     *)
(* thread that it saw alive earlier in a round keeps it going.             *)
WatchSeesAll ==
    \A p \in Processes :
        main[p].pc \in Finally \cup {"exited"} /\ ended[p] # "error" =>
            \A r \in RunnersOf(p) : ~Alive(r)

(* Some jobs share the rows out when each value of the hash is selected by *)
(* exactly one of them.                                                    *)
SharesOut(S) ==
    \A h \in Hashes : \E s \in S : Selects(s, h) /\ \A t \in S \ {s} : ~Selects(t, h)

(* The latest calls of some jobs ended with the same list, that of these.  *)
SameList(S) ==
    \E sorted \in BOOLEAN : \A s \in S : share[s] = [jobs |-> S, sorted |-> sorted]

(* Jobs whose latest calls of compute_shard_index ended with the same list *)
(* share the rows out, whatever order their first heartbeats came in,      *)
(* whichever heartbeats had expired at which call, and also when each had  *)
(* to join the list itself.  Jobs that listed each other in different      *)
(* orders, or saw different jobs, may select a row twice or not at all,    *)
(* until their next calls: that this ends is SharesSettle.                 *)
ShardsPartition ==
    \A r \in Runners : share[r] # NoList /\ SameList(share[r].jobs) => SharesOut(share[r].jobs)

(* Runners whose jobs may share rows. *)
Peers(S) ==
    \A r, s \in S : ~Sync(r) /\ Process(r) = Process(s) /\ NameOf(r) = NameOf(s)

(* The active jobs are these, and their loops run.                         *)
Steady(S) == \A s \in S : s \in fresh /\ job[s] = "executing" /\ ActiveJobs(s) = S

(* When it comes to rest which jobs are active, these share the rows out   *)
(* from some time on, whatever lists an expired heartbeat left behind: no  *)
(* row is left out for ever, none is selected by two of them for ever, and *)
(* no job stays with zero shards.                                          *)
SharesSettle ==
    \A S \in {T \in SUBSET Runners : T # {} /\ Peers(T)} :
        <>[]Steady(S) => <>[]SharesOut(S)

(* An interrupted command ends, also when a job does not: every wait of    *)
(* the finally clause has a timeout.  From some time on every process that *)
(* was interrupted has left run_command, for good.                         *)
InterruptEnds ==
    <>[](\A p \in Processes :
             interrupts[p] > 0 => main[p].pc \in {"exited", "escaped"})

(* After one interrupt every job that was started comes to its end, unless *)
(* it waits for room in the pool; a second interrupt in the finally clause *)
(* leaves jobs running, and the process, as no thread of a job is a        *)
(* daemon, does not end.                                                   *)
StopReachesAll ==
    <>[](\A r \in Runners :
             interrupts[Process(r)] = 1 /\ job[r] # "new" => job[r] \in {"finished", "stuck"})

-----------------------------------------------------------------------------
JobProgress(r) == Prepare(r) \/ LoopEnds(r) \/ RecordEnd(r) \/ Finish(r)

MainProgress(p) ==
    \/ StartAsync(p) \/ StartSync(p) \/ SyncEnds(p) \/ Watch(p) \/ Flush(p)
    \/ Stop(p) \/ Join(p) \/ WaitFinished(p) \/ LastFlush(p) \/ Shutdown(p)

JobStep(r) == JobProgress(r) \/ Iterate(r) \/ GetsStuck(r) \/ Expire(r) \/ ComputeShard(r)

MainStep(p) == MainProgress(p) \/ InterruptTry(p) \/ InterruptInside(p) \/ InterruptFinally(p)

RunnerNext ==
    \/ \E r \in Runners : JobStep(r)
    \/ \E r \in Runners, raises \in BOOLEAN : FunctionEnds(r, raises)
    \/ \E p \in Processes : MainStep(p)

(* The main thread runs.  A job that was told to stop ends the iteration   *)
(* it is in; the other steps of a job are statements that follow.  Each    *)
(* iteration of a loop selects rows, so that it computes the shard anew.   *)
JobFairness(r) ==
    /\ WF_runnerVars(r \in stopping /\ LoopEnds(r))
    /\ WF_runnerVars(Prepare(r) \/ RecordEnd(r) \/ Finish(r))
    /\ WF_runnerVars(job[r] = "executing" /\ ComputeShard(r))

RunnerSpec ==
    /\ RunnerInit /\ [][RunnerNext]_runnerVars
    /\ \A r \in Runners : JobFairness(r)
    /\ \A p \in Processes : WF_runnerVars(MainProgress(p))
=============================================================================
