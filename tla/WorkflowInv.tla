---------------------------- MODULE WorkflowInv -----------------------------
(***************************************************************************)
(* The inductive invariants behind the safety properties of Workflow: what *)
(* the copies and the jobs in flight know, related to what is so.          *)
(***************************************************************************)
EXTENDS Workflow

Started(tr) == oper[tr] # "none"
Completed(tr) == oper[tr] = "completed"
Examining(s) == exam[s].pc # "idle"

(* Whoever believes that an operation runs or has completed, whether by a  *)
(* row, a snapshot, a pending entry or a job about to write, is right: a   *)
(* completed operation stays so.                                           *)
RowsAreTrue ==
    \A tr \in TaskRuns :
        /\ trow[tr] = "success" => Completed(tr)
        /\ trow[tr] = "running" => Started(tr)

SnapshotsAreTrue ==
    \A s \in Schedulers, t \in Tasks :
        Examining(s) /\ exam[s].seen[t] = "success" => Completed(<<exam[s].run, t>>)

JobsAreTrue ==
    \A e \in Executors, w \in Slots : \A tr \in jobs[e][w].trs :
        /\ jobs[e][w].kind = "succeed" => Completed(tr)
        /\ jobs[e][w].kind \in {"drset", "mark", "markw"} => Started(tr)

PendingIsTrue ==
    \A e \in Executors : \A tr \in Items(pend[e]) \cup Items(pass[e]) : Started(tr)

TruthInv == TypeOK /\ RowsAreTrue /\ SnapshotsAreTrue /\ JobsAreTrue /\ PendingIsTrue /\ SuccessIsEarned

-----------------------------------------------------------------------------
(* A scheduler handles no run before it is queued, and an examination      *)
(* knows the rows, save those it was told are dirty.                       *)
ExaminedWasQueued ==
    \A s \in Schedulers :
        /\ \A batch \in Items(inbox[s]) \cup {cur[s]} : \A r \in batch : drun[r] # "scheduled"
        /\ Examining(s) => drun[exam[s].run] # "scheduled"

SnapshotsAreFresh ==
    \A s \in Schedulers, t \in Tasks :
        exam[s].pc = "update" =>
            \/ trow[<<exam[s].run, t>>] = exam[s].seen[t]
            \/ <<exam[s].run, t>> \in exam[s].dirty

FreshInv == TypeOK /\ ExaminedWasQueued /\ SnapshotsAreFresh

-----------------------------------------------------------------------------
(* From here on all TaskRefs deserialize, BadTasks = {}.                   *)

(* Nothing of the run will ever be scheduled: a failure was recorded.      *)
Past(r) == drun[r] # "scheduled" /\ \A t \in Tasks : trow[<<r, t>>] # "scheduled"

UpstreamDone(tr) == \A u \in Upstream[tr[2]] : Completed(<<tr[1], u>>)

(* What fails a run, or skips a task of it, does so when no other task of  *)
(* it will be scheduled; so no ready task has a skipped upstream task.     *)
SkippedIsPast ==
    /\ \A r \in Runs : drun[r] = "failed" => Past(r)
    /\ \A tr \in TaskRuns : trow[tr] = "skipped" => Past(tr[1])
    /\ \A e \in Executors, w \in Slots : \A tr \in jobs[e][w].trs :
           jobs[e][w].kind \in {"skip", "oskip", "skipw"} => Past(tr[1])

SnapshotsArePast ==
    \A s \in Schedulers, t, u \in Tasks :
        /\ Examining(s) /\ exam[s].seen[u] = "skipped" => exam[s].seen[t] # "scheduled"
        /\ exam[s].pc = "update" /\ trow[<<exam[s].run, t>>] = "scheduled" =>
               exam[s].seen[t] = "scheduled"

(* What is queued, or about to start, has its upstream operations done. *)
QueuedIsReady ==
    /\ \A tr \in TaskRuns : trow[tr] = "queued" => UpstreamDone(tr)
    /\ \A e \in Executors, w \in Slots : \A tr \in jobs[e][w].trs :
           jobs[e][w].kind \in {"start", "run"} => UpstreamDone(tr)

(* A job that starts or aborts names one operation at most. *)
OneOperation ==
    \A e \in Executors, w \in Slots : \A x, y \in jobs[e][w].trs :
        jobs[e][w].kind \in {"start", "run", "abort"} => x = y

OrderInv ==
    /\ TruthInv /\ FreshInv /\ OneOperation
    /\ SkippedIsPast /\ SnapshotsArePast /\ QueuedIsReady /\ UpstreamFirst

-----------------------------------------------------------------------------
(* A fault, or an operation of the run that failed. *)
Caused(r) == faults > 0 \/ \E t \in Tasks : oper[<<r, t>>] = "failed"

(* Whoever holds that a run failed, or aborts or fails a task of it, has a *)
(* cause.                                                                  *)
RowsAreCaused ==
    /\ \A r \in Runs : drun[r] = "failed" => Caused(r)
    /\ \A tr \in TaskRuns : trow[tr] = "failed" \/ oper[tr] = "aborted" => Caused(tr[1])

SnapshotsAreCaused ==
    \A s \in Schedulers : Examining(s) /\ AnyFailed(exam[s].seen) => Caused(exam[s].run)

JobsAreCaused ==
    \A e \in Executors, w \in Slots :
        /\ jobs[e][w].kind \in {"fail", "amark", "abort"} =>
               \A tr \in jobs[e][w].trs : Caused(tr[1])
        /\ jobs[e][w].kind = "abort" => \A tr \in jobs[e][w].late : Caused(tr[1])

CauseInv == TypeOK /\ RowsAreCaused /\ SnapshotsAreCaused /\ JobsAreCaused

=============================================================================
