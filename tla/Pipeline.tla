------------------------------ MODULE Pipeline ------------------------------
(***************************************************************************)
(* What the scheduler promises to whoever adds a dag: the operations of a  *)
(* run start in dependency order and at most once each, and a run is       *)
(* reported successful only when all its operations have completed.  How   *)
(* processes, rows, copies and callbacks bring that about is left to the   *)
(* module Workflow, which implements this one.                             *)
(***************************************************************************)
CONSTANTS Runs, Tasks, Upstream

VARIABLES
    oper,     \* the state of the operation of each task of each run
    reported  \* the runs reported successful

TaskRuns == Runs \X Tasks

Init ==
    /\ oper = [tr \in TaskRuns |-> "none"]
    /\ reported = {}

(* An operation starts once, after all those it depends on completed. *)
Start(r, t) ==
    /\ oper[<<r, t>>] = "none"
    /\ \A u \in Upstream[t] : oper[<<r, u>>] = "completed"
    /\ oper' = [oper EXCEPT ![<<r, t>>] = "running"]
    /\ UNCHANGED reported

(* A started operation ends, by itself or aborted, and never runs again. *)
End(r, t, state) ==
    /\ oper[<<r, t>>] = "running"
    /\ oper' = [oper EXCEPT ![<<r, t>>] = state]
    /\ UNCHANGED reported

Report(r) ==
    /\ \A t \in Tasks : oper[<<r, t>>] = "completed"
    /\ reported' = reported \cup {r}
    /\ UNCHANGED oper

(* A process that lags behind may reopen a run that was reported. *)
Reopen(r) ==
    /\ reported' = reported \ {r}
    /\ UNCHANGED oper

Next ==
    \E r \in Runs :
        \/ \E t \in Tasks : Start(r, t)
        \/ \E t \in Tasks, state \in {"completed", "failed", "aborted"} : End(r, t, state)
        \/ Report(r)
        \/ Reopen(r)

Spec == Init /\ [][Next]_<<oper, reported>>
=============================================================================
