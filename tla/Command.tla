------------------------------ MODULE Command -------------------------------
(***************************************************************************)
(* The commands: processes as in Runner, some of which run the scheduler,  *)
(* while the others are users' `dags add`, whose lightweight job makes the *)
(* call of AddDag.  A spec has a graph, the tables of its tasks, and       *)
(* params, the parameters of a task.                                       *)
(***************************************************************************)
EXTENDS Runner, AddDag, DagGraph

CONSTANT Content    \* [graph, params] of a spec

ASSUME CommandAssumption ==
    /\ Users \subseteq Processes
    /\ \A u \in Users : List[u] = <<"lightweight">>
    /\ \A s \in Specs : IsGraph(Content[s].graph)

JobOf(u) == <<u, 1>>

commandVars == <<runnerVars, addVars>>

(* A user that is not launched has some spec, which does not matter. *)
CommandInit ==
    /\ RunnerInit
    /\ AddInit
    /\ \A u \in Users : At(u, "absent") => spec[u] = CHOOSE s \in Specs : TRUE

(* The function of a `dags add` makes its call. *)
CallStep(u) ==
    /\ job[JobOf(u)] = "executing"
    /\ Work(u)
    /\ UNCHANGED runnerVars

CallEnds(u) ==
    /\ call[u] \in Ended
    /\ FunctionEnds(JobOf(u), call[u] = "raised")
    /\ UNCHANGED addVars

(* Ctrl-C breaks the call off, before it writes or after.                  *)
InterruptCall(u) ==
    /\ InterruptInside(u)
    /\ IF call[u] \in Ended \cup {"idle"} THEN UNCHANGED addVars
       ELSE \/ Break(u)
            \/ (Create(u) \/ Reuse(u)) /\ call'[u] = "raised"

CommandNext ==
    \/ \E r \in Runners : JobStep(r) /\ UNCHANGED addVars
    \/ \E p \in Processes :
           (MainProgress(p) \/ InterruptTry(p) \/ InterruptFinally(p)) /\ UNCHANGED addVars
    \/ \E u \in Users : CallStep(u) \/ CallEnds(u) \/ InterruptCall(u)

CommandSpec ==
    /\ CommandInit /\ [][CommandNext]_commandVars
    /\ \A r \in Runners : JobFairness(r)
    /\ \A p \in Processes : WF_runnerVars(MainProgress(p))

-----------------------------------------------------------------------------
(* A `dags add` that ends well added its dag, or its spec was refused,     *)
(* which is only logged: no other failure on the way is lost between the   *)
(* call, the job and the command.                                          *)
ExitIsTrue ==
    \A u \in Users :
        main[u].pc = "exited" /\ ended[u] = "well" =>
            spec[u] \in Invalid \/ \E m \in metas : m.id = u

(* In a dag that was added, exactly the tasks that are not on or behind a  *)
(* circle of tables can ever start: add accepts a circle, and such a run   *)
(* does not end.                                                           *)
OnlyCirclesHang ==
    \A d \in dags :
        LET graph == Content[spec[d.id]].graph
        IN  Starts(graph) = TasksOf(graph) \ BehindCircles(graph)
=============================================================================
