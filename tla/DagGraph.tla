------------------------------ MODULE DagGraph ------------------------------
(***************************************************************************)
(* The graph of a dag (dag.py, dagnode.py): a task is downstream of the    *)
(* tasks that write a table it reads.  Nothing checks that the graph has   *)
(* no circle.  A graph is [reads, writes]: for each task, its tables.      *)
(***************************************************************************)
EXTENDS Naturals, FiniteSets

TasksOf(graph) == DOMAIN graph.reads

IsGraph(graph) ==
    /\ IsFiniteSet(TasksOf(graph))
    /\ DOMAIN graph.writes = TasksOf(graph)

(* Mutant: a table has one producer, the last one that was registered. *)
LastProducer(graph, table) ==
    LET all == {t \in TasksOf(graph) : table \in graph.writes[t]}
    IN  {t \in all : \A u \in all : u <= t}

(* producers_map of resolve_tasks_dependencies. *)
Producers(graph, table) == {t \in TasksOf(graph) : table \in graph.writes[t]}

(* preceding_task_ids after set_upstream for each table that a task reads; *)
(* a task that reads what it writes precedes itself.                       *)
Upstream(graph, t) == UNION {Producers(graph, x) : x \in graph.reads[t]}

(* The tasks that may start once those of `done` are done: the roots, when *)
(* none is.                                                                *)
Ready(graph, done) == {t \in TasksOf(graph) : Upstream(graph, t) \subseteq done}

(* What starts sooner or later.                                            *)
Starts(graph) ==
    LET startsAfter[done \in SUBSET TasksOf(graph)] ==
            IF Ready(graph, done) \subseteq done THEN done
            ELSE startsAfter[done \cup Ready(graph, done)]
    IN  startsAfter[{}]

-----------------------------------------------------------------------------
(* Reference: a task feeds another that reads a table it writes.  A set    *)
(* each task of which is fed by one of the set never starts: it holds a    *)
(* circle and what lies behind it.                                         *)
Feeds(graph, t, u) == graph.writes[t] \cap graph.reads[u] # {}

BehindCircles(graph) ==
    UNION {waiting \in SUBSET TasksOf(graph) :
              \A u \in waiting : \E t \in waiting : Feeds(graph, t, u)}
=============================================================================
