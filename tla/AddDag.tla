------------------------------- MODULE AddDag -------------------------------
(***************************************************************************)
(* `dags add`: cli_commands._add_dag_impl and commands.try_add_dag, called *)
(* by several users at once on the same tables.  A dag's payload is looked *)
(* up outside of the transaction that writes the dag: two calls that       *)
(* overlap may create two dags of one payload.                             *)
(*                                                                         *)
(* A dag has the id of the user whose call created it, and so has the meta *)
(* that a call writes: the code draws a fresh uuid for each.               *)
(***************************************************************************)
CONSTANTS
    Users,      \* each of them calls once
    Specs,
    Inputs,     \* what specs the users may have
    Invalid,    \* specs with a task of an unknown operation type
    Payload,    \* payload_hash of a spec's dag: one of the specs with it
    NoDag

ASSUME AddAssumption ==
    /\ Inputs \subseteq [Users -> Specs]
    /\ Invalid \subseteq Specs
    /\ Payload \in [Specs -> Specs]
    /\ NoDag \notin Users

(* Where a call is.  "added" is the value of try_add_dag, "refused" the    *)
(* None of _add_dag_impl.                                                  *)
Ended      == {"added", "refused", "raised"}
CallStages == {"idle", "reading", "building", "looking", "creating", "reusing"}

VARIABLES
    spec,       \* a user's spec
    call,       \* where a user's call is
    found,      \* the dag that its lookup answered
    dags,       \* [id, payload]: rows of DagRef
    taskRefs,   \* dags that have their rows of TaskRef
    metas,      \* [id, dag]: rows of DagMeta
    before      \* history: the dags that were there when a call began

tableVars == <<dags, taskRefs, metas>>
addVars   == <<spec, call, found, tableVars, before>>

DagRows == [id : Users, payload : Specs]

AddInit ==
    /\ spec \in Inputs
    /\ call = [u \in Users |-> "idle"]
    /\ found = [u \in Users |-> NoDag]
    /\ dags = {}
    /\ taskRefs = {}
    /\ metas = {}
    /\ before = [u \in Users |-> {}]

Goto(u, stage) == call' = [call EXCEPT ![u] = stage]
From(u, stage, next) == call[u] = stage /\ Goto(u, next)

-----------------------------------------------------------------------------
Begin(u) ==
    /\ From(u, "idle", "reading")
    /\ before' = [before EXCEPT ![u] = dags]
    /\ UNCHANGED <<spec, found, tableVars>>

(* The spec file is read, and written to the work directory. *)
ReadSpec(u) ==
    /\ From(u, "reading", "building")
    /\ UNCHANGED <<spec, found, tableVars, before>>

(* DAG.from_spec_conf: a DagInitializationError is logged and answered     *)
(* with None.                                                              *)
Build(u) ==
    /\ From(u, "building", IF spec[u] \in Invalid THEN "refused" ELSE "looking")
    /\ UNCHANGED <<spec, found, tableVars, before>>

(* Mutant: the id of the dag that was found is not taken over. *)
LookupNoId(u) ==
    /\ call[u] = "looking"
    /\ Goto(u, IF \E d \in dags : d.payload = Payload[spec[u]] THEN "reusing" ELSE "creating")
    /\ UNCHANGED <<spec, found, tableVars, before>>

(* Mutant: any dag will do. *)
LookupAny(u) ==
    /\ call[u] = "looking"
    /\ \/ dags = {} /\ Goto(u, "creating") /\ UNCHANGED found
       \/ \E d \in dags :
              found' = [found EXCEPT ![u] = d.id] /\ Goto(u, "reusing")
    /\ UNCHANGED <<spec, tableVars, before>>

(* DagRefClient.get: one of the dags with the payload.                     *)
Lookup(u) ==
    /\ call[u] = "looking"
    /\ LET same == {d \in dags : d.payload = Payload[spec[u]]}
       IN  \/ /\ same = {}
              /\ Goto(u, "creating")
              /\ UNCHANGED found
           \/ \E d \in same :
                  /\ found' = [found EXCEPT ![u] = d.id]
                  /\ Goto(u, "reusing")
    /\ UNCHANGED <<spec, tableVars, before>>

NewDag(u)       == [id |-> u, payload |-> Payload[spec[u]]]
NewMeta(u, dag) == [id |-> u, dag |-> dag]

(* Mutant: without the transaction a failure may leave the meta and no     *)
(* task refs.                                                              *)
CreateInParts(u) ==
    /\ call[u] = "creating"
    /\ dags' = dags \cup {NewDag(u)}
    /\ metas' = metas \cup {NewMeta(u, u)}
    /\ \/ taskRefs' = taskRefs \cup {u} /\ Goto(u, "added")
       \/ taskRefs' = taskRefs /\ Goto(u, "raised")
    /\ UNCHANGED <<spec, found, before>>

(* _create_refs_meta_atomic commits; the answer may be lost.               *)
Create(u) ==
    /\ call[u] = "creating"
    /\ dags' = dags \cup {NewDag(u)}
    /\ taskRefs' = taskRefs \cup {u}
    /\ metas' = metas \cup {NewMeta(u, u)}
    /\ Goto(u, "added") \/ Goto(u, "raised")
    /\ UNCHANGED <<spec, found, before>>

(* The meta of a dag that was found; the answer may be lost.               *)
Reuse(u) ==
    /\ call[u] = "reusing"
    /\ metas' = metas \cup {NewMeta(u, found[u])}
    /\ Goto(u, "added") \/ Goto(u, "raised")
    /\ UNCHANGED <<spec, found, dags, taskRefs, before>>

(* Mutant: a lookup that fails answers None, as the options of its retries *)
(* (READ_OPTIONAL, on_exhaust) intend.                                     *)
BreakToNone(u) ==
    /\ call[u] \notin Ended \cup {"idle"}
    /\ Goto(u, IF call[u] = "looking" THEN "creating" ELSE "raised")
    /\ UNCHANGED <<spec, found, tableVars, before>>

(* A call to YT, or the build of the dag, raises, and nothing was written. *)
(* No failure is retried or answered with None: _action_retry itself       *)
(* raises for these calls, which have no positional arguments.             *)
Break(u) ==
    /\ call[u] \notin Ended \cup {"idle"}
    /\ Goto(u, "raised")
    /\ UNCHANGED <<spec, found, tableVars, before>>

Work(u) == Begin(u) \/ ReadSpec(u) \/ Build(u) \/ Lookup(u) \/ Create(u) \/ Reuse(u) \/ Break(u)

AddNext == \E u \in Users : Work(u)

AddSpec == AddInit /\ [][AddNext]_addVars

-----------------------------------------------------------------------------
AddTypeOK ==
    /\ spec \in [Users -> Specs]
    /\ call \in [Users -> CallStages \cup Ended]
    /\ found \in [Users -> Users \cup {NoDag}]
    /\ dags \subseteq DagRows
    /\ taskRefs \subseteq Users
    /\ metas \subseteq [id : Users, dag : Users]
    /\ before \in [Users -> SUBSET DagRows]

(* Every meta, which is what the scheduler creates a run from, has the     *)
(* row of its dag, of the payload that its user asked for, and the rows of *)
(* the dag's tasks, whatever call created them and however it ended.       *)
MetasHaveRefs ==
    \A m \in metas :
        /\ [id |-> m.dag, payload |-> Payload[spec[m.id]]] \in dags
        /\ m.dag \in taskRefs

(* A call that began when there was a dag of its payload does not create   *)
(* another, whatever fails on the way; only calls that overlap do.         *)
SequentialShares ==
    \A d \in dags : \A e \in before[d.id] : e.payload # d.payload
=============================================================================
