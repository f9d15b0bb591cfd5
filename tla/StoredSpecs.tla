---------------------------- MODULE StoredSpecs -----------------------------
(***************************************************************************)
(* The commands of Command with what is stored of the specs that they add: *)
(* the graph and the stored parameters decide the payload.                 *)
(***************************************************************************)
EXTENDS Command, Serial

Repr(s) == [graph |-> Content[s].graph, params |-> Stored(Content[s].params)]

ASSUME PayloadAssumption ==
    /\ \A s \in Specs : Content[s].params \in Level[Nesting] /\ Content[s].params[1] = "dict"
    /\ \A s \in Specs : Repr(Payload[s]) = Repr(s)
    /\ \A s \in Specs : Payload[Payload[s]] = Payload[s]

(* What the scheduler loads for a meta is what its user asked for, also    *)
(* when the dag is another user's: only nan, dates and other objects are   *)
(* text, and a dag with a datetime is added but cannot be loaded.          *)
LoadsWhatWasAdded ==
    \A m \in metas, d \in dags :
        d.id = m.dag =>
            Loaded(Repr(spec[d.id]).params) = Kept[Content[spec[m.id]].params]
=============================================================================
