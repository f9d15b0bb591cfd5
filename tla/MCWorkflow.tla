----------------------------- MODULE MCWorkflow -----------------------------
(* Small instances of Workflow for TLC. *)
EXTENDS WorkflowInv, TLC

CONSTANTS a, b, c

(* b consumes what a produces. *)
Chain == [t \in Tasks |-> IF t = b THEN {a} ELSE {}]

(* c consumes what a and b produce. *)
Join == [t \in Tasks |-> IF t = c THEN {a, b} ELSE {}]

(* The slots of a pool are interchangeable. *)
SlotSymmetry == Permutations(Slots)
=============================================================================
