------------------------------- MODULE MCPool -------------------------------
(* Small instances of Pool for TLC. *)
EXTENDS Pool

CONSTANTS p, q, f, c, d, o, v

ParentOf(j) == CASE j = c -> p [] j = d -> q [] j = q -> v [] OTHER -> o

(* p submits c and q submits d; an owner submits p and f, another one q. *)
Parents == [j \in Jobs |-> ParentOf(j)]
=============================================================================
