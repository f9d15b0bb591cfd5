------------------------------ MODULE MCClaim ------------------------------
(* Small instances of Claim for TLC. *)
EXTENDS Claim

CONSTANTS m, n, d, e

(* Two submissions, of a dag each. *)
DagOfEach == [x \in Metas |-> IF x = m THEN d ELSE e]
=============================================================================
