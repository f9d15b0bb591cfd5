------------------------------- MODULE Intake -------------------------------
(***************************************************************************)
(* What the schedulers promise to whoever submits a dag: a submission is   *)
(* accepted, for exactly one dag run, which then is queued, or it is       *)
(* rejected, for good.  How rows, transactions, pool jobs and callbacks of *)
(* several processes bring that about is left to the module Claim, which   *)
(* implements this one.                                                    *)
(***************************************************************************)
EXTENDS Naturals

CONSTANT Metas

VARIABLES
    stage,  \* how far a submission is
    runs    \* how many dag runs it got

Init ==
    /\ stage = [m \in Metas |-> "new"]
    /\ runs = [m \in Metas |-> 0]

Move(metas, from, to) ==
    /\ \A m \in metas : stage[m] = from
    /\ stage' = [m \in Metas |-> IF m \in metas THEN to ELSE stage[m]]

Submit(m) == Move({m}, "new", "submitted") /\ UNCHANGED runs

(* A scheduler takes several submissions at once, and all or none of them. *)
Accept(metas) ==
    /\ Move(metas, "submitted", "accepted")
    /\ runs' = [m \in Metas |-> IF m \in metas THEN 1 ELSE runs[m]]

Reject(metas) == Move(metas, "submitted", "rejected") /\ UNCHANGED runs

(* Each run is queued by itself. *)
Queue(m) == Move({m}, "accepted", "queued") /\ UNCHANGED runs

Next ==
    \/ \E m \in Metas : Submit(m) \/ Queue(m)
    \/ \E metas \in SUBSET Metas : Accept(metas) \/ Reject(metas)

Spec == Init /\ [][Next]_<<stage, runs>>
=============================================================================
