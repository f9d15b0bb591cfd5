---------------------------- MODULE RetryProofs -----------------------------
(***************************************************************************)
(* Proofs about Retry, for any set of calls of any kinds.                  *)
(***************************************************************************)
EXTENDS Retry, TLAPS

(* The stages of a call that has had no effect. *)
Untouched == {"idle", "first", "trying", "waiting", "refused", "answered"}

(* A call that goes on has had no effect: only a refusal lets it go on. *)
EffectInv ==
    \A c \in Calls :
        /\ Site[c] # "abort" => effects[c] <= 1
        /\ Site[c] # "abort" /\ stage[c] \in Untouched => effects[c] = 0

(* How far a call has counted, by where it is. *)
AttemptInv ==
    \A c \in Calls :
        /\ stage[c] \in {"idle", "first"} => attempt[c] = 0 /\ tries[c] <= 1
        /\ stage[c] = "idle" => tries[c] = 0
        /\ stage[c] = "waiting" => attempt[c] < Attempts(Site[c])

IInv == TypeOK /\ AttemptInv /\ EffectInv

LEMMA AttemptsType == \A s : Attempts(s) \in 2..4
  BY DEF Attempts

LEMMA InitInv == Init => IInv
  BY AttemptsType, RetryAssumption
  DEF Init, IInv, TypeOK, AttemptInv, EffectInv, Stages, Untouched

LEMMA StepInv == IInv /\ [Next]_vars => IInv'
<1> SUFFICES ASSUME IInv, [Next]_vars PROVE IInv'
  OBVIOUS
<1> USE AttemptsType, RetryAssumption
    DEF IInv, TypeOK, AttemptInv, EffectInv, Stages, Untouched, Goes, Retried
<1>1. ASSUME NEW c \in Calls, Begin(c) PROVE IInv'
  <2>1. CASE Wrapped(Site[c])
    BY <1>1, <2>1 DEF Begin
  <2>2. CASE ~Wrapped(Site[c])
    BY <1>1, <2>2 DEF Begin
  <2> QED BY <2>1, <2>2
<1>2. ASSUME NEW c \in Calls, Return(c) PROVE IInv'
  BY <1>2 DEF Return, Running, TakesEffect
\* A failure, whatever it did to the effects of a call it ends.
<1>3. ASSUME NEW c \in Calls, NEW error \in {"refused", "other"}, Fails(c, error),
             \/ UNCHANGED effects
             \/ error = "other" /\ TakesEffect(c)
      PROVE  IInv'
  <2>0. error = "other" /\ Site[c] # "abort" => ~Caught(Site[c], error)
    BY DEF Caught
  <2>1. CASE FirstFails(c, error)
    <3>1. CASE Caught(Site[c], error) /\ Logged(Site[c])
      <4>1. error = "refused"
        BY <1>3, <3>1 DEF Caught, Logged
      <4> QED BY <1>3, <2>1, <3>1, <4>1 DEF FirstFails
    <3>2. CASE ~(Caught(Site[c], error) /\ Logged(Site[c]))
      <4>1. stage[c] = "first" /\ Goes(c, "raised")
        BY <1>3, <2>1, <3>2 DEF FirstFails, Raised, Caught
      <4> QED BY <1>3, <4>1 DEF TakesEffect
    <3> QED BY <3>1, <3>2
  <2>2. CASE TryFails(c, error)
    <3>1. CASE ~Caught(Site[c], error)
      <4>1. Outcome(c, error) = "raised" /\ error = "other"
        BY <1>3, <3>1 DEF Outcome, Raised, Caught
      <4> QED BY <1>3, <2>2, <4>1 DEF TryFails, TakesEffect
    <3>2. CASE Caught(Site[c], error) /\ Exhausted(c)
      <4>1. Outcome(c, error) \in {"answered", "refused", "raised"}
        BY <3>2 DEF Outcome, AfterLast, Raised
      <4>2. Site[c] # "abort" => UNCHANGED effects
        BY <1>3, <2>0, <3>2
      <4> QED BY <1>3, <2>2, <4>1, <4>2 DEF TryFails, TakesEffect
    <3>3. CASE Caught(Site[c], error) /\ ~Exhausted(c)
      <4>1. Outcome(c, error) = "waiting"
        BY <3>3 DEF Outcome
      <4>2. Site[c] # "abort" => UNCHANGED effects
        BY <1>3, <2>0, <3>3
      <4>3. attempt[c] < Attempts(Site[c])
        BY <3>3 DEF Exhausted
      <4> QED BY <1>3, <2>2, <4>1, <4>2, <4>3 DEF TryFails, TakesEffect
    <3> QED BY <3>1, <3>2, <3>3
  <2> QED BY <1>3, <2>1, <2>2 DEF Fails
<1>4. ASSUME NEW c \in Calls, TryAgain(c) PROVE IInv'
  BY <1>4 DEF TryAgain
<1>5. CASE UNCHANGED vars
  BY <1>5 DEF vars
<1>6. ASSUME NEW c \in Calls, CallStep(c) PROVE IInv'
  <2>1. CASE Refused(c) BY <1>3, <2>1 DEF Refused
  <2>2. CASE Breaks(c)  BY <1>3, <2>2 DEF Breaks
  <2> QED BY <1>2, <1>4, <1>6, <2>1, <2>2 DEF CallStep
<1> QED BY <1>1, <1>5, <1>6 DEF Next

(* A call that may be tried again has had no effect, nor has one that      *)
(* ended with a lock conflict (retrier.py, handle_exceptions.py).          *)
THEOREM RetryInvariant == Spec => []IInv
  BY InitInv, StepInv, PTL DEF Spec

(* Attempts and tries stay within the options, for calls of any kinds. *)
THEOREM RetryTypeCorrect == Spec => []TypeOK
<1>1. IInv => TypeOK BY DEF IInv
<1> QED BY RetryInvariant, <1>1, PTL

(* No call but the abort is applied twice (TRANSIENT_LOCK_ERRORS). *)
THEOREM AppliedOnceCorrect == Spec => []AppliedOnce
<1>1. IInv => AppliedOnce BY DEF IInv, EffectInv, AppliedOnce
<1> QED BY RetryInvariant, <1>1, PTL

(* A caller that is told of a lock conflict, or gets a default, may take   *)
(* it that no try of its call took effect, whatever the kinds of calls.    *)
THEOREM RefusedWroteNothingCorrect == Spec => []RefusedWroteNothing
<1>1. IInv => RefusedWroteNothing
  BY DEF IInv, EffectInv, RefusedWroteNothing, Untouched
<1> QED BY RetryInvariant, <1>1, PTL
=============================================================================
