------------------------------- MODULE Retry --------------------------------
(***************************************************************************)
(* A call of a row client or of a Retrier (retrier.py, handle_exceptions.py *)
(* and the options of rows_clients.py): which errors are tried again, how  *)
(* often, and what the caller is told in the end.                          *)
(*                                                                         *)
(* The wrapper of handle_exceptions tries a call once on its own and hands *)
(* it to a Retrier only if the error is a lock conflict; the Retrier then  *)
(* counts its attempts from one.  A lock conflict is a refusal: the call   *)
(* had no effect.  Any other error leaves open whether it had one.         *)
(***************************************************************************)
EXTENDS Integers

CONSTANTS
    Calls,      \* calls in progress
    Site        \* the kind of each call

(* queue_run: DagRunClient.queue_run_atomic(run, dag); write: the other    *)
(* calls that change rows; examine: the reads, update_state, schedule_trs  *)
(* and _create_dag_runs_atomic, which answer a default on exhaust;         *)
(* create_refs: the transaction of try_add_dag; abort and load: the uses   *)
(* of a bare Retrier in _orphan_cleanup and _try_claim_dagruns.            *)
Sites == {"queue_run", "write", "examine", "create_refs", "abort", "load"}

ASSUME RetryAssumption == Site \in [Calls -> Sites]

(* Retrier.attempts: one more than the configured retries. *)
Attempts(s) == CASE s = "create_refs" -> 4 [] s = "load" -> 2 [] OTHER -> 3

(* The sites behind handle_exceptions. *)
Wrapped(s) == s \notin {"abort", "load"}

(* _action_retry takes its logger from the first positional argument: only *)
(* queue_run_atomic is called with one that has a log.  Without one an     *)
(* AttributeError ends the call.                                           *)
Logged(s) == s = "queue_run"

(* raise_on_exhaust is false: a default is answered instead of the error. *)
Answers(s) == s \in {"examine", "abort", "load"}

(* Mutant: every error is tried again. *)
AnyCaught(s, error) == TRUE

(* TRANSIENT_LOCK_ERRORS, for which calls are tried again; the Retrier of  *)
(* the abort takes any Exception.                                          *)
Caught(s, error) == error = "refused" \/ s = "abort"

Stages == {"idle", "first", "trying", "waiting", "returned", "answered",
           "refused", "raised"}

VARIABLES
    stage,      \* where a call is: in its first try, in an attempt of the
                \* Retrier, in a back-off, or ended: with a result, with a
                \* default, with a lock conflict or with another error
    attempt,    \* Retrier.run's attempt
    tries,      \* how often the function was called
    effects     \* how often the function took effect

vars == <<stage, attempt, tries, effects>>

Init ==
    /\ stage = [c \in Calls |-> "idle"]
    /\ attempt = [c \in Calls |-> 0]
    /\ tries = [c \in Calls |-> 0]
    /\ effects = [c \in Calls |-> 0]

-----------------------------------------------------------------------------
Goes(c, s) ==
    /\ stage' = [stage EXCEPT ![c] = s]
    /\ UNCHANGED <<attempt, tries>>

(* Retrier.run calls the function for its k-th attempt. *)
Retried(c, k) ==
    /\ stage' = [stage EXCEPT ![c] = "trying"]
    /\ attempt' = [attempt EXCEPT ![c] = k]
    /\ tries' = [tries EXCEPT ![c] = @ + 1]

Begin(c) ==
    /\ stage[c] = "idle"
    /\ IF Wrapped(Site[c])
       THEN /\ stage' = [stage EXCEPT ![c] = "first"]
            /\ tries' = [tries EXCEPT ![c] = 1]
            /\ UNCHANGED attempt
       ELSE Retried(c, 1)
    /\ UNCHANGED effects

Running(c) == stage[c] \in {"first", "trying"}

TakesEffect(c) == effects' = [effects EXCEPT ![c] = @ + 1]

Return(c) ==
    /\ Running(c)
    /\ TakesEffect(c)
    /\ Goes(c, "returned")

(* The caller gets the error. *)
Raised(error) == IF error = "refused" THEN "refused" ELSE "raised"

(* Mutant: the wrapper tries again after any error. *)
FirstFailsAny(c, error) ==
    /\ stage[c] = "first"
    /\ IF Logged(Site[c]) THEN Retried(c, 1) ELSE Goes(c, Raised(error))

(* The wrapper's own try fails: it retries, which may be the               *)
(* AttributeError of _action_retry, or rethrows.                           *)
FirstFails(c, error) ==
    /\ stage[c] = "first"
    /\ IF Caught(Site[c], error)
       THEN IF Logged(Site[c]) THEN Retried(c, 1) ELSE Goes(c, "raised")
       ELSE Goes(c, Raised(error))

(* Mutant: the attempt after the last one is made. *)
ExhaustedLate(c) == attempt[c] = Attempts(Site[c]) + 1

Exhausted(c) == attempt[c] = Attempts(Site[c])

(* The end of Retrier.run. *)
AfterLast(c, error) == IF Answers(Site[c]) THEN "answered" ELSE Raised(error)

(* The except clause of Retrier.run. *)
Outcome(c, error) ==
    IF Caught(Site[c], error)
    THEN IF Exhausted(c) THEN AfterLast(c, error) ELSE "waiting"
    ELSE Raised(error)

TryFails(c, error) ==
    /\ stage[c] = "trying"
    /\ Goes(c, Outcome(c, error))

Fails(c, error) == FirstFails(c, error) \/ TryFails(c, error)

(* A lock conflict: the transaction is aborted. *)
Refused(c) ==
    /\ Fails(c, "refused")
    /\ UNCHANGED effects

(* Another error, before or after the request took effect. *)
Breaks(c) ==
    /\ Fails(c, "other")
    /\ TakesEffect(c) \/ UNCHANGED effects

(* The back-off is over. *)
TryAgain(c) ==
    /\ stage[c] = "waiting"
    /\ Retried(c, attempt[c] + 1)
    /\ UNCHANGED effects

CallStep(c) ==
    \/ Return(c)
    \/ Refused(c)
    \/ Breaks(c)
    \/ TryAgain(c)

Next == \E c \in Calls : Begin(c) \/ CallStep(c)

Spec == Init /\ [][Next]_vars

-----------------------------------------------------------------------------
(* A call makes no more attempts than its options allow, and no more tries *)
(* than those and the wrapper's own one.                                   *)
TypeOK ==
    /\ stage \in [Calls -> Stages]
    /\ attempt \in [Calls -> Nat]
    /\ tries \in [Calls -> Nat]
    /\ effects \in [Calls -> Nat]
    /\ \A c \in Calls : /\ attempt[c] <= Attempts(Site[c])
                        /\ tries[c] <= attempt[c] + 1

(* A call that may have taken effect is not tried again, so none but the   *)
(* abort of an operation, which may be repeated, is applied twice          *)
(* (TRANSIENT_LOCK_ERRORS against any other error).                        *)
AppliedOnce == \A c \in Calls : Site[c] # "abort" => effects[c] <= 1

(* A caller that is told of a lock conflict, as the scheduler is by        *)
(* queue_run_atomic, or gets the default that stands for its error, may    *)
(* take it that nothing was done: not only the last try of the call was    *)
(* refused, no earlier one took effect and lost its answer.  Of the load,  *)
(* whose default rejects a meta: no try of it loaded the dag.              *)
RefusedWroteNothing ==
    \A c \in Calls :
        stage[c] \in {"refused", "answered"} /\ Site[c] # "abort" => effects[c] = 0
=============================================================================
