------------------------------ MODULE MCRetry -------------------------------
(* One call of each kind that differs, for TLC. *)
EXTENDS Retry

CONSTANTS queue, examine, refs, abort, load

SiteOfEach ==
    [c \in Calls |->
        CASE c = queue -> "queue_run" [] c = examine -> "examine"
          [] c = refs -> "create_refs" [] c = abort -> "abort"
          [] OTHER -> "load"]
=============================================================================
