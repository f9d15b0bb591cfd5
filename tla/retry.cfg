SPECIFICATION Spec
CONSTANTS
    queue = queue
    examine = examine
    refs = refs
    abort = abort
    load = load
    Calls = {queue, examine, refs, abort, load}
    Site <- SiteOfEach
INVARIANTS
    TypeOK
    AppliedOnce
    RefusedWroteNothing
CHECK_DEADLOCK FALSE
