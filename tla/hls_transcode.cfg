SPECIFICATION FairSpec
CONSTANTS
    Loops = {l1, l2}
    Procs = {p1, p2}
    None = None
    MaxCalls = 2
INVARIANTS
    TypeOK
    AwaitedOnce
    ErrorIsStopped
    StartedHasLoop
PROPERTIES
    StoppedGoesQuiet
