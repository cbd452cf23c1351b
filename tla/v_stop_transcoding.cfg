SPECIFICATION Spec
CONSTANTS
    Loops = {l1}
    Procs = {p1, p2}
    None = None
    MaxCalls = 2
INVARIANTS
    StopEndsTranscoding
