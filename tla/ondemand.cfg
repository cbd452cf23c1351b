SPECIFICATION Spec
CONSTANTS
    Sessions = {hls, direct}
    Direct = {direct}
    Viewers = {a, ffmpeg}
    Internal = {ffmpeg}
    None = None
    Closing = Closing
    Duration = 2
    MaxTime = 3
    MaxCalls = 2
    MaxUpsets = 1
INVARIANTS
    TypeOK
    LastCallWins
    ProgressIsPlayed
