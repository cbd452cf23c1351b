SPECIFICATION Spec
CONSTANTS
    Clients = {a, b}
    MaxKeep = 3
    KeepBefore = 1
    Leads <- BothPacings
    MaxSegments = 5
    MaxBreaks = 1
    MaxPolls = 1
SYMMETRY ClientSymmetry
INVARIANTS
    TypeOK
    ListedUnlessMinimumFell
PROPERTIES
    EdgeNeverRecedes
    DeletionKeepsMargin
