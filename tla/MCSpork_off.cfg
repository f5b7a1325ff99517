CONSTANTS
    n1 = n1
    n2 = n2
    n3 = n3
    s11 = s11
    s12 = s12
    Nodes = {n1, n2, n3}
    Signers = {n1}
    SporkIDs = {s11, s12}
    ResetBudget = s11
    Reconsider = s12
    Inputs = {1, 13}
    Default <- Defaults
    OFF = 13
    HalfInt = 8
    StartTime = 2
    MaxTime = 3
    MaxUpdates = 2
    MaxRestarts = 1
SPECIFICATION Spec
PROPERTY OffDisables
CHECK_DEADLOCK FALSE
