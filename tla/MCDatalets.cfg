\* Two vaults beside one from elsewhere, two items, four gestures, one fault.
\* CHECK_DEADLOCK FALSE: gestures and items are bounded.
SPECIFICATION Spec
CONSTANTS
    v1 = v1  v2 = v2  u1 = u1  u2 = u2  u3 = u3  i1 = i1  i2 = i2
    Vault = {v1, v2}
    Elsewhere = {v1}
    Uuid = {u1, u2, u3}
    Local = Local
    NoVault = NoVault
    Item = {i1, i2}
    Budget = 1
    MaxToken = 2
    MaxGestures = 4
    MaxFaults = 1
CHECK_DEADLOCK FALSE
INVARIANTS
    WorkSurvives
    OneResident

    
