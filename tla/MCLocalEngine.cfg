\* Two tabs, three changes, one fault, a stack of two entries.
\* CHECK_DEADLOCK FALSE: changes are bounded.
SPECIFICATION Spec
CONSTANTS
    s1 = s1  s2 = s2  name = name  tags = tags  v1 = v1  v2 = v2
    m1 = m1  t1 = t1  t2 = t2
    Subject = {s1, s2}
    Scalar = {name}
    SetField = {tags}
    Value = {v1, v2}
    Member = {m1}
    Missing = Missing
    Absent = Absent
    NoTarget = NoTarget
    Tab = {t1, t2}
    Stored <- MCStored
    EditOf <- MCEditOf
    Incoming <- MCIncoming
    UndoLimit = 2
    MaxOps = 3
    MaxFaults = 1
CHECK_DEADLOCK FALSE
INVARIANTS
    SettledIsSaved
    CleanIsSaved
    UndoUnwinds
PROPERTIES
    LateTabCatchesUp
