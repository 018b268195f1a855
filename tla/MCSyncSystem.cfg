\* Three batches of one node and a node that follows, one mishap, streams trimmed
\* to one entry, one batch remembered, a quota that a note may exceed.
\* CHECK_DEADLOCK FALSE: everybody may be done.
SPECIFICATION SyncSpec
CONSTANTS
    n1 = n1  n2 = n2  s1 = s1  name = name  note = note  v1 = v1  v2 = v2
    Subject = {s1}
    Scalar = {name, note}
    SetField = {}
    Value = {v1, v2}
    Member = {}
    Missing = Missing
    Absent = Absent
    Unminted = Unminted
    Idle = Idle
    NoSnapshot = NoSnapshot
    BatchId = {1, 2, 3}
    HlcOf <- MCHlcOf
    Shape <- NodeEdits
    MaxBatch = 3
    Expirable = {}
    Quotas = {2, 100}
    StreamMax = 1
    MaxSeq = 3
    Deletable = {}
    Node = {n1, n2}
    NodeOf <- OneEditor
    RingSize = 1
    MaxMishaps = 1
    Killable = {n1}
    Lagging = FALSE
    Overlapping = FALSE
CHECK_DEADLOCK FALSE
INVARIANTS
    UnansweredIsQueued
    OwnBatchesInOrder
    
PROPERTIES
    Spec
    RejectedIsNowhere
