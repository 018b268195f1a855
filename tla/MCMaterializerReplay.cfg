\* Two processes take over from each other; their leases run out only when they are gone.
SPECIFICATION Spec
CONSTANTS
    s1 = s1  s2 = s2  name = name  tags = tags  v1 = v1  v2 = v2  m1 = m1
    Subject = {s1, s2}
    Scalar = {name}
    SetField = {tags}
    Value = {v1, v2}
    Member = {m1}
    Missing = Missing
    Absent = Absent
    NoOne = NoOne
    Proc = {p1, p2}
    Edit <- ReplayEdits
    MaxLog = 3
    MaxFaults = 2
    StreamMax = 10
    ReadCount = 2
    LapsePhase = {}
    Sweeping = TRUE
CHECK_DEADLOCK FALSE
INVARIANTS
    MirrorFollowsStream
    NoConcurrentReplay
