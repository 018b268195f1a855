\* A standby process and one fault: every entry is acknowledged.
SPECIFICATION FairSpec
CONSTANTS
    s1 = s1  s2 = s2  name = name  tags = tags  v1 = v1  v2 = v2  m1 = m1
    Subject = {s1, s2}
    Scalar = {name}
    SetField = {tags}
    Value = {v1, v2}
    Member = {m1}
    Missing = Missing
    Absent = Absent
    NoOne = NoOne
    Proc = {p1, p2}
    Edit <- LiveEdits
    MaxLog = 3
    MaxFaults = 1
    StreamMax = 1
    ReadCount = 2
    LapsePhase = {"idle", "recovering", "live", "draining"}
    Sweeping = FALSE
CHECK_DEADLOCK FALSE
PROPERTIES
    EventuallyAcknowledged
