\* Every batch of up to three patches over two subjects, from every store in
\* which at most one of them has a record.
SPECIFICATION Spec
CONSTANTS
    Subject = {s1, s2}
    Scalar = {name}
    SetField = {tags}
    Value = {v1}
    Member = {m1, m2}
    Missing = Missing
    Absent = Absent
    Base <- MCBase
    FreshRecord <- MCFresh
    MaxBatch = 3
CHECK_DEADLOCK FALSE
INVARIANTS
    LoopComputesBatch
    RedeliveryHarmless
