\* Three batches over one subject in every arrival order, with lost answers, retries,
\* one record that expires, two quotas, and a vault deleted while two of them are under way.
SPECIFICATION Spec
CONSTANTS
    s1 = s1  name = name  tags = tags  v1 = v1  v2 = v2  m1 = m1
    Subject = {s1}
    Scalar = {name}
    SetField = {tags}
    Value = {v1, v2}
    Member = {m1}
    Missing = Missing
    Absent = Absent
    Unminted = Unminted
    BatchId = {1, 2, 3}
    HlcOf <- MCHlcOf
    Shape <- AllShapes
    MaxBatch = 4
    Expirable = {1}
    Quotas = {2, 100}
    StreamMax = 2
    MaxSeq = 4
    Deletable <- Retired
INVARIANTS
    StreamReplaysStore
    FieldHlcIsNewestAccepted
    LastWriterWins
    DeletionRemembered
    AcknowledgedIsInStream
    BytesExact
    AppliedOnce
PROPERTIES
    GrowthWithinQuota
    DeletionFreezes
