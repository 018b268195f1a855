\* Three requests, two at a time, two faults of any kind; a vault of two batches.
\* CHECK_DEADLOCK FALSE: requests are bounded.
SPECIFICATION Spec
CONSTANTS
    r1 = r1  r2 = r2  source = source  copy = copy  p1 = p1  k1 = k1  t1 = t1
    Source = source
    Copy = copy
    Slot = {r1, r2}
    PairCode = {p1}
    CloneCode = {k1}
    Ticket = {t1}
    Chunks = 2
    MaxToken = 4
    MaxStarts = 3
    MaxFaults = 2
    Fault = {"neo4j", "redis", "crash", "loss"}
    Interleaved = FALSE
SYMMETRY Alike
CHECK_DEADLOCK FALSE
INVARIANTS
    
    
    RedeemedOnce
    RedeemableIsListed
    CopiesAreWhole
