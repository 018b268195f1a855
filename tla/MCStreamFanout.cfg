\* Two connections, two entries, a stream that may be trimmed to one.
\* CHECK_DEADLOCK FALSE: all connections may be over and the stream full.
SPECIFICATION FairSpec
CONSTANTS
    c1 = c1  c2 = c2
    Conn = {c1, c2}
    MaxSeq = 2
    StreamMax = 1
    Ahead = FALSE
CHECK_DEADLOCK FALSE
INVARIANTS
    NothingSkipped
PROPERTIES
    ImplementsFeed
