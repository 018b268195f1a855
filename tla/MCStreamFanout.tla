--------------------------- MODULE MCStreamFanout ---------------------------
EXTENDS StreamFanout

CONSTANTS c1, c2
=============================================================================
