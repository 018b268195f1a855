---------------------------- MODULE MCDatalets ----------------------------
EXTENDS Datalets

CONSTANTS v1, v2, u1, u2, u3, i1, i2
=============================================================================
