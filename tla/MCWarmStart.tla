---------------------------- MODULE MCWarmStart ----------------------------
EXTENDS WarmStart
CONSTANTS r1, r2
=============================================================================
