------------------------------- MODULE MCPass -------------------------------
EXTENDS Pass
=============================================================================
