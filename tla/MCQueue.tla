------------------------------ MODULE MCQueue ------------------------------
EXTENDS Queue, TLC
=============================================================================
