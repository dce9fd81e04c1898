------------------------------- MODULE MCShell -------------------------------
EXTENDS Shell
CONSTANTS r1, r2
=============================================================================
