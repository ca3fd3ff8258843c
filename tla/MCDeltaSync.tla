---------------------------- MODULE MCDeltaSync ----------------------------
\* The instance of DeltaSync that is model-checked.
EXTENDS DeltaSync, TLC

CONSTANTS u1, u2, p1, p2
=============================================================================
