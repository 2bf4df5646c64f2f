----------------------------- MODULE MCRollout -----------------------------
EXTENDS Rollout

CONSTANTS t1, t2, t3, main
=============================================================================
