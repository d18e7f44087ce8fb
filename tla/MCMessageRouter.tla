-------------------------- MODULE MCMessageRouter --------------------------
EXTENDS MessageRouter, TLC

CONSTANTS h1, h2

Symmetry == Permutations(Handler)
=============================================================================
