---------------------------- MODULE MCMetering ----------------------------
EXTENDS Metering, TLC
CONSTANTS c1, c2
Sym == Permutations({c1, c2})
=============================================================================
