---------------------------- MODULE MCSandboxes ----------------------------
EXTENDS Sandboxes
CONSTANTS e1, e2, c1, c2, c3
Sym == Permutations({c1, c2, c3}) \cup Permutations({e1, e2})
=============================================================================
