---------------------------- MODULE MCCredentials ----------------------------
(* Two tokens of every two kinds that touch the same tables; three requests *)
(* and two clients.                                                         *)
EXTENDS Credentials, TLC

CONSTANTS u1, u2, t1, t2, a1, a2, a3, c1, c2

For(k, u) == [kind |-> k, user |-> u]
Both(p, q) == (t1 :> p) @@ (t2 :> q)

MCPurposes ==
  { Both(For("magic", u1), For("magic", u1)), Both(For("telegram", u1), For("slack", u2)),
    Both(For("slack", u1), For("slack", u2)),
    Both(For("oauth", u1), For("oauth", u1)), Both(For("oauth", u1), For("magic", u2)) }

Symmetry == Permutations({a1, a2, a3}) \cup Permutations({c1, c2})
=============================================================================
