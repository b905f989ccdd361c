----------------------------- MODULE MCKnowledge -----------------------------
(* Tools and skills share no state: either two steps write tools, or two    *)
(* runs and two passes of the sleep cycle meet over two or three skills.    *)
EXTENDS Knowledge, TLC

CONSTANTS r1, r2, m1, m2, p1, p2

Old(a, s) == [at |-> a, score |-> s, by |-> 0]

MCStarts ==
  { [skill |-> << >>, runs |-> {}, makers |-> Maker, passes |-> {}],
    [skill |-> <<Old(1, 1), Old(2, 1), Old(1, 2)>>, runs |-> {}, makers |-> {}, passes |-> Pass],
    [skill |-> <<Old(1, 1), Old(3, 2)>>, runs |-> Run, makers |-> {}, passes |-> Pass] }

Symmetry == Permutations({r1, r2}) \cup Permutations({m1, m2}) \cup Permutations({p1, p2})
=============================================================================
