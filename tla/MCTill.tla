------------------------------- MODULE MCTill -------------------------------
(* Instances of Till. *)
EXTENDS Till

CONSTANTS t1, t2, s1, s2

TwoTills == {t1, t2}
Ann == {s1}
=============================================================================
