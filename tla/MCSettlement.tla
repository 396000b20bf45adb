---------------------------- MODULE MCSettlement ----------------------------
(* Small instances of Settlement: two invoices, of 2 and of 1 unit. *)
EXTENDS Settlement, TLC

MCTotal == <<2, 1>>
Symmetry == Permutations(Req)
=============================================================================
