---------------------------- MODULE MCCreditNotes ----------------------------
(* Small instances of CreditNotes: one invoice of 3 units. *)
EXTENDS CreditNotes, TLC

MCTotal == <<3>>
Symmetry == Permutations(Req) \cup Permutations(Clerk)
=============================================================================
