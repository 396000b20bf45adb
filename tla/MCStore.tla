------------------------------ MODULE MCStore ------------------------------
(* Small instances of Store: tea is on the shelf, a service is not stocked. *)
EXTENDS Store, TLC

CONSTANTS tea, service

MCPrice == tea :> 1 @@ service :> 2
MCOpening == tea :> 2 @@ service :> 0
MCFunds == "balance" :> 1 @@ "credit" :> 1 @@ "points" :> 1
MCCart == {tea :> 1 @@ service :> 0, tea :> 2 @@ service :> 0, tea :> 0 @@ service :> 1}
Paid(credit, points, due) == [credit |-> credit, points |-> points, due |-> due]
MCTender == {Paid(<<>>, 0, 0), Paid(<<1>>, 0, 0), Paid(<<1, 1>>, 0, 0),
             Paid(<<>>, 1, 0), Paid(<<>>, 0, 1)}
Symmetry == Permutations(Req)
=============================================================================
