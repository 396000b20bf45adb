----------------------------- MODULE Receivables -----------------------------
(***************************************************************************)
(* What the payment handlers promise about one customer's invoices:        *)
(* money collected comes off what is due, once; money returned goes back   *)
(* on; never more is collected than is due nor returned than collected.    *)
(* Settlement implements it as long as users wait for a payment's answer   *)
(* before they refund it.                                                  *)
(***************************************************************************)
EXTENDS Integers

CONSTANTS
  Invoice,
  Payer,
  Money,  \* amounts that may change hands at once
  Total   \* what each invoice was issued for

VARIABLES
  due,        \* what is left to pay on each invoice
  collected,  \* what payer r brought in for invoice i, 0 if nothing
  returned    \* how much of it was given back

vars == <<due, collected, returned>>

Init ==
  /\ due = Total
  /\ collected = [p \in Payer \X Invoice |-> 0]
  /\ returned = [p \in Payer \X Invoice |-> 0]

\* Payer r pays split[i] on each invoice i, at once and once only.
Collect(r, split) ==
  /\ \A i \in Invoice : split[i] <= due[i]
  /\ \A i \in Invoice : split[i] > 0 => collected[<<r, i>>] = 0
  /\ due' = [i \in Invoice |-> due[i] - split[i]]
  /\ collected' = [p \in Payer \X Invoice |->
                     IF p[1] = r THEN collected[p] + split[p[2]] ELSE collected[p]]
  /\ UNCHANGED returned

Return(p, a) ==
  /\ returned[p] + a <= collected[p]
  /\ returned' = [returned EXCEPT ![p] = @ + a]
  /\ due' = [due EXCEPT ![p[2]] = @ + a]
  /\ UNCHANGED collected

Next ==
  \/ \E r \in Payer : \E split \in [Invoice -> Money \cup {0}] : Collect(r, split)
  \/ \E p \in Payer \X Invoice : \E a \in Money : Return(p, a)

Spec == Init /\ [][Next]_vars
=============================================================================
