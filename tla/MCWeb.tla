-------------------------------- MODULE MCWeb --------------------------------
(***************************************************************************)
(* Instances of prices, pages, shifts and reports.  They share no state,   *)
(* so a behaviour runs one of them and leaves the others as they start.    *)
(***************************************************************************)
EXTENDS Pricing, Workspace, Shifts, Reports, TLC

CONSTANTS w1, w2, b1, b2

VARIABLE scene

TwoWindows == {w1, w2}
TwoBills == {b1, b2}

\* The members of each set are alike.
Alike == Permutations(TwoWindows) \cup Permutations(TwoBills)

\* Lines at which rounding matters, a fourth one of each to share a discount with, and so many
\* small ones that the last is given less than nothing of a discount of 4, and none but the last
\* anything of a discount of 3.
Row(q, p, o, c, r) == [qty |-> q, price |-> p, off |-> o, pct |-> c, rate |-> r, rule |-> FALSE]
Lines ==
  {Row(1, 1, 0, 0, 18), Row(1, 3, 0, 0, 18), Row(2, 25, 5, 0, 18), Row(1, 99, 0, 50, 0),
   Row(1, 7, 9, 0, 18)}
SomeBills ==
  UNION {[1..n -> Lines] : n \in 1..2} \cup {<<l, l, l, l>> : l \in Lines}
    \cup {<<Row(2, 25, 5, 0, 18), k, Row(1, 7, 9, 0, 18)>> : k \in Lines}
    \cup {[i \in 1..7 |-> Row(1, 1, 0, 0, 50)]}
SomeRevisions == {<<Row(1, 3, 0, 0, 18)>>, <<Row(2, 25, 5, 0, 18), Row(1, 99, 0, 50, 0)>>}
Rule(n, f, o, v, a, m) ==
  [name |-> n, field |-> f, op |-> o, value |-> v, act |-> a, amount |-> m]
SomeRules ==
  {{},
   {Rule("bulk", "subtotal", "greater_than", 50, "apply_discount", 10),
    Rule("small", "subtotal", "less_than", 60, "add_surcharge", 7)},
   {Rule("many", "count", "greater_than", 1, "set_field", 0),
    Rule("vip", "marked", "equals", TRUE, "apply_discount", 60),
    Rule("check", "subtotal", "greater_than", 50, "require_approval", 0)},
   {Rule("many", "count", "greater_than", 1, "apply_discount", 70),
    Rule("bulk", "subtotal", "greater_than", 50, "apply_discount", 50),
    Rule("any", "count", "greater_than", 0, "add_surcharge", 3)}}

AllModules == {itemModules[p] : p \in DOMAIN itemModules}
FewModules == {"invoices", "customers", "pos", "products", "payments"}
SomeModules ==
  {AllModules, FewModules,
   AllModules \ {"projects"}, AllModules \ {"subscriptions", "suppliers"}}
TwoSets == {AllModules, FewModules}

SomeFigures == {[sub |-> 2, off |-> 1, tax |-> 1, qty |-> 2]}

vars == <<pricingVars, workspaceVars, shiftVars, reportsVars, scene>>

Init ==
  /\ PricingInit /\ WorkspaceInit /\ ShiftsInit /\ ReportsInit
  /\ scene \in {"prices", "pages", "shifts", "reports"}
  /\ scene # "prices" => inForce = {}
  /\ scene # "pages" =>
       role = "admin" /\ account = "admin"
         /\ org = [type |-> "retail", modules |-> FewModules, onboarded |-> TRUE, next |-> 1]

Next ==
  /\ UNCHANGED scene
  /\ \/ /\ scene = "prices" /\ PricingNext
        /\ UNCHANGED <<workspaceVars, shiftVars, reportsVars>>
     \/ /\ scene = "pages" /\ WorkspaceNext
        /\ UNCHANGED <<pricingVars, shiftVars, reportsVars>>
     \/ /\ scene = "shifts" /\ ShiftsNext
        /\ UNCHANGED <<pricingVars, workspaceVars, reportsVars>>
     \/ /\ scene = "reports" /\ ReportsNext
        /\ UNCHANGED <<pricingVars, workspaceVars, shiftVars>>

Spec == Init /\ [][Next]_vars
=============================================================================
