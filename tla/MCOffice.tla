------------------------------- MODULE MCOffice -------------------------------
(***************************************************************************)
(* Instances of the components of the back office.  They share no state,   *)
(* so a behaviour runs one of them and leaves the others as they start.    *)
(***************************************************************************)
EXTENDS Team, Organization, Contracts, TLC

CONSTANTS p1, p2, o1, o2, r1, r2, c1, c2, d1, d2

VARIABLE scene

Two(a, b) == {a, b}
TwoPeople == Two(p1, p2)
TwoOrgs == Two(o1, o2)
TwoRequests == Two(r1, r2)
TwoClerks == Two(c1, c2)
TwoDesks == Two(d1, d2)

\* The members of each set are alike; saying so pays for the largest component only.
Alike == UNION {Permutations(s) : s \in {TwoPeople, TwoOrgs, TwoRequests}}

Presets ==
  [retail |-> [modules |-> {"pos"}, fields |-> {"warranty"}],
   custom |-> [modules |-> {}, fields |-> {}]]
Architectures ==
  {[model |-> "retail", modules |-> {"plans"}, fields |-> {"warranty"}, rules |-> {"bulk"}]}

vars == <<teamVars, orgVars, contractVars, scene>>

Init ==
  /\ TeamInit /\ OrgInit /\ ContractsInit
  /\ scene \in {"team", "organization", "contracts"}
  /\ scene # "organization" => doc.model = "custom" /\ clerk[c2] = Off

Next ==
  /\ UNCHANGED scene
  /\ \/ /\ scene = "team" /\ TeamNext
        /\ UNCHANGED <<orgVars, contractVars>>
     \/ /\ scene = "organization" /\ OrgNext
        /\ UNCHANGED <<teamVars, contractVars>>
     \/ /\ scene = "contracts" /\ ContractsNext
        /\ UNCHANGED <<teamVars, orgVars>>

Spec == Init /\ [][Next]_vars
=============================================================================
