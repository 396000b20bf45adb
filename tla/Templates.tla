------------------------------- MODULE Templates -------------------------------
(***************************************************************************)
(* Invoice templates, of which the default one fills new invoices.  A      *)
(* request that sets a default takes it from the others first, and stores  *)
(* its own template afterwards, which may fail.                            *)
(***************************************************************************)
EXTENDS Integers, FiniteSets, Sequences

CONSTANTS
  Titles,
  MaxTemplates, \* bound: templates ever made
  MaxRequests   \* bound: requests ever made

ASSUME TemplatesAssumption == MaxTemplates \in Nat /\ MaxRequests \in Nat

VARIABLES
  templates, \* each template ever made: [name, isDefault, there]
  saving,    \* requests between their two steps: [id, name, isDefault], id 0 to create
  overlap,   \* whether two that set a default overlapped
  requests

templatesVars == <<templates, saving, overlap, requests>>

There == {i \in DOMAIN templates : templates[i].there}
Taken(name, id) == \E i \in There \ {id} : templates[i].name = name
Defaults == {i \in There : templates[i].isDefault}

TemplatesInit == templates = <<>> /\ saving = {} /\ overlap = FALSE /\ requests = 0

\* updateMany: every template but id loses the default.
Cleared(id) == [i \in DOMAIN templates |-> [templates[i] EXCEPT !.isDefault = @ /\ i = id]]

\* Mutant of Clears: only a new template takes the default from the others.
ClearsForNew(r) == r.isDefault /\ r.id = 0

Clears(r) == r.isDefault

\* createTemplate and updateTemplate, up to their save. The page sends all it holds.
ClearOthers(r) ==
  /\ requests < MaxRequests
  /\ requests' = requests + 1
  /\ templates' = IF Clears(r) THEN Cleared(r.id) ELSE templates
  /\ saving' = saving \cup {r}
  /\ overlap' = (overlap \/ (r.isDefault /\ \E s \in saving : s.isDefault))

\* A name in use is refused. What was cleared stays cleared.
createTemplate(r) ==
  /\ r.id = 0
  /\ saving' = saving \ {r}
  /\ IF Taken(r.name, 0) THEN UNCHANGED templates
     ELSE /\ Len(templates) < MaxTemplates
          /\ templates' =
               Append(templates, [name |-> r.name, isDefault |-> r.isDefault, there |-> TRUE])
  /\ UNCHANGED <<overlap, requests>>

\* So is a template that is gone by then.
updateTemplate(r) ==
  /\ r.id # 0
  /\ saving' = saving \ {r}
  /\ templates' = IF r.id \notin There \/ Taken(r.name, r.id) THEN templates
                  ELSE [templates EXCEPT ![r.id].name = r.name, ![r.id].isDefault = r.isDefault]
  /\ UNCHANGED <<overlap, requests>>

deleteTemplate(i) ==
  /\ requests < MaxRequests
  /\ requests' = requests + 1
  /\ templates' = [templates EXCEPT ![i].there = FALSE, ![i].isDefault = FALSE]
  /\ UNCHANGED <<saving, overlap>>

TemplatesNext ==
  \/ \E id \in DOMAIN templates \cup {0}, name \in Titles, d \in BOOLEAN :
       ClearOthers([id |-> id, name |-> name, isDefault |-> d])
  \/ \E r \in saving : createTemplate(r) \/ updateTemplate(r)
  \/ \E i \in There : deleteTemplate(i)

TemplatesSpec == TemplatesInit /\ [][TemplatesNext]_templatesVars
-----------------------------------------------------------------------------
(* Properties *)

\* The page fills new invoices with the default template: there is one at most, unless two
\* requests that set it overlapped; and names are apart whatever overlapped.
OneDefault ==
  /\ ~overlap => Cardinality(Defaults) <= 1
  /\ \A i, j \in There : templates[i].name = templates[j].name => i = j
=============================================================================
