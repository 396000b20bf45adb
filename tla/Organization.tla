----------------------------- MODULE Organization -----------------------------
(***************************************************************************)
(* How an organization is set up: its modules, billing model and stage of  *)
(* onboarding, and the custom fields and business rules that presets,      *)
(* architectures and forms add.  The document is read, changed and saved;  *)
(* what belongs to it is then created one by one, outside of a transaction.*)
(***************************************************************************)
EXTENDS Integers, FiniteSets

CONSTANTS
  Clerks,    \* requests at work at once
  Modules,   \* ALL_MODULES
  Names,     \* names of custom fields, and of business rules
  Models,    \* billing models
  Preset,    \* BILLING_MODEL_PRESETS: for each model its modules and custom fields
  Plans,     \* architectures that are applied: model, modules, fields and rules
  MaxAsk,    \* bound: requests made
  MaxStop    \* bound: requests cut off

ASSUME OrganizationAssumption ==
  /\ \A m \in Models : Preset[m].modules \subseteq Modules /\ Preset[m].fields \subseteq Names
  /\ \A a \in Plans : /\ a.model \in Models /\ a.modules \subseteq Modules
                      /\ a.fields \subseteq Names /\ a.rules \subseteq Names
  /\ {MaxAsk, MaxStop} \subseteq Nat

VARIABLES
  doc,      \* the organization
  fields,   \* custom fields, by name: a unique index keeps them apart
  rules,    \* how many business rules of each name there are
  clerk,    \* what each request has read, and has still to create
  asked, stops,
  excused   \* history: rules a user wrote himself, or two requests looked for at once

orgVars == <<doc, fields, rules, clerk, asked, stops, excused>>

Off == [do |-> "off"]
Doc == [model : Models, modules : SUBSET Modules, audited : SUBSET Modules, v : Nat,
        onboarded : BOOLEAN]

\* register and createOrganization: the document, then the fields of its preset.
OrgInit ==
  \E m \in Models, c \in Clerks :
    /\ doc = [model |-> m, modules |-> Preset[m].modules, audited |-> {}, v |-> 0,
              onboarded |-> FALSE]
    /\ clerk = [x \in Clerks |-> IF x # c THEN Off
                  ELSE [do |-> "provide", fields |-> Preset[m].fields, rules |-> {}]]
    /\ fields = {} /\ rules = [n \in Names |-> 0]
    /\ asked = 0 /\ stops = 0 /\ excused = {}

Put(c, rec) == clerk' = [clerk EXCEPT ![c] = rec]
-----------------------------------------------------------------------------
(* updateOrganizationSettings, switchBillingModel, applyCustomArchitecture *)

Ask(c, to, fs, rs) ==
  /\ clerk[c] = Off
  /\ asked < MaxAsk /\ asked' = asked + 1
  /\ Put(c, [do |-> "save", read |-> doc, to |-> to, fields |-> fs, rules |-> rs])
  /\ UNCHANGED <<doc, fields, rules, stops, excused>>

Audited(d, added) == d.audited \cup (added \ d.modules)

\* Settings replace the modules, and tell the added ones in moduleAudit.
AskSettings(c, ms, on) ==
  Ask(c, [doc EXCEPT !.modules = ms, !.audited = Audited(doc, ms), !.onboarded = on], {}, {})

\* A preset adds its modules, and tells nobody.
AskSwitchModel(c, m) ==
  Ask(c, [doc EXCEPT !.model = m, !.modules = @ \cup Preset[m].modules], Preset[m].fields, {})

AskArchitecture(c, a) ==
  Ask(c, [doc EXCEPT !.model = a.model, !.modules = @ \cup a.modules,
                     !.audited = Audited(doc, a.modules), !.onboarded = TRUE],
      a.fields, a.rules)

\* Mutant of Stale: the version is not compared.
StaleNever(q) == FALSE

\* A save that replaces an array matches the version that was read.
Replaces(q) == q.to.modules # q.read.modules
Stale(q) == Replaces(q) /\ doc.v # q.read.v

\* The fields that changed are written, onto whatever the document has become.
Written(q) ==
  LET Of(was, new, is) == IF new # was THEN new ELSE is IN
  [model |-> Of(q.read.model, q.to.model, doc.model),
   modules |-> Of(q.read.modules, q.to.modules, doc.modules),
   audited |-> doc.audited \cup (q.to.audited \ q.read.audited),
   v |-> IF Replaces(q) \/ q.to.audited # q.read.audited THEN doc.v + 1 ELSE doc.v,
   onboarded |-> Of(q.read.onboarded, q.to.onboarded, doc.onboarded)]

SaveDoc(c) ==
  /\ clerk[c].do = "save"
  /\ LET q == clerk[c] IN
     IF Stale(q) THEN UNCHANGED doc /\ Put(c, Off)
     ELSE /\ doc' = Written(q)
          /\ Put(c, [do |-> "provide", fields |-> q.fields, rules |-> q.rules])
  /\ UNCHANGED <<fields, rules, asked, stops, excused>>
-----------------------------------------------------------------------------
(* What is created after the save, and by the forms *)

\* Each field is looked for and created if it is not there; when another request was faster
\* the index refuses it, and this request ends.
ProvideField(c) ==
  /\ clerk[c].do = "provide"
  /\ \E n \in clerk[c].fields :
       /\ fields' = fields \cup {n}
       /\ \/ Put(c, [clerk[c] EXCEPT !.fields = @ \ {n}])
          \/ n \in fields /\ Put(c, Off)
  /\ UNCHANGED <<doc, rules, asked, stops, excused>>

Missing(n) == rules[n] = 0

Looking(n) == \E c \in Clerks : clerk[c].do = "rule" /\ clerk[c].name = n

LookForRule(c) ==
  /\ clerk[c].do = "provide" /\ clerk[c].fields = {}
  /\ \E n \in clerk[c].rules :
       LET rest == [clerk[c] EXCEPT !.rules = @ \ {n}] IN
       /\ Put(c, IF Missing(n) THEN [do |-> "rule", name |-> n, then |-> rest] ELSE rest)
       /\ excused' = IF Looking(n) THEN excused \cup {n} ELSE excused
  /\ UNCHANGED <<doc, fields, rules, asked, stops>>

ProvideRule(c) ==
  /\ clerk[c].do = "rule"
  /\ rules' = [rules EXCEPT ![clerk[c].name] = @ + 1]
  /\ Put(c, clerk[c].then)
  /\ UNCHANGED <<doc, fields, asked, stops, excused>>

Answer(c) ==
  /\ clerk[c].do = "provide" /\ clerk[c].fields = {} /\ clerk[c].rules = {}
  /\ Put(c, Off)
  /\ UNCHANGED <<doc, fields, rules, asked, stops, excused>>

\* A crash, or a call that fails.
Stop(c) ==
  /\ clerk[c] # Off /\ stops < MaxStop
  /\ stops' = stops + 1
  /\ Put(c, Off)
  /\ UNCHANGED <<doc, fields, rules, asked, excused>>

CreateCustomField(n) ==
  /\ n \notin fields
  /\ fields' = fields \cup {n}
  /\ UNCHANGED <<doc, rules, clerk, asked, stops, excused>>

DeleteCustomField(n) ==
  /\ n \in fields
  /\ fields' = fields \ {n}
  /\ UNCHANGED <<doc, rules, clerk, asked, stops, excused>>

\* The form asks for no name that is new.
CreateBusinessRule(n) ==
  /\ asked < MaxAsk /\ asked' = asked + 1
  /\ rules' = [rules EXCEPT ![n] = @ + 1]
  /\ excused' = excused \cup {n}
  /\ UNCHANGED <<doc, fields, clerk, stops>>

DeleteBusinessRule(n) ==
  /\ rules[n] > 0
  /\ rules' = [rules EXCEPT ![n] = @ - 1]
  /\ UNCHANGED <<doc, fields, clerk, asked, stops, excused>>
-----------------------------------------------------------------------------
OrgNext ==
  \/ \E c \in Clerks :
       \/ \E ms \in SUBSET Modules, on \in BOOLEAN : AskSettings(c, ms, on)
       \/ \E m \in Models : AskSwitchModel(c, m)
       \/ \E a \in Plans : AskArchitecture(c, a)
       \/ SaveDoc(c) \/ ProvideField(c) \/ LookForRule(c) \/ ProvideRule(c)
       \/ Answer(c) \/ Stop(c)
  \/ \E n \in Names :
       \/ CreateCustomField(n) \/ DeleteCustomField(n)
       \/ CreateBusinessRule(n) \/ DeleteBusinessRule(n)

OrgSpec == OrgInit /\ [][OrgNext]_orgVars
-----------------------------------------------------------------------------
(* Properties *)

\* An architecture is applied again after it was cut off, or a second one is like it: each of
\* its rules is there once, unless two requests looked for it at once or a user wrote one.
RulesOnce == \A n \in Names \ excused : rules[n] <= 1

\* No save takes a module away that its request had not seen: presets, architectures and forms
\* that cross do not undo each other.
NothingUnseenRemoved ==
  [][\A c \in Clerks : SaveDoc(c) /\ doc' # doc =>
       doc.modules \ doc'.modules \subseteq clerk[c].read.modules]_orgVars

OrgTypeOK ==
  /\ doc \in Doc /\ fields \subseteq Names
  /\ rules \in [Names -> Nat]
  /\ asked \in 0..MaxAsk /\ stops \in 0..MaxStop /\ excused \subseteq Names

\* Presets, architectures, settings and forms that cross, or are cut off and applied again,
\* neither undo each other nor leave a rule behind twice.
OrganizationIsKept == [](OrgTypeOK /\ RulesOnce) /\ NothingUnseenRemoved
=============================================================================
