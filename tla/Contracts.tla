------------------------------ MODULE Contracts ------------------------------
(***************************************************************************)
(* Plans with their subscriptions, and projects with their timesheets and  *)
(* retainers.  A handler reads what its document refers to, and writes one *)
(* document later; only plans are looked after before they are deleted.    *)
(***************************************************************************)
EXTENDS Integers, FiniteSets

CONSTANTS
  Desks,      \* requests at work at once
  Subs, Sheets,   \* subscriptions and timesheets made
  Staff,      \* who writes timesheets
  Managers    \* those of them who may edit anybody's

ASSUME ContractsAssumption == Managers \subseteq Staff

VARIABLES
  plan,     \* is the plan there
  sub,      \* subscriptions to it: "none", a status, or "deleted"
  project,  \* is the project there
  sheet,    \* timesheets on it: who wrote them, and where they stand
  retainer, \* the retainer's status: nothing draws on its amount yet
  desk,     \* what each request has read, and does next
  crossed   \* history: subscriptions and plans whose requests overlapped

contractVars == <<plan, sub, project, sheet, retainer, desk, crossed>>

SubStatus == {"trialing", "active", "past_due", "canceled", "unpaid"}
RetainerStatus == {"active", "exhausted", "cancelled"}
\* Who wrote it, whether it was changed, and (history) whether its project was there when it was
\* stored.  Nothing ever makes its status `invoiced', which updateTimesheet would lock.
Sheet == [by : Staff, edited : BOOLEAN, placed : BOOLEAN]
NoSheet == [by |-> "none", edited |-> FALSE, placed |-> TRUE]
Ready == [do |-> "ready"]

ContractsInit ==
  /\ plan = "kept" /\ project = "kept"
  /\ sub = [s \in Subs |-> "none"]
  /\ sheet = [t \in Sheets |-> NoSheet]
  /\ retainer = "none"
  /\ desk = [d \in Desks |-> Ready]
  /\ crossed = {}

Turn(d, rec) == desk' = [desk EXCEPT ![d] = rec]
At(d, does) == \E e \in Desks \ {d} : desk[e].do = does
-----------------------------------------------------------------------------
(* Plans and subscriptions *)

\* A plan can be made again only under another id; updatePlan touches no subscription.
\* Any status may be asked for; one that is not known makes it active.
ReadForSubscription(d, s) ==
  /\ desk[d] = Ready /\ sub[s] = "none" /\ plan = "kept"
  /\ \E status \in SubStatus : Turn(d, [do |-> "subscribe", sub |-> s, status |-> status])
  /\ crossed' = IF At(d, "drop") THEN crossed \cup {"plan"} ELSE crossed
  /\ UNCHANGED <<plan, sub, project, sheet, retainer>>

CreateSubscription(d) ==
  /\ desk[d].do = "subscribe" /\ sub[desk[d].sub] = "none"
  /\ sub' = [sub EXCEPT ![desk[d].sub] = desk[d].status]
  /\ Turn(d, Ready)
  /\ UNCHANGED <<plan, project, sheet, retainer, crossed>>

\* Mutant of InUse: a canceled subscription does not keep its plan.
InUseActive == \E s \in Subs : sub[s] \in SubStatus \ {"canceled"}

InUse == \E s \in Subs : sub[s] \in SubStatus

CountForPlan(d) ==
  /\ desk[d] = Ready /\ plan = "kept" /\ ~InUse
  /\ Turn(d, [do |-> "drop"])
  /\ crossed' = IF At(d, "subscribe") THEN crossed \cup {"plan"} ELSE crossed
  /\ UNCHANGED <<plan, sub, project, sheet, retainer>>

DeletePlan(d) ==
  /\ desk[d].do = "drop"
  /\ plan' = "deleted"
  /\ Turn(d, Ready)
  /\ UNCHANGED <<sub, project, sheet, retainer, crossed>>

\* Mutant of Transitions: what is unpaid can be paid.
TransitionsUnpaid(s) ==
  CASE s = "trialing" -> {"active", "canceled"}
    [] s = "active" -> {"past_due", "canceled"}
    [] s = "past_due" -> {"active", "canceled"}
    [] OTHER -> {"active"}

Transitions(s) ==
  CASE s = "trialing" -> {"active", "canceled"}
    [] s = "active" -> {"past_due", "canceled"}
    [] s = "past_due" -> {"active", "canceled"}
    [] OTHER -> {}

ReadForMove(d, s, to) ==
  /\ desk[d] = Ready /\ sub[s] \in SubStatus
  /\ to \in Transitions(sub[s])
  /\ Turn(d, [do |-> "move", sub |-> s, to |-> to])
  /\ crossed' = IF \E e \in Desks : desk[e].do = "move" /\ desk[e].sub = s
                THEN crossed \cup {s} ELSE crossed
  /\ UNCHANGED <<plan, sub, project, sheet, retainer>>

\* save() writes the status over whatever it has become, and throws when nothing is there.
SaveMove(d) ==
  /\ desk[d].do = "move"
  /\ sub' = IF sub[desk[d].sub] = "deleted" THEN sub
            ELSE [sub EXCEPT ![desk[d].sub] = desk[d].to]
  /\ Turn(d, Ready)
  /\ UNCHANGED <<plan, project, sheet, retainer, crossed>>

DeleteSubscription(s) ==
  /\ sub[s] \in SubStatus
  /\ sub' = [sub EXCEPT ![s] = "deleted"]
  /\ UNCHANGED <<plan, project, sheet, retainer, desk, crossed>>
-----------------------------------------------------------------------------
(* Projects, timesheets and retainers *)

\* createTimesheet finds the project, and stores the sheet.
ReadForSheet(d, t, p) ==
  /\ desk[d] = Ready /\ sheet[t] = NoSheet /\ project = "kept"
  /\ Turn(d, [do |-> "record", sheet |-> t, by |-> p])
  /\ UNCHANGED <<plan, sub, project, sheet, retainer, crossed>>

CreateSheet(d) ==
  /\ desk[d].do = "record" /\ sheet[desk[d].sheet] = NoSheet
  /\ sheet' = [sheet EXCEPT ![desk[d].sheet] =
                 [by |-> desk[d].by, edited |-> FALSE, placed |-> project = "kept"]]
  /\ Turn(d, Ready)
  /\ UNCHANGED <<plan, sub, project, retainer, crossed>>

MayEdit(p, t) == p \in Managers \/ sheet[t].by = p

\* updateTimesheet reads whose it is, and updates what is there.
ReadForEdit(d, p, t) ==
  /\ desk[d] = Ready /\ sheet[t] # NoSheet /\ MayEdit(p, t)
  /\ Turn(d, [do |-> "edit", sheet |-> t])
  /\ UNCHANGED <<plan, sub, project, sheet, retainer, crossed>>

EditSheet(d) ==
  /\ desk[d].do = "edit"
  /\ sheet' = IF sheet[desk[d].sheet] = NoSheet THEN sheet
              ELSE [sheet EXCEPT ![desk[d].sheet].edited = TRUE]
  /\ Turn(d, Ready)
  /\ UNCHANGED <<plan, sub, project, retainer, crossed>>

DeleteSheet(t) ==
  /\ sheet[t] # NoSheet
  /\ sheet' = [sheet EXCEPT ![t] = NoSheet]
  /\ UNCHANGED <<plan, sub, project, retainer, desk, crossed>>

\* deleteProject does not ask for timesheets; they stay.
DeleteProject ==
  /\ project = "kept" /\ project' = "deleted"
  /\ crossed' = IF \E d \in Desks : desk[d].do = "record" THEN crossed \cup {"project"}
                ELSE crossed
  /\ UNCHANGED <<plan, sub, sheet, retainer, desk>>

\* createRetainer and updateRetainer set any status, deleteRetainer takes it away.
SetRetainer(status) ==
  /\ retainer # status /\ retainer' = status
  /\ UNCHANGED <<plan, sub, project, sheet, desk, crossed>>

DeleteRetainer ==
  /\ retainer # "none" /\ retainer' = "none"
  /\ UNCHANGED <<plan, sub, project, sheet, desk, crossed>>
-----------------------------------------------------------------------------
ContractsNext ==
  \/ \E d \in Desks :
       \/ \E s \in Subs : ReadForSubscription(d, s) \/ \E to \in SubStatus : ReadForMove(d, s, to)
       \/ CreateSubscription(d) \/ CountForPlan(d) \/ DeletePlan(d) \/ SaveMove(d)
       \/ \E t \in Sheets, p \in Staff : ReadForSheet(d, t, p) \/ ReadForEdit(d, p, t)
       \/ CreateSheet(d) \/ EditSheet(d)
  \/ \E s \in Subs : DeleteSubscription(s)
  \/ \E t \in Sheets : DeleteSheet(t)
  \/ DeleteProject \/ DeleteRetainer
  \/ \E status \in RetainerStatus : SetRetainer(status)

ContractsSpec == ContractsInit /\ [][ContractsNext]_contractVars
-----------------------------------------------------------------------------
(* Properties *)

\* A subscription has its plan, and a timesheet had its project when it was stored, unless the
\* deletion crossed the request that had just found it there.
ReferencesHold ==
  /\ sheet \in [Sheets -> Sheet \cup {NoSheet}]
  /\ InUse => plan = "kept" \/ "plan" \in crossed
  /\ \A t \in Sheets : sheet[t].placed \/ "project" \in crossed

\* A canceled subscription is not revived, nor is an unpaid one, by whatever order requests
\* come in, unless two of them that move it overlapped.
SubscriptionsEnd ==
  [][\A s \in Subs : sub[s] \in {"canceled", "unpaid"} /\ s \notin crossed =>
       sub'[s] \in {sub[s], "deleted"}]_contractVars
=============================================================================
