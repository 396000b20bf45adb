------------------------------- MODULE Workspace -------------------------------
(***************************************************************************)
(* What a member of an organization is shown, and what the server then     *)
(* answers.  The menu and the router decide by the browser's copy of the   *)
(* organization and of the member's role; the server by what is stored.    *)
(* Others change both meanwhile, and the copy is renewed at sign-in, at a  *)
(* reload and by what a save answers.                                      *)
(***************************************************************************)
EXTENDS Integers

CONSTANTS
  ModuleSets,   \* modules an organization may start with
  FormTypes,    \* business types chosen in a form,
  FormModules,  \* and modules
  AccountRoles, \* roles an account may have been created with
  MaxChanges    \* bound: changes by others

ASSUME WorkspaceAssumption ==
  /\ AccountRoles # {} /\ MaxChanges \in Nat
  /\ FormTypes \subseteq {"retail", "saas", "services", "general"}

VARIABLES
  org,     \* the organization as it is stored
  role,    \* the member's role in it
  account, \* the role the member's account was created with
  mine,    \* the browser's copy of org, with the role it believes in
  patch,  \* the form's request: what the server has read and is about to save
  changes

workspaceVars == <<org, role, account, mine, patch, changes>>

Everyone == {"admin", "manager", "accountant", "sales", "viewer"}
Managers == {"admin", "manager"}
Admins == {"admin"}
Clerks == {"admin", "manager", "accountant"}
Sellers == {"admin", "manager", "sales"}
Types == {"retail", "saas", "services", "general"}
-----------------------------------------------------------------------------
(* The routers of the server: the module and the roles a request needs *)

Needs(module, roles) == [module |-> module, roles |-> roles]
Open(roles) == Needs("", roles)

agencyRoutes ==
  [list |-> Needs("projects", Everyone), log |-> Needs("projects", Everyone),
   create |-> Needs("projects", Managers), drop |-> Needs("projects", Admins)]
approvalRoutes == [list |-> Open(Everyone), decide |-> Open(Managers)]
auditRoutes == [list |-> Open(Managers)]
creditNoteRoutes == [list |-> Open(Everyone), create |-> Open(Clerks)]
customerRoutes ==
  [list |-> Open(Everyone), create |-> Open(Everyone), pay |-> Open(Everyone),
   drop |-> Open(Managers)]
dynamicRoutes == [list |-> Open(Everyone), create |-> Open(Admins), drop |-> Open(Admins)]
expenseRoutes ==
  [list |-> Needs("expenses", Everyone), create |-> Needs("expenses", Sellers),
   drop |-> Needs("expenses", Managers)]
inventoryRoutes == [list |-> Needs("inventory", Everyone), adjust |-> Needs("inventory", Sellers)]
invoiceRoutes ==
  [list |-> Open(Everyone), preview |-> Open(Everyone), create |-> Open(Everyone),
   status |-> Open(Clerks), send |-> Open(Clerks), drop |-> Open(Managers)]
organizationRoutes == [settings |-> Open(Managers), architecture |-> Open(Admins)]
paymentRoutes ==
  [list |-> Open(Everyone), create |-> Open(Clerks), refund |-> Open(Managers),
   test |-> Open(Admins)]
posRoutes == [list |-> Needs("pos", Everyone), sell |-> Needs("pos", Everyone)]
productRoutes ==
  [list |-> Open(Everyone), create |-> Open(Everyone), import |-> Open(Managers),
   drop |-> Open(Managers)]
purchaseRoutes == [list |-> Needs("purchases", Everyone), create |-> Needs("purchases", Clerks)]
recurringRoutes ==
  [list |-> Needs("subscriptions", Everyone), create |-> Needs("subscriptions", Clerks),
   run |-> Needs("subscriptions", Managers)]
reportRoutes == [list |-> Open(Everyone), profit |-> Open(Clerks), gst |-> Open(Clerks)]
returnRoutes == [list |-> Needs("returns", Everyone), create |-> Needs("returns", Sellers)]
saasRoutes ==
  [list |-> Needs("subscriptions", Everyone), create |-> Needs("subscriptions", Managers)]
shiftRoutes ==
  [current |-> Needs("shifts", Everyone), open |-> Needs("shifts", Everyone),
   list |-> Needs("shifts", Managers)]
supplierRoutes ==
  [list |-> Needs("suppliers", Everyone), create |-> Needs("suppliers", Clerks),
   change |-> Needs("suppliers", Managers)]
systemRoutes == [backup |-> Open(Admins), restore |-> Open(Admins)]
templateRoutes == [list |-> Open(Everyone), create |-> Open(Admins)]
userRoutes == [list |-> Open(Everyone), create |-> Open(Admins), change |-> Open(Admins)]

routers ==
  [agency |-> agencyRoutes, approvals |-> approvalRoutes, audit |-> auditRoutes,
   creditNotes |-> creditNoteRoutes, customers |-> customerRoutes, dynamic |-> dynamicRoutes,
   expenses |-> expenseRoutes, inventory |-> inventoryRoutes, invoices |-> invoiceRoutes,
   organizations |-> organizationRoutes, payments |-> paymentRoutes, pos |-> posRoutes,
   products |-> productRoutes, purchases |-> purchaseRoutes, recurring |-> recurringRoutes,
   reports |-> reportRoutes, returns |-> returnRoutes, saas |-> saasRoutes,
   shifts |-> shiftRoutes, suppliers |-> supplierRoutes, system |-> systemRoutes,
   templates |-> templateRoutes, users |-> userRoutes]

\* requireModule
ModuleIsOn(g, o) == g.module = "" \/ g.module \in o.modules

\* requireRole; the viewer reads, and asks for previews.
RoleServes(g, r, writes) == r \in g.roles /\ (r = "viewer" => ~writes)

\* A request is <<router, operation>>.
Reads == {"list", "current", "profit", "gst", "preview"}
Serves(q, o, r) ==
  LET g == routers[q[1]][q[2]] IN ModuleIsOn(g, o) /\ RoleServes(g, r, q[2] \notin Reads)
-----------------------------------------------------------------------------
(* The pages: what each asks for when it opens, and what its buttons ask for *)

Asks(loads, writes) == [loads |-> loads, writes |-> writes]

RetailDashboard == Asks({<<"reports", "list">>}, {})
SaaSDashboard == Asks({<<"reports", "list">>}, {})
AgencyDashboard == Asks({<<"reports", "list">>}, {})
GeneralDashboard == Asks({<<"reports", "list">>}, {})
DashboardPage(type) ==
  CASE type = "retail" -> RetailDashboard [] type = "saas" -> SaaSDashboard
    [] type = "services" -> AgencyDashboard [] type = "general" -> GeneralDashboard
InvoicesListPage == Asks({<<"invoices", "list">>}, {})
PaymentsPage ==
  Asks({<<"payments", "list">>, <<"invoices", "list">>},
       {<<"payments", "create">>, <<"payments", "refund">>})
CustomersPage ==
  Asks({<<"customers", "list">>}, {<<"customers", "create">>, <<"customers", "pay">>})
CreditNotesPage ==
  Asks({<<"creditNotes", "list">>, <<"invoices", "list">>}, {<<"creditNotes", "create">>})
ApprovalsPage == Asks({<<"approvals", "list">>}, {<<"approvals", "decide">>})
ProductsPage == Asks({<<"products", "list">>}, {<<"products", "create">>})
ExpensesPage == Asks({<<"expenses", "list">>}, {<<"expenses", "create">>})
ReportsPage ==
  Asks({<<"reports", "list">>, <<"reports", "gst">>, <<"reports", "profit">>}, {})
PointOfSalePage ==
  Asks({<<"products", "list">>, <<"customers", "list">>}, {<<"pos", "sell">>})
HeldBillsPage == Asks({<<"pos", "list">>}, {<<"pos", "sell">>})
InventoryPage ==
  Asks({<<"inventory", "list">>, <<"products", "list">>}, {<<"inventory", "adjust">>})
PurchasesPage ==
  Asks({<<"purchases", "list">>, <<"suppliers", "list">>, <<"products", "list">>},
       {<<"purchases", "create">>})
SuppliersPage == Asks({<<"suppliers", "list">>}, {<<"suppliers", "create">>})
ReturnsPage == Asks({<<"products", "list">>, <<"returns", "list">>}, {<<"returns", "create">>})
ShiftsPage == Asks({<<"shifts", "current">>}, {<<"shifts", "open">>})
SaaSManagementPage ==
  Asks({<<"saas", "list">>, <<"customers", "list">>}, {<<"saas", "create">>})
RecurringPage ==
  Asks({<<"recurring", "list">>, <<"customers", "list">>, <<"products", "list">>},
       {<<"recurring", "create">>, <<"recurring", "run">>})
AgencyManagementPage ==
  Asks({<<"agency", "list">>, <<"customers", "list">>}, {<<"agency", "create">>})
TeamPage == Asks({<<"users", "list">>}, {<<"users", "create">>, <<"users", "change">>})
SettingsPage ==
  Asks({<<"dynamic", "list">>},
       {<<"dynamic", "create">>, <<"dynamic", "drop">>, <<"organizations", "settings">>})
BackupPage == Asks({}, {<<"system", "backup">>, <<"system", "restore">>})
AuditLogsPage == Asks({<<"audit", "list">>}, {})
BillingTestPage == Asks({<<"customers", "list">>}, {<<"payments", "test">>})

pages(type) ==
  [dashboard |-> DashboardPage(type), invoices |-> InvoicesListPage, payments |-> PaymentsPage,
   customers |-> CustomersPage, credit_notes |-> CreditNotesPage, approvals |-> ApprovalsPage,
   products |-> ProductsPage, expenses |-> ExpensesPage, reports |-> ReportsPage,
   pos |-> PointOfSalePage, held_bills |-> HeldBillsPage, inventory |-> InventoryPage,
   purchases |-> PurchasesPage, suppliers |-> SuppliersPage, returns |-> ReturnsPage,
   shifts |-> ShiftsPage, plans |-> SaaSManagementPage, subscriptions |-> SaaSManagementPage,
   recurring |-> RecurringPage, projects |-> AgencyManagementPage,
   timesheets |-> AgencyManagementPage, retainers |-> AgencyManagementPage, team |-> TeamPage,
   settings |-> SettingsPage, backup |-> BackupPage, audit |-> AuditLogsPage,
   dev |-> BillingTestPage]
-----------------------------------------------------------------------------
(* The menu and the router *)

adminGroup == {"team", "settings", "backup", "audit", "dev"}
groups ==
  [retail |-> {"dashboard", "pos", "held_bills", "products", "inventory", "purchases",
               "suppliers", "invoices", "payments", "customers", "credit_notes", "approvals",
               "returns", "shifts", "expenses", "reports"} \cup adminGroup,
   saas |-> {"dashboard", "plans", "subscriptions", "customers", "invoices", "recurring",
             "payments", "credit_notes", "approvals", "reports"} \cup adminGroup,
   services |-> {"dashboard", "customers", "projects", "invoices", "timesheets", "retainers",
                 "payments", "expenses", "credit_notes", "approvals", "reports"}
                \cup adminGroup,
   general |-> {"dashboard", "invoices", "payments", "customers", "credit_notes", "approvals",
                "products", "expenses", "reports"} \cup adminGroup]

\* Items without a module, or without roles, are for all.
itemModules ==
  [pos |-> "pos", held_bills |-> "pos", products |-> "products", inventory |-> "inventory",
   purchases |-> "purchases", suppliers |-> "suppliers", invoices |-> "invoices",
   payments |-> "payments", customers |-> "customers", credit_notes |-> "invoices",
   approvals |-> "invoices", returns |-> "returns", shifts |-> "shifts",
   expenses |-> "expenses", reports |-> "reports", plans |-> "plans",
   subscriptions |-> "subscriptions", recurring |-> "subscriptions", projects |-> "projects",
   timesheets |-> "timesheets", retainers |-> "retainers"]
itemRoles ==
  [team |-> Managers, settings |-> Managers, approvals |-> Managers, backup |-> Admins,
   audit |-> Admins, dev |-> Admins]

visibleGroups(m) ==
  {p \in groups[m.type] :
     /\ p \in DOMAIN itemModules => itemModules[p] \in m.modules
     /\ p \in DOMAIN itemRoles => m.role \in itemRoles[p]}

\* Mutant of ROUTE_MODULES: profiles and held bills are guarded by modules of their own.
RouteModulesOwn ==
  [itemModules EXCEPT !["recurring"] = "recurring", !["held_bills"] = "held_bills"]

ROUTE_MODULES ==
  [invoices |-> "invoices", credit_notes |-> "invoices", approvals |-> "invoices",
   recurring |-> "subscriptions", payments |-> "payments", customers |-> "customers",
   pos |-> "pos", held_bills |-> "pos", products |-> "products", inventory |-> "inventory",
   purchases |-> "purchases", suppliers |-> "suppliers", returns |-> "returns",
   shifts |-> "shifts", expenses |-> "expenses", plans |-> "plans",
   subscriptions |-> "subscriptions", projects |-> "projects", timesheets |-> "timesheets",
   retainers |-> "retainers", reports |-> "reports"]
routeRoles ==
  [dev |-> Admins, team |-> Managers, backup |-> Admins, settings |-> Managers,
   audit |-> Admins]

\* Which page RouterShell shows at a path.
RouterShell(p, m) ==
  CASE ~m.onboarded -> "onboarding"
    [] m.onboarded /\ p \in DOMAIN ROUTE_MODULES /\ ROUTE_MODULES[p] \notin m.modules -> "denied"
    [] m.onboarded /\ p \in DOMAIN routeRoles /\ m.role \notin routeRoles[p] -> "denied"
    [] OTHER -> p
-----------------------------------------------------------------------------
(* Sign-in, reload, and what others change *)

Copy(o, r) == [type |-> o.type, modules |-> o.modules, onboarded |-> o.onboarded,
               next |-> o.next, role |-> r]

OrgOf(t, ms, b, n) == [type |-> t, modules |-> ms, onboarded |-> b, next |-> n]

\* No request is on its way.
NoPatch ==
  LET none == OrgOf("general", {}, FALSE, 1) IN
  [on |-> "none", seen |-> none, put |-> none, whole |-> FALSE, stale |-> FALSE, heard |-> TRUE]

WorkspaceInit ==
  /\ org \in [type : Types, modules : ModuleSets, onboarded : BOOLEAN, next : {1}]
  /\ role \in Everyone
  /\ account \in AccountRoles
  /\ mine = Copy(org, role) \* as login answers
  /\ patch = NoPatch
  /\ changes = 0

\* getMe answers with the account, whose role is the one it was created with.
refreshProfile ==
  /\ mine' = Copy(org, account)
  /\ UNCHANGED <<org, role, account, patch, changes>>

ByOthers ==
  /\ changes < MaxChanges
  /\ changes' = changes + 1
  /\ UNCHANGED <<account, mine>>

\* To store other modules raises the version of the document.
OthersConfigure(t, ms) ==
  /\ ByOthers
  /\ org' = OrgOf(t, ms, org.onboarded, org.next)
  /\ patch' = IF patch.on \in {"save", "profile"} /\ ms # org.modules
               THEN [patch EXCEPT !.stale = TRUE] ELSE patch
  /\ UNCHANGED role
OthersChangeRole(r) == ByOthers /\ role' = r /\ UNCHANGED <<org, patch>>
OthersInvoice ==
  /\ ByOthers
  /\ org' = OrgOf(org.type, org.modules, org.onboarded, org.next + 1)
  /\ UNCHANGED <<role, patch>>
-----------------------------------------------------------------------------
(* updateOrganizationSettings: the organization is read, changed in memory and saved *)

\* Structure is for administrators.
MaySave(asked) ==
  /\ role \in organizationRoutes.settings.roles
  /\ asked \cap {"modules", "type", "onboarded"} # {} => role = "admin"

\* Mutant of CounterOk: the counter is taken as it comes.
CounterOkAny(n) == TRUE

CounterOk(n) == n >= org.next

\* What is read, and what the request makes of it; settings are assigned as a whole.
Patch(on, put, settings, heard) ==
  patch' = [on |-> on, seen |-> org, put |-> put, whole |-> settings, stale |-> FALSE,
            heard |-> heard]

\* save() writes what the request changed and nothing else, and an array of modules only
\* while the version is the one that was read.
Patched ==
  LET was == patch.seen put == patch.put
  IN  OrgOf(IF put.type # was.type THEN put.type ELSE org.type,
            IF put.modules # was.modules THEN put.modules ELSE org.modules,
            IF put.onboarded # was.onboarded THEN put.onboarded ELSE org.onboarded,
            IF patch.whole THEN put.next ELSE org.next)
Overtaken == patch.put.modules # patch.seen.modules /\ patch.stale

\* The answer, if it is heard, is the document as the request had it in memory.
SavePatch(heard) ==
  /\ patch.on \in {"save", "profile"}
  /\ org' = IF Overtaken THEN org ELSE Patched
  /\ LET told == heard /\ ~Overtaken /\ patch.heard IN
     /\ mine' = IF told THEN Copy(patch.put, mine.role) ELSE mine
     /\ patch' = IF patch.on = "profile"
                  THEN [NoPatch EXCEPT !.on = "between", !.heard = told] ELSE NoPatch
  /\ UNCHANGED <<role, account, changes>>
-----------------------------------------------------------------------------
(* The forms: the settings page, and the onboarding, which opens to whoever asks for it *)

MayAsk(asked) ==
  /\ patch.on = "none"
  /\ MaySave(asked)
  /\ UNCHANGED <<org, role, account, mine, changes>>

\* The page sends all the settings it holds, the next number with them.
handleSaveOrgSettings(t, edited) ==
  /\ RouterShell("settings", mine) = "settings"
  /\ MayAsk({"name", "type", "settings"})
  /\ CounterOk(mine.next)
  /\ Patch("save", OrgOf(t, org.modules, org.onboarded, mine.next),
           edited \/ mine.next # org.next, TRUE)

goTo(t) ==
  /\ MayAsk({"name", "type", "onboarding"})
  /\ Patch("save", OrgOf(t, org.modules, org.onboarded, org.next), FALSE, TRUE)

\* Of two requests the first; settings go with it, but not the number.
saveBusinessProfile(t, ms, edited) ==
  /\ MayAsk({"name", "type", "modules", "settings"})
  /\ Patch("profile", OrgOf(t, ms, org.onboarded, org.next), edited, TRUE)

Onboarded == OrgOf(org.type, org.modules, TRUE, org.next)

\* The second is sent whatever became of the first.
handleFinish ==
  /\ patch.on \in {"none", "between"}
  /\ IF MaySave({"onboarded", "onboarding"})
     THEN Patch("save", Onboarded, FALSE, patch.on = "between" /\ patch.heard)
     ELSE patch' = NoPatch
  /\ UNCHANGED <<org, role, account, mine, changes>>

handleSkip ==
  /\ MayAsk({"onboarded", "onboarding"})
  /\ Patch("save", Onboarded, FALSE, TRUE)

WorkspaceNext ==
  \/ refreshProfile
  \/ \E t \in FormTypes, ms \in FormModules : OthersConfigure(t, ms)
  \/ \E r \in Everyone : OthersChangeRole(r)
  \/ OthersInvoice
  \/ \E t \in FormTypes, edited \in BOOLEAN : handleSaveOrgSettings(t, edited)
  \/ \E t \in FormTypes : goTo(t)
  \/ \E t \in FormTypes, ms \in FormModules, edited \in BOOLEAN : saveBusinessProfile(t, ms, edited)
  \/ handleFinish
  \/ handleSkip
  \/ \E heard \in BOOLEAN : SavePatch(heard)

WorkspaceSpec == WorkspaceInit /\ [][WorkspaceNext]_workspaceVars
-----------------------------------------------------------------------------
(* Properties *)

\* Pages that ask a router for which their own module is not enough.
Leans == [plans |-> "subscriptions", timesheets |-> "projects", retainers |-> "projects",
          purchases |-> "suppliers"]

\* Whatever the menu offers opens; and while the copy is what the server holds, the server
\* answers what the page asks for (but for pages that lean on a module that is off, and the
\* figures of a report that are not for sales and viewers), and an administrator's buttons too.
OfferedIsServed ==
  \A p \in visibleGroups(mine) :
    /\ RouterShell(p, mine) \in {p, "onboarding"}
    /\ mine = Copy(org, role) /\ (p \in DOMAIN Leans => Leans[p] \in org.modules) =>
         LET asks == pages(mine.type)[p] IN
         /\ \A q \in asks.loads :
              Serves(q, org, role) \/ (p = "reports" /\ role \in {"sales", "viewer"})
         /\ role = "admin" => \A q \in asks.writes : Serves(q, org, role)

\* A form filled from an old copy never moves the invoice counter back: a save does, over the
\* numbers that others took between what it read and what it wrote, and over no more.  Modules
\* change at the end of the onboarding only, and only those the request had seen; and no
\* organization goes back to its onboarding.
StructureIsKept ==
  [][/\ org'.next < org.next =>
          patch.on \in {"save", "profile"} /\ patch.whole /\ org'.next >= patch.seen.next
     /\ org'.modules # org.modules /\ changes' = changes =>
          patch.on = "profile" /\ org.modules = patch.seen.modules
     /\ org.onboarded => org'.onboarded]_workspaceVars
=============================================================================
