# Verification of the adaptive billing platform

TLA+ models of the platform, checked with TLC and, for most of them,
proved with TLAPS. The program is a multi-tenant Express and MongoDB server
(`src/backend`) with a React client (`src/frontend`). Every handler runs inside
one organization; most of the models are of one organization's data and the
requests, jobs, pages and failures that meet on it. `Team`, `SignIn` and
`Sending` are about people who belong to several.

Source paths below leave out `src/backend/src/` where a module directory is
meant: `payments/` is `src/backend/src/modules/payments/`. Pages are under
`src/frontend/src/pages/`.

## 1. Inventory

### How the parts interact

All state of the server is in MongoDB; handlers share nothing else. Two
mechanisms decide what can go wrong there:

* **awaits.** Between two awaited calls any other handler may run. A document
  read by one call may be stale when a later call writes it: with `save()` (the
  changed fields, whatever is stored now), with `$inc`, or with a conditional
  `findOneAndUpdate`, which is the only one that looks again.
* **transactions.** `session.withTransaction` (or `startTransaction`) reads one
  snapshot, and is refused when a document it *writes* was written since.
  Documents it only reads may have changed.

A rejected call or a stopped process cuts a handler off at an await. Nothing
sweeps up after it: there is no recovery job.

A page holds a copy of what the server last told it. `apiRequest` answers
`success: false` for a lost connection, a timeout and a refusal alike, and never
throws; a request nobody waits for any more may still be served. The session is
one cookie for all tabs of a browser. The till keeps its cart in
`sessionStorage` and the sales it could not send in IndexedDB.

### Components

| Component | State it keeps | Operations | What makes it correct |
|---|---|---|---|
| Payments and refunds (`payments/`) | `Payment`, invoice `amountPaid`, `amountDue`, `status`, `paymentHistory` | `recordPayment`, `testCheckout`, `refundPayment` | one charge per key; paid + due = total; refunds within the payment; what was paid is what the history brought in; a payment recorded as completed is settled or marked failed |
| Customer accounts (`customers/`) | `outstandingBalance`, ledger | `recordCustomerPayment`, CRUD | the balance is what open invoices say is due |
| Invoice lifecycle (`invoices/`) | invoice `status`, total | create, status endpoint, edit, delete, `sendEmail` | balance moves with status; only drafts are edited; final statuses are final |
| Approval queue (`approvals/`) | `ApprovalQueue` entries | `approveItem`, `rejectItem` | a held invoice has an open entry; a decision is final and reaches the invoice; what a rule holds is let through by a manager, but for the status endpoint and mail |
| Credit notes (`credit-notes/`) | `CreditNote` | `createCreditNote` | credits within the invoice, numbers unique, balance in step |
| Point of sale (`pos/`) | invoice, stock, movements, journals | `posCheckout`, held bills | nothing oversold; a `clientTransactionId` sells once |
| Returns (`returns/`) | `Return` and all that a sale writes | `processReturn` | no more is returned than sold |
| Inventory, purchases, products | `stockQuantity`, `InventoryMovement` | `adjustStock`, `createPurchase`, product form, import | movements tell the stock; an import can be repeated |
| Invoice numbers (`billing-engine/next-invoice-number.ts`) | `settings.nextInvoiceNumber` | `reserveInvoiceNumber` | no number twice |
| Recurring billing (`jobs/`, `recurring/`) | `RecurringProfile` | hourly job, manual run, edit | each period billed once, none skipped, stops at its last occurrence unless that was moved |
| Offline till (`pos/PointOfSalePage.tsx`, `lib/offlineDb`) | cart, queue in IndexedDB, parked bills | sell, queue, sync, park, restore, reload | each confirmed sale reaches the server, once |
| Till shifts (`shifts/`) | `Shift` | `openShift`, `closeShift` | one open shift per cashier; a closed shift counts all that was made in it |
| Calculators and taxes (`billing-engine/`) | none | `calculateInvoice`, cart totals | lines add up to totals; discounts are shared out exactly; the till shows what is charged |
| Rules and custom fields (`dynamic-engine/`) | definitions | evaluation, pricing, CRUD | repricing changes nothing by itself |
| Users and memberships (`users/`, `auth/`, `core/tenancy`) | `User`, `Membership` | register, invite, accept, role, remove, switch | an administrator remains; nobody joins unasked |
| Sign-in (`auth/`) | password, reset tokens, cookies | login, reset, change, switch | an old password's sessions end; a link works once |
| Organizations and settings (`organizations/`) | modules, model, fields, rules | settings, `switchModel`, architectures | saves that cross do not undo each other; nothing is set up twice |
| Plans and subscriptions (`saas/`) | `Plan`, `Subscription.status` | CRUD, transition table | cancelled is final; a subscription has its plan |
| Agency (`agency/`) | projects, timesheets, retainers | CRUD | a timesheet belongs to a project |
| Reports and dashboards (`reports/`, `ai/`) | none | sums over documents | all reports tell of one set of books |
| Menu, router, pages | the browser's copy of organization and role | render, load, save | what is offered is served |
| Invoice form (`invoices/CreateInvoicePage.tsx`) | rows, preview, drafts | edit, preview, scan, save | the preview is of the form; an invoice is stored once, where its customer is |
| AI assistant (`ai/`) | rate counters | `ask`, drafts, uploads | answers in bounded time, falls back where it can |
| Invoice templates (`templates/`) | `InvoiceTemplate.isDefault` | CRUD | one default |
| Suppliers, expenses | one document per request | CRUD | kept in step by purchases and shifts |
| Backup and restore (`system/`) | every collection | export, restore | what was saved comes back, twice is once |
| Audit, mail, validation, server, migrations, rendering, types | nothing that handlers decide on | - | - |

`PROJECT.json` lists all of them with what is modelled and, for the rest, why
not, and every hazard at the line where it bites.

### What is hard here

Stale documents written back (`invoices/invoice.controller.ts:72`, `:662`;
`organizations/organization.controller.ts:294-376`); caps and counts checked by a
read that conflicts with nothing (`credit-notes/credit-note.controller.ts:114`,
`returns/return.controller.ts:64`, `users/user.controller.ts:156`); several writes
without a transaction (`payments/payment.controller.ts:184-230`,
`jobs/recurring-invoice.job.ts:50-126`, `templates/template.controller.ts:28`);
retries by client, driver and cron; processes that stop in between; answers
that come late, twice or never (`pos/PointOfSalePage.tsx:241`,
`invoices/CreateInvoicePage.tsx:143`); one figure summed in five places by five
filters (`reports/report.controller.ts:231`); and whole cents shared out by
proportion (`billing-engine/calculators/invoice-calculator.ts:101`).

## 2. Modules

| Module | Models | Built on |
|---|---|---|
| `Settlement` | `recordPayment` await by await; `testCheckout`, `refundPayment`, `recordCustomerPayment` as transactions | - |
| `Receivables` | abstract: money comes off what is due once, and goes back on when returned | - |
| `SumLemmas` | lemmas: sums over finite sets | TLAPS |
| `CreditNotes` | `createCreditNote` next to all handlers of `Settlement` | `Settlement` |
| `SettlementProofs` | theorems about `Settlement` and `CreditNotes`, one that `Settlement` implements `Receivables` | `CreditNotes`, `SumLemmas` |
| `InvoiceLifecycle` | create, status endpoint, edit, delete, mail, approve, reject | - |
| `LifecycleProofs` | theorems about `InvoiceLifecycle` | `InvoiceLifecycle`, `SumLemmas` |
| `Store` | checkout, return, adjustment, purchase, product form over MongoDB snapshots | - |
| `StoreProofs` | theorems about `Store` | `Store`, `SumLemmas` |
| `RecurringBilling` | hourly job, manual run, profile edits, number reservation, settings form | - |
| `BillingProofs` | theorems about `RecurringBilling`, `Reports` and `Pricing` | these, `SumLemmas` |
| `Till` | the selling page, its offline queue, sync loops and parked bills, over lost answers | - |
| `Team` | accounts, memberships, invitations, roles, organizations, request by request | - |
| `SignIn` | password, reset links, sessions of one account | - |
| `Organization` | modules, billing model, presets, architectures, field and rule definitions | - |
| `Contracts` | plans and subscriptions; projects, timesheets and retainers | - |
| `Pricing` | invoice calculator, taxes, rules, the till's own total | - |
| `Workspace` | menu, router, the routers of the server, settings and onboarding forms | - |
| `Shifts` | open, close, tally, and what a tally counts | - |
| `TillProofs` | theorems about `Shifts` and `Till` | `Shifts`, `Till`, `SumLemmas` |
| `Reports` | every sum the reports and dashboards make, over books that handlers write | - |
| `Composer` | the invoice form and its preview | - |
| `Sending` | an invoice from the form to the server, over switches and lost answers | - |
| `Assistant` | limiter, budget of time, retries, second provider, answers | - |
| `Templates` | the two steps of making a template the default | - |
| `OfficeProofs` | theorems about `Team`, `Contracts` and `Organization` | these, TLAPS |
| `DeskProofs` | theorems about `SignIn`, `Templates`, `Composer`, `Sending`, `Assistant`, `Workspace` and `Catalog` | these, TLAPS |
| `Catalog` | products, customers, suppliers: forms, import, backup, restore | - |
| `MC...` | constants of the runs | the modules named |

`MCOffice` instantiates `Team`, `Organization` and `Contracts`; `MCWeb` `Pricing`,
`Workspace`, `Shifts` and `Reports`; `MCDesk` `SignIn`, `Composer`, `Sending`, `Assistant`,
`Templates` and `Catalog`. The components of one such module share no state, so
interleaving them would only multiply states: a variable `scene` chooses, once,
which of them a behaviour runs, and the others stay as they start.

### Settlement and Receivables

`invoice`, `payment` and `balance` are the collections; `pc` and `arg` are where
each request is and what it holds in local variables; `dead` are the requests an
error has cut off (`CutOff`). `recordPayment` is `ReceiveRecord` (key lookup),
`ReadForRecord` (invoice and in-memory checks), `CreatePayment` (insert, with the
unique index on the key), `SettleRecorded` (the conditional pipeline update of
`settleInvoice`), then `ReduceBalance` (`$inc`) or `MarkFailed` (`payment.save()`
and the answer 409). The transactions of checkout and refund are one step at
commit after a step that reads: they write every document they decide on.
Amounts are in the smallest currency unit and the code's one-cent tolerance is
exact equality here. A payment's id is the pair of its request and its invoice.

`Receivables` knows `due`, `collected` and `returned` only. `Settlement` is mapped
to it by what the payment histories hold; `ImplementsReceivables` checks it, and
`SettlementProofs` proves it.

### CreditNotes

One more kind of request, in five steps: read the invoice, sum the notes, count
them for a number, create (a unique index refuses an equal number), save the
invoice from what was read, `$inc` the customer.

### InvoiceLifecycle

`invoice`, `queue` (the entries of each invoice, oldest first) and `balance`.
Clients are people with a role: those in `Manager` may delete and decide, the others
(accountants) may change the status, edit and mail as well as they.
A handler that decides on what it read and writes later (`ApplyStatus`,
`SaveEdit`, `MarkSent`) is two steps; `ApplyStatusRetried` is the second attempt of
`withTransaction` after a write conflict, which finds the document it saved in
the first attempt unmodified and so moves the balance alone. In the run the endpoint is asked for
`approved`, `void` and `pending_approval`; what it lets through of a held invoice without
being a manager is kept in `waved`, and an invoice it holds without an entry in `parked`.
`Claim` and
`ApproveInvoice` or `RejectInvoice` are the two steps of a decision. A business rule
holds totals above `Limit`.

### Store

`db` is the committed database, `view` the snapshot of each open transaction and
`touched` what others have written since it began. `Commit` runs the handler on the
snapshot (`Sell`, `TakeBack`, ...) and is refused if the documents in `Writes` were
touched. The product form and the payment handlers write outside of
transactions (`UpdateProduct`, `AccountPayment`, `InvoicePayment`). What is sold or
returned is a bag of products; prices are constants; what is paid by cash, card
or UPI is not told apart. Store credit is: a sale has a sequence of its store-credit rows
(`credit`), each checked alone against the balance of the snapshot (`Sellable`) and each
deducted (`Redeem`), as `posCheckout` does with the rows of a split payment. What is paid may
exceed the total and is recorded as paid; whether it does shows in the books of `Reports`, and
not in stock, credit or points.

### RecurringBilling

`profile` is the collection, with the run date as a billing period (1, 2, 3...).
`todo` is what an execution has read and not yet run: the list of the hourly job,
or the one profile of a manual run. `Claim`, `Reserve`, `Create`, `Charge`, `Finish`
are the awaited calls of `executeRecurringProfileGeneration`; `Fail` makes one of
them throw, `Release` is its catch block, `ReleaseFails` an error in that, `Crash` the
end of the process. `createInvoice` enters at `Reserve`, with no profile. `Edit` gives a
profile any form of `EditForm`: a status or the one it has, a date, a limit of
occurrences and an end. A form that leaves a field out is one that gives it the value it has;
the sending mode and the frequency of a profile stay as they are. `OpenSettings`
and `SaveSettings` are the two ends of `updateOrganizationSettings`.

### Till

`page` is what each browser shows (cart, the stock it was told of, `offline`,
`busy`, `syncing`), `queue` its IndexedDB, `loop` the sync loops it runs, `call` the
requests under way, and `server` what `posCheckout` and the held-bill handlers keep.
A call is `sent`, then `stored` or `refused`, then answered; it may be lost before
or after it is served, and when its page is gone the server may still serve
it (`Abandoned`). `syncing` is the flag of the render that set the online event up,
so `GoOnline` starts a loop beside one that runs. A confirmation has a number of
its own, which is the `clientTransactionId`: a cashier who presses again makes
another. `OneSalePerShopper` is what the shopper would ask for.

### Team, Organization, Contracts (`MCOffice`)

`Team` runs every handler as a request that reads, checks and writes in steps, none
of them in a transaction. `at` is where a request is; one that stops stays there
for ever, which is a crash. Two roles stand for the five: `admin` and the others, as
the last-admin rule of `user.controller.ts` tells no more apart. An update asks for another role
or sends `isActive`: true, false, or a value of JSON that is neither, `truthy` or `falsy`,
which the handler's comparisons (`=== true`, `=== false`) do not see and its write does
(`Truth`).

`Organization` reads the document, changes and saves it (`SaveDoc`), then creates
fields and rules one by one: `ProvideField` under a unique index, `LookForRule` and
`ProvideRule` under none. `Stop` cuts a request off. `Preset` and `Plans` tell what a
model or an architecture brings.

`Contracts` has one plan, one project and one retainer with the requests that
look for them and write later. `CountForPlan` and `DeletePlan` are `deletePlan`;
projects are deleted without a look at their timesheets.

### Pricing, Workspace, Shifts, Reports (`MCWeb`)

`Pricing` computes in whole cents, the till's own total (`CartTotal`) in hundredths of
a cent, as it does not round. `Shares` is the allocation of the invoice discount in
proportion to the lines, with the rest to the last one that is worth anything. The rest may
be less than nothing: of a discount of 4 on seven lines of a cent, six lines are given a cent
each and the last is charged two more. Nor is it always enough: of a discount of 3 all but the
last are given nothing, and the last takes no more than it is worth.
`Effects` are the active rules, `Price` is `priceInvoiceWithRules`; `UpdateInvoice` prices
a draft again with what its former pricing stored.

`Workspace` writes out the guards of the 23 routers, what each page asks for when
it opens and when its buttons are pressed, the menu and `RouterShell`, and then
asks whether they fit together. `mine` is the browser's copy; others change the
organization, the member's role and the counter meanwhile. A form of the settings page or of
the onboarding, which opens at `/onboarding` to an organization that is through with it too, is a
request in two steps: `Patch` reads the
organization and checks and changes it in memory, `SavePatch` saves it and answers, heard or not.
What is saved is what the request changed (`Patched`): the settings as a whole, the counter with
them, and modules only if the array is still of the version that was read (`Overtaken`).
`handleFinish` sends
two requests, the second whatever became of the first.

`Shifts` tells time by the number of shifts opened, and cash by the documents it
comes from: `counted` is the set a tally found in three separate reads. A sale goes to the open
shift of its cashier or to the one its request names, open or closed (`ShiftFor`); expenses and
returns find theirs.

`Reports` keeps invoices, payments, notes, returns and expenses of one customer as
the handlers leave them, one handler after another, and defines each report as its
controller sums it: `getDashboardSummary`, `getARAgingReport`, `getRevenueReport`,
`getBestSellersReport`, `getGSTSummaryReport`, `getProfitReport`, `getAgencySummary`,
`buildRetailKpis`, `getCustomerStatement` and `processAskBusinessQuery`. Two things are
remembered that the code does not store: `off` of a note, what is off its invoice because
of it, and `again`: `settleInvoice` sets what is due to the total less what was paid, which
puts back what notes had taken off, while the balance falls by the payment only. The properties
count that difference. `over` of an invoice is what a sale took in above its total: `posCheckout`
records all that was tendered, nothing is due then, and the properties say what becomes of the rest.

### SignIn, Composer, Sending, Assistant, Templates, Catalog (`MCDesk`)

`SignIn` is one account. Passwords are numbered as they are chosen and time is in
seconds, as `iat` is. `SavePassword` writes `passwordChangedAt` as it was taken *before*
the hash was saved, and `SignToken` stamps the second it runs in.

`Composer` is the form with the timer of a quarter second, questions on their way
and the answer shown. `Sending` is what happens around it: the page is left and
opened, drafts of the assistant and scans arrive, the user or another tab
switches the organization, and the form is sent until an answer is heard.

`Assistant` counts a request, checks it, tries model after model while the budget
lasts and then the other provider; time is in units of the shortest wait.
`Templates` keeps `ClearOthers` and the store that follows apart. `Catalog` has the
three kinds of records a backup holds, the forms, the import row by row
(`ImportRow`, `RowFails`, `Dies`) and `restoreTenantBackup`. `code` stands for what a record
may lack, a barcode or a phone number: an update and a restore are a `$set`, so a field that
is not sent keeps its value (`Kept`), and one sent empty is `Blank`.

## 3. Runs

| Run | Question | Bounds | States |
|---|---|---|---|
| `settlement` | Do paid amounts, refunds, keys and balance survive three concurrent requests that may be cut off anywhere, and is `Receivables` implemented? | 2 invoices (2 and 1 units), 3 requests, 1 key, amounts 1-2 | 0.6M |
| `settlement_fair` | Uncut, and with users who refund at any time: do payments get decided and the balance catch up? | 2 invoices, 2 requests | 8k |
| `lifecycle` | Do status, queue and balance move together, is approval not evaded, are decisions final? | 1 invoice, totals 1 (free) and 2 (held), a manager and an accountant who ask without end, the manager may be cut off, one retry | 1.2M |
| `credit` | Are credit notes numbered, within the invoice, and reflected in the balance? | 1 invoice of 3 units, 3 notes, 1 payment request | 0.9M |
| `over_credit` | Does the cap hold for concurrent notes? No | 2 notes | - |
| `store` | Do snapshot transactions keep stock, journals, numbers, keys and returns right, and sales atomic? | 1 stocked and 1 unstocked product, 3 requests of any kind, 1 key, store credit in up to 2 rows | 0.3M |
| `recurring` | Is every period billed once, none skipped, does it stop in time, do runs catch up? | 1 profile of at most 2 occurrences, 2 periods, a job, a request, a fault, an edit of status, date or limit, an invoice by hand | 1.8M |
| `rebilled` | Do extra runs never double-bill? They do, after a failure | one fault | - |
| `till` | Is what was confirmed sold once, does each receipt mean a sale, does a sync that started end with its sales posted? | 2 tills, 1 shopper, 2 units, 2 confirmations, 1 parking, 2 faults, 2 loops a page | 0.5M |
| `office` | Are members, settings and references kept in hand when two requests cross? | 2 people, 2 organizations, 2 requests of each kind, 2 changes of members | 1.7M |
| `web` | Do bills add up, do pages fit the server, do shifts count, do reports agree? | bills of 1, 2, 3 and 4 lines, 4 sets of rules; 4 sets of modules, 4 kinds of business which forms make one, 2 changes by others; 2 windows, shifts and documents; 2 invoices of 2 units, payments of 1 and 3, 2 records | 0.7M |
| `desk` | Do sessions of an old password end, does the preview tell the form, is an invoice sent where meant, does the assistant answer, is one template the default, do imports and restores repeat? | 2 passwords, links, sessions and seconds; 2 previews, 2 sends, 4 models, 5 requests for templates, 3 records, files of 2 and 3 rows | 2.4M |

**Why the bounds are enough to be interesting.** Two invoices are the least for
which oldest-first allocation has a choice. Three requests let a third one see
what two others left half done. Amounts 1 and 2 against totals 2 and 1 give
partial, full and refused payments and both clamps of a refund. Two units of
stock and bags of 1 and 2 make two tills compete for the last one. Two
occurrences are the least with a period that is not the last. One fault and one
edit already lead to every outcome of the catch block. Two faults at the till are
the least for a lost answer and a reload, or for two overlapping loops. Two
administrators are the least who can step down at once, two links and two seconds
the least with an old one. The lines of `web` are the ones at which rounding matters:
a cent, a line discount above the line, half cents, four equal lines whose shares
do not divide. The budget of the assistant is one and a half timeouts, as deployed, and
four of its six models outlast it. Three names are the least for two defaults and a refusal.

Deadlock is not checked: requests, confirmations, changes and records are finite
in number (in `InvoiceLifecycle`, clients may stop asking) and the clock of
`RecurringBilling` is bounded, so every model really may stop.

**Symmetry.** Requests, clerks, people, organizations and windows that are alike are
declared symmetric in runs of invariants and action properties only; runs with liveness
properties (`settlement_fair`, `lifecycle`, `recurring`, `till`) use none.

**Fairness.** `WF` of each started request's next step: Node runs a continuation
whose await has resolved, and a driver call resolves or rejects. Requests
themselves are never fair, nor are faults, clocks and users. In
`RecurringBilling` also the hourly job, which cron starts again whatever the last
one came to. In `Till` a running sync loop only: the server serves what it posts, and
an answered `fetch` runs on. That a connection comes back, or that a cashier presses Sync
Pending, is not assumed (the page has no timer that would); so the run says what a sync that
started comes to, and not that one starts.
`settlement_fair` assumes nobody is cut off; `lifecycle` says "unless cut off" in the
property.

### What the properties join

| Property | Parts |
|---|---|
| `PaymentsAreSound` | `TypeOK`, `BooksClose`, `RefundWithinPayment`, `OneChargePerKey`, `AnswersAreTrue` |
| `MoneyIsKept` | `PaidIsCollected`, `BalanceInStep` |
| `LedgerIsSound`, `HeldIsDecided` | type and balance in step; a held invoice has an open entry, an open entry is about a held invoice, nothing held passes a manager by |
| `NothingIsUndone` | only drafts are edited; decisions are final; dead invoices stay dead |
| `CreditKeepsBooks` | credit within the invoice, reflected in it, never inflating it |
| `StockAndBalancesTold`, `SalesAreApart` | nothing oversold, movements and journals tell stock and balances; sold once, numbered in a row, returned within what was sold |
| `BilledAsDue`, `InvoicesAreKept` | billed once, nothing skipped, count tells date, stops in time; numbers apart, what is owed is sent |
| `MembersAreSound`, `SessionsEnd`, `OrganizationIsKept` | an administrator remains, consent was asked; old sessions end, links are single; rules once, nothing unseen removed |
| `BillsAreFair` | bills add up, the discount is shared, the till is close |
| `ShiftsCount`, `ReportsAgree` | one open shift, a closed one counts all; receivables, sales and statement agree |
| `SentWhereMeant`, `ImportIsRepeatable` | own customer, stored once; skus apart, repeated import as one |

### Conditions in the properties

Several invariants are known not to hold without a condition. Each condition
names the one behaviour that breaks it; section 4 tells what happens then.

* `RefundsWait` (`Settlement`, `Receivables`, `CreditNotes`): a payment is refunded between its
  creation and its settlement, the refund is clamped against an invoice that
  has received nothing, and the payment then settles it.
* `Orderly` (`InvoiceLifecycle`): a status change, edit or mail ran next to another
  request, or its transaction was retried. Creations, decisions and
  payments overlap freely.
* `waved`, `parked`, `mailed` (`InvoiceLifecycle`): a held invoice was approved at the status
  endpoint by somebody who is no manager; the status endpoint held an invoice, without an
  entry; a mail made it `sent`.
* `mixed`, `lost` (`CreditNotes`): credit notes overlap with others; a payment after
  a credit recomputes what is due from the grand total and so undoes it.
* `Overdrew` (`Store`): a sale whose rows of store credit each fit the balance, and
  together do not; store credit is below zero after such a sale only.
* `recounted` (`Store`): a product form stored the quantity it was opened with. Two
  returns are capped together only when they write a document in common.
* `amiss` (`RecurringBilling`): a claim given back with its invoice stored, dropped
  by a crash, or overtaken by a later claim; a profile whose date was changed, that was made
  active again, or whose end was moved; a counter set back.
* `unsure` (`Till`): a shopper had two calls at once, or one nobody heard the end of.
* `doubled`, `stray` (`Shifts`): two requests to open or to close overlapped; a document
  was stored while its shift was being counted, or a sale that names a shift counted before.
* `overrun`, `unasked` (`Team`): a write found other administrators than the check before it,
  or disabled the last one by an `isActive` that is no boolean; an invitation was written
  by such a value as if it had been answered.
* `tangled` (`SignIn`): two resets, or two mails, crossed, or a crash kept a used link; it
  excuses links only. `late`: the sessions signed while a change of the password was
  under way or in its second.
* `excused` (`Organization`): two requests looked for one rule, or a user wrote it.
* `crossed` (`Contracts`): requests on one subscription, plan or project overlapped.
* `Leans` (`Workspace`): pages that ask a module that is not their own; and a copy
  that is no longer what the server holds.
* `fresh` (`Composer`): the last question was answered and its answer is the one shown.
* `heard = "never"` (`Sending`): a save whose answer nobody heard.
* `patch.whole` (`Workspace`): the save of a form assigned the settings as a whole, the counter as its
  request had read it.
* `over`, `again` (`Reports`): a sale took in more than its total; a payment after a credit note put
  back what the note had taken off. Both are terms of the sums.
* `overlap` (`Templates`): two requests that set the default overlapped.

## 4. Where code and comments part

With a run (see `findings` in `PROJECT.json`): credit beyond the invoice
(`over_credit`); a period billed twice after a failure (`rebilled`).

Met while modelling, without a run of its own. *Server:*

* A request that is cut off after `createPayment` leaves a completed payment that no
  invoice took; the comment at `payments/payment.controller.ts:109` says failed payments
  must never be recorded as completed.
* Two status changes decided on one read both correct the balance
  (`invoices/invoice.controller.ts:403` says the ledger stays in sync). The status
  endpoint stores `pending_approval` without a queue entry, so that nothing in the queue
  can decide it (against `:341`), and lets an accountant approve what a rule holds for a
  manager (`invoices/invoice.routes.ts:31` against `approvals/approval.routes.ts:9` and
  `invoice.controller.ts:443`).
* The rows of a split payment are compared with store credit one by one
  (`pos/pos.controller.ts:161`) and deducted one by one (`:244`): two rows of what the customer has
  leave him with less than nothing. A payment above the total is accepted and recorded
  in full (`:149-150`).
* Two returns at once exceed what was sold (`returns/return.controller.ts:63`).
* The settings form writes back the counter that was read: it is compared at `:358` with the
  organization read at `:294`, and assigned and saved with all settings at `:369-376`
  (`organizations/organization.controller.ts`), so numbers reserved in between are given again,
  although the comment at `:356` says it may only move forward. The unique index then refuses
  invoices until the counter has passed the numbers in use. So may the end of the onboarding,
  whose form sends settings without the number (`OnboardingPage.tsx:117`).
* A failed run whose period was followed by a later claim matches nothing in its
  catch block (`jobs/recurring-invoice.job.ts:121-124`), and the period is never
  retried. A crash after the claim has the same effect. `maxOccurrences` may be
  exceeded by one invoice when two periods are claimed before the first run
  completes the profile (`:113`). A limit lowered to what is billed already, or an end date
  before the next run (`recurring/recurring.controller.ts:115-118`), is noticed only after one more
  invoice. `setMonth` (`:21`) moves a profile of the 31st to
  the 3rd of the month after a short one, for good.
* A customer's balance goes below zero when an account payment is checked before
  a recorded payment has lowered it (`customers/customer.payment.ts:44`).
* `sendEmail` makes an invoice `sent` after the mail, whatever it has become, and so
  past a rule or out of `cancelled` (`invoices/invoice.controller.ts:662`).
* `updateInvoice` does not check custom fields, as `createInvoice` does; `pricingTiers` are
  stripped by zod.
* An exchange for a managed product always fails: `EXCHANGE_OUT` is not in the
  enum of `InventoryMovement`. An exchange refunded to store credit gives goods
  and credit (`returns/return.controller.ts:162`).
* A product form overwrites sales made since it was opened
  (`products/product.controller.ts:228`); so does an import with a stock column, which
  also reactivates deleted products. Barcodes are compared by `createProduct` only.
* A sale may name any shift, one that is closed and handed over too
  (`pos/pos.controller.ts:33`, `:175`), whose totals then lack it.
* Refunds are not in a shift's cash, and a later payment of an invoice counts in the
  shift of its sale.
* `updateUser` does not validate `isActive`: `1` makes an invitation active
  (`users/user.controller.ts:141`, against the comment at `:139`), and `null` disables the
  last administrator (`:155`), as the value is compared strictly and stored by its truth
  (`:184`). The team page sends booleans.
* A person invited to an organization and active in none cannot sign in
  (`users/user.controller.ts:62`). `getMe` answers with the role of the account, not of
  the membership (`auth/auth.controller.ts:328` says role and organization stay consistent), so a
  reload changes the menu.
* `deleteProject` leaves its timesheets; nothing sets a timesheet to `invoiced`.
* Aging, revenue, GST and profit count `pending_approval`, which the comment at
  `reports/report.controller.ts:13` excludes; the bucket `31-60` holds what is 1 to 30
  days late; the dashboard calls an invoice overdue on its due day, aging does
  not; the dashboard's profit differs from the report's after returns; a
  statement ignores partial refunds, although it is to match what the customer owes
  (`:296-297`). After a sale that took in more than its total the statement ends below what is owed,
  by the whole of the rest while the invoice stands.
* A request to the assistant may take the budget, two attempts of the last model and
  the second provider: 45 + 3 x 30 + 0.6 seconds, where `ai/llm-provider.ts:67` says it
  cannot run for minutes; the client gives up after 60 (120 for a file). A model
  that answers `null` makes a 500 of what `:15` calls a bad gateway. The limiter lets
  through its maximum in the database and once more in memory.
* A refused creation or change of a template has taken the default from the others
  already; requests that overlap leave two defaults.
* A restore overwrites stock and balances, while invoices and payments are exported
  and not restored; namesakes overwrite each other. A field that the backup lacks is not taken
  away (`system/system.controller.ts:91-95` is a `$set`): a barcode or a phone number entered since
  stays.

*Pages:*

* `apiRequest` reports a network error as a result and never throws, so the branch of
  the till that queues a sale after one (`PointOfSalePage.tsx:321`) is not reached, and
  Park Bill (`:356`), shifts, expenses, inventory, templates and deletions in
  settings take a refusal for success. A walk-in customer who pays exactly what
  the till shows may be refused for a rounded cent (`:216`).
* Sales queued offline are said to be "automatically queued and synchronized"
  (`PointOfSalePage.tsx:603`). A sync starts when the browser reports a connection
  (`:106`) or the cashier presses the button; a sale whose post fails, or a page that is
  loaded after the connection came back, waits for the next of these, and nothing
  makes it come.
* The till's tax ignores the bill discount. A rule that sets a custom field another
  rule reads changes the price at the next save.
* Settings always send `businessType`, so a manager's save is refused and not told
  (`organizations/organization.controller.ts:300` says managers may edit); a form with
  an old invoice number is refused too. Onboarding can be finished by administrators
  only. `/plans` leans on `subscriptions`, timesheets and retainers on `projects`,
  purchases on `suppliers`.
* A late answer to a save navigates away from whatever page is open. A draft of the
  assistant survives a switch or sign-out and refills a form of another
  organization, whose customer is then refused. After another tab switched, a page
  that shows one organization lists and saves in the other. The answer to a scan
  overwrites typed rows. A retry after a lost answer stores two invoices. A
  preview answered late overwrites a newer one, and so does a customer's statement.
* The cart survives a switch and a sign-out. `logout` clears the page before it is
  answered. A late `refreshProfile` may overwrite a switch.
* `BackupPage` always tells of a failure, as the server answers `restored` without
  `data`. `SuppliersPage` sends a `gstin` the server drops. `OnboardingPage` waits for
  `LLM_NOT_CONFIGURED`, which nothing answers.

## 5. Proofs

`SettlementProofs` proves, for every number of invoices, every total and set of
requests, keys and amounts, with `SettlementAssumption` alone:

| Theorem | States |
|---|---|
| `TypeCorrect` | the type invariant |
| `BooksAlwaysClose` | paid + due = total and the status tells which is zero |
| `RefundsStayWithin` | refunds never exceed the payment |
| `ChargedOnce` | a key is on one payment |
| `AnswersAlwaysTrue` | a payment answered as made is in the history, a refused one is not |
| `PaymentsStaySound` | `PaymentsAreSound`, which run `settlement` checks: all of the above |
| `PaymentsOnlyGoForward` | `PaymentsGoForward`: with `RefundsWait`, no step takes a payment back in its life |
| `MoneyStaysKept` | `MoneyIsKept`: an invoice was paid what is left of the payments in its history, and the customer owes what the invoices ask for, but for balance writes to come |
| `SettlementImplementsReceivables` | `ImplementsReceivables`: with `RefundsWait`, every step of the handlers is a step of `Receivables` or a stutter |

**The inductive invariant.** None of these is inductive alone. `IInv` joins
`TypeOK`, `RefundWithinPayment` and `OneChargePerKey` with four facts about
requests under way: `RequestsFit` (a request that is about to create or settle
asks for what its invoice and kind allow, and has made no payment yet),
`InFlightExists` (one that is about to settle, reduce or fail has created its
payment), `HistoryIsSettled` (what a history holds was completed) and
`SettledInHistory` (one past its settlement is in the history). `BooksClose` is kept
beside it (`Invariance`), because next to credit notes only the rest of `IInv` holds, and
the part about credit notes uses that. The argument for
`AnswersAreTrue` is then immediate. For the action property two more are needed,
`NotYetMade` and `RefundsFollowAnswers`: a payment whose request has not answered has
no refund, so `MarkFailed`, which writes a status blindly, overwrites nothing.

The proof has one lemma per conjunct, in each a case per action. Lemmas about the
operators (`SettledCloses`, `ReopenedCloses`, `GiveBackWithin`) carry the arithmetic;
`AccountCases` reduces the oldest-first split to what one invoice sees of it.

**Sums.** `MoneyIsKept` adds up payments and invoices. The models write each sum as
`SumFunctionOnSet`, a recursive function, and `SumLemmas` proves what a step needs of it:
the sum changes by what one member changes (`SumChange`), grows by what is added (`SumAdd`),
splits (`SumSplit`) and distributes (`SumPlus`). The induction theorems of the library take
an operator as a parameter and cannot be instantiated here; the lemmas argue by a smallest
counterexample instead, which the well-foundedness of the finite subsets provides
(`Smallest`). With them the invariant of `MoneyIsKept` is an equation per invoice
(`PaidIsRemain`) and one for the customer.

**The refinement.** The argument sorts the actions by what the books show: `StepMoves` says
that each step rests, gains (one request brings a split in, each part within its invoice's due
and in a payment the invoice did not know) or returns part of one payment. What a gain needs
is in `Made` (a payment belongs to the request that asked for it) and `Charged` (between the
two writes of `recordPayment` the payment is worth what the invoice is about to take). What a
return needs is that the clamp of the refund's pipeline never bites: the invoice was paid
at least what is refunded, which `PaidIsRemain` tells. Without
`RefundsWait` the theorem is false: a payment refunded between its two writes is returned
before it was collected.

`StoreProofs` proves, for every number of products and requests, all stocks, prices, carts and
tenders, and whatever others write while a transaction is open, with `StoreAssumption` alone:

| Theorem | States |
|---|---|
| `StockAndBalancesAlwaysTold` | `StockAndBalancesTold`: stock and points are never oversold, store credit only by the rows of one sale (`Overdrew`), movements tell the stock, journals the balances |
| `SalesStayApart` | `SalesAreApart`: one sale per key, numbers without a gap, returns that meet on a document stay within their sale |
| `SalesStaySerial` | `SalesAreSerial`: what a sale checked on its snapshot holds of the database it commits to |

None of this is inductive while a handler runs on a snapshot that others overtake. `IInv` adds
for each open transaction `Snapshot` (what it read is what there still is, but for the documents
in `touched`; one clause for the stock, the counter, the customer, the sales and the returns)
and `Asked` (what it has checked, of the snapshot); for requests that have not committed `Own`
(they have left no sale and no return); and `ReturnsOfSold` (a return is of a sale there
is). From these `CommitLands` shows that a commit which is not refused does to the current
database what its handler did to its snapshot, since every document it writes is untouched,
and `CommitChecks` that its checks hold there too. Each property then has one lemma
about what lands (`CommitOversells`, `CommitTells`, `BookedTells`, `CommitSells`,
`CommitReturns`), and `Kept` and `SnapshotKept` say what a step leaves the other transactions.

`BillingProofs` proves, for every number of profiles, jobs and request handlers, every
limit and end date, whatever fails or crashes, with `RecurringAssumption` alone:

| Theorem | States |
|---|---|
| `BilledAsDueAlways` | `BilledAsDue`: the type, `BilledOnce`, `NothingSkipped`, `CountTellsDate`, `StopsInTime` |
| `InvoicesAlwaysKept` | `InvoicesAreKept`: `NumbersApart`, `OwedIsSent` |

The invariant adds what the executions hold. `ClaimsFit`: those at work on a profile hold
different periods, all before its date; giving one back, which happens only while the date
is the next one, therefore never uncovers another's. `BillsFit`: whoever still holds a
billed period made that invoice itself and is past storing it, so storing never bills a
period again. `RunsFit`: who is past storing finds its invoice stored, and
its balance charged before it finishes. `NumbersFit`: below the counter each number is one
execution's or one invoice's. `LastHeld`: past the last period a profile is active only
while every such period is held. `LimitsFit`: a profile whose end nobody moved ends where it was
made to, and so does every claim's copy of it, so that `IsLast` says the same of both. The
exceptions that the properties name ("rebill",
"overtaken", "dropped", "edited", "limited", "renumbered") only accumulate (`AmissGrows`). `StepMoves`
reduces the actions to what they do to a claim; each conjunct then has one lemma.

Its second part proves, for every finite number of invoices, whatever they come to, whatever is paid,
refunded, credited, returned and spent, with `ReportsAssumption` alone:

| Theorem | States |
|---|---|
| `ReportsAlwaysAgree` | `ReportsAgree`: receivables, sales and the statement are told alike by every report |

`SalesAgree` is true of any books whose totals are sums of their parts; the months of
`getRevenueReport` need that a sum splits by month (`MonthsAdd`, from the exchange of two sums
in `SumLemmas`). `ReceivablesAgree` and `StatementTellsDebt` relate sums over documents to a
balance that handlers keep one step at a time, so the invariant holds the books together invoice
by invoice: `BookFits` says that what its payments still hold, what is due and what is off because
of notes come to the total at least and to what a sale took in above it at most, and that an
invoice nothing was paid of has a status a payment
has not set; `DebtFits` that the balance is what is due on account and what invoices let go of
such a rest, less returns and what was put back. With it the limits in `refundPayment` (`Max`,
`Min`) never cut anything off, which is why a
refund moves the invoice and the balance alike. `OneBookKept` reduces a handler to the one invoice
it writes.

Its third part proves, for every bill, discount, revision and set of rules that
`PricingAssumption` admits (whole cents, rates up to the whole, finitely many rules):

| Theorem | States |
|---|---|
| `BillsStayFair` | `BillsAreFair`: bills add up, the discount is shared out, the till is at most a cent a line from the invoice but for its tax on the discount |
| `RepricingIsStable` | `RepricedTheSame`: a draft saved again as it is, under the same rules, costs the same |

The state hardly matters here: the invariant says that a draft is one that `Price` makes, and a
sale what `Checkout` makes of its lines. The work is about the operators. `OneTakesRest` finds
the line that takes the rest and says what the lines before it were given: each its proportion,
right to half a cent (`ProportionIs`), so together right to half a cent a line (`Spread`).
`RestIs` concludes for the rest, and `Shared` that the parts come to what was asked or the last
line is given all it is worth. `Calculated` adds up the columns of a bill; `OverBounds` compares
the till with it: tax that is rounded line by line against tax that is not, of shares one of
which may be less than nothing. The proof corrected the property: the bound it had, half a cent
a line for the rounding of taxes, does not hold where a discount is so small that the shares of
all lines but one are rounded away, as with seven lines of a cent and a discount of 3, which the
run now has among its bills. For `RepricingIsStable`, `OwnOfJoined` says that the lines that are
no rule's are found again, `StoredIs` that a line comes to the same once the amount of its
discount is stored, and `EffectsAgain` that rules which held before hold again.

`TillProofs` proves, for every number of windows, shifts and documents, with
`ShiftsAssumption` alone, and for every number of shoppers, products, confirmations and pages,
whatever calls are lost, with `TillAssumption` alone:

| Theorem | States |
|---|---|
| `ShiftsAlwaysCount` | `ShiftsCount`: one shift is open, a closed one has counted all that was made in it, but for overlaps |
| `HandedOverForGood` | `HandedOverStays`: no step changes a shift that is closed |
| `ConfirmationsSoldOnce` | `EachConfirmationSoldOnce`: the server keeps one sale per confirmation, and its stock is what was not sold |
| `ReceiptsMeanSales` | `ReceiptMeansSale`: what a page tells as sold, the server has stored or the queue still holds |
| `ShoppersPayOnce` | `OneSalePerShopper`: a shopper whose calls did not overlap and were all answered is charged once |

`ShiftsCount` says nothing of a tally under way, nor of a document between its look-up and its
store. The invariant adds both: `OneCloses` (one request closes, and the shift it closes
is open), `CountsFit` (what a tally has found so far is what belongs to the classes read),
`StraysAreLate` (a document missed by a tally was stored after its class was read or its shift
closed) and
`ReturnsInPlace` (the timestamp of a return tells its shift). All of that holds while
`~doubled` only; `ShiftsTyped`, `ShiftsBounded` and `ShiftsPlaced` hold throughout, and
`ShiftsBounded` needs the cardinality of the requests under way, whence the assumption that the
windows are finite.

For the till, `TillInv` follows the goods. `SalesNumbered`: a confirmation is told by its shopper
and number and counted when it is made, so a `clientTransactionId` found on the server is this
very sale, and answering with it is no lie. `PagePostsAlone`: the sale a page waits for is posted
by nobody else, so that a refusal leaves it nowhere but in the cart. `LoopsWait`: a loop waits for
one answer while it still has the sale to post; two loops may post one sale, and the key tells
them apart at the server only. `StockTold` is a sum over the sales (`SumLemmas`); `AnswersAreTrue`,
`ReceiptsBacked` and `ParkedCounted` say of calls, receipts and parked bills what the server keeps
of them. With these `OnePlace` is inductive: the goods of a shopper who is not `unsure` are in
one place, a cart that is not about to be emptied (`Clearing`), a parked bill or one on its way,
a sale or one on its way. The steps are sorted into those that only take away (`LessStep`) and
those that move goods from one place to the next (`GoodsMove`), which keeps the case analysis
to the handlers that move.

`OfficeProofs` and `DeskProofs` are about components that share no state, a part for each.
`OfficeProofs`:

| Theorem | States |
|---|---|
| `MembersStaySound` | `MembersAreSound`: every organization that had an administrator has one, unless the check was `overrun`; nobody is a member who did not agree or was written as if he had |
| `ReferencesAlwaysHold` | `ReferencesHold`: a subscription has its plan and a timesheet its project, unless requests crossed |
| `SubscriptionsStayEnded` | `SubscriptionsEnd`: a cancelled subscription stays so, and statuses follow the table |
| `OrganizationStaysKept` | `OrganizationIsKept`: rules are set up once, no save removes a module that was not seen |

In `Team` the invariant says what each request holds: `Asking`, that one which is about to demote
or disable has seen whether this takes an administrator away and, if the handler looks, that he
is not the last; `Agreeing`, that whoever is not just invited has agreed or is `unasked`, and so
has everybody whom a request is
about to make a member without asking; and `Founded` and `Founding`,
that an organization anyone but its first administrator belongs to, or is about to, has had one
and has one still. In `Contracts`, `PlansKept` and `SheetsPlaced` say that what a
request alone on a document has read still stands, and `MovesAllowed` that its transition is
still one of the table. In `Organization`, `ReadAsIs` says that a document of the version a
request has read has the modules it has read, which is why the versioned `save()` removes
nothing unseen, and `RulesLookedFor` that a rule not found is not there, unless `excused`.

`DeskProofs`:

| Theorem | States |
|---|---|
| `SessionsAlwaysEnd` | `SessionsEnd`: a session that is accepted is of the password as it is, but for `late` ones and the second of the change; a link is used once unless requests `tangled` |
| `AlwaysOneDefault` | `OneDefault`: one default at most unless two requests overlapped, and names are apart |
| `PreviewAlwaysTells` | `PreviewTellsForm`: with nothing due and the last question answered, the preview is of the form as it stands |
| `InvoicesSentWhereMeant` | `SentWhereMeant`: an invoice is stored where its customer is, and a page stores one, and one more for each answer it never heard |
| `AssistantAlwaysAnswers` | `AssistantAnswers`: the time a request takes is bounded, drafts and questions need no provider, a window has its limit |
| `StructureStaysKept` | `StructureIsKept`: an old copy moves the counter back over numbers taken while its request ran, and no further; it takes no module its request had not seen |
| `OfferedAlwaysServed` | `OfferedIsServed`: what the menu offers opens, and what it asks for is answered |
| `ImportsStayRepeatable` | `ImportIsRepeatable`: an import that died and was repeated leaves what it would have left at once; skus are apart |
| `RestoresAlwaysGiveBack` | `RestoreGivesBack`: a restore gives back what the backup names once, but for fields it lacks, leaves the rest, and done twice is done once |

In `SignIn` the invariant is `Dated` (a session newer than a dated password about to be
saved is `late`), `LinksUsed` and `LinksMailed`. The proof needs `MaxSecond # 0`, and showed that an
exception the property once had for sessions, resets that cross, is not needed: whichever
password is saved last, its date ends them. In `Templates` a count of the defaults is not
inductive: `DefaultsFit` says that while a request is about to set the default, it is the only
one, and no other template has it. In `Composer`, `LastIsOfForm` says that while nothing is due
the question marked as last asks about the form as it stands. In `Sending`, `OneHeard` and
`StillSaving` say that of the posts of a page one at most is still to be heard or was heard, and
none while the button can be pressed; `TriesApart` tells the posts of one page from each other,
so that the two cardinalities can be compared. In `Assistant`, `TimeTaken` bounds the time by
step and attempt, since the budget is looked at between models only; `AskedInOrder` and
`ServedCounted` do the rest. In `Workspace`, `PatchSound` says of a request under way that it puts
no lower number than it has seen and takes no organization back to its onboarding, that a plain
save puts the modules it has seen, and that these are still the ones stored unless others have
replaced them meanwhile (`stale`). The rest is about the tables. `MenuAndRouterAgree` compares the
menu's modules and roles with the router's, and
`AsksItsOwn` says of each page that it asks for what needs no module, or for one of its own
(`PagesAskTheirOwn`), which the server's routers serve to everyone who reads and to an
administrator who writes (`FreeReadsAre` to `ModuleWritesAre`). The figures of a report and the
log are the exceptions (`ReportsAndLogServed`).

In `Catalog` the property speaks of the end of an import and the invariant of its middle:
`KeptFrom` says that the records are the ones before with some rows of the file imported, any number
of times (same places, same skus, and a count or a barcode that only a row which has that
column may have changed), and `SettledTo` that the rows up to the next one have had their say, the
last
of each product for each column. Two lists of which both hold for the whole file are equal but for
the order of what is new (`ToldAlike`), and an import at once leaves such a list
(`ImportedAllIsTold`). For backups, `GivenTo` says that at the first place with a
name is the last row of that name, with the code of the last row that brings one; restoring over
such a list changes nothing (`RestoredAgain`). What is
folded over a file or a backup is followed row by row with `Climbs`, an induction up to a bound,
which takes a set and is proved from the order of the naturals being well founded.

`LifecycleProofs` proves, for every number of invoices and clients, all amounts and whichever
requests are cut off, with `LifecycleAssumption`:

| Theorem | States |
|---|---|
| `HeldAreDecided` | `HeldIsDecided`: a held invoice has its one open entry or its reviewer, unless it was `parked`; it becomes a receivable only by a manager's approval, unless `waved` or `mailed` |
| `NothingEverUndone` | `NothingIsUndone`: amounts, dead documents and decisions stand |
| `LedgerAlwaysSound` | `LedgerIsSound`: the type, and while `Orderly` the balance is what receivable invoices ask for, but for balance writes to come |

Neither property is inductive: a handler acts on what it read. `WritersFit` says that one which
writes without asking is alone and finds the invoice as it read it, with a transition that is
allowed; `ReviewersFit` that a reviewer has taken the only open entry, and with it the total.
The steps are first sorted into what they do (`Moves`: a request reads, leaves, dies, settles,
mails, reprices, applies; an invoice is created, claimed or paid), and each conjunct is then
shown for each of these. That decisions stand needs no order among requests.
For the ledger `ReadyFit` says what a request carries to its balance write, and `BalancedFit` that
balance and outstanding writes together (`Lag`) are what is owed, each of them for an invoice
that is booked; a step moves one invoice, and `SumLemmas` carries that to the sum.

The last part of `SettlementProofs` proves, for every number of requests, invoices and amounts,
whatever the
payment handlers do meanwhile, with `CreditAssumption` and `SettlementAssumption`:

| Theorem | States |
|---|---|
| `NotesAlwaysNumberedInARow` | `NotesNumberedInARow`: notes are numbered from one without gap or repetition |
| `CreditAlwaysKeepsBooks` | `CreditKeepsBooks`: no invoice is over-credited or asks for more than its total, and the balance tells what is due |

What makes the first inductive is `NumbersWait`: a request that has counted holds at most one more
than there are notes, since none is ever deleted. A number that is stale by the time of the
insert is therefore taken, and the unique index refuses it.

The second rests on the invariant of `Settlement`: the payment handlers keep it whether or not
notes are credited next to them. `CreditInv` adds what each condition of the property buys:
while no two requests were `mixed`, a credit note that has read is alone (`Serial`), so what it
read is still so; with `RefundsWait` payments are refunded after their answer (`Answering`); and
with both, and no
credit undone by a later payment, `Balanced` gives the books as equations: each invoice was paid
what remains of its payments and still asks for what is neither paid nor credited, and the
balance lags behind by what is still to be posted. Without `RefundsWait` the balance is not
kept: a refund that meets an unsettled payment moves it twice.

**Only model-checked.** Liveness, which is out of the prover's reach
(`PaymentsAreDecided`, `BalanceCatchesUp`, `ClaimsAreCarriedOut`, `CaughtUp` and
`SyncedIsPosted`). Every invariant and every action property of the runs that pass is a theorem.

## 6. Plan

Theorems next: abstract specifications of a sale and of a profile's billing, which `Store` and
`RecurringBilling` implement as `Settlement` implements `Receivables`; and what the liveness
properties need of every state, that a step towards the end is there to take.

Models next: two tills with two shoppers at once; an organization with more than
one plan and project; the expiry of quotes and of approvals, should the code
come to have them.

## 7. Not modelled

* Audit trail: one insert whose errors are swallowed, read by its page only.
* Mail: formatting and SMTP; that a mail makes an invoice `sent` is modelled.
* Request validation: the models' inputs are what passes it. The field validator of
  custom values is of this kind.
* Server, configuration, migrations, seed: wiring, and scripts that run alone.
* Rendering and hardware: documents, charts, receipts, printers and scanners.
* Shared types.
* Of modelled components: lists, searches and exports to CSV, product analytics and
  anomalies, subscription figures; dates of issue, names, addresses, notes and
  colours; calendar dates of recurring profiles (periods stand for them).
* Tenancy: every query carries the organization; that it is the right one is
  `Sending`'s and `SignIn`'s question, and of the others it is taken as given.
* Binary fractions: amounts are whole cents, or hundredths of one at the till.
* Write concern and replication: a committed write stays, and reads are of the
  primary.
