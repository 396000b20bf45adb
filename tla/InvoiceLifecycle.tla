-------------------------- MODULE InvoiceLifecycle --------------------------
(***************************************************************************)
(* The life of a customer's invoices and what moves with it: the Approval  *)
(* Queue entries and the customer's outstanding balance.  createInvoice,   *)
(* updateInvoiceStatus, updateInvoice, deleteInvoice and sendEmail of      *)
(* invoice.controller, approveItem and rejectItem of approval.controller,  *)
(* and payments as far as they move the status.  A handler decides on the  *)
(* invoice it read first; what it writes later, it writes whatever the     *)
(* document has become, unless the update's filter says otherwise.         *)
(***************************************************************************)
EXTENDS Integers, FiniteSets, Sequences, FiniteSetsExt, SequencesExt

CONSTANTS
  Invoice,
  Amount,      \* grand totals, and amounts paid
  Limit,       \* business rule: a larger total requires manager approval
  Req,         \* clients: each has one request at work at most
  Manager,     \* clients who are admin or manager; the others are accountants
  Ops,         \* the handlers that run
  AskedStatus, \* what clients ask of the status endpoint
  Mortal,      \* requests an error or a crash may cut off between two awaits
  Conflicts,   \* bound: status transactions that meet a write conflict and are retried
  MaxEntries   \* bound: requests for approval per invoice

Status == {"none", "draft", "pending_approval", "approved", "sent", "partially_paid",
           "paid", "overdue", "void", "cancelled"}
EndpointStatus == {"draft", "pending_approval", "approved", "sent", "overdue", "void", "cancelled"}

ASSUME LifecycleAssumption ==
  /\ Invoice # {} /\ IsFiniteSet(Invoice) /\ IsFiniteSet(Req)
  /\ Amount \subseteq Nat \ {0} /\ Limit \in Nat
  /\ AskedStatus \subseteq EndpointStatus
  /\ Conflicts \in Nat
  /\ Manager \subseteq Req /\ Mortal \subseteq Req
  /\ MaxEntries \in Nat

VARIABLES
  invoice,  \* the Invoice collection; status "none": not created
  queue,    \* per invoice, its ApprovalQueue entries in order of creation
  balance,  \* the customer's outstandingBalance
  pc,       \* where each client's request is, "idle" if it has none
  arg,      \* what each request read and decided
  dead,     \* requests cut off where pc says
  retried,  \* how many transactions were retried
  passed,   \* history: the totals a manager let through, per invoice
  waved,    \* history: the held invoices an accountant approved at the status endpoint
  parked,   \* history: the invoices the status endpoint holds without an entry
  mailed,   \* history: the invoices sendEmail made sent
  mixed     \* history: a status change, edit or mail ran beside another request

vars == <<invoice, queue, balance, pc, arg, dead, retried, passed, waved, parked, mailed, mixed>>
history == <<passed, waved, parked, mailed>>

(* countsAsReceivable, statusDelta *)
Receivable(s) == s \in {"sent", "approved", "partially_paid", "overdue"}
StatusDelta(from, to, due) ==
  IF Receivable(from) = Receivable(to) THEN 0
  ELSE IF Receivable(to) THEN due ELSE -due

(* ALLOWED_STATUS_TRANSITIONS *)
Allowed ==
  [s \in Status |->
     CASE s = "draft" -> {"pending_approval", "approved", "sent", "void", "cancelled"}
       [] s = "pending_approval" -> {"approved", "draft", "cancelled"}
       [] s = "approved" -> {"sent", "void", "cancelled"}
       [] s = "sent" -> {"partially_paid", "overdue", "void", "cancelled"}
       [] s = "partially_paid" -> {"overdue"}
       [] s = "overdue" -> {"partially_paid"}
       [] OTHER -> {}]

RuleHolds(total) == total > Limit

NoInvoice == [status |-> "none", total |-> 0, paid |-> 0, due |-> 0]
NoArg == [inv |-> CHOOSE i \in Invoice : TRUE, from |-> "none", to |-> "none",
          delta |-> 0, hold |-> FALSE, stale |-> FALSE]

Init ==
  /\ invoice = [i \in Invoice |-> NoInvoice]
  /\ queue = [i \in Invoice |-> <<>>]
  /\ balance = 0
  /\ pc = [r \in Req |-> "idle"]
  /\ arg = [r \in Req |-> NoArg]
  /\ dead = {}
  /\ retried = 0
  /\ passed = [i \in Invoice |-> {}]
  /\ waved = {} /\ parked = {} /\ mailed = {}
  /\ mixed = FALSE

Working == {"apply", "edit", "mail", "post", "approve", "reject"}
At(r, where) == r \notin dead /\ pc[r] = where
Goto(r, where) == pc' = [pc EXCEPT ![r] = where]
Finish(r) == Goto(r, "idle") /\ arg' = [arg EXCEPT ![r] = NoArg]

\* A request arrives for an existing invoice; its handler is one of those run.
\* A request its handler rejects leaves no trace, so it is not a step.
Arrives(r, op, i) ==
  /\ At(r, "idle") /\ op \in Ops
  /\ invoice[i].status # "none"

Decide(r, i, to, delta, hold) ==
  arg' = [arg EXCEPT ![r] = [inv |-> i, from |-> invoice[i].status, to |-> to,
                             delta |-> delta, hold |-> hold, stale |-> FALSE]]

\* Mutant of CloseEntries: entries that were decided are decided again.
CloseAllEntries(q, decision) == [n \in DOMAIN q |-> decision]
CloseEntries(q, decision) == [n \in DOMAIN q |-> IF q[n] = "pending" THEN decision ELSE q[n]]
-----------------------------------------------------------------------------
(* createInvoice: one transaction for invoice, queue entry and balance *)
CreateInvoice(r, i, asked, total) ==
  LET held   == RuleHolds(total)
      status == IF held THEN "pending_approval" ELSE asked
  IN /\ At(r, "idle") /\ "create" \in Ops
     /\ invoice[i].status = "none"
     /\ invoice' = [invoice EXCEPT ![i] =
          [status |-> status, total |-> total, paid |-> 0, due |-> total]]
     /\ queue' = [queue EXCEPT ![i] = IF held THEN Append(@, "pending") ELSE @]
     /\ balance' = balance + (IF status = "sent" THEN total ELSE 0)
     /\ UNCHANGED <<pc, arg, dead, retried, history>>

HeldByRules(i, to) == /\ invoice[i].status = "draft" /\ to \in {"sent", "approved"}
                      /\ RuleHolds(invoice[i].total)

(* updateInvoiceStatus up to applyStatusChange.  It may not void or cancel    *)
(* what was paid on, and a draft the rules hold goes to the queue instead.    *)
ReadForStatus(r, i, to) ==
  LET from == invoice[i].status
      held == HeldByRules(i, to)
  IN /\ Arrives(r, "status", i)
     /\ to \in Allowed[from]
     /\ to \in {"void", "cancelled"} => invoice[i].paid = 0
     /\ held => Len(queue[i]) < MaxEntries
     /\ IF held THEN Decide(r, i, "pending_approval", 0, TRUE)
                ELSE Decide(r, i, to, StatusDelta(from, to, invoice[i].due), FALSE)
     /\ Goto(r, "apply")
     /\ UNCHANGED <<invoice, queue, balance, dead, retried, history>>

(* deleteInvoice up to applyStatusChange *)
ReadForDelete(r, i) ==
  LET from == invoice[i].status IN
  /\ r \in Manager /\ Arrives(r, "delete", i)
  /\ from # "paid" /\ invoice[i].paid = 0
  /\ Decide(r, i, "cancelled", StatusDelta(from, "cancelled", invoice[i].due), FALSE)
  /\ Goto(r, "apply")
  /\ UNCHANGED <<invoice, queue, balance, dead, retried, history>>

\* Mutant of StatusEffects: a held draft gets no entry in the queue.
StatusEffectsNoEntry(r) ==
  /\ UNCHANGED <<queue, passed, waved, parked>>
  /\ balance' = balance + arg[r].delta

\* The side effects applyStatusChange commits with the status.  The endpoint admits
\* accountants (invoice.routes), whom the Approval Queue does not; and when it is asked
\* for pending_approval itself, it makes no entry.
StatusEffects(r) ==
  LET i        == arg[r].inv
      left     == arg[r].from = "pending_approval"
      lets     == left /\ arg[r].to = "approved"
      decision == IF arg[r].to = "approved" THEN "approved" ELSE "rejected"
      closed   == IF left THEN CloseEntries(queue[i], decision) ELSE queue[i]
  IN /\ queue' = [queue EXCEPT ![i] = IF arg[r].hold THEN Append(closed, "pending") ELSE closed]
     /\ balance' = balance + arg[r].delta
     /\ passed' = [passed EXCEPT ![i] =
                      IF lets /\ r \in Manager THEN @ \cup {invoice[i].total} ELSE @]
     /\ waved' = waved \cup {j \in {i} : lets /\ r \notin Manager}
     /\ parked' = IF arg[r].to = "pending_approval" /\ ~arg[r].hold
                  THEN parked \cup {i} ELSE parked \ {i}

(* applyStatusChange.  invoice.save() writes the status alone, and only when  *)
(* the handler changed it.                                                    *)
ApplyStatus(r) ==
  /\ At(r, "apply")
  /\ invoice' = [invoice EXCEPT ![arg[r].inv].status =
                   IF arg[r].to = arg[r].from THEN @ ELSE arg[r].to]
  /\ StatusEffects(r)
  /\ Finish(r)
  /\ UNCHANGED <<dead, retried, mailed>>

(* Mongoose: the save of the first attempt left the document clean, so when   *)
(* a conflict on the customer makes withTransaction run the callback again,   *)
(* save() has nothing to write.                                               *)
ApplyStatusRetried(r) ==
  /\ At(r, "apply") /\ arg[r].delta # 0
  /\ retried < Conflicts /\ retried' = retried + 1
  /\ StatusEffects(r)
  /\ Finish(r)
  /\ UNCHANGED <<invoice, dead, mailed>>

(* updateInvoice: the draft is read, priced again, and saved with new totals *)
ReadForEdit(r, i) ==
  /\ Arrives(r, "edit", i)
  /\ invoice[i].status = "draft"
  /\ Decide(r, i, "draft", 0, FALSE)
  /\ Goto(r, "edit")
  /\ UNCHANGED <<invoice, queue, balance, dead, retried, history>>

\* Replacing the item array raises the version Mongoose asks for in the save: of
\* two edits of one draft, the second fails with a VersionError.
SaveEdit(r, total) ==
  LET i == arg[r].inv
      outdated(q) == q # r /\ pc[q] = "edit" /\ arg[q].inv = i
  IN /\ At(r, "edit")
     /\ IF arg[r].stale
        THEN Finish(r) /\ UNCHANGED invoice
        ELSE /\ invoice' = [invoice EXCEPT ![i].total = total, ![i].due = total]
             /\ Goto(r, "idle")
             /\ arg' = [q \in Req |-> IF q = r THEN NoArg
                                     ELSE [arg[q] EXCEPT !.stale = @ \/ outdated(q)]]
     /\ UNCHANGED <<queue, balance, dead, retried, history>>

(* sendEmail: the status and then the balance, after the mail has gone out *)
ReadForEmail(r, i) ==
  LET from == invoice[i].status IN
  /\ Arrives(r, "email", i)
  /\ from \in {"draft", "approved"}
  /\ Decide(r, i, "sent", StatusDelta(from, "sent", invoice[i].due), FALSE)
  /\ Goto(r, "mail")
  /\ UNCHANGED <<invoice, queue, balance, dead, retried, history>>

MarkSent(r) ==
  /\ At(r, "mail")
  /\ invoice' = [invoice EXCEPT ![arg[r].inv].status = "sent"]
  /\ IF arg[r].delta = 0 THEN Finish(r) ELSE Goto(r, "post") /\ UNCHANGED arg
  /\ mailed' = mailed \cup {arg[r].inv}
  /\ UNCHANGED <<queue, balance, dead, retried, passed, waved, parked>>

\* The last write of sendEmail and of approveItem.
PostDelta(r) ==
  /\ At(r, "post")
  /\ balance' = balance + arg[r].delta
  /\ Finish(r)
  /\ UNCHANGED <<invoice, queue, dead, retried, history>>
-----------------------------------------------------------------------------

(* claimPendingItem: the first write of approveItem and rejectItem.  A        *)
(* manager who approves lets the total through that the invoice has then.     *)
Claim(r, i, n, decision) ==
  /\ r \in Manager /\ Arrives(r, "review", i)
  /\ queue[i][n] = "pending"
  /\ queue' = [queue EXCEPT ![i][n] = decision]
  /\ Decide(r, i, IF decision = "approved" THEN "approved" ELSE "draft", 0, FALSE)
  /\ Goto(r, IF decision = "approved" THEN "approve" ELSE "reject")
  /\ passed' = [passed EXCEPT ![i] = IF decision = "approved"
                                     THEN @ \cup {invoice[i].total} ELSE @]
  /\ UNCHANGED <<invoice, balance, dead, retried, waved, parked, mailed>>

\* Mutant of ApproveInvoice: the customer's balance is left alone.
ApproveWithoutPosting(r) ==
  /\ At(r, "approve")
  /\ invoice' = [invoice EXCEPT ![arg[r].inv].status =
                   IF @ = "pending_approval" THEN "approved" ELSE @]
  /\ Finish(r)
  /\ UNCHANGED <<queue, balance, dead, retried, history>>

\* Only an invoice still awaiting approval becomes a receivable.
ApproveInvoice(r) ==
  LET i == arg[r].inv IN
  /\ At(r, "approve")
  /\ IF invoice[i].status = "pending_approval"
     THEN /\ invoice' = [invoice EXCEPT ![i].status = "approved"]
          /\ arg' = [arg EXCEPT ![r].delta = invoice[i].due]
          /\ Goto(r, "post")
     ELSE Finish(r) /\ UNCHANGED invoice
  /\ UNCHANGED <<queue, balance, dead, retried, history>>

\* Mutant of RejectInvoice: the invoice stays where it is.
RejectEntryOnly(r) ==
  /\ At(r, "reject")
  /\ Finish(r)
  /\ UNCHANGED <<invoice, queue, balance, dead, retried, history>>

RejectInvoice(r) ==
  /\ At(r, "reject")
  /\ invoice' = [invoice EXCEPT ![arg[r].inv].status =
                   IF @ = "pending_approval" THEN "draft" ELSE @]
  /\ Finish(r)
  /\ UNCHANGED <<queue, balance, dead, retried, history>>

(* A payment as testCheckout commits it: invoice and balance together. *)
Pay(r, i, a) ==
  LET left == invoice[i].total - (invoice[i].paid + a) IN
  /\ Arrives(r, "pay", i)
  /\ Receivable(invoice[i].status) /\ a <= invoice[i].due
  /\ invoice' = [invoice EXCEPT
       ![i].status = IF left <= 0 THEN "paid" ELSE "partially_paid",
       ![i].paid = @ + a, ![i].due = IF left > 0 THEN left ELSE 0]
  /\ balance' = balance - a
  /\ UNCHANGED <<queue, pc, arg, dead, retried, history>>

\* An await rejects, or the process stops: nothing after it runs.
CutOff(r) ==
  /\ r \in Mortal \ dead /\ pc[r] \in Working
  /\ dead' = dead \cup {r}
  /\ UNCHANGED <<invoice, queue, balance, pc, arg, retried, history, mixed>>

\* Handlers that write without asking what the invoice has become.
Unguarded == {"apply", "edit", "mail"}
Overlaps(r) == \E q \in Req \ (dead \cup {r}) :
  pc[q] # "idle" /\ (pc[q] \in Unguarded \/ pc'[r] \in Unguarded)

Receive(r) ==
  /\ \E i \in Invoice :
       \/ \E asked \in {"draft", "sent"}, total \in Amount : CreateInvoice(r, i, asked, total)
       \/ \E to \in AskedStatus : ReadForStatus(r, i, to)
       \/ ReadForDelete(r, i) \/ ReadForEdit(r, i) \/ ReadForEmail(r, i)
       \/ \E n \in DOMAIN queue[i], decision \in {"approved", "rejected"} :
            Claim(r, i, n, decision)
       \/ \E a \in Amount : Pay(r, i, a)
  /\ mixed' = (mixed \/ Overlaps(r))

Step(r) ==
  /\ \/ ApplyStatus(r) \/ ApplyStatusRetried(r)
     \/ \E total \in Amount : SaveEdit(r, total)
     \/ MarkSent(r) \/ PostDelta(r) \/ ApproveInvoice(r) \/ RejectInvoice(r)
  /\ UNCHANGED mixed

Next == \E r \in Req : Receive(r) \/ Step(r) \/ CutOff(r)

Spec == Init /\ [][Next]_vars

\* Node runs a continuation whose await has resolved.
FairSpec == Spec /\ \A r \in Req : WF_vars(Step(r))
-----------------------------------------------------------------------------
(* Properties *)

\* Every variable stays within its type.
TypeOK ==
  /\ invoice \in [Invoice -> [status : Status, total : Nat, paid : Nat, due : Nat]]
  /\ \A i \in Invoice : queue[i] \in Seq({"pending", "approved", "rejected"})
  /\ balance \in Int
  /\ pc \in [Req -> {"idle"} \cup Working]
  /\ arg \in [Req -> [inv : Invoice, from : Status, to : Status, delta : Int,
                     hold : BOOLEAN, stale : BOOLEAN]]
  /\ dead \subseteq Req
  /\ retried \in 0..Conflicts
  /\ passed \in [Invoice -> SUBSET Amount] /\ mixed \in BOOLEAN
  /\ waved \subseteq Invoice /\ parked \subseteq Invoice /\ mailed \subseteq Invoice

Due(i) == IF Receivable(invoice[i].status) THEN invoice[i].due ELSE 0
Owed == SumFunction([i \in Invoice |-> Due(i)])
Behind(r) == IF pc[r] = "post" THEN arg[r].delta ELSE 0
Lag == SumFunction([r \in Req |-> Behind(r)])

\* No unguarded handler ran beside another request, and none was retried.
Orderly == ~mixed /\ retried = 0

\* While requests are orderly, the customer's balance is what the receivable
\* invoices say is due, but for the changes whose balance write is still to
\* come; reviews, payments and creations may overlap, and any may be cut off.
BalanceInStep == Orderly => balance + Lag = Owed

LedgerIsSound == TypeOK /\ BalanceInStep

Pending(i) == \E n \in DOMAIN queue[i] : queue[i][n] = "pending"
UnderReview(i) == \E r \in Req : pc[r] \in {"approve", "reject"} /\ arg[r].inv = i

\* A held invoice can be decided: an entry of the Approval Queue is open for it,
\* or a reviewer's request is carrying its decision out (or was cut off at it); but
\* not if the status endpoint was asked for pending_approval itself.
HeldHasEntry ==
  Orderly => \A i \in Invoice \ parked :
    invoice[i].status = "pending_approval" => Pending(i) \/ UnderReview(i)

\* An open queue entry asks about an invoice that is still held, and there is
\* never more than one to decide on.
EntryIsAboutHeld ==
  Orderly => \A i \in Invoice :
    /\ Pending(i) => invoice[i].status = "pending_approval"
    /\ Cardinality({n \in DOMAIN queue[i] : queue[i][n] = "pending"}) <= 1

\* What a business rule holds becomes a receivable only after a manager let
\* this very total through, or an accountant did at the status endpoint, or by mail.
HeldUntilApproved ==
  Orderly => \A i \in Invoice \ (mailed \cup waved) :
    /\ Receivable(invoice[i].status) \/ invoice[i].status = "paid"
    /\ RuleHolds(invoice[i].total)
    => invoice[i].total \in passed[i]

\* A held invoice is decided on once: by a manager, but for what the status endpoint
\* lets accountants approve and holds without an entry.
HeldIsDecided == HeldHasEntry /\ EntryIsAboutHeld /\ HeldUntilApproved

\* Once an invoice left draft, its amount stands: nothing prices it again.
OnlyDraftsAreEdited ==
  [][Orderly => \A i \in Invoice : invoice[i].total # invoice'[i].total =>
       invoice[i].status \in {"none", "draft"}]_vars

\* A decision on a queue entry is final: no second reviewer, endpoint or cancel
\* changes it, and entries are never taken away.
DecisionsAreFinal ==
  [][\A i \in Invoice : \A n \in DOMAIN queue[i] :
       /\ n \in DOMAIN queue'[i]
       /\ queue[i][n] # "pending" => queue'[i][n] = queue[i][n]]_vars

\* paid, void and cancelled are final; nothing revives a dead document.
DeadStaysDead ==
  [][Orderly => \A i \in Invoice : invoice[i].status \in {"void", "cancelled", "paid"} =>
       \/ invoice'[i].status = invoice[i].status
       \/ invoice[i].status = "void" /\ invoice'[i].status = "cancelled"]_vars

\* What was settled, closed or issued is not taken back.
NothingIsUndone == OnlyDraftsAreEdited /\ DecisionsAreFinal /\ DeadStaysDead

\* A claimed entry's invoice leaves the queue, unless the reviewer's request is
\* cut off: the decision reaches it.
ClaimsAreCarriedOut ==
  \A i \in Invoice : \A r \in Req :
    pc[r] \in {"approve", "reject"} /\ arg[r].inv = i ~>
      invoice[i].status # "pending_approval" \/ r \in dead
=============================================================================
