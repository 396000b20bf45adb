---------------------------- MODULE BillingProofs ----------------------------
(***************************************************************************)
(* Proofs about RecurringBilling, for every number of profiles, jobs and   *)
(* request handlers, whatever fails or crashes; about what Reports tells   *)
(* of the bills, whatever they come to and however many there are; and     *)
(* about what Pricing charges, for every bill, discount and set of rules.  *)
(***************************************************************************)
EXTENDS RecurringBilling, Reports, Pricing, SumLemmas, SequenceTheorems, TLAPS

-----------------------------------------------------------------------------
(* The inductive invariant *)

Out == {"idle", "claim"}
Renumbered == Happened("renumbered", NoProfile, 0)

\* What an execution holds fits where it is.
RunsFit ==
  \A r \in Run :
    /\ pc[r] \in Out \cup {"number"} => number[r] = 0
    /\ pc[r] \in Out => claim[r] = NoClaim
    /\ pc[r] \in {"charge", "finish", "release"} => claim[r] # NoClaim
    /\ claim[r] # NoClaim => claim[r].id \in Profile
    /\ pc[r] = "invoice" => number[r] > 0
    /\ pc[r] \in {"charge", "finish"} => InvoiceOf(r) \in invoice
    /\ pc[r] = "charge" => claim[r].id \in AutoSend
    /\ pc[r] = "finish" /\ claim[r].id \in AutoSend => number[r] \in owed

\* Invoices have numbers, and those below the counter are each one execution's or one invoice's.
NumbersFit ==
  /\ counter > 0
  /\ \A i \in invoice : i.number > 0
  /\ ~Renumbered =>
       /\ \A i \in invoice : i.number < counter
       /\ \A r \in Run : number[r] < counter
       /\ \A r, s \in Run : r # s /\ number[r] > 0 => number[s] # number[r]
       /\ \A r \in Run : pc[r] = "invoice" => number[r] \notin Numbers

\* The executions at work on a profile hold different periods, all before its date.
ClaimsFit ==
  \A p \in Profile : ~Edited(p) =>
    /\ profile[p].due >= 1 /\ profile[p].count = profile[p].due - 1
    /\ \A r \in Run : claim[r].id = p =>
         /\ 1 <= claim[r].period /\ claim[r].period < profile[p].due
         /\ claim[r].doc.due = claim[r].period + 1
         /\ claim[r].doc.count = claim[r].period
    /\ \A r, s \in Run : r # s /\ claim[r].id = p /\ claim[s].id = p =>
         claim[r].period # claim[s].period

\* A period that is billed lies before the date, and whoever still holds it made the invoice.
BillsFit ==
  \A p \in Profile : ~Edited(p) =>
    \A i \in invoice : i.id = p /\ ~Happened("rebill", p, i.period) =>
      /\ i.period < profile[p].due
      /\ \A r \in Run : claim[r].id = p /\ claim[r].period = i.period =>
           i = InvoiceOf(r) /\ pc[r] \in {"charge", "finish", "release"}

\* The period k is the last one a profile is to be billed for, or comes after it.
LastAt(p, k) ==
  \/ Limit[p] > 0 /\ k >= Limit[p]
  \/ LastDue[p] > 0 /\ k + 1 > LastDue[p]

\* A profile whose end nobody has moved ends where it was made to, and so does whatever was claimed
\* of it.
LimitsFit ==
  \A p \in Profile : ~Limited(p) =>
    /\ profile[p].max = Limit[p] /\ profile[p].last = LastDue[p]
    /\ \A r \in Run : claim[r].id = p =>
         claim[r].doc.max = Limit[p] /\ claim[r].doc.last = LastDue[p]

\* A profile is still active past its last period only while all of those are being billed.
LastHeld ==
  \A p \in Profile :
    profile[p].status = "active" /\ ~Edited(p) /\ ~Limited(p) /\ Stuck(p) = {} =>
      \A k \in 1..(profile[p].due - 1) : LastAt(p, k) =>
        \E r \in Run : claim[r].id = p /\ claim[r].period = k

IInv ==
  /\ TypeOK /\ RunsFit /\ NumbersFit /\ ClaimsFit /\ LimitsFit
  /\ BillsFit /\ BilledOnce /\ NothingSkipped /\ LastHeld /\ OwedIsSent
-----------------------------------------------------------------------------
(* What a step may do *)

Others(r) ==
  \A s \in Run \ {r} : pc'[s] = pc[s] /\ claim'[s] = claim[s] /\ number'[s] = number[s]
Keeps(r) == claim'[r] = claim[r] /\ number'[r] = number[r]
Leaves(r) == pc'[r] \in Out /\ claim'[r] = NoClaim /\ number'[r] = 0
SameEnd(p) == profile'[p].max = profile[p].max /\ profile'[p].last = profile[p].last

\* An execution goes on, and nothing of what the database holds changes.
Goes(r) ==
  /\ Others(r) /\ Keeps(r) /\ UNCHANGED dbVars /\ amiss' = amiss
  /\ \/ pc'[r] \in Out \cup {"number"} /\ pc[r] \in Out
     \/ pc'[r] = "release" /\ claim[r] # NoClaim

Takes(r, p, k) ==
  /\ Others(r) /\ pc[r] = "claim" /\ pc'[r] = "number" /\ number'[r] = number[r]
  /\ profile[p].due = k
  /\ \A q \in Profile \ {p} : profile'[q] = profile[q]
  /\ profile'[p].status = profile[p].status /\ SameEnd(p)
  /\ profile'[p].due = k + 1 /\ profile'[p].count = profile[p].count + 1
  /\ claim'[r] = [id |-> p, period |-> k, doc |-> profile'[p]]
  /\ invoice' = invoice /\ owed' = owed /\ counter' = counter /\ amiss' = amiss

Reserves(r) ==
  /\ Others(r) /\ pc[r] = "number" /\ pc'[r] = "invoice" /\ claim'[r] = claim[r]
  /\ number'[r] = counter /\ counter' = counter + 1
  /\ profile' = profile /\ invoice' = invoice /\ owed' = owed /\ amiss' = amiss

Stores(r) ==
  /\ Others(r) /\ pc[r] = "invoice" /\ number[r] \notin Numbers
  /\ invoice' = invoice \cup {InvoiceOf(r)}
  /\ \/ claim[r] = NoClaim /\ Leaves(r)
     \/ /\ claim[r] # NoClaim /\ Keeps(r)
        /\ pc'[r] = IF claim[r].id \in AutoSend THEN "charge" ELSE "finish"
  /\ profile' = profile /\ owed' = owed /\ counter' = counter /\ amiss' = amiss

Charges(r) ==
  /\ Others(r) /\ Keeps(r) /\ pc[r] = "charge" /\ pc'[r] = "finish"
  /\ owed' = owed \cup {number[r]}
  /\ profile' = profile /\ invoice' = invoice /\ counter' = counter /\ amiss' = amiss

\* It ends without having done anything, ...
Quits(r) ==
  /\ Others(r) /\ Leaves(r) /\ claim[r] = NoClaim
  /\ UNCHANGED dbVars /\ amiss' = amiss

\* ... with the period billed, ...
Finishes(r) ==
  /\ Others(r) /\ Leaves(r) /\ pc[r] = "finish"
  /\ \A p \in Profile :
       /\ profile'[p].due = profile[p].due /\ profile'[p].count = profile[p].count /\ SameEnd(p)
       /\ profile'[p].status = IF p = claim[r].id /\ IsLast(claim[r].doc)
                                 THEN "completed" ELSE profile[p].status
  /\ invoice' = invoice /\ owed' = owed /\ counter' = counter /\ amiss' = amiss

\* ... with its claim given back, ...
Releases(r, p, k) ==
  /\ Others(r) /\ Leaves(r) /\ claim[r].id = p /\ claim[r].period = k
  /\ \A q \in Profile \ {p} : profile'[q] = profile[q]
  /\ IF profile[p].due = k + 1
       THEN /\ profile'[p].status = profile[p].status /\ SameEnd(p)
            /\ profile'[p].due = k /\ profile'[p].count = profile[p].count - 1
            /\ amiss' = amiss \cup (IF InvoiceOf(r) \in invoice THEN {<<"rebill", p, k>>} ELSE {})
       ELSE profile'[p] = profile[p] /\ amiss' = amiss \cup {<<"overtaken", p, k>>}
  /\ invoice' = invoice /\ owed' = owed /\ counter' = counter

\* ... or with its claim dropped.
Drops(r) ==
  /\ Others(r) /\ Leaves(r) /\ claim[r] # NoClaim
  /\ UNCHANGED dbVars
  /\ amiss' = amiss \cup {<<"dropped", claim[r].id, claim[r].period>>}

\* An edit that changes the date or makes a profile active again is remembered, and so is one that
\* moves its end.
Edits(p) ==
  /\ UNCHANGED runVars
  /\ \A q \in Profile \ {p} : profile'[q] = profile[q]
  /\ amiss \subseteq amiss' /\ amiss' \subseteq amiss \cup {<<"edited", p, 0>>, <<"limited", p, 0>>}
  /\ \/ <<"edited", p, 0>> \in amiss'
     \/ /\ profile'[p].due = profile[p].due /\ profile'[p].count = profile[p].count
        /\ profile'[p].status # "active" \/ profile'[p].status = profile[p].status
  /\ <<"limited", p, 0>> \in amiss' \/ SameEnd(p)
  /\ invoice' = invoice /\ owed' = owed /\ counter' = counter

Renumbers ==
  /\ UNCHANGED runVars
  /\ counter' \in Nat \ {0}
  /\ \/ counter' >= counter /\ amiss' = amiss
     \/ amiss' = amiss \cup {<<"renumbered", NoProfile, 0>>}
  /\ profile' = profile /\ invoice' = invoice /\ owed' = owed

RunMoves(r) ==
  \/ Goes(r) \/ Reserves(r) \/ Stores(r) \/ Charges(r) \/ Quits(r) \/ Finishes(r) \/ Drops(r)
  \/ \E p \in Profile, k \in Nat : Takes(r, p, k) \/ Releases(r, p, k)
Moves ==
  \/ \E r \in Run : RunMoves(r)
  \/ \E p \in Profile : Edits(p)
  \/ Renumbers
  \/ UNCHANGED <<dbVars, runVars, amiss>>

LEMMA DoneLeaves ==
  ASSUME TypeOK, NEW r \in Run, Done(r)
  PROVE  Others(r) /\ Leaves(r)
  BY DEF Done, Goto, TypeOK, Others, Leaves, Out

LEMMA ThrowMoves ==
  ASSUME TypeOK, NEW r \in Run, Throw(r), UNCHANGED dbVars, amiss' = amiss
  PROVE  Goes(r) \/ Quits(r)
  <1>1. CASE claim[r] = NoClaim
    BY <1>1, DoneLeaves DEF Throw, Quits
  <1>2. CASE claim[r] # NoClaim
    BY <1>2 DEF Throw, Goto, TypeOK, Goes, Others, Keeps
  <1> QED
    BY <1>1, <1>2

LEMMA ClaimMoves ==
  ASSUME TypeOK, NEW r \in Run, NEW p \in Profile, NEW k \in Nat, Claim(r, p, k)
  PROVE  Goes(r) \/ Takes(r, p, k)
  <1>1. CASE ~Claimable(p, k)
    <2>1. pc[r] = "claim" /\ UNCHANGED <<profile, claim, counter, invoice, owed, number, amiss>>
      BY <1>1 DEF Claim
    <2>2. pc' = [pc EXCEPT ![r] = IF todo'[r] = {} THEN "idle" ELSE "claim"]
      BY <1>1 DEF Claim, Goto
    <2> QED
      BY <2>1, <2>2 DEF TypeOK, Goes, Others, Keeps, Out, dbVars
  <1>2. CASE Claimable(p, k)
    <2> DEFINE doc == [profile[p] EXCEPT !.due = k + 1, !.count = @ + 1]
    <2>1. /\ pc[r] = "claim" /\ pc' = [pc EXCEPT ![r] = "number"] /\ number' = number
          /\ profile' = [profile EXCEPT ![p] = doc]
          /\ claim' = [claim EXCEPT ![r] = [id |-> p, period |-> k, doc |-> doc]]
          /\ invoice' = invoice /\ owed' = owed /\ counter' = counter /\ amiss' = amiss
      BY <1>2 DEF Claim, Goto
    <2>2. profile[p].due = k
      BY <1>2 DEF Claimable
    <2>3. profile[p] \in RunDoc /\ profile'[p] = doc
      BY <2>1 DEF TypeOK
    <2>4. /\ doc.status = profile[p].status /\ doc.due = k + 1 /\ doc.count = profile[p].count + 1
          /\ doc.max = profile[p].max /\ doc.last = profile[p].last
      BY <2>3 DEF RunDoc
    <2>5. Others(r) /\ pc'[r] = "number" /\ claim'[r] = [id |-> p, period |-> k, doc |-> doc]
      BY <2>1 DEF TypeOK, Others
    <2>6. \A q \in Profile \ {p} : profile'[q] = profile[q]
      BY <2>1 DEF TypeOK
    <2> HIDE DEF doc
    <2> QED
      BY <2>1, <2>2, <2>3, <2>4, <2>5, <2>6 DEF Takes, SameEnd
  <1> QED
    BY <1>1, <1>2

LEMMA CreateMoves ==
  ASSUME TypeOK, NEW r \in Run, Create(r)
  PROVE  Goes(r) \/ Quits(r) \/ Stores(r)
  <1>1. CASE number[r] \in Numbers /\ Throw(r) /\ UNCHANGED invoice
    BY <1>1, ThrowMoves DEF Create, dbVars
  <1>2. CASE /\ number[r] \notin Numbers
             /\ invoice' = invoice \cup {InvoiceOf(r)}
             /\ claim[r] = NoClaim /\ Done(r)
    BY <1>2, DoneLeaves DEF Create, Stores
  <1>3. CASE /\ number[r] \notin Numbers
             /\ invoice' = invoice \cup {InvoiceOf(r)}
             /\ claim[r] # NoClaim
             /\ Goto(r, IF claim[r].id \in AutoSend THEN "charge" ELSE "finish")
             /\ UNCHANGED <<todo, claim, number>>
    BY <1>3 DEF Create, Stores, Goto, TypeOK, Others, Keeps
  <1> QED
    BY <1>1, <1>2, <1>3 DEF Create

LEMMA FinishMoves ==
  ASSUME TypeOK, RunsFit, NEW r \in Run, Finish(r)
  PROVE  Finishes(r)
  <1>1. /\ Others(r) /\ Leaves(r) /\ pc[r] = "finish"
        /\ invoice' = invoice /\ owed' = owed /\ counter' = counter /\ amiss' = amiss
    BY DoneLeaves DEF Finish
  <1>2. profile \in [Profile -> RunDoc] /\ claim[r].id \in Profile
    BY <1>1 DEF TypeOK, RunsFit
  <1>3. profile' = IF IsLast(claim[r].doc)
                     THEN [profile EXCEPT ![claim[r].id].status = "completed"] ELSE profile
    BY DEF Finish
  <1>4. ASSUME NEW p \in Profile
        PROVE  /\ profile'[p].due = profile[p].due /\ profile'[p].count = profile[p].count
               /\ SameEnd(p)
               /\ profile'[p].status = IF p = claim[r].id /\ IsLast(claim[r].doc)
                                         THEN "completed" ELSE profile[p].status
    BY <1>2, <1>3 DEF RunDoc, SameEnd
  <1> QED
    BY <1>1, <1>4 DEF Finishes

LEMMA ReleaseMoves ==
  ASSUME TypeOK, RunsFit, NEW r \in Run, Release(r)
  PROVE  Releases(r, claim[r].id, claim[r].period)
  <1> DEFINE p == claim[r].id
             k == claim[r].period
  <1>1. /\ Others(r) /\ Leaves(r) /\ pc[r] = "release"
        /\ invoice' = invoice /\ owed' = owed /\ counter' = counter
    BY DoneLeaves DEF Release
  <1>2. profile \in [Profile -> RunDoc] /\ p \in Profile /\ profile[p] \in RunDoc
    BY <1>1 DEF TypeOK, RunsFit
  <1>3. /\ profile' = [profile EXCEPT ![p] = GiveBack(profile[p], k)]
        /\ amiss' = amiss \cup (IF profile[p].due # k + 1 THEN {<<"overtaken", p, k>>}
                                ELSE IF InvoiceOf(r) \in invoice THEN {<<"rebill", p, k>>}
                                ELSE {})
    BY DEF Release
  <1>4. (\A q \in Profile \ {p} : profile'[q] = profile[q])
        /\ profile'[p] = GiveBack(profile[p], k)
    BY <1>2, <1>3
  <1>5. CASE profile[p].due = k + 1
    <2>1. /\ profile'[p].status = profile[p].status
          /\ profile'[p].due = k /\ profile'[p].count = profile[p].count - 1 /\ SameEnd(p)
      BY <1>2, <1>4, <1>5 DEF GiveBack, RunDoc, SameEnd
    <2> QED
      BY <1>1, <1>3, <1>4, <1>5, <2>1 DEF Releases
  <1>6. CASE profile[p].due # k + 1
    BY <1>1, <1>3, <1>4, <1>6 DEF Releases, GiveBack
  <1> QED
    BY <1>5, <1>6

LEMMA EditMoves ==
  ASSUME TypeOK, NEW p \in Profile, NEW e \in EditForm, Edit(p, e)
  PROVE  Edits(p)
  <1> DEFINE doc == [status |-> StatusOf(profile[p], e), due |-> e.due, count |-> profile[p].count,
                     max |-> e.max, last |-> e.last]
  <1>1. profile' = [profile EXCEPT ![p] = doc]
    BY DEF Edit
  <1>2. profile \in [Profile -> RunDoc]
    BY DEF TypeOK
  <1>3. /\ \A q \in Profile \ {p} : profile'[q] = profile[q]
        /\ profile'[p].status = StatusOf(profile[p], e) /\ profile'[p].due = e.due
        /\ profile'[p].count = profile[p].count
        /\ profile'[p].max = e.max /\ profile'[p].last = e.last
    BY <1>1, <1>2
  <1>4. /\ UNCHANGED runVars /\ invoice' = invoice /\ owed' = owed /\ counter' = counter
        /\ amiss' = amiss \cup {<<what, p, 0>> : what \in Meaning(profile[p], e)}
    BY DEF Edit, runVars
  <1>5. Meaning(profile[p], e) \subseteq {"edited", "limited"}
    BY DEF Meaning
  <1>6. amiss \subseteq amiss' /\ amiss' \subseteq amiss \cup {<<"edited", p, 0>>, <<"limited", p, 0>>}
    BY <1>4, <1>5
  <1>7. Again(profile[p], e) => <<"edited", p, 0>> \in amiss'
    BY <1>4 DEF Meaning
  <1>8. Ends(profile[p], e) => <<"limited", p, 0>> \in amiss'
    BY <1>4 DEF Meaning
  <1>9. ~Again(profile[p], e) => /\ profile'[p].due = profile[p].due
                                 /\ profile'[p].status # "active"
                                    \/ profile'[p].status = profile[p].status
    BY <1>3 DEF Again, StatusOf
  <1>10. ~Ends(profile[p], e) => SameEnd(p)
    BY <1>3 DEF Ends, SameEnd
  <1> QED
    BY <1>3, <1>4, <1>6, <1>7, <1>8, <1>9, <1>10 DEF Edits

LEMMA SaveMoves ==
  ASSUME TypeOK, NEW n \in {form, form + 1}, SaveSettings(n)
  PROVE  Renumbers
  <1>1. counter \in Nat /\ form \in Nat /\ form > 0 /\ counter' = n /\ n >= form
    BY DEF TypeOK, SaveSettings
  <1>2. counter' \in Nat \ {0} /\ (n < counter \/ counter' >= counter)
    BY <1>1
  <1> QED
    BY <1>2 DEF SaveSettings, Renumbers

LEMMA StepMoves == TypeOK /\ RunsFit /\ [Next]_vars => Moves
  <1> SUFFICES ASSUME TypeOK, RunsFit, [Next]_vars PROVE Moves
    OBVIOUS
  <1>1. ASSUME NEW r \in Job, Schedule(r) PROVE Goes(r)
    BY <1>1 DEF Schedule, Goto, TypeOK, Goes, Others, Keeps, Out, Run
  <1>2. ASSUME NEW r \in Clerk, NewInvoice(r) PROVE Goes(r)
    BY <1>2 DEF NewInvoice, Goto, TypeOK, Goes, Others, Keeps, Out, Run
  <1>3. ASSUME NEW r \in Clerk, NEW p \in Profile, Trigger(r, p) PROVE Goes(r)
    BY <1>3 DEF Trigger, Goto, TypeOK, Goes, Others, Keeps, Out, Run
  <1>4. ASSUME NEW r \in Run, Step(r) PROVE RunMoves(r)
    <2>1. ASSUME NEW d \in todo[r], Claim(r, d[1], d[2]) PROVE RunMoves(r)
      <3>1. d[1] \in Profile /\ d[2] \in Nat
        BY DEF TypeOK
      <3> QED
        BY <2>1, <3>1, ClaimMoves DEF RunMoves
    <2>2. CASE Reserve(r)
      <3>1. Reserves(r)
        BY <2>2 DEF Reserve, Goto, TypeOK, Reserves, Others
      <3> QED
        BY <3>1 DEF RunMoves
    <2>3. CASE Create(r)
      BY <2>3, CreateMoves DEF RunMoves
    <2>4. CASE Charge(r)
      <3>1. Charges(r)
        BY <2>4 DEF Charge, Goto, TypeOK, Charges, Others, Keeps
      <3> QED
        BY <3>1 DEF RunMoves
    <2>5. CASE Finish(r)
      BY <2>5, FinishMoves DEF RunMoves
    <2>6. CASE Release(r)
      <3>1. claim[r].id \in Profile /\ claim[r].period \in Nat
        BY <2>6 DEF Release, RunsFit, TypeOK
      <3> QED
        BY <2>6, <3>1, ReleaseMoves DEF RunMoves
    <2> QED
      BY <1>4, <2>1, <2>2, <2>3, <2>4, <2>5, <2>6 DEF Step
  <1>5. ASSUME NEW r \in Run, Fail(r) PROVE RunMoves(r)
    BY <1>5, ThrowMoves DEF Fail, RunMoves
  <1>6. ASSUME NEW r \in Run, ReleaseFails(r) PROVE RunMoves(r)
    <2>1. claim[r] # NoClaim
      BY <1>6 DEF ReleaseFails, RunsFit
    <2>2. Drops(r)
      BY <1>6, <2>1, DoneLeaves DEF ReleaseFails, Note, Drops
    <2> QED
      BY <2>2 DEF RunMoves
  <1>7. ASSUME NEW r \in Run, Crash(r) PROVE RunMoves(r)
    <2>1. Others(r) /\ Leaves(r)
      BY <1>7 DEF Crash, Goto, TypeOK, Others, Leaves, Out
    <2>2. Drops(r) \/ Quits(r)
      BY <1>7, <2>1 DEF Crash, Note, Drops, Quits
    <2> QED
      BY <2>2 DEF RunMoves
  <1>8. CASE UNCHANGED <<dbVars, runVars, amiss>>
    BY <1>8 DEF Moves
  <1>9. CASE OpenSettings \/ Tick \/ UNCHANGED vars
    BY <1>8, <1>9 DEF OpenSettings, Tick, vars
  <1>10. ASSUME NEW r \in Run, RunMoves(r) \/ Goes(r) PROVE Moves
    BY <1>10 DEF RunMoves, Moves
  <1> QED
    BY <1>1, <1>2, <1>3, <1>4, <1>5, <1>6, <1>7, <1>9, <1>10, EditMoves, SaveMoves
       DEF Next, Run, Moves
-----------------------------------------------------------------------------
(* Types *)

LEMMA SpendTypes ==
  ASSUME TypeOK, NEW kind \in {"faults", "edits", "manual"}, Spend(kind)
  PROVE  used' \in [{"faults", "edits", "manual"} -> Nat]
  <1>1. used[kind] + 1 \in Nat /\ used' = [used EXCEPT ![kind] = used[kind] + 1]
    BY DEF TypeOK, Spend
  <1> QED
    BY <1>1 DEF TypeOK

LEMMA DoneTypes ==
  ASSUME TypeOK, NEW r \in Run, Done(r)
  PROVE  /\ pc' \in [Run -> {"idle", "claim", "number", "invoice", "charge", "finish", "release"}]
         /\ todo' \in [Run -> SUBSET (Profile \X Nat)]
         /\ claim' \in [Run -> [id : Profile \cup {NoProfile}, period : Nat, doc : RunDoc]]
         /\ number' \in [Run -> Nat]
  <1>1. NoClaim \in [id : Profile \cup {NoProfile}, period : Nat, doc : RunDoc]
    BY DEF NoClaim, RunDoc
  <1> QED
    BY <1>1 DEF Done, Goto, TypeOK

LEMMA ThrowTypes ==
  ASSUME TypeOK, NEW r \in Run, Throw(r)
  PROVE  /\ pc' \in [Run -> {"idle", "claim", "number", "invoice", "charge", "finish", "release"}]
         /\ todo' \in [Run -> SUBSET (Profile \X Nat)]
         /\ claim' \in [Run -> [id : Profile \cup {NoProfile}, period : Nat, doc : RunDoc]]
         /\ number' \in [Run -> Nat]
  BY DoneTypes DEF Throw, Goto, TypeOK

LEMMA InvoiceOfType ==
  ASSUME TypeOK, NEW r \in Run
  PROVE  InvoiceOf(r) \in [number : Nat, id : Profile \cup {NoProfile}, period : Nat]
  BY DEF TypeOK, InvoiceOf

LEMMA TypeStep == TypeOK /\ RunsFit /\ [Next]_vars => TypeOK'
  <1> SUFFICES ASSUME TypeOK, RunsFit, [Next]_vars PROVE TypeOK'
    OBVIOUS
  <1> USE DEF dbVars, runVars
  <1>1. ASSUME NEW r \in Job, Schedule(r) PROVE TypeOK'
    <2>1. r \in Run /\ {<<p, profile[p].due>> : p \in Due} \subseteq Profile \X Nat
      BY DEF TypeOK, Due, Run, RunDoc
    <2> QED
      BY <1>1, <2>1 DEF Schedule, Goto, TypeOK
  <1>2. ASSUME NEW r \in Clerk, NewInvoice(r) PROVE TypeOK'
    <2>1. r \in Run /\ used' \in [{"faults", "edits", "manual"} -> Nat]
      BY <1>2, SpendTypes DEF NewInvoice, Run
    <2> QED
      BY <1>2, <2>1 DEF NewInvoice, Goto, TypeOK
  <1>3. ASSUME NEW r \in Clerk, NEW p \in Profile, Trigger(r, p) PROVE TypeOK'
    <2>1. r \in Run /\ {<<p, profile[p].due>>} \subseteq Profile \X Nat
      BY DEF TypeOK, Run, RunDoc
    <2> QED
      BY <1>3, <2>1 DEF Trigger, Goto, TypeOK
  <1>4. ASSUME NEW r \in Run, NEW p \in Profile, NEW k \in Nat, Claim(r, p, k) PROVE TypeOK'
    <2> DEFINE doc == [profile[p] EXCEPT !.due = k + 1, !.count = profile[p].count + 1]
    <2>0. profile[p] \in RunDoc
      BY DEF TypeOK
    <2>1. doc \in RunDoc
      <3>1. k + 1 \in Nat /\ profile[p].count + 1 \in Int
        BY <2>0 DEF RunDoc
      <3> QED
        BY <2>0, <3>1 DEF RunDoc
    <2>2. [id |-> p, period |-> k, doc |-> doc]
            \in [id : Profile \cup {NoProfile}, period : Nat, doc : RunDoc]
      BY <2>1
    <2>3. /\ profile' \in [Profile -> RunDoc]
          /\ claim' \in [Run -> [id : Profile \cup {NoProfile}, period : Nat, doc : RunDoc]]
      <3>1. \/ profile' = profile /\ claim' = claim
            \/ /\ profile' = [profile EXCEPT ![p] = doc]
               /\ claim' = [claim EXCEPT ![r] = [id |-> p, period |-> k, doc |-> doc]]
        BY <1>4 DEF Claim
      <3> HIDE DEF doc
      <3>2. profile' \in [Profile -> RunDoc]
        BY <2>1, <3>1 DEF TypeOK
      <3>3. claim' \in [Run -> [id : Profile \cup {NoProfile}, period : Nat, doc : RunDoc]]
        BY <2>2, <3>1 DEF TypeOK
      <3> QED
        BY <3>2, <3>3
    <2>4. todo' \in [Run -> SUBSET (Profile \X Nat)]
      <3>1. todo' = [todo EXCEPT ![r] = todo[r] \ {<<p, k>>}]
        BY <1>4 DEF Claim
      <3> QED
        BY <3>1 DEF TypeOK
    <2>5. pc' \in [Run -> {"idle", "claim", "number", "invoice", "charge", "finish", "release"}]
      BY <1>4 DEF Claim, Goto, TypeOK
    <2> QED
      BY <1>4, <2>3, <2>4, <2>5 DEF Claim, TypeOK
  <1>5. ASSUME NEW r \in Run, Reserve(r) PROVE TypeOK'
    BY <1>5 DEF Reserve, Goto, TypeOK
  <1>6. ASSUME NEW r \in Run, Create(r) PROVE TypeOK'
    <2>1. invoice' \subseteq [number : Nat, id : Profile \cup {NoProfile}, period : Nat]
      BY <1>6, InvoiceOfType DEF Create, TypeOK
    <2>2. /\ pc' \in [Run -> {"idle", "claim", "number", "invoice", "charge", "finish",
                              "release"}]
          /\ todo' \in [Run -> SUBSET (Profile \X Nat)]
          /\ claim' \in [Run -> [id : Profile \cup {NoProfile}, period : Nat, doc : RunDoc]]
          /\ number' \in [Run -> Nat]
      <3>1. \/ Throw(r) \/ Done(r)
            \/ /\ Goto(r, IF claim[r].id \in AutoSend THEN "charge" ELSE "finish")
               /\ UNCHANGED <<todo, claim, number>>
        BY <1>6 DEF Create
      <3> QED
        BY <3>1, ThrowTypes, DoneTypes DEF Goto, TypeOK
    <2> QED
      BY <1>6, <2>1, <2>2 DEF Create, TypeOK
  <1>7. ASSUME NEW r \in Run, Charge(r) PROVE TypeOK'
    BY <1>7 DEF Charge, Goto, TypeOK
  <1>8. ASSUME NEW r \in Run, Finish(r) PROVE TypeOK'
    <2>1. profile' \in [Profile -> RunDoc]
      <3>1. profile' = profile \/ (claim[r].id \in Profile /\ profile' =
              [profile EXCEPT ![claim[r].id] = [profile[claim[r].id] EXCEPT !.status = "completed"]])
        BY <1>8 DEF Finish, RunsFit
      <3>2. ASSUME NEW p \in Profile PROVE [profile[p] EXCEPT !.status = "completed"] \in RunDoc
        <4>1. profile[p] \in RunDoc
          BY DEF TypeOK
        <4> QED
          BY <4>1 DEF RunDoc
      <3> QED
        BY <3>1, <3>2 DEF TypeOK
    <2> QED
      BY <1>8, <2>1, DoneTypes DEF Finish, TypeOK
  <1>9. ASSUME NEW r \in Run, Release(r) PROVE TypeOK'
    <2>1. /\ claim[r].id \in Profile /\ claim[r].period \in Nat
          /\ profile[claim[r].id] \in RunDoc
      BY <1>9 DEF Release, RunsFit, TypeOK
    <2>2. GiveBack(profile[claim[r].id], claim[r].period) \in RunDoc
      <3> DEFINE d == profile[claim[r].id]
                 k == claim[r].period
      <3>1. d.count - 1 \in Int /\ k \in Nat /\ d \in RunDoc
        BY <2>1 DEF RunDoc
      <3> HIDE DEF d, k
      <3>2. [d EXCEPT !.due = k, !.count = d.count - 1] \in RunDoc
        BY <3>1 DEF RunDoc
      <3>3. GiveBack(d, k) \in RunDoc
        BY <3>1, <3>2 DEF GiveBack
      <3> QED
        BY <3>3 DEF d, k
    <2>3. profile' \in [Profile -> RunDoc]
      BY <1>9, <2>2 DEF Release, TypeOK
    <2>4. amiss' \subseteq {"rebill", "overtaken", "dropped", "edited", "limited", "renumbered"}
                             \X (Profile \cup {NoProfile}) \X Nat
      BY <1>9, <2>1 DEF Release, TypeOK
    <2> QED
      BY <1>9, <2>3, <2>4, DoneTypes DEF Release, TypeOK
  <1>10. ASSUME NEW r \in Run, Fail(r) PROVE TypeOK'
    BY <1>10, ThrowTypes DEF Fail, Spend, TypeOK
  <1>11. ASSUME NEW r \in Run, ReleaseFails(r) \/ Crash(r) PROVE TypeOK'
    <2>1. claim[r].id \in Profile \cup {NoProfile} /\ claim[r].period \in Nat
      BY DEF TypeOK
    <2>2. amiss' \subseteq {"rebill", "overtaken", "dropped", "edited", "limited", "renumbered"}
                             \X (Profile \cup {NoProfile}) \X Nat
      BY <1>11, <2>1 DEF ReleaseFails, Crash, Note, TypeOK
    <2>3. CASE ReleaseFails(r)
      BY <2>2, <2>3, DoneTypes DEF ReleaseFails, Spend, TypeOK
    <2>4. CASE Crash(r)
      <3>1. NoClaim \in [id : Profile \cup {NoProfile}, period : Nat, doc : RunDoc]
        BY DEF NoClaim, RunDoc
      <3> QED
        BY <2>2, <2>4, <3>1 DEF Crash, Spend, Goto, TypeOK
    <2> QED
      BY <1>11, <2>3, <2>4
  <1>12. ASSUME NEW p \in Profile, NEW e \in EditForm, Edit(p, e) PROVE TypeOK'
    <2> DEFINE doc == [status |-> StatusOf(profile[p], e), due |-> e.due, count |-> profile[p].count,
                       max |-> e.max, last |-> e.last]
    <2>1. profile' \in [Profile -> RunDoc]
      <3>1. profile' = [profile EXCEPT ![p] = doc]
        BY <1>12 DEF Edit
      <3>2. e \in [status : {"active", "paused", "cancelled", "kept"}, due : Nat \ {0},
                   max : Nat, last : Nat]
        BY RecurringAssumption
      <3>3. profile[p] \in RunDoc
        BY DEF TypeOK
      <3>4. profile[p].count \in Int
        BY <3>3 DEF RunDoc
      <3>5. doc \in RunDoc
        BY <3>2, <3>3, <3>4 DEF RunDoc, StatusOf
      <3> HIDE DEF doc
      <3> QED
        BY <3>1, <3>5 DEF TypeOK
    <2>2. amiss' \subseteq {"rebill", "overtaken", "dropped", "edited", "limited", "renumbered"}
                             \X (Profile \cup {NoProfile}) \X Nat
      <3>1. Meaning(profile[p], e) \subseteq {"edited", "limited"}
        BY DEF Meaning
      <3>2. amiss' = amiss \cup {<<what, p, 0>> : what \in Meaning(profile[p], e)}
        BY <1>12 DEF Edit
      <3> QED
        BY <3>1, <3>2 DEF TypeOK
    <2> QED
      BY <1>12, <2>1, <2>2 DEF Edit, Spend, TypeOK
  <1>13. CASE OpenSettings
    BY <1>13 DEF OpenSettings, TypeOK
  <1>14. ASSUME NEW n \in {form, form + 1}, SaveSettings(n) PROVE TypeOK'
    BY <1>14 DEF SaveSettings, Spend, TypeOK
  <1>15. CASE Tick
    BY <1>15, RecurringAssumption DEF Tick, TypeOK
  <1>16. CASE UNCHANGED vars
    BY <1>16 DEF vars, TypeOK
  <1>17. ASSUME NEW r \in Run, Step(r) PROVE TypeOK'
    <2>1. ASSUME NEW d \in todo[r], Claim(r, d[1], d[2]) PROVE TypeOK'
      <3>1. d[1] \in Profile /\ d[2] \in Nat
        BY DEF TypeOK
      <3> QED
        BY <1>4, <2>1, <3>1
    <2> QED
      BY <1>5, <1>6, <1>7, <1>8, <1>9, <1>17, <2>1 DEF Step
  <1> QED
    BY <1>1, <1>2, <1>3, <1>10, <1>11, <1>12, <1>13, <1>14, <1>15, <1>16, <1>17 DEF Next
-----------------------------------------------------------------------------
(* The other parts of the invariant *)

LEMMA RunsStep ==
  ASSUME TypeOK, RunsFit, NumbersFit, Moves
  PROVE  RunsFit'
  <1> DEFINE Fits(s) ==
        /\ pc'[s] \in Out \cup {"number"} => number'[s] = 0
        /\ pc'[s] \in Out => claim'[s] = NoClaim
        /\ pc'[s] \in {"charge", "finish", "release"} => claim'[s] # NoClaim
        /\ claim'[s] # NoClaim => claim'[s].id \in Profile
        /\ pc'[s] = "invoice" => number'[s] > 0
        /\ pc'[s] \in {"charge", "finish"} =>
             InvoiceOf(s)' \in invoice'
        /\ pc'[s] = "charge" => claim'[s].id \in AutoSend
        /\ pc'[s] = "finish" /\ claim'[s].id \in AutoSend => number'[s] \in owed'
  <1> SUFFICES ASSUME NEW s \in Run PROVE Fits(s)
    BY DEF RunsFit
  <1>1. /\ pc[s] \in Out \cup {"number"} => number[s] = 0
        /\ pc[s] \in Out => claim[s] = NoClaim
        /\ pc[s] \in {"charge", "finish", "release"} => claim[s] # NoClaim
        /\ claim[s] # NoClaim => claim[s].id \in Profile
        /\ pc[s] = "invoice" => number[s] > 0
        /\ pc[s] \in {"charge", "finish"} =>
             InvoiceOf(s) \in invoice
        /\ pc[s] = "charge" => claim[s].id \in AutoSend
        /\ pc[s] = "finish" /\ claim[s].id \in AutoSend => number[s] \in owed
    BY DEF RunsFit
  \* Whoever stands still keeps what it had: invoices and debts are never taken back.
  <1>2. ASSUME pc'[s] = pc[s], claim'[s] = claim[s], number'[s] = number[s],
               invoice \subseteq invoice', owed \subseteq owed'
        PROVE  Fits(s)
    BY <1>1, <1>2 DEF InvoiceOf
  <1>3. ASSUME NEW r \in Run, Leaves(r), r = s PROVE Fits(s)
    BY <1>3 DEF Leaves, Out
  <1>4. ASSUME NEW r \in Run, Goes(r) PROVE Fits(s)
    <2>1. CASE s # r
      BY <1>2, <1>4, <2>1 DEF Goes, Others, dbVars
    <2>2. CASE s = r
      BY <1>1, <1>4, <2>2 DEF Goes, Keeps, Out
    <2> QED
      BY <2>1, <2>2
  <1>5. ASSUME NEW r \in Run, NEW p \in Profile, NEW k \in Nat, Takes(r, p, k) PROVE Fits(s)
    <2>1. CASE s # r
      BY <1>2, <1>5, <2>1 DEF Takes, Others
    <2>2. CASE s = r
      <3>1. pc'[s] = "number" /\ claim'[s].id = p /\ number'[s] = 0
        BY <1>1, <1>5, <2>2 DEF Takes, Out
      <3> QED
        BY <3>1 DEF Out
    <2> QED
      BY <2>1, <2>2
  <1>6. ASSUME NEW r \in Run, Reserves(r) PROVE Fits(s)
    <2>1. CASE s # r
      BY <1>2, <1>6, <2>1 DEF Reserves, Others
    <2>2. CASE s = r
      <3>1. /\ pc'[s] = "invoice" /\ number'[s] > 0 /\ claim'[s] = claim[s]
        BY <1>6, <2>2 DEF Reserves, NumbersFit
      <3> QED
        BY <1>1, <3>1 DEF Out
    <2> QED
      BY <2>1, <2>2
  <1>7. ASSUME NEW r \in Run, Stores(r) PROVE Fits(s)
    <2>1. CASE s # r
      BY <1>2, <1>7, <2>1 DEF Stores, Others
    <2>2. CASE s = r /\ Leaves(r)
      BY <1>3, <2>2
    <2>3. CASE s = r /\ claim[r] # NoClaim
      BY <1>1, <1>7, <2>3 DEF Stores, Keeps, Leaves, Out, InvoiceOf
    <2> QED
      BY <1>7, <2>1, <2>2, <2>3 DEF Stores
  <1>8. ASSUME NEW r \in Run, Charges(r) PROVE Fits(s)
    <2>1. CASE s # r
      BY <1>2, <1>8, <2>1 DEF Charges, Others
    <2>2. CASE s = r
      BY <1>1, <1>8, <2>2 DEF Charges, Keeps, Out, InvoiceOf
    <2> QED
      BY <2>1, <2>2
  <1>9. ASSUME NEW r \in Run,
               \/ Quits(r) \/ Finishes(r) \/ Drops(r)
               \/ \E p \in Profile, k \in Nat : Releases(r, p, k)
        PROVE  Fits(s)
    <2>1. Others(r) /\ Leaves(r) /\ invoice' = invoice /\ owed' = owed
      BY <1>9 DEF Quits, Finishes, Drops, Releases, dbVars
    <2>2. CASE s # r
      BY <1>2, <2>1, <2>2 DEF Others
    <2> QED
      BY <1>3, <2>1, <2>2
  <1>10. ASSUME UNCHANGED runVars, invoice' = invoice, owed' = owed PROVE Fits(s)
    BY <1>2, <1>10 DEF runVars
  <1>11. ASSUME (\E p \in Profile : Edits(p)) \/ Renumbers
                \/ UNCHANGED <<dbVars, runVars, amiss>>
         PROVE  Fits(s)
    BY <1>10, <1>11 DEF Edits, Renumbers, dbVars
  <1> HIDE DEF Fits
  <1> QED
    BY <1>4, <1>5, <1>6, <1>7, <1>8, <1>9, <1>11 DEF Moves, RunMoves

\* What happened stays so, and an execution that moves keeps its claim or has none.
LEMMA AmissGrows == Moves => amiss \subseteq amiss'
  <1> SUFFICES ASSUME Moves PROVE amiss \subseteq amiss'
    OBVIOUS
  <1>1. ASSUME NEW r \in Run, NEW p \in Profile, NEW k \in Nat,
               Takes(r, p, k) \/ Releases(r, p, k)
        PROVE  amiss \subseteq amiss'
    BY <1>1 DEF Takes, Releases
  <1>2. ASSUME NEW r \in Run,
               Goes(r) \/ Reserves(r) \/ Stores(r) \/ Charges(r) \/ Quits(r) \/ Finishes(r)
               \/ Drops(r)
        PROVE  amiss \subseteq amiss'
    BY <1>2 DEF Goes, Reserves, Stores, Charges, Quits, Finishes, Drops
  <1>3. ASSUME (\E p \in Profile : Edits(p)) \/ Renumbers PROVE amiss \subseteq amiss'
    BY <1>3 DEF Edits, Renumbers
  <1> QED
    BY <1>1, <1>2, <1>3 DEF Moves, RunMoves

LEMMA NumbersStep ==
  ASSUME TypeOK, RunsFit, NumbersFit, Moves
  PROVE  NumbersFit'
  <1>1. /\ counter > 0 /\ counter \in Nat
        /\ \A i \in invoice : i.number > 0 /\ i.number \in Nat
        /\ \A r \in Run : number[r] \in Nat
        /\ \A r \in Run : pc[r] \in Out \cup {"number"} => number[r] = 0
        /\ \A r \in Run : pc[r] = "invoice" => number[r] > 0
    BY DEF NumbersFit, TypeOK, RunsFit
  <1>2. ~Renumbered =>
          /\ \A i \in invoice : i.number < counter
          /\ \A r \in Run : number[r] < counter
          /\ \A r, s \in Run : r # s /\ number[r] > 0 => number[s] # number[r]
          /\ \A r \in Run : pc[r] = "invoice" => number[r] \notin Numbers
    BY DEF NumbersFit
  \* Where no number is reserved or used.
  <1>3. ASSUME invoice' = invoice, counter' = counter, amiss \subseteq amiss',
               \A r \in Run : number'[r] = number[r] \/ number'[r] = 0,
               \A r \in Run : pc'[r] = "invoice" => pc[r] = "invoice" /\ number'[r] = number[r]
        PROVE  NumbersFit'
    <2>1. ~Renumbered' => ~Renumbered
      BY <1>3 DEF Renumbered, Happened
    <2>2. Numbers' = Numbers
      BY <1>3 DEF Numbers
    <2> QED
      BY <1>1, <1>2, <1>3, <2>1, <2>2 DEF NumbersFit
  <1>4. ASSUME NEW r \in Run, Goes(r) PROVE NumbersFit'
    BY <1>3, <1>4 DEF Goes, Others, Keeps, Out, dbVars
  <1>5. ASSUME NEW r \in Run, NEW p \in Profile, NEW k \in Nat, Takes(r, p, k)
        PROVE  NumbersFit'
    BY <1>3, <1>5 DEF Takes, Others
  <1>6. ASSUME NEW r \in Run, Reserves(r) PROVE NumbersFit'
    <2>1. /\ \A s \in Run \ {r} : pc'[s] = pc[s] /\ number'[s] = number[s]
          /\ number'[r] = counter /\ counter' = counter + 1
          /\ invoice' = invoice /\ Renumbered' = Renumbered
      BY <1>6 DEF Reserves, Others, Renumbered, Happened
    <2>2. Numbers' = Numbers
      BY <2>1 DEF Numbers
    <2>3. ~Renumbered => counter \notin Numbers
      BY <1>1, <1>2 DEF Numbers
    <2>4. ~Renumbered' => \A s \in Run : pc'[s] = "invoice" => number'[s] \notin Numbers'
      BY <1>2, <2>1, <2>2, <2>3
    <2>5. ~Renumbered' => \A s \in Run : number'[s] < counter'
      BY <1>1, <1>2, <2>1
    <2>6. ~Renumbered' =>
            \A s, t \in Run : s # t /\ number'[s] > 0 => number'[t] # number'[s]
      BY <1>1, <1>2, <2>1
    <2>7. ~Renumbered' => \A i \in invoice' : i.number < counter'
      BY <1>1, <1>2, <2>1
    <2> QED
      BY <1>1, <2>1, <2>4, <2>5, <2>6, <2>7 DEF NumbersFit
  <1>7. ASSUME NEW r \in Run, Stores(r) PROVE NumbersFit'
    <2>1. /\ \A s \in Run \ {r} : pc'[s] = pc[s] /\ number'[s] = number[s]
          /\ pc[r] = "invoice" /\ pc'[r] # "invoice"
          /\ number'[r] = number[r] \/ number'[r] = 0
          /\ invoice' = invoice \cup {InvoiceOf(r)} /\ counter' = counter
          /\ Renumbered' = Renumbered
      BY <1>7 DEF Stores, Others, Leaves, Keeps, Out, Renumbered, Happened
    <2>2. Numbers' = Numbers \cup {number[r]}
      <3>1. InvoiceOf(r).number = number[r]
        BY DEF InvoiceOf
      <3>2. {i.number : i \in invoice \cup {InvoiceOf(r)}} =
              {i.number : i \in invoice} \cup {InvoiceOf(r).number}
        OBVIOUS
      <3> QED
        BY <2>1, <3>1, <3>2 DEF Numbers
    <2>3. ~Renumbered' => \A s \in Run : pc'[s] = "invoice" => number'[s] \notin Numbers'
      BY <1>1, <1>2, <2>1, <2>2
    <2>4. \A i \in invoice' : i \in invoice \/ i.number = number[r]
      BY <2>1 DEF InvoiceOf
    <2>5. ~Renumbered' => /\ \A i \in invoice' : i.number < counter'
                          /\ \A s \in Run : number'[s] < counter'
      BY <1>1, <1>2, <2>1, <2>4
    <2>6. ~Renumbered' =>
            \A s, t \in Run : s # t /\ number'[s] > 0 => number'[t] # number'[s]
      BY <1>1, <1>2, <2>1
    <2>7. \A i \in invoice' : i.number > 0
      BY <1>1, <2>1, <2>4
    <2> QED
      BY <1>1, <2>1, <2>3, <2>5, <2>6, <2>7 DEF NumbersFit
  <1>8. ASSUME NEW r \in Run, Charges(r) PROVE NumbersFit'
    BY <1>3, <1>8 DEF Charges, Others, Keeps
  <1>9. ASSUME NEW r \in Run,
               \/ Quits(r) \/ Finishes(r) \/ Drops(r)
               \/ \E p \in Profile, k \in Nat : Releases(r, p, k),
               amiss \subseteq amiss'
        PROVE  NumbersFit'
    <2>1. Others(r) /\ Leaves(r) /\ invoice' = invoice /\ counter' = counter
      BY <1>9 DEF Quits, Finishes, Drops, Releases, dbVars
    <2> QED
      BY <1>3, <1>9, <2>1 DEF Others, Leaves, Out
  <1>10. ASSUME NEW p \in Profile, Edits(p), amiss \subseteq amiss' PROVE NumbersFit'
    BY <1>3, <1>10 DEF Edits, runVars
  <1>11. CASE Renumbers
    <2>1. /\ invoice' = invoice /\ number' = number /\ pc' = pc /\ Numbers' = Numbers
          /\ counter' \in Nat \ {0}
      BY <1>11 DEF Renumbers, runVars, Numbers
    <2>2. CASE counter' >= counter /\ amiss' = amiss
      <3>1. Renumbered' = Renumbered
        BY <2>2 DEF Renumbered, Happened
      <3> QED
        BY <1>1, <1>2, <2>1, <2>2, <3>1 DEF NumbersFit
    <2>3. CASE amiss' = amiss \cup {<<"renumbered", NoProfile, 0>>}
      <3>1. Renumbered'
        BY <2>3 DEF Renumbered, Happened
      <3> QED
        BY <1>1, <2>1, <3>1 DEF NumbersFit
    <2> QED
      BY <1>11, <2>2, <2>3 DEF Renumbers
  <1>12. CASE UNCHANGED <<dbVars, runVars, amiss>>
    BY <1>3, <1>12 DEF dbVars, runVars
  <1> QED
    BY <1>4, <1>5, <1>6, <1>7, <1>8, <1>9, <1>10, <1>11, <1>12, AmissGrows DEF Moves, RunMoves

LEMMA ClaimsStep ==
  ASSUME TypeOK, RunsFit, ClaimsFit, Moves
  PROVE  ClaimsFit'
  <1> DEFINE Fit(p) ==
        /\ profile[p].due >= 1 /\ profile[p].count = profile[p].due - 1
        /\ \A r \in Run : claim[r].id = p =>
             /\ 1 <= claim[r].period /\ claim[r].period < profile[p].due
             /\ claim[r].doc.due = claim[r].period + 1
             /\ claim[r].doc.count = claim[r].period
        /\ \A r, s \in Run : r # s /\ claim[r].id = p /\ claim[s].id = p =>
             claim[r].period # claim[s].period
  <1> SUFFICES ASSUME NEW p \in Profile, ~Edited(p)' PROVE Fit(p)'
    BY DEF ClaimsFit
  <1>1. ~Edited(p)
    BY AmissGrows DEF Edited, Happened
  <1>2. Fit(p)
    BY <1>1 DEF ClaimsFit
  <1>3. /\ profile[p].due \in Nat /\ profile[p].count \in Int
        /\ \A r \in Run : claim[r].period \in Nat
    BY DEF TypeOK, RunDoc
  <1>4. NoClaim.id # p
    BY RecurringAssumption DEF NoClaim
  \* A claim that ends frees its period, and the others stand.
  <1>5. ASSUME profile'[p].due = profile[p].due, profile'[p].count = profile[p].count,
               \A r \in Run : claim'[r] = claim[r] \/ claim'[r] = NoClaim
        PROVE  Fit(p)'
    BY <1>2, <1>4, <1>5
  <1>6. ASSUME NEW r \in Run,
               Goes(r) \/ Reserves(r) \/ Stores(r) \/ Charges(r) \/ Quits(r) \/ Drops(r)
        PROVE  Fit(p)'
    <2>1. /\ profile' = profile
          /\ \A s \in Run : claim'[s] = claim[s] \/ claim'[s] = NoClaim
      BY <1>6 DEF Goes, Reserves, Stores, Charges, Quits, Drops, Others, Keeps, Leaves, dbVars
    <2> HIDE DEF Fit
    <2> QED
      BY <1>5, <2>1
  <1>7. ASSUME NEW r \in Run, Finishes(r) PROVE Fit(p)'
    <2>1. \A s \in Run : claim'[s] = claim[s] \/ claim'[s] = NoClaim
      BY <1>7 DEF Finishes, Others, Leaves
    <2>2. profile'[p].due = profile[p].due /\ profile'[p].count = profile[p].count
      BY <1>7 DEF Finishes
    <2> HIDE DEF Fit
    <2> QED
      BY <1>5, <2>1, <2>2
  <1>8. ASSUME NEW r \in Run, NEW q \in Profile, NEW k \in Nat, Takes(r, q, k) PROVE Fit(p)'
    <2>1. /\ \A s \in Run \ {r} : claim'[s] = claim[s]
          /\ claim'[r] = [id |-> q, period |-> k, doc |-> profile'[q]]
      BY <1>8 DEF Takes, Others
    <2>2. /\ claim'[r].id = q /\ claim'[r].period = k /\ claim'[r].doc = profile'[q]
      BY <2>1
    <2>3. CASE q # p
      <3>1. profile'[p] = profile[p] /\ claim'[r].id # p
        BY <1>8, <2>2, <2>3 DEF Takes
      <3> QED
        BY <1>2, <2>1, <3>1
    <2>4. CASE q = p
      <3>1. /\ profile[p].due = k /\ profile'[p].due = k + 1
            /\ profile'[p].count = profile[p].count + 1
        BY <1>8, <2>4 DEF Takes
      <3>2. profile'[p].due >= 1 /\ profile'[p].count = profile'[p].due - 1
        BY <1>2, <1>3, <3>1
      <3>3. claim'[r].doc.due = k + 1 /\ claim'[r].doc.count = k
        BY <1>2, <1>3, <2>2, <2>4, <3>1
      <3>4. \A s \in Run : claim'[s].id = p =>
              /\ 1 <= claim'[s].period /\ claim'[s].period < profile'[p].due
              /\ claim'[s].doc.due = claim'[s].period + 1
              /\ claim'[s].doc.count = claim'[s].period
        BY <1>2, <1>3, <2>1, <2>2, <3>1, <3>3
      <3>5. \A s \in Run \ {r} : claim'[s].id = p => claim'[s].period < k
        BY <1>2, <2>1, <3>1
      <3>6. \A s, t \in Run : s # t /\ claim'[s].id = p /\ claim'[t].id = p =>
              claim'[s].period # claim'[t].period
        BY <1>2, <1>3, <2>1, <2>2, <3>5
      <3> QED
        BY <3>2, <3>4, <3>6
    <2> QED
      BY <2>3, <2>4
  <1>9. ASSUME NEW r \in Run, NEW q \in Profile, NEW k \in Nat, Releases(r, q, k)
        PROVE  Fit(p)'
    <2>1. /\ \A s \in Run \ {r} : claim'[s] = claim[s]
          /\ claim'[r] = NoClaim /\ claim[r].id = q /\ claim[r].period = k
      BY <1>9 DEF Releases, Others, Leaves
    <2>2. CASE q # p \/ profile[q].due # k + 1
      <3>1. profile'[p] = profile[p]
        BY <1>9, <2>2 DEF Releases
      <3>2. \A s \in Run : claim'[s] = claim[s] \/ claim'[s] = NoClaim
        BY <2>1
      <3> HIDE DEF Fit
      <3> QED
        BY <1>5, <3>1, <3>2
    <2>3. CASE q = p /\ profile[q].due = k + 1
      <3>1. profile'[p].due = k /\ profile'[p].count = profile[p].count - 1
        BY <1>9, <2>3 DEF Releases
      <3>2. \A s \in Run \ {r} : claim[s].id = p => claim[s].period < k
        BY <1>2, <1>3, <2>1, <2>3
      <3>3. k >= 1
        BY <1>2, <2>1, <2>3
      <3>4. \A s \in Run : claim'[s].id = p => s # r
        BY <1>4, <2>1
      <3> QED
        BY <1>2, <1>3, <2>1, <2>3, <3>1, <3>2, <3>3, <3>4
    <2> QED
      BY <2>2, <2>3
  <1>10. ASSUME NEW q \in Profile, Edits(q) PROVE Fit(p)'
    <2>1. claim' = claim
      BY <1>10 DEF Edits, runVars
    <2>2. profile'[p].due = profile[p].due /\ profile'[p].count = profile[p].count
      <3>1. CASE q # p
        BY <1>10, <3>1 DEF Edits
      <3>2. CASE q = p
        BY <1>10, <3>2 DEF Edits, Edited, Happened
      <3> QED
        BY <3>1, <3>2
    <2> HIDE DEF Fit
    <2> QED
      BY <1>5, <2>1, <2>2
  <1>11. CASE Renumbers \/ UNCHANGED <<dbVars, runVars, amiss>>
    <2>1. claim' = claim /\ profile' = profile
      BY <1>11 DEF Renumbers, runVars, dbVars
    <2> HIDE DEF Fit
    <2> QED
      BY <1>5, <2>1
  <1> HIDE DEF Fit
  <1> QED
    BY <1>6, <1>7, <1>8, <1>9, <1>10, <1>11 DEF Moves, RunMoves

LEMMA BillsStep ==
  ASSUME TypeOK, RunsFit, ClaimsFit, BillsFit, BilledOnce, Moves
  PROVE  BillsFit' /\ BilledOnce'
  <1> DEFINE After == {"charge", "finish", "release"}
             Fit(p) ==
               /\ \A i \in invoice : i.id = p /\ ~Happened("rebill", p, i.period) =>
                    /\ i.period < profile[p].due
                    /\ \A s \in Run : claim[s].id = p /\ claim[s].period = i.period =>
                         i = InvoiceOf(s) /\ pc[s] \in After
               /\ \A i, j \in invoice : i.id = p /\ j.id = p /\ i.period = j.period /\ i # j =>
                    Happened("rebill", p, i.period)
  <1> SUFFICES ASSUME NEW p \in Profile, ~Edited(p)' PROVE Fit(p)'
    BY DEF BillsFit, BilledOnce, InvoicesOf
  <1>1. ~Edited(p) /\ \A k : Happened("rebill", p, k) => Happened("rebill", p, k)'
    BY AmissGrows DEF Edited, Happened
  <1>2. Fit(p)
    BY <1>1 DEF BillsFit, BilledOnce, InvoicesOf
  <1>3. /\ profile[p].due \in Nat
        /\ \A s \in Run : claim[s].period \in Nat
        /\ \A i \in invoice : i.period \in Nat
    BY DEF TypeOK, RunDoc
  <1>4. NoClaim.id # p
    BY RecurringAssumption DEF NoClaim
  <1>5. \A s \in Run : claim[s].id = p => claim[s].period < profile[p].due
    BY <1>1 DEF ClaimsFit
  \* No invoice is new, the date does not go back, and executions go on, end or stand.
  <1>6. ASSUME invoice' = invoice, profile'[p].due = profile[p].due,
               \A s \in Run :
                 \/ claim'[s] = NoClaim
                 \/ claim'[s] = claim[s] /\ number'[s] = number[s]
                    /\ (pc[s] \in After => pc'[s] \in After)
        PROVE  Fit(p)'
    <2>1. ASSUME NEW s \in Run, claim'[s].id = p
          PROVE  claim'[s] = claim[s] /\ InvoiceOf(s)' = InvoiceOf(s)
                 /\ (pc[s] \in After => pc'[s] \in After)
      BY <1>4, <1>6, <2>1 DEF InvoiceOf
    <2> QED
      BY <1>1, <1>2, <1>6, <2>1
  <1>7. ASSUME NEW r \in Run, Goes(r) \/ Charges(r) \/ Quits(r) \/ Drops(r) PROVE Fit(p)'
    <2>1. invoice' = invoice /\ profile' = profile
      BY <1>7 DEF Goes, Charges, Quits, Drops, dbVars
    <2>2. \A s \in Run \ {r} : claim'[s] = claim[s] /\ number'[s] = number[s] /\ pc'[s] = pc[s]
      BY <1>7 DEF Goes, Charges, Quits, Drops, Others
    <2>3. \/ claim'[r] = NoClaim
          \/ claim'[r] = claim[r] /\ number'[r] = number[r] /\ (pc[r] \in After => pc'[r] \in After)
      BY <1>7 DEF Goes, Charges, Quits, Drops, Keeps, Leaves, Out
    <2> HIDE DEF Fit, After
    <2> QED
      BY <1>6, <2>1, <2>2, <2>3
  <1>8. ASSUME NEW r \in Run, Finishes(r) PROVE Fit(p)'
    <2>1. invoice' = invoice /\ profile'[p].due = profile[p].due
      BY <1>8 DEF Finishes
    <2>2. \A s \in Run \ {r} : claim'[s] = claim[s] /\ number'[s] = number[s] /\ pc'[s] = pc[s]
      BY <1>8 DEF Finishes, Others
    <2>3. claim'[r] = NoClaim
      BY <1>8 DEF Finishes, Leaves
    <2> HIDE DEF Fit, After
    <2> QED
      BY <1>6, <2>1, <2>2, <2>3
  <1>9. ASSUME NEW r \in Run, NEW q \in Profile, NEW k \in Nat, Takes(r, q, k) PROVE Fit(p)'
    <2>1. /\ \A s \in Run \ {r} : claim'[s] = claim[s] /\ InvoiceOf(s)' = InvoiceOf(s)
                                  /\ pc'[s] = pc[s]
          /\ invoice' = invoice
          /\ claim'[r].id = q /\ claim'[r].period = k
      BY <1>9 DEF Takes, Others, InvoiceOf
    <2>2. CASE q # p
      <3>1. profile'[p] = profile[p]
        BY <1>9, <2>2 DEF Takes
      <3> QED
        BY <1>1, <1>2, <2>1, <2>2, <3>1
    <2>3. CASE q = p
      <3>1. profile[p].due = k /\ profile'[p].due = k + 1
        BY <1>9, <2>3 DEF Takes
      <3>2. \A i \in invoice : i.id = p /\ ~Happened("rebill", p, i.period)' => i.period < k
        BY <1>1, <1>2, <3>1
      <3> QED
        BY <1>1, <1>2, <1>3, <2>1, <3>1, <3>2
    <2> QED
      BY <2>2, <2>3
  <1>10. ASSUME NEW r \in Run, Reserves(r) PROVE Fit(p)'
    <2>1. /\ \A s \in Run : claim'[s] = claim[s] /\ (pc[s] \in After => pc'[s] \in After)
          /\ \A s \in Run : pc[s] \in After => InvoiceOf(s)' = InvoiceOf(s)
          /\ invoice' = invoice /\ profile' = profile
      BY <1>10 DEF Reserves, Others, InvoiceOf
    <2> QED
      BY <1>1, <1>2, <2>1
  <1>11. ASSUME NEW r \in Run, Stores(r) PROVE Fit(p)'
    <2>1. /\ \A s \in Run \ {r} : claim'[s] = claim[s] /\ InvoiceOf(s)' = InvoiceOf(s)
                                  /\ pc'[s] = pc[s]
          /\ invoice' = invoice \cup {InvoiceOf(r)} /\ profile' = profile
          /\ pc[r] \notin After
          /\ \/ claim'[r] = NoClaim
             \/ claim'[r] = claim[r] /\ InvoiceOf(r)' = InvoiceOf(r) /\ pc'[r] \in After
      BY <1>11 DEF Stores, Others, Keeps, Leaves, InvoiceOf
    <2>2. InvoiceOf(r).id = claim[r].id /\ InvoiceOf(r).period = claim[r].period
      BY DEF InvoiceOf
    <2>3. CASE claim[r].id # p
      BY <1>1, <1>2, <1>4, <2>1, <2>2, <2>3
    <2>4. CASE claim[r].id = p
      <3>1. \A i \in invoice : i.id = p /\ i.period = claim[r].period =>
              Happened("rebill", p, i.period)'
        BY <1>1, <1>2, <2>1, <2>4
      <3>2. \A s \in Run \ {r} : claim[s].id = p => claim[s].period # claim[r].period
        BY <1>1, <2>4 DEF ClaimsFit
      <3>3. claim[r].period < profile[p].due
        BY <1>5, <2>4
      <3>4. \A i \in invoice' : i.id = p /\ ~Happened("rebill", p, i.period)' =>
              /\ i.period < profile'[p].due
              /\ \A s \in Run : claim'[s].id = p /\ claim'[s].period = i.period =>
                   i = InvoiceOf(s)' /\ pc'[s] \in After
        BY <1>1, <1>2, <1>4, <2>1, <2>2, <2>4, <3>1, <3>2, <3>3
      <3>5. \A i, j \in invoice' : i.id = p /\ j.id = p /\ i.period = j.period /\ i # j =>
              Happened("rebill", p, i.period)'
        BY <1>1, <1>2, <2>1, <2>2, <3>1
      <3> QED
        BY <3>4, <3>5
    <2> QED
      BY <2>3, <2>4
  <1>12. ASSUME NEW r \in Run, NEW q \in Profile, NEW k \in Nat, Releases(r, q, k)
         PROVE  Fit(p)'
    <2>1. /\ \A s \in Run \ {r} : claim'[s] = claim[s] /\ number'[s] = number[s] /\ pc'[s] = pc[s]
          /\ claim'[r] = NoClaim /\ claim[r].id = q /\ claim[r].period = k
          /\ invoice' = invoice
      BY <1>12 DEF Releases, Others, Leaves
    <2>2. CASE q # p \/ profile[q].due # k + 1
      <3>1. profile'[p] = profile[p]
        BY <1>12, <2>2 DEF Releases
      <3> HIDE DEF Fit, After
      <3> QED
        BY <1>6, <2>1, <3>1
    <2>3. CASE q = p /\ profile[q].due = k + 1
      <3>1. profile'[p].due = k
        BY <1>12, <2>3 DEF Releases
      <3>2. ASSUME NEW i \in invoice, i.id = p, i.period = k, ~Happened("rebill", p, k)'
            PROVE  FALSE
        <4>1. i = InvoiceOf(r)
          BY <1>1, <1>2, <2>1, <2>3, <3>2
        <4>2. amiss' = amiss \cup {<<"rebill", p, k>>}
          BY <1>12, <2>3, <4>1 DEF Releases
        <4> QED
          BY <3>2, <4>2 DEF Happened
      <3>3. \A i \in invoice : i.id = p /\ ~Happened("rebill", p, i.period)' => i.period < k
        BY <1>1, <1>2, <1>3, <2>3, <3>2
      <3>4. \A s \in Run : claim'[s].id = p =>
              claim'[s] = claim[s] /\ InvoiceOf(s)' = InvoiceOf(s) /\ pc'[s] = pc[s]
        BY <1>4, <2>1 DEF InvoiceOf
      <3> QED
        BY <1>1, <1>2, <2>1, <3>1, <3>3, <3>4
    <2> QED
      BY <2>2, <2>3
  <1>13. ASSUME NEW q \in Profile, Edits(q) PROVE Fit(p)'
    <2>1. profile'[p].due = profile[p].due
      <3>1. CASE q # p
        BY <1>13, <3>1 DEF Edits
      <3>2. CASE q = p
        BY <1>13, <3>2 DEF Edits, Edited, Happened
      <3> QED
        BY <3>1, <3>2
    <2>2. /\ invoice' = invoice
          /\ \A s \in Run : claim'[s] = claim[s] /\ number'[s] = number[s] /\ pc'[s] = pc[s]
      BY <1>13 DEF Edits, runVars
    <2> HIDE DEF Fit, After
    <2> QED
      BY <1>6, <2>1, <2>2
  <1>14. CASE Renumbers \/ UNCHANGED <<dbVars, runVars, amiss>>
    <2>1. /\ invoice' = invoice /\ profile' = profile
          /\ \A s \in Run : claim'[s] = claim[s] /\ number'[s] = number[s] /\ pc'[s] = pc[s]
      BY <1>14 DEF Renumbers, runVars, dbVars
    <2> HIDE DEF Fit, After
    <2> QED
      BY <1>6, <2>1
  <1> HIDE DEF Fit
  <1> QED
    BY <1>7, <1>8, <1>9, <1>10, <1>11, <1>12, <1>13, <1>14 DEF Moves, RunMoves

LEMMA InvoicesStay == Moves => invoice \subseteq invoice'
  <1> SUFFICES ASSUME Moves PROVE invoice \subseteq invoice'
    OBVIOUS
  <1>1. ASSUME NEW r \in Run, NEW p \in Profile, NEW k \in Nat,
               Takes(r, p, k) \/ Releases(r, p, k)
        PROVE  invoice \subseteq invoice'
    BY <1>1 DEF Takes, Releases
  <1>2. ASSUME NEW r \in Run,
               Goes(r) \/ Reserves(r) \/ Stores(r) \/ Charges(r) \/ Quits(r) \/ Finishes(r)
               \/ Drops(r)
        PROVE  invoice \subseteq invoice'
    BY <1>2 DEF Goes, Reserves, Stores, Charges, Quits, Finishes, Drops, dbVars
  <1>3. ASSUME \/ \E p \in Profile : Edits(p)
               \/ Renumbers \/ UNCHANGED <<dbVars, runVars, amiss>>
        PROVE  invoice \subseteq invoice'
    BY <1>3 DEF Edits, Renumbers, dbVars
  <1> QED
    BY <1>1, <1>2, <1>3 DEF Moves, RunMoves

LEMMA SkipStep ==
  ASSUME TypeOK, TypeOK', RunsFit, NothingSkipped, Moves
  PROVE  NothingSkipped'
  <1> SUFFICES ASSUME NEW p \in Profile, ~Edited(p)', NEW k \in 1..(profile'[p].due - 1)
               PROVE  \/ Billed(p, k)'
                      \/ \E r \in Run : claim'[r].id = p /\ claim'[r].period = k
                      \/ Happened("dropped", p, k)' \/ Happened("overtaken", p, k)'
    BY DEF NothingSkipped
  <1> DEFINE Held == \E r \in Run : claim[r].id = p /\ claim[r].period = k
             Accounted == Billed(p, k) \/ Held \/ Happened("dropped", p, k)
                          \/ Happened("overtaken", p, k)
  <1> SUFFICES Accounted'
    OBVIOUS
  <1>1. /\ ~Edited(p) /\ (Happened("dropped", p, k) => Happened("dropped", p, k)')
        /\ (Happened("overtaken", p, k) => Happened("overtaken", p, k)')
    BY AmissGrows DEF Edited, Happened
  <1>2. k \in Nat /\ 1 <= k /\ profile[p].due \in Nat /\ profile'[p].due \in Nat
        /\ k < profile'[p].due
    <2>1. profile[p].due \in Nat /\ profile'[p].due \in Nat
      BY DEF TypeOK, RunDoc
    <2> QED
      BY <2>1
  <1>3. k < profile[p].due => Accounted
    BY <1>1, <1>2 DEF NothingSkipped
  <1>4. NoClaim.id # p
    BY RecurringAssumption DEF NoClaim
  <1>5. invoice \subseteq invoice' /\ (Billed(p, k) => Billed(p, k)')
    BY InvoicesStay DEF Billed
  \* The period was accounted for, and its claim, if any, stands or has become something else.
  <1>6. ASSUME k < profile[p].due,
               \A s \in Run : \/ claim'[s] = claim[s]
                              \/ claim[s].id = p /\ claim[s].period = k => Accounted'
        PROVE  Accounted'
    <2>1. CASE Held
      BY <1>6, <2>1
    <2>2. CASE ~Held
      BY <1>1, <1>3, <1>5, <1>6, <2>2
    <2> QED
      BY <2>1, <2>2
  <1>7. ASSUME NEW r \in Run,
               Goes(r) \/ Reserves(r) \/ Stores(r) \/ Charges(r) \/ Quits(r) \/ Drops(r)
        PROVE  Accounted'
    <2>1. profile' = profile
      BY <1>7 DEF Goes, Reserves, Stores, Charges, Quits, Drops, dbVars
    <2>2. \A s \in Run \ {r} : claim'[s] = claim[s]
      BY <1>7 DEF Goes, Reserves, Stores, Charges, Quits, Drops, Others
    <2>3. claim'[r] = claim[r] \/ claim[r] = NoClaim \/ Drops(r)
      BY <1>7 DEF Goes, Reserves, Stores, Charges, Quits, Keeps
    <2>4. ASSUME Drops(r), claim[r].id = p, claim[r].period = k PROVE Accounted'
      BY <2>4 DEF Drops, Happened
    <2> HIDE DEF Accounted
    <2> QED
      BY <1>2, <1>4, <1>6, <2>1, <2>2, <2>3, <2>4
  <1>8. ASSUME NEW r \in Run, Finishes(r) PROVE Accounted'
    <2>1. /\ \A s \in Run \ {r} : claim'[s] = claim[s]
          /\ profile'[p].due = profile[p].due
      BY <1>8 DEF Finishes, Others
    <2>2. ASSUME claim[r].id = p, claim[r].period = k PROVE Accounted'
      <3>1. InvoiceOf(r) \in invoice
        BY <1>8 DEF Finishes, RunsFit
      <3>2. Billed(p, k)
        BY <2>2, <3>1 DEF Billed, InvoiceOf
      <3> QED
        BY <1>5, <3>2
    <2> HIDE DEF Accounted
    <2> QED
      BY <1>2, <1>6, <2>1, <2>2
  <1>9. ASSUME NEW r \in Run, NEW q \in Profile, NEW j \in Nat, Takes(r, q, j) PROVE Accounted'
    <2>1. /\ \A s \in Run \ {r} : claim'[s] = claim[s]
          /\ claim'[r].id = q /\ claim'[r].period = j
      BY <1>9 DEF Takes, Others
    <2>2. claim[r].id # p
      BY <1>4, <1>9 DEF Takes, RunsFit, Out
    <2>3. CASE q = p /\ k = j
      BY <2>1, <2>3
    <2>4. CASE q # p \/ k # j
      <3>1. k < profile[p].due
        BY <1>2, <1>9, <2>4 DEF Takes
      <3> HIDE DEF Accounted
      <3> QED
        BY <1>6, <2>1, <2>2, <3>1
    <2> QED
      BY <2>3, <2>4
  <1>10. ASSUME NEW r \in Run, NEW q \in Profile, NEW j \in Nat, Releases(r, q, j)
         PROVE  Accounted'
    <2>1. /\ \A s \in Run \ {r} : claim'[s] = claim[s]
          /\ claim[r].id = q /\ claim[r].period = j
      BY <1>10 DEF Releases, Others
    <2>2. k < profile[p].due
      BY <1>2, <1>10 DEF Releases
    <2>3. ASSUME q = p, j = k PROVE Accounted'
      BY <1>2, <1>10, <2>3 DEF Releases, Happened
    <2> HIDE DEF Accounted
    <2> QED
      BY <1>6, <2>1, <2>2, <2>3
  <1>11. ASSUME NEW q \in Profile, Edits(q) PROVE Accounted'
    <2>1. claim' = claim
      BY <1>11 DEF Edits, runVars
    <2>2. profile'[p].due = profile[p].due
      <3>1. CASE q # p
        BY <1>11, <3>1 DEF Edits
      <3>2. CASE q = p
        BY <1>11, <3>2 DEF Edits, Edited, Happened
      <3> QED
        BY <3>1, <3>2
    <2> HIDE DEF Accounted
    <2> QED
      BY <1>2, <1>6, <2>1, <2>2
  <1>12. CASE Renumbers \/ UNCHANGED <<dbVars, runVars, amiss>>
    <2>1. claim' = claim /\ profile' = profile
      BY <1>12 DEF Renumbers, runVars, dbVars
    <2> HIDE DEF Accounted
    <2> QED
      BY <1>2, <1>6, <2>1
  <1> HIDE DEF Accounted
  <1> QED
    BY <1>7, <1>8, <1>9, <1>10, <1>11, <1>12 DEF Moves, RunMoves

\* Only an edit moves the end of a profile.
LEMMA LimitsStep ==
  ASSUME TypeOK, RunsFit, LimitsFit, Moves
  PROVE  LimitsFit'
  <1> SUFFICES ASSUME NEW p \in Profile, ~Limited(p)'
               PROVE  /\ profile'[p].max = Limit[p] /\ profile'[p].last = LastDue[p]
                      /\ \A r \in Run : claim'[r].id = p =>
                           claim'[r].doc.max = Limit[p] /\ claim'[r].doc.last = LastDue[p]
    BY DEF LimitsFit
  <1> DEFINE Kept1 == profile'[p] = profile[p] \/ SameEnd(p)
             Kept2(r) == \/ claim'[r] = claim[r] \/ claim'[r] = NoClaim
                         \/ claim'[r].id = p /\ claim'[r].doc = profile'[p]
                         \/ claim'[r].id # p
  <1>1. /\ profile[p].max = Limit[p] /\ profile[p].last = LastDue[p]
        /\ \A r \in Run : claim[r].id = p =>
             claim[r].doc.max = Limit[p] /\ claim[r].doc.last = LastDue[p]
    BY AmissGrows DEF LimitsFit, Limited, Happened
  <1>2. NoClaim.id # p
    BY RecurringAssumption DEF NoClaim
  <1>3. ASSUME Kept1, \A r \in Run : Kept2(r)
        PROVE  /\ profile'[p].max = Limit[p] /\ profile'[p].last = LastDue[p]
               /\ \A r \in Run : claim'[r].id = p =>
                    claim'[r].doc.max = Limit[p] /\ claim'[r].doc.last = LastDue[p]
    <2>1. profile'[p].max = Limit[p] /\ profile'[p].last = LastDue[p]
      BY <1>1, <1>3 DEF SameEnd
    <2> QED
      BY <1>1, <1>2, <1>3, <2>1
  <1>4. ASSUME NEW r \in Run,
               Goes(r) \/ Reserves(r) \/ Stores(r) \/ Charges(r) \/ Quits(r) \/ Drops(r)
        PROVE  Kept1 /\ \A s \in Run : Kept2(s)
    <2>1. profile' = profile
      BY <1>4 DEF Goes, Reserves, Stores, Charges, Quits, Drops, dbVars
    <2>2. \A s \in Run \ {r} : claim'[s] = claim[s]
      BY <1>4 DEF Goes, Reserves, Stores, Charges, Quits, Drops, Others
    <2>3. claim'[r] = claim[r] \/ claim'[r] = NoClaim
      BY <1>4 DEF Goes, Reserves, Stores, Charges, Quits, Drops, Keeps, Leaves
    <2> QED
      BY <2>1, <2>2, <2>3
  <1>5. ASSUME NEW r \in Run, Finishes(r)
        PROVE  Kept1 /\ \A s \in Run : Kept2(s)
    BY <1>5 DEF Finishes, Others, Leaves
  <1>6. ASSUME NEW r \in Run, NEW q \in Profile, NEW j \in Nat, Takes(r, q, j)
        PROVE  Kept1 /\ \A s \in Run : Kept2(s)
    <2>1. /\ \A s \in Run \ {r} : claim'[s] = claim[s]
          /\ claim'[r].id = q /\ claim'[r].doc = profile'[q]
      BY <1>6 DEF Takes, Others
    <2>2. Kept1
      BY <1>6 DEF Takes
    <2> QED
      BY <2>1, <2>2
  <1>7. ASSUME NEW r \in Run, NEW q \in Profile, NEW j \in Nat, Releases(r, q, j)
        PROVE  Kept1 /\ \A s \in Run : Kept2(s)
    BY <1>7 DEF Releases, Others, Leaves
  <1>8. ASSUME NEW q \in Profile, Edits(q)
        PROVE  Kept1 /\ \A s \in Run : Kept2(s)
    <2>1. claim' = claim
      BY <1>8 DEF Edits, runVars
    <2>2. Kept1
      BY <1>8 DEF Edits, Limited, Happened
    <2> QED
      BY <2>1, <2>2
  <1>9. ASSUME Renumbers \/ UNCHANGED <<dbVars, runVars, amiss>>
        PROVE  Kept1 /\ \A s \in Run : Kept2(s)
    BY <1>9 DEF Renumbers, runVars, dbVars
  <1> HIDE DEF Kept1, Kept2
  <1> QED
    BY <1>3, <1>4, <1>5, <1>6, <1>7, <1>8, <1>9 DEF Moves, RunMoves

LEMMA LastStep ==
  ASSUME TypeOK, TypeOK', RunsFit, ClaimsFit, LimitsFit, LastHeld, Moves
  PROVE  LastHeld'
  <1> SUFFICES ASSUME NEW p \in Profile, profile'[p].status = "active", ~Edited(p)', ~Limited(p)',
                      Stuck(p)' = {}, NEW k \in 1..(profile'[p].due - 1), LastAt(p, k)
               PROVE  \E r \in Run : claim'[r].id = p /\ claim'[r].period = k
    BY DEF LastHeld, LastAt
  <1> DEFINE Held == \E r \in Run : claim[r].id = p /\ claim[r].period = k
  <1> SUFFICES Held'
    OBVIOUS
  <1>1. ~Edited(p) /\ ~Limited(p) /\ Stuck(p) = {}
    BY AmissGrows DEF Edited, Limited, Happened, Stuck
  <1>2. k \in Nat /\ 1 <= k /\ profile[p].due \in Nat /\ profile'[p].due \in Nat
        /\ k < profile'[p].due
    <2>1. profile[p].due \in Nat /\ profile'[p].due \in Nat
      BY DEF TypeOK, RunDoc
    <2> QED
      BY <2>1
  <1>3. profile[p].status = "active" /\ k < profile[p].due => Held
    BY <1>1, <1>2 DEF LastHeld
  <1>4. NoClaim.id # p
    BY RecurringAssumption DEF NoClaim
  <1>5. ASSUME NEW j, Happened("dropped", p, j)' \/ Happened("overtaken", p, j)' PROVE FALSE
    <2>1. PICK what \in {"dropped", "overtaken"} : <<what, p, j>> \in amiss'
      BY <1>5 DEF Happened
    <2>2. <<what, p, j>>[1] = what /\ <<what, p, j>>[2] = p
      OBVIOUS
    <2>3. <<what, p, j>> \in Stuck(p)'
      BY <2>1, <2>2 DEF Stuck
    <2> QED
      BY <2>3
  \* The profile was active and the period behind its date: its claim stands.
  <1>6. ASSUME profile[p].status = "active", k < profile[p].due,
               \A s \in Run : claim'[s] = claim[s] \/ claim[s].id # p \/ claim[s].period # k
        PROVE  Held'
    BY <1>3, <1>6
  <1>7. ASSUME NEW r \in Run,
               Goes(r) \/ Reserves(r) \/ Stores(r) \/ Charges(r) \/ Quits(r) \/ Drops(r)
        PROVE  Held'
    <2>1. profile' = profile
      BY <1>7 DEF Goes, Reserves, Stores, Charges, Quits, Drops, dbVars
    <2>2. \A s \in Run \ {r} : claim'[s] = claim[s]
      BY <1>7 DEF Goes, Reserves, Stores, Charges, Quits, Drops, Others
    <2>3. claim'[r] = claim[r] \/ claim[r] = NoClaim \/ Drops(r)
      BY <1>7 DEF Goes, Reserves, Stores, Charges, Quits, Keeps
    <2>4. Drops(r) => claim[r].id # p
      BY <1>5 DEF Drops, Happened
    <2> HIDE DEF Held
    <2> QED
      BY <1>2, <1>4, <1>6, <2>1, <2>2, <2>3, <2>4
  <1>8. ASSUME NEW r \in Run, Finishes(r) PROVE Held'
    <2>1. /\ \A s \in Run \ {r} : claim'[s] = claim[s]
          /\ profile'[p].due = profile[p].due
          /\ profile'[p].status = IF p = claim[r].id /\ IsLast(claim[r].doc)
                                    THEN "completed" ELSE profile[p].status
      BY <1>8 DEF Finishes, Others
    <2>2. profile[p].status = "active" /\ (p = claim[r].id => ~IsLast(claim[r].doc))
      BY <2>1
    <2>3. ASSUME claim[r].id = p, claim[r].period = k PROVE FALSE
      <3>1. /\ claim[r].doc.due = k + 1 /\ claim[r].doc.count = k
            /\ claim[r].doc.max = Limit[p] /\ claim[r].doc.last = LastDue[p]
        BY <1>1, <2>3 DEF ClaimsFit, LimitsFit
      <3> QED
        BY <2>2, <2>3, <3>1 DEF IsLast, LastAt
    <2> HIDE DEF Held
    <2> QED
      BY <1>2, <1>6, <2>1, <2>2, <2>3
  <1>9. ASSUME NEW r \in Run, NEW q \in Profile, NEW j \in Nat, Takes(r, q, j) PROVE Held'
    <2>1. /\ \A s \in Run \ {r} : claim'[s] = claim[s]
          /\ claim'[r].id = q /\ claim'[r].period = j
      BY <1>9 DEF Takes, Others
    <2>2. claim[r].id # p
      BY <1>4, <1>9 DEF Takes, RunsFit, Out
    <2>3. CASE q = p /\ k = j
      BY <2>1, <2>3
    <2>4. CASE q # p \/ k # j
      <3>1. k < profile[p].due /\ profile[p].status = "active"
        BY <1>2, <1>9, <2>4 DEF Takes
      <3> HIDE DEF Held
      <3> QED
        BY <1>6, <2>1, <2>2, <3>1
    <2> QED
      BY <2>3, <2>4
  <1>10. ASSUME NEW r \in Run, NEW q \in Profile, NEW j \in Nat, Releases(r, q, j) PROVE Held'
    <2>1. /\ \A s \in Run \ {r} : claim'[s] = claim[s]
          /\ claim[r].id = q /\ claim[r].period = j
      BY <1>10 DEF Releases, Others
    <2>2. k < profile[p].due /\ profile[p].status = "active"
      BY <1>2, <1>10 DEF Releases
    <2>3. ASSUME q = p, j = k PROVE FALSE
      <3>1. Releases(r, p, k)
        BY <1>10, <2>3
      <3>2. profile[p].due # k + 1
        BY <1>2, <3>1 DEF Releases
      <3>3. <<"overtaken", p, k>> \in amiss'
        BY <3>1, <3>2 DEF Releases
      <3> QED
        BY <1>5, <3>3 DEF Happened
    <2> HIDE DEF Held
    <2> QED
      BY <1>6, <2>1, <2>2, <2>3
  <1>11. ASSUME NEW q \in Profile, Edits(q) PROVE Held'
    <2>1. claim' = claim
      BY <1>11 DEF Edits, runVars
    <2>2. profile[p].status = "active" /\ profile'[p].due = profile[p].due
      <3>1. CASE q # p
        BY <1>11, <3>1 DEF Edits
      <3>2. CASE q = p
        BY <1>11, <3>2 DEF Edits, Edited, Happened
      <3> QED
        BY <3>1, <3>2
    <2> HIDE DEF Held
    <2> QED
      BY <1>2, <1>6, <2>1, <2>2
  <1>12. CASE Renumbers \/ UNCHANGED <<dbVars, runVars, amiss>>
    <2>1. claim' = claim /\ profile' = profile
      BY <1>12 DEF Renumbers, runVars, dbVars
    <2> HIDE DEF Held
    <2> QED
      BY <1>2, <1>6, <2>1
  <1> HIDE DEF Held
  <1> QED
    BY <1>7, <1>8, <1>9, <1>10, <1>11, <1>12 DEF Moves, RunMoves

LEMMA OwedStep ==
  ASSUME TypeOK, RunsFit, NumbersFit, OwedIsSent, Moves
  PROVE  OwedIsSent'
  <1> DEFINE Owing(n) == \E i \in invoice : i.number = n /\ i.id \in AutoSend
             Explained(i) ==
               \/ \E r \in Run : InvoiceOf(r) = i
               \/ \E what \in {"rebill", "dropped", "overtaken"} : Happened(what, i.id, i.period)
             Fit ==
               /\ \A n \in owed : Owing(n)
               /\ \A i \in invoice : i.id \in AutoSend /\ i.number \notin owed => Explained(i)
  <1>1. Fit
    BY DEF OwedIsSent
  <1>2. ASSUME NEW i,
               \E what \in {"rebill", "dropped", "overtaken"} : Happened(what, i.id, i.period)'
        PROVE  Explained(i)'
    BY <1>2
  <1>3. ASSUME NEW i,
               \E what \in {"rebill", "dropped", "overtaken"} : Happened(what, i.id, i.period)
        PROVE  Explained(i)'
    BY <1>3, AmissGrows DEF Happened
  <1>4. /\ \A i \in invoice : i.number > 0 /\ i.number \in Nat
        /\ \A r \in Run : InvoiceOf(r).id = claim[r].id
        /\ \A r \in Run : InvoiceOf(r).number = number[r]
        /\ \A r \in Run : InvoiceOf(r).period = claim[r].period
    BY DEF NumbersFit, TypeOK, InvoiceOf
  <1>5. NoClaim.id \notin AutoSend
    BY RecurringAssumption DEF NoClaim
  \* No invoice is stored: whatever one was of, its run is that still, or it is explained.
  <1>6. ASSUME invoice' = invoice, owed' = owed,
               \A s \in Run : \/ claim'[s] = claim[s] /\ number'[s] = number[s]
                              \/ \A i \in invoice : i.id \in AutoSend /\ i.number \notin owed
                                   /\ i = InvoiceOf(s) => Explained(i)'
        PROVE  OwedIsSent'
    <2>1. \A n \in owed' : \E i \in invoice' : i.number = n /\ i.id \in AutoSend
      BY <1>1, <1>6
    <2>2. ASSUME NEW i \in invoice, i.id \in AutoSend, i.number \notin owed PROVE Explained(i)'
      <3>1. ASSUME NEW s \in Run, InvoiceOf(s) = i PROVE Explained(i)'
        <4>1. CASE claim'[s] = claim[s] /\ number'[s] = number[s]
          <5>1. InvoiceOf(s)' = i
            BY <3>1, <4>1 DEF InvoiceOf
          <5> QED
            BY <5>1
        <4> HIDE DEF Explained
        <4> QED
          BY <1>6, <2>2, <3>1, <4>1
      <3>2. Explained(i)
        BY <1>1, <2>2
      <3> QED
        BY <1>3, <3>1, <3>2
    <2>3. \A i \in invoice' : i.id \in AutoSend /\ i.number \notin owed' =>
            \/ \E r \in Run : InvoiceOf(r)' = i
            \/ \E what \in {"rebill", "dropped", "overtaken"} : Happened(what, i.id, i.period)'
      BY <1>6, <2>2
    <2> HIDE DEF Explained, Owing, Fit
    <2> QED
      BY <2>1, <2>3 DEF OwedIsSent
  <1>7. ASSUME NEW r \in Run,
               \/ Goes(r) \/ Reserves(r) \/ Quits(r) \/ Finishes(r) \/ Drops(r)
               \/ \E p \in Profile, k \in Nat : Takes(r, p, k) \/ Releases(r, p, k)
        PROVE  OwedIsSent'
    <2>1. /\ invoice' = invoice /\ owed' = owed
          /\ \A s \in Run \ {r} : claim'[s] = claim[s] /\ number'[s] = number[s]
      BY <1>7 DEF Goes, Reserves, Quits, Finishes, Drops, Takes, Releases, Others, dbVars
    <2>2. \/ claim'[r] = claim[r] /\ number'[r] = number[r]
          \/ \A i \in invoice : i.id \in AutoSend /\ i.number \notin owed
               /\ i = InvoiceOf(r) => Explained(i)'
      <3>1. CASE Goes(r)
        BY <3>1 DEF Goes, Keeps
      <3>2. CASE Reserves(r) \/ \E p \in Profile, k \in Nat : Takes(r, p, k)
        <4>1. pc[r] \in {"claim", "number"}
          BY <3>2 DEF Reserves, Takes
        <4>2. number[r] = 0
          BY <4>1 DEF RunsFit, Out
        <4>3. \A i \in invoice : i # InvoiceOf(r)
          BY <1>4, <4>2
        <4> HIDE DEF Explained
        <4> QED
          BY <4>3
      <3>3. CASE Quits(r)
        <4>1. claim[r] = NoClaim
          BY <3>3 DEF Quits
        <4> HIDE DEF Explained
        <4> QED
          BY <1>4, <1>5, <4>1
      <3>4. CASE Finishes(r)
        <4>1. claim[r].id \in AutoSend => number[r] \in owed
          BY <3>4 DEF Finishes, RunsFit
        <4> HIDE DEF Explained
        <4> QED
          BY <1>4, <4>1
      <3>5. CASE Drops(r)
        <4>1. <<"dropped", claim[r].id, claim[r].period>> \in amiss'
          BY <3>5 DEF Drops
        <4>2. ASSUME NEW i \in invoice, i = InvoiceOf(r) PROVE Explained(i)'
          BY <1>4, <4>1, <4>2 DEF Happened
        <4> HIDE DEF Explained
        <4> QED
          BY <4>2
      <3>6. ASSUME NEW p \in Profile, NEW k \in Nat, Releases(r, p, k),
                   NEW i \in invoice, i = InvoiceOf(r)
            PROVE  Explained(i)'
        <4>1. <<"overtaken", p, k>> \in amiss' \/ <<"rebill", p, k>> \in amiss'
          BY <3>6 DEF Releases
        <4>2. i.id = p /\ i.period = k
          BY <1>4, <3>6 DEF Releases
        <4> QED
          BY <4>1, <4>2 DEF Happened
      <3> HIDE DEF Explained
      <3> QED
        BY <1>7, <3>1, <3>2, <3>3, <3>4, <3>5, <3>6
    <2> HIDE DEF Explained
    <2> QED
      BY <1>6, <2>1, <2>2
  <1>8. ASSUME NEW r \in Run, Stores(r) PROVE OwedIsSent'
    <2>1. /\ \A s \in Run \ {r} : InvoiceOf(s)' = InvoiceOf(s)
          /\ invoice' = invoice \cup {InvoiceOf(r)} /\ owed' = owed
          /\ claim[r] = NoClaim \/ InvoiceOf(r)' = InvoiceOf(r)
      BY <1>8 DEF Stores, Others, Keeps, InvoiceOf
    <2>2. InvoiceOf(r).id \in AutoSend => InvoiceOf(r)' = InvoiceOf(r)
      BY <1>4, <1>5, <2>1
    <2>3. \A n \in owed' : \E i \in invoice' : i.number = n /\ i.id \in AutoSend
      BY <1>1, <2>1
    <2>4. ASSUME NEW i \in invoice', i.id \in AutoSend, i.number \notin owed'
          PROVE  Explained(i)'
      <3>1. CASE i = InvoiceOf(r)
        BY <2>2, <2>4, <3>1
      <3>2. CASE i # InvoiceOf(r)
        <4>1. Explained(i)
          BY <1>1, <2>1, <2>4, <3>2
        <4>2. ASSUME NEW s \in Run, InvoiceOf(s) = i PROVE Explained(i)'
          BY <2>1, <3>2, <4>2
        <4> QED
          BY <1>3, <4>1, <4>2
      <3> QED
        BY <3>1, <3>2
    <2> HIDE DEF Owing, Fit
    <2> QED
      BY <2>3, <2>4 DEF OwedIsSent
  <1>9. ASSUME NEW r \in Run, Charges(r) PROVE OwedIsSent'
    <2>1. /\ \A s \in Run : InvoiceOf(s)' = InvoiceOf(s)
          /\ invoice' = invoice /\ owed' = owed \cup {number[r]}
      BY <1>9 DEF Charges, Others, Keeps, InvoiceOf
    <2>2. InvoiceOf(r) \in invoice /\ InvoiceOf(r).number = number[r]
          /\ InvoiceOf(r).id \in AutoSend
      BY <1>4, <1>9 DEF Charges, RunsFit
    <2>3. \A n \in owed' : \E i \in invoice' : i.number = n /\ i.id \in AutoSend
      BY <1>1, <2>1, <2>2
    <2>4. ASSUME NEW i \in invoice', i.id \in AutoSend, i.number \notin owed'
          PROVE  Explained(i)'
      <3>1. Explained(i)
        BY <1>1, <2>1, <2>4
      <3>2. ASSUME NEW s \in Run, InvoiceOf(s) = i PROVE Explained(i)'
        BY <2>1, <3>2
      <3> QED
        BY <1>3, <3>1, <3>2
    <2> HIDE DEF Owing, Fit
    <2> QED
      BY <2>3, <2>4 DEF OwedIsSent
  <1>10. ASSUME \/ \E p \in Profile : Edits(p)
                \/ Renumbers \/ UNCHANGED <<dbVars, runVars, amiss>>
         PROVE  OwedIsSent'
    <2>1. invoice' = invoice /\ owed' = owed /\ claim' = claim /\ number' = number
      BY <1>10 DEF Edits, Renumbers, dbVars, runVars
    <2> HIDE DEF Explained, Owing, Fit
    <2> QED
      BY <1>6, <2>1
  <1> HIDE DEF Explained, Owing, Fit
  <1> QED
    BY <1>7, <1>8, <1>9, <1>10 DEF Moves, RunMoves
-----------------------------------------------------------------------------
(* The theorems *)

LEMMA InitIInv == Init => IInv
  <1> SUFFICES ASSUME Init PROVE IInv
    OBVIOUS
  <1>1. TypeOK
    <2>1. \A p \in Profile : [status |-> "active", due |-> 1, count |-> 0,
                              max |-> Limit[p], last |-> LastDue[p]] \in RunDoc
      BY RecurringAssumption DEF RunDoc
    <2>2. NoClaim \in [id : Profile \cup {NoProfile}, period : Nat, doc : RunDoc]
      BY DEF NoClaim, RunDoc
    <2> QED
      BY <2>1, <2>2, RecurringAssumption DEF Init, TypeOK
  <1>2. RunsFit
    BY DEF Init, RunsFit, Out
  <1>3. NumbersFit
    BY DEF Init, NumbersFit, Numbers
  <1>4. ClaimsFit
    BY RecurringAssumption DEF Init, ClaimsFit, NoClaim
  <1>5. BillsFit /\ BilledOnce /\ OwedIsSent
    BY DEF Init, BillsFit, BilledOnce, InvoicesOf, OwedIsSent
  <1>6. NothingSkipped /\ LastHeld
    BY DEF Init, NothingSkipped, LastHeld
  <1>7. LimitsFit
    BY RecurringAssumption DEF Init, LimitsFit, NoClaim
  <1> QED
    BY <1>1, <1>2, <1>3, <1>4, <1>5, <1>6, <1>7 DEF IInv

LEMMA IInvStep == IInv /\ [Next]_vars => IInv'
  <1> SUFFICES ASSUME IInv, [Next]_vars PROVE IInv'
    OBVIOUS
  <1>1. /\ TypeOK /\ RunsFit /\ NumbersFit /\ ClaimsFit /\ LimitsFit
        /\ BillsFit /\ BilledOnce /\ NothingSkipped /\ LastHeld /\ OwedIsSent
    BY DEF IInv
  <1>2. Moves /\ TypeOK'
    BY <1>1, StepMoves, TypeStep
  <1>3. RunsFit' /\ NumbersFit' /\ ClaimsFit' /\ LimitsFit'
    BY <1>1, <1>2, RunsStep, NumbersStep, ClaimsStep, LimitsStep
  <1>4. BillsFit' /\ BilledOnce' /\ OwedIsSent'
    BY <1>1, <1>2, BillsStep, OwedStep
  <1>5. NothingSkipped' /\ LastHeld'
    BY <1>1, <1>2, SkipStep, LastStep
  <1> QED
    BY <1>2, <1>3, <1>4, <1>5 DEF IInv

\* The count of a profile tells its date, and one past its last period is being billed.
LEMMA IInvBills == IInv => BilledAsDue
  <1> SUFFICES ASSUME IInv PROVE BilledAsDue
    OBVIOUS
  <1>1. TypeOK /\ BilledOnce /\ NothingSkipped /\ ClaimsFit /\ LimitsFit /\ LastHeld
    BY DEF IInv
  <1>2. CountTellsDate
    BY <1>1 DEF ClaimsFit, CountTellsDate
  <1>3. StopsInTime
    <2> SUFFICES ASSUME NEW p \in Profile, profile[p].status = "active", IsLast(profile[p]),
                        ~Edited(p), ~Limited(p), Stuck(p) = {}
                 PROVE  \E r \in Run : claim[r].id = p /\ IsLast(claim[r].doc)
      BY DEF StopsInTime
    <2> DEFINE k == profile[p].due - 1
    <2>1. /\ profile[p].due \in Nat /\ profile[p].due >= 1 /\ profile[p].count = k
          /\ Limit[p] \in Nat /\ LastDue[p] \in Nat
          /\ profile[p].max = Limit[p] /\ profile[p].last = LastDue[p]
      BY <1>1, RecurringAssumption DEF ClaimsFit, LimitsFit, TypeOK, RunDoc
    <2>2. LastAt(p, k)
      BY <2>1 DEF IsLast, LastAt
    <2>3. k \in 1..(profile[p].due - 1)
      <3>1. k # 0
        BY <2>1 DEF IsLast
      <3> QED
        BY <2>1, <3>1
    <2>4. PICK r \in Run : claim[r].id = p /\ claim[r].period = k
      BY <1>1, <2>2, <2>3 DEF LastHeld
    <2>5. /\ claim[r].doc.due = k + 1 /\ claim[r].doc.count = k
          /\ claim[r].doc.max = Limit[p] /\ claim[r].doc.last = LastDue[p]
      BY <1>1, <2>4 DEF ClaimsFit, LimitsFit
    <2>6. IsLast(claim[r].doc)
      BY <2>2, <2>5 DEF IsLast, LastAt
    <2> QED
      BY <2>4, <2>6
  <1> QED
    BY <1>1, <1>2, <1>3 DEF BilledAsDue

LEMMA IInvKeeps == IInv => InvoicesAreKept
  BY DEF IInv, NumbersFit, RunsFit, Renumbered, NumbersApart, InvoicesAreKept

\* Whatever runs overlap, fail, crash and are given back, each profile is billed once for each
\* period up to its date, its count tells that date, and it stops where it should.
THEOREM BilledAsDueAlways == Spec => []BilledAsDue
  BY InitIInv, IInvStep, IInvBills, PTL DEF Spec

\* Whatever is refused or fails, no two invoices are given one number, and the balances owe
\* what was sent.
THEOREM InvoicesAlwaysKept == Spec => []InvoicesAreKept
  BY InitIInv, IInvStep, IInvKeeps, PTL DEF Spec
-----------------------------------------------------------------------------
(* Reports: the documents, and what they add up to *)

BookStatuses ==
  {"none", "draft", "pending_approval", "approved", "sent", "partially_paid", "overdue", "paid",
   "void", "cancelled"}
Book ==
  [status : BookStatuses, sub : Nat, off : Nat, tax : Nat, qty : Nat, total : Nat, paid : Nat,
   due : Nat, over : Nat, issued : 0..LastDay, dueOn : 0..(LastDay + 1)]
PaidDoc == [of : Bill, amount : Int, refunded : Nat, status : {"completed", "refunded"}]
NoteDoc == [of : Bill, amount : Nat, off : Nat, status : {"applied", "issued"}]
BackDoc ==
  [of : Bill, total : Nat, tax : Nat, qty : Nat, restock : BOOLEAN,
   method : {"cash", "store_credit", "customer_balance"}]

\* What a payment still holds, what a note took off, what a return took off the account, what
\* an invoice adds to it, and what was paid above its total that it let go.
Left(p) == IF p.status = "completed" THEN p.amount - p.refunded ELSE 0
LeftOf(ps, i) == [n \in DOMAIN ps |-> IF ps[n].of = i THEN Left(ps[n]) ELSE 0]
OffOf(ns, i) == [n \in DOMAIN ns |-> IF ns[n].of = i THEN ns[n].off ELSE 0]
TakenOff(bs) == [n \in DOMAIN bs |-> IF bs[n].method = "customer_balance" THEN bs[n].total ELSE 0]
Owes(b) == IF b.status \in OnAccount THEN b.due ELSE 0
AllOwe(bk) == [i \in Bill |-> Owes(bk[i])]
Gone(b, off) == b.over + b.total - b.paid - b.due - off
AllGone(bk, ns) == [i \in Bill |-> Gone(bk[i], SumFunction(OffOf(ns, i)))]

\* A list has finitely many places, and one more when something is appended.
LEMMA PlacesFinite == \A S : \A s \in Seq(S) : IsFiniteSet(DOMAIN s)
  <1> SUFFICES ASSUME NEW S, NEW s \in Seq(S) PROVE IsFiniteSet(DOMAIN s)
    OBVIOUS
  <1>1. DOMAIN s = 1..Len(s) /\ Len(s) \in Nat
    OBVIOUS
  <1> QED
    BY <1>1, FS_Interval

\* What one more payment holds.
LEMMA LeftAdded ==
  ASSUME NEW ps \in Seq(PaidDoc), NEW e \in PaidDoc, NEW i
  PROVE  /\ LeftOf(ps, i) \in [DOMAIN ps -> Int]
         /\ SumFunction(LeftOf(ps, i)) \in Int
         /\ SumFunction(LeftOf(Append(ps, e), i))
              = SumFunction(LeftOf(ps, i)) + IF e.of = i THEN Left(e) ELSE 0
  <1> DEFINE t == Append(ps, e)
             y == Len(ps) + 1
             f == LeftOf(ps, i)
             g == LeftOf(t, i)
  <1>1. /\ t \in Seq(PaidDoc) /\ DOMAIN t = DOMAIN ps \cup {y} /\ y \notin DOMAIN ps
        /\ t[y] = e /\ \A n \in DOMAIN ps : t[n] = ps[n]
    OBVIOUS
  <1>2. \A p \in PaidDoc : Left(p) \in Int
    BY DEF Left, PaidDoc
  <1>3. \A n \in DOMAIN ps : ps[n] \in PaidDoc
    OBVIOUS
  <1> HIDE DEF t, y
  <1>4. f \in [DOMAIN ps -> Int]
    BY <1>2, <1>3 DEF LeftOf
  <1>5. g \in [DOMAIN ps \cup {y} -> Int] /\ \A n \in DOMAIN ps : g[n] = f[n]
    BY <1>1, <1>2, <1>3 DEF LeftOf
  <1>6. g[y] = IF e.of = i THEN Left(e) ELSE 0
    BY <1>1 DEF LeftOf
  <1>7. IsFiniteSet(DOMAIN ps)
    BY PlacesFinite
  <1> HIDE DEF f, g
  <1>8. SumFunction(f) \in Int
    BY <1>4, <1>7, TotalInt
  <1>9. SumFunction(g) = SumFunction(f) + g[y]
    <2> DEFINE n == Len(ps)
    <2>1. n \in Nat /\ DOMAIN ps = 1..n /\ y = n + 1 /\ DOMAIN ps \cup {y} = 1..(n + 1)
      BY DEF y
    <2>2. /\ f \in [1..n -> Int] /\ g \in [1..(n + 1) -> Int]
          /\ \A x \in 1..n : g[x] = f[x]
      BY <1>4, <1>5, <2>1
    <2> HIDE DEF n
    <2> QED
      BY <2>1, <2>2, TotalAppended
  <1> QED
    BY <1>4, <1>6, <1>8, <1>9 DEF f, g, t

\* What the payments hold when one is refunded.
LEMMA LeftChanged ==
  ASSUME NEW ps \in Seq(PaidDoc), NEW n \in DOMAIN ps, NEW e \in PaidDoc, e.of = ps[n].of, NEW i
  PROVE  SumFunction(LeftOf([ps EXCEPT ![n] = e], i))
           = SumFunction(LeftOf(ps, i)) + IF e.of = i THEN Left(e) - Left(ps[n]) ELSE 0
  <1> DEFINE t == [ps EXCEPT ![n] = e]
             f == LeftOf(ps, i)
             g == LeftOf(t, i)
  <1>1. /\ t \in Seq(PaidDoc) /\ DOMAIN t = DOMAIN ps /\ t[n] = e
        /\ \A m \in DOMAIN ps : m # n => t[m] = ps[m]
    OBVIOUS
  <1>2. \A p \in PaidDoc : Left(p) \in Int
    BY DEF Left, PaidDoc
  <1>3. \A m \in DOMAIN ps : ps[m] \in PaidDoc
    OBVIOUS
  <1> HIDE DEF t
  <1>4. f \in [DOMAIN ps -> Int]
    BY <1>2, <1>3 DEF LeftOf
  <1>5. g \in [DOMAIN ps -> Int] /\ \A m \in DOMAIN ps \ {n} : f[m] = g[m]
    BY <1>1, <1>2, <1>3 DEF LeftOf
  <1>6. g[n] - f[n] = IF e.of = i THEN Left(e) - Left(ps[n]) ELSE 0
    BY <1>1 DEF LeftOf
  <1>7. IsFiniteSet(DOMAIN ps)
    BY PlacesFinite
  <1> HIDE DEF f, g
  <1>8. SumFunction(g) = SumFunction(f) + (g[n] - f[n])
    BY <1>4, <1>5, <1>7, TotalChange
  <1> QED
    BY <1>6, <1>8 DEF f, g, t

\* What one more note takes off.
LEMMA OffAdded ==
  ASSUME NEW ns \in Seq(NoteDoc), NEW e \in NoteDoc, NEW i
  PROVE  /\ OffOf(ns, i) \in [DOMAIN ns -> Nat]
         /\ SumFunction(OffOf(ns, i)) \in Nat
         /\ SumFunction(OffOf(Append(ns, e), i))
              = SumFunction(OffOf(ns, i)) + IF e.of = i THEN e.off ELSE 0
  <1> DEFINE t == Append(ns, e)
             y == Len(ns) + 1
             f == OffOf(ns, i)
             g == OffOf(t, i)
  <1>1. /\ t \in Seq(NoteDoc) /\ DOMAIN t = DOMAIN ns \cup {y} /\ y \notin DOMAIN ns
        /\ t[y] = e /\ \A n \in DOMAIN ns : t[n] = ns[n]
    OBVIOUS
  <1>2. \A p \in NoteDoc : p.off \in Nat
    BY DEF NoteDoc
  <1>3. \A n \in DOMAIN ns : ns[n] \in NoteDoc
    OBVIOUS
  <1> HIDE DEF t, y
  <1>4. f \in [DOMAIN ns -> Nat] /\ f \in [DOMAIN ns -> Int]
    BY <1>2, <1>3 DEF OffOf
  <1>5. g \in [DOMAIN ns \cup {y} -> Int] /\ \A n \in DOMAIN ns : g[n] = f[n]
    BY <1>1, <1>2, <1>3 DEF OffOf
  <1>6. g[y] = IF e.of = i THEN e.off ELSE 0
    BY <1>1 DEF OffOf
  <1>7. IsFiniteSet(DOMAIN ns)
    BY PlacesFinite
  <1> HIDE DEF f, g
  <1>8. SumFunction(f) \in Nat
    BY <1>4, <1>7, TotalNat
  <1>9. SumFunction(g) = SumFunction(f) + g[y]
    <2> DEFINE n == Len(ns)
    <2>1. n \in Nat /\ DOMAIN ns = 1..n /\ y = n + 1 /\ DOMAIN ns \cup {y} = 1..(n + 1)
      BY DEF y
    <2>2. /\ f \in [1..n -> Int] /\ g \in [1..(n + 1) -> Int]
          /\ \A x \in 1..n : g[x] = f[x]
      BY <1>4, <1>5, <2>1
    <2> HIDE DEF n
    <2> QED
      BY <2>1, <2>2, TotalAppended
  <1> QED
    BY <1>4, <1>6, <1>8, <1>9 DEF f, g, t

\* What is left of the notes of an invoice when a payment puts back what they took off.
LEMMA OffPutBack ==
  ASSUME notes \in Seq(NoteDoc), NEW i \in Bill
  PROVE  /\ PutBack(i) \in Seq(NoteDoc) /\ Len(PutBack(i)) = Len(notes)
         /\ DOMAIN PutBack(i) = DOMAIN notes
         /\ \A n \in DOMAIN notes : /\ PutBack(i)[n].status = notes[n].status
                                   /\ PutBack(i)[n].off \in {0, notes[n].off}
         /\ \A j \in Bill : SumFunction(OffOf(PutBack(i), j))
                              = IF j = i THEN 0 ELSE SumFunction(OffOf(notes, j))
  <1> DEFINE t == PutBack(i)
  <1>1. DOMAIN notes = 1..Len(notes) /\ Len(notes) \in Nat
    OBVIOUS
  <1>2. \A n \in DOMAIN notes : notes[n] \in NoteDoc
    OBVIOUS
  <1>3. \A n \in DOMAIN notes :
          /\ t[n] \in NoteDoc /\ t[n].of = notes[n].of /\ t[n].status = notes[n].status
          /\ t[n].off = IF notes[n].of = i THEN 0 ELSE notes[n].off
    <2> TAKE n \in DOMAIN notes
    <2> DEFINE d == notes[n]
    <2>1. d \in NoteDoc
      BY <1>2
    <2>2. t[n] = [of |-> d.of, amount |-> d.amount, off |-> IF d.of = i THEN 0 ELSE d.off,
                  status |-> d.status]
      BY DEF PutBack
    <2> HIDE DEF d, t
    <2>3. /\ t[n] \in NoteDoc /\ t[n].of = d.of /\ t[n].status = d.status
          /\ t[n].off = IF d.of = i THEN 0 ELSE d.off
      BY <2>1, <2>2 DEF NoteDoc
    <2> QED
      BY <2>3 DEF d
  <1>4. DOMAIN t = DOMAIN notes
    BY DEF PutBack
  <1>5. t \in Seq(NoteDoc) /\ Len(t) = Len(notes)
    <2>1. t \in [1..Len(notes) -> NoteDoc]
      BY <1>1, <1>3 DEF PutBack
    <2> QED
      BY <1>1, <2>1
  <1>6. ASSUME NEW j \in Bill
        PROVE  SumFunction(OffOf(t, j)) = IF j = i THEN 0 ELSE SumFunction(OffOf(notes, j))
    <2>1. CASE j # i
      <3>1. OffOf(t, j) = OffOf(notes, j)
        BY <1>3, <1>4, <2>1 DEF OffOf
      <3> QED
        BY <2>1, <3>1
    <2>2. CASE j = i
      <3> DEFINE f == OffOf(t, j)
                 N == DOMAIN notes
      <3>1. f \in [N -> Int] /\ \A n \in N : f[n] = 0
        BY <1>3, <1>4, <2>2 DEF OffOf
      <3>2. IsFiniteSet(N)
        BY PlacesFinite
      <3> HIDE DEF f, N
      <3>3. SumFunction(f) = 0
        BY <3>1, <3>2, TotalNothing
      <3> QED
        BY <2>2, <3>3 DEF f
    <2> QED
      BY <2>1, <2>2
  <1> QED
    BY <1>3, <1>4, <1>5, <1>6

\* What one more return takes off the account.
LEMMA TakenOffAdded ==
  ASSUME NEW bs \in Seq(BackDoc), NEW e \in BackDoc
  PROVE  /\ TakenOff(bs) \in [DOMAIN bs -> Int] /\ SumFunction(TakenOff(bs)) \in Int
         /\ SumFunction(TakenOff(Append(bs, e)))
              = SumFunction(TakenOff(bs)) + IF e.method = "customer_balance" THEN e.total ELSE 0
  <1> DEFINE t == Append(bs, e)
             y == Len(bs) + 1
             f == TakenOff(bs)
             g == TakenOff(t)
  <1>1. /\ t \in Seq(BackDoc) /\ DOMAIN t = DOMAIN bs \cup {y} /\ y \notin DOMAIN bs
        /\ t[y] = e /\ \A n \in DOMAIN bs : t[n] = bs[n]
    OBVIOUS
  <1>2. \A p \in BackDoc : p.total \in Nat
    BY DEF BackDoc
  <1>3. \A n \in DOMAIN bs : bs[n] \in BackDoc
    OBVIOUS
  <1> HIDE DEF t, y
  <1>4. f \in [DOMAIN bs -> Int]
    BY <1>2, <1>3 DEF TakenOff
  <1>5. g \in [DOMAIN bs \cup {y} -> Int] /\ \A n \in DOMAIN bs : g[n] = f[n]
    BY <1>1, <1>2, <1>3 DEF TakenOff
  <1>6. g[y] = IF e.method = "customer_balance" THEN e.total ELSE 0
    BY <1>1 DEF TakenOff
  <1>7. IsFiniteSet(DOMAIN bs)
    BY PlacesFinite
  <1> HIDE DEF f, g
  <1>8. SumFunction(f) \in Int
    BY <1>4, <1>7, TotalInt
  <1>9. SumFunction(g) = SumFunction(f) + g[y]
    <2> DEFINE n == Len(bs)
    <2>1. n \in Nat /\ DOMAIN bs = 1..n /\ y = n + 1 /\ DOMAIN bs \cup {y} = 1..(n + 1)
      BY DEF y
    <2>2. /\ f \in [1..n -> Int] /\ g \in [1..(n + 1) -> Int]
          /\ \A x \in 1..n : g[x] = f[x]
      BY <1>4, <1>5, <2>1
    <2> HIDE DEF n
    <2> QED
      BY <2>1, <2>2, TotalAppended
  <1> QED
    BY <1>4, <1>6, <1>8, <1>9 DEF f, g, t

\* What one invoice that changed makes of what all add to the account.
LEMMA OweChanged ==
  ASSUME NEW bk \in [Bill -> Book], NEW i \in Bill, NEW b \in Book
  PROVE  /\ AllOwe(bk) \in [Bill -> Int] /\ SumFunction(AllOwe(bk)) \in Int
         /\ SumFunction(AllOwe([bk EXCEPT ![i] = b]))
              = SumFunction(AllOwe(bk)) + (Owes(b) - Owes(bk[i]))
  <1> DEFINE f == AllOwe(bk)
             g == AllOwe([bk EXCEPT ![i] = b])
  <1>1. \A d \in Book : Owes(d) \in Int
    BY DEF Owes, Book
  <1>2. f \in [Bill -> Int] /\ g \in [Bill -> Int]
    BY <1>1 DEF AllOwe
  <1>3. /\ \A j \in Bill \ {i} : f[j] = g[j]
        /\ f[i] = Owes(bk[i]) /\ g[i] = Owes(b)
    BY DEF AllOwe
  <1> HIDE DEF f, g
  <1>4. SumFunction(g) = SumFunction(f) + (g[i] - f[i]) /\ SumFunction(f) \in Int
    BY <1>2, <1>3, ReportsAssumption, TotalChange, TotalInt
  <1> QED
    BY <1>2, <1>3, <1>4 DEF f, g
\* What notes have off an invoice is a number.
LEMMA OffIsNat ==
  ASSUME NEW ns \in Seq(NoteDoc), NEW i
  PROVE  SumFunction(OffOf(ns, i)) \in Nat
  <1> DEFINE N == DOMAIN ns
             f == OffOf(ns, i)
  <1>1. \A n \in N : ns[n] \in NoteDoc
    OBVIOUS
  <1>2. f \in [N -> Nat]
    BY <1>1 DEF OffOf, NoteDoc
  <1>3. IsFiniteSet(N)
    BY PlacesFinite
  <1> HIDE DEF f, N
  <1>4. SumFunction(f) \in Nat
    BY <1>2, <1>3, TotalNat
  <1> QED
    BY <1>4 DEF f

LEMMA GoneTyped == \A b \in Book, n \in Nat : Gone(b, n) \in Int
  <1> SUFFICES ASSUME NEW b \in Book, NEW n \in Nat PROVE Gone(b, n) \in Int
    OBVIOUS
  <1>1. b.over \in Nat /\ b.total \in Nat /\ b.paid \in Nat /\ b.due \in Nat
    BY DEF Book
  <1>2. \A o, t, p, d \in Nat : o + t - p - d - n \in Int
    OBVIOUS
  <1> QED
    BY <1>1, <1>2 DEF Gone

\* What one invoice that changed makes of what all let go.
LEMMA GoneChanged ==
  ASSUME NEW bk \in [Bill -> Book], NEW i \in Bill, NEW b \in Book,
         NEW ns \in Seq(NoteDoc), NEW ms \in Seq(NoteDoc),
         \A j \in Bill \ {i} : SumFunction(OffOf(ms, j)) = SumFunction(OffOf(ns, j))
  PROVE  /\ AllGone(bk, ns) \in [Bill -> Int] /\ SumFunction(AllGone(bk, ns)) \in Int
         /\ SumFunction(AllGone([bk EXCEPT ![i] = b], ms))
              = SumFunction(AllGone(bk, ns))
                  + (Gone(b, SumFunction(OffOf(ms, i))) - Gone(bk[i], SumFunction(OffOf(ns, i))))
  <1> DEFINE f == AllGone(bk, ns)
             g == AllGone([bk EXCEPT ![i] = b], ms)
  <1>1. \A d \in Book, n \in Nat : Gone(d, n) \in Int
    BY GoneTyped
  <1>2. \A j \in Bill : SumFunction(OffOf(ns, j)) \in Nat /\ SumFunction(OffOf(ms, j)) \in Nat
    BY OffIsNat
  <1>3. f \in [Bill -> Int] /\ g \in [Bill -> Int]
    BY <1>1, <1>2 DEF AllGone
  <1>4. /\ \A j \in Bill \ {i} : f[j] = g[j]
        /\ f[i] = Gone(bk[i], SumFunction(OffOf(ns, i)))
        /\ g[i] = Gone(b, SumFunction(OffOf(ms, i)))
    <2> DEFINE c == [bk EXCEPT ![i] = b]
    <2>1. c[i] = b /\ \A j \in Bill \ {i} : c[j] = bk[j]
      OBVIOUS
    <2>2. \A j \in Bill : /\ f[j] = Gone(bk[j], SumFunction(OffOf(ns, j)))
                          /\ g[j] = Gone(c[j], SumFunction(OffOf(ms, j)))
      BY DEF AllGone
    <2> HIDE DEF c, f, g
    <2> QED
      BY <2>1, <2>2
  <1> HIDE DEF f, g
  <1>5. SumFunction(g) = SumFunction(f) + (g[i] - f[i]) /\ SumFunction(f) \in Int
    <2>1. f \in [Bill -> Int] /\ g \in [Bill -> Int] /\ \A j \in Bill \ {i} : f[j] = g[j]
      BY <1>3, <1>4
    <2>2. IsFiniteSet(Bill)
      BY ReportsAssumption
    <2> QED
      BY <2>1, <2>2, TotalChange, TotalInt
  <1> QED
    BY <1>3, <1>4, <1>5 DEF f, g
-----------------------------------------------------------------------------
(* Reports: the books as the handlers leave them *)

ReportsTyped ==
  /\ books \in [Bill -> Book] /\ paids \in Seq(PaidDoc) /\ notes \in Seq(NoteDoc)
  /\ backs \in Seq(BackDoc)
  /\ debt \in Int /\ again \in Nat /\ spent \in Nat /\ today \in 0..LastDay

\* Sales store a payment without a limit, and a return two documents.
RecordsFew == Records <= MaxRecords + Cardinality(Made)

\* A payment that stands was not refunded in full; a note that only was issued took nothing off.
DocsFit ==
  /\ \A n \in DOMAIN paids : paids[n].status = "completed" => paids[n].refunded < paids[n].amount
  /\ \A n \in DOMAIN notes : notes[n].status # "applied" => notes[n].off = 0

\* An invoice was paid what its payments hold, and is due but for that and what notes have off
\* it; what that is above its total was paid above it at the till.
BookFits(i) ==
  LET b == books[i] IN
  /\ b.total = b.sub - b.off + b.tax /\ b.off <= b.sub
  /\ b.paid = SumFunction(LeftOf(paids, i))
  /\ b.total <= b.paid + b.due + SumFunction(OffOf(notes, i))
  /\ b.paid + b.due + SumFunction(OffOf(notes, i)) <= b.total + b.over
  /\ b.status = "none" => b.total = 0 /\ b.over = 0
  /\ b.status = "paid" => b.due = 0
  /\ b.status \notin {"partially_paid", "overdue", "paid"} => b.paid = 0

\* The customer owes what is due on account and what was paid above a total and let go, less
\* returns that were taken off it and what payments put back on an invoice.
DebtFits ==
  debt + again + SumFunction(TakenOff(backs))
    = SumFunction(AllOwe(books)) + SumFunction(AllGone(books, notes))

ReportsInv ==
  /\ ReportsTyped /\ RecordsFew /\ DocsFit
  /\ \A i \in Bill : BookFits(i)
  /\ DebtFits
-----------------------------------------------------------------------------
(* Reports: what they sum *)

DueOf == [i \in Bill |-> books[i].due]
TotalOf == [i \in Bill |-> books[i].total]
TaxOf == [i \in Bill |-> books[i].tax]
SubOf == [i \in Bill |-> books[i].sub]
DiscountOf == [i \in Bill |-> books[i].off]
TaxableOf == [i \in Bill |-> books[i].sub - books[i].off]
PaidOf == [i \in Bill |-> books[i].paid]

\* The invoices left out count as nothing.
Within(U, f) == [i \in Bill |-> IF i \in U THEN f[i] ELSE 0]
SumIn(U, f) == SumFunction(Within(U, f))

\* Every figure of an invoice is a number.
LEMMA FiguresTyped ==
  ASSUME ReportsTyped
  PROVE  /\ DueOf \in [Bill -> Int] /\ TotalOf \in [Bill -> Int] /\ TaxOf \in [Bill -> Int]
         /\ SubOf \in [Bill -> Int] /\ DiscountOf \in [Bill -> Int] /\ TaxableOf \in [Bill -> Int]
         /\ PaidOf \in [Bill -> Int]
  BY DEF ReportsTyped, Book, DueOf, TotalOf, TaxOf, SubOf, DiscountOf, TaxableOf, PaidOf

\* A sum over some invoices is one over all.
LEMMA SumInIs ==
  ASSUME NEW U \in SUBSET Bill, NEW f \in [Bill -> Int]
  PROVE  /\ Within(U, f) \in [Bill -> Int] /\ SumIn(U, f) \in Int
         /\ SumFunction([i \in U |-> f[i]]) = SumIn(U, f)
  <1> DEFINE g == [i \in U |-> f[i]]
  <1>1. Within(U, f) \in [Bill -> Int]
    BY DEF Within
  <1>2. SumIn(U, f) \in Int
    BY <1>1, ReportsAssumption, TotalInt DEF SumIn
  <1>3. g \in [U -> Int] /\ IsFiniteSet(Bill)
    BY ReportsAssumption
  <1>4. [x \in Bill |-> IF x \in U THEN g[x] ELSE 0] = Within(U, f)
    BY DEF Within
  <1> HIDE DEF g
  <1>5. SumFunction(g) = SumFunction([x \in Bill |-> IF x \in U THEN g[x] ELSE 0])
    BY <1>3, TotalWithin
  <1> QED
    BY <1>1, <1>2, <1>4, <1>5 DEF SumIn, g

\* The sums of the reports are such.
LEMMA OversAre ==
  ASSUME ReportsTyped, NEW U \in SUBSET Bill
  PROVE  /\ Over(U, LAMBDA i : books[i].due) = SumIn(U, DueOf)
         /\ Over(U, LAMBDA i : books[i].total) = SumIn(U, TotalOf)
         /\ Over(U, LAMBDA i : books[i].tax) = SumIn(U, TaxOf)
         /\ Over(U, LAMBDA i : books[i].sub) = SumIn(U, SubOf)
         /\ Over(U, LAMBDA i : books[i].off) = SumIn(U, DiscountOf)
  <1>1. /\ [x \in U |-> books[x].due] = [i \in U |-> DueOf[i]]
        /\ [x \in U |-> books[x].total] = [i \in U |-> TotalOf[i]]
        /\ [x \in U |-> books[x].tax] = [i \in U |-> TaxOf[i]]
        /\ [x \in U |-> books[x].sub] = [i \in U |-> SubOf[i]]
        /\ [x \in U |-> books[x].off] = [i \in U |-> DiscountOf[i]]
    BY DEF DueOf, TotalOf, TaxOf, SubOf, DiscountOf
  <1> QED
    BY <1>1, FiguresTyped, SumInIs DEF Over
-----------------------------------------------------------------------------
(* Reports: receivables *)

\* Figures that add up for each invoice add up.
LEMMA SumsAdd ==
  ASSUME NEW U \in SUBSET Bill, NEW V \in SUBSET Bill, NEW W \in SUBSET Bill,
         NEW f \in [Bill -> Int], NEW g \in [Bill -> Int], NEW h \in [Bill -> Int],
         \A i \in Bill : (IF i \in U THEN f[i] ELSE 0)
                           = (IF i \in V THEN g[i] ELSE 0) + (IF i \in W THEN h[i] ELSE 0)
  PROVE  SumIn(U, f) = SumIn(V, g) + SumIn(W, h)
  <1>1. /\ Within(U, f) \in [Bill -> Int] /\ Within(V, g) \in [Bill -> Int]
        /\ Within(W, h) \in [Bill -> Int]
    BY SumInIs
  <1>2. \A i \in Bill : Within(U, f)[i] = Within(V, g)[i] + Within(W, h)[i]
    BY DEF Within
  <1> QED
    BY <1>1, <1>2, ReportsAssumption, TotalPlus DEF SumIn

\* Fewer invoices do not sum up to more.
LEMMA SumsLess ==
  ASSUME NEW U \in SUBSET Bill, NEW V \in SUBSET Bill, NEW W \in SUBSET Bill,
         U \subseteq V \cup W, NEW f \in [Bill -> Nat]
  PROVE  SumIn(U, f) <= SumIn(V, f) + SumIn(W, f)
  <1> DEFINE a == Within(U, f)
             b == [i \in Bill |-> Within(V, f)[i] + Within(W, f)[i]]
  <1>1. /\ Within(V, f) \in [Bill -> Int] /\ Within(W, f) \in [Bill -> Int]
        /\ a \in [Bill -> Int] /\ b \in [Bill -> Int] /\ \A i \in Bill : a[i] <= b[i]
    BY DEF Within
  <1>2. \A i \in Bill : b[i] = Within(V, f)[i] + Within(W, f)[i]
    OBVIOUS
  <1> HIDE DEF a, b
  <1>3. SumFunction(a) <= SumFunction(b)
    BY <1>1, ReportsAssumption, TotalLeq
  <1>4. SumFunction(b) = SumIn(V, f) + SumIn(W, f)
    BY <1>1, <1>2, ReportsAssumption, TotalPlus DEF SumIn
  <1> QED
    BY <1>3, <1>4 DEF SumIn, a

\* Invoices of an age.
Aged(lo, hi) ==
  {i \in Counted : books[i].due > 0 /\ lo < today - books[i].dueOn /\ today - books[i].dueOn <= hi}
Late ==
  {i \in Issued : books[i].status = "overdue" \/ (books[i].due > 0 /\ books[i].dueOn <= today)}
OpenBooks == {i \in Made : books[i].status \in OnAccount}

\* The reports filter the invoices; what is issued is counted.
LEMMA InvoiceSets ==
  ASSUME ReportsTyped
  PROVE  /\ Made \in SUBSET Bill /\ Issued \in SUBSET Bill /\ Counted \in SUBSET Bill
         /\ Late \in SUBSET Bill /\ OpenBooks \in SUBSET Bill /\ Issued \in SUBSET Counted
         /\ Counted \ Issued \in SUBSET Bill
         /\ \A lo, hi : Aged(lo, hi) \in SUBSET Bill
         /\ IsFiniteSet(Made)
  <1>1. Made \in SUBSET Bill /\ IsFiniteSet(Made)
    BY ReportsAssumption, FS_Subset DEF Made
  <1> QED
    BY <1>1 DEF Issued, Counted, Late, OpenBooks, Aged, NotIssued

\* What returns took off the account is a number.
LEMMA TakenIsInt == ReportsTyped => SumFunction(TakenOff(backs)) \in Int
  <1> SUFFICES ASSUME ReportsTyped PROVE SumFunction(TakenOff(backs)) \in Int
    OBVIOUS
  <1>1. \A n \in DOMAIN backs : backs[n] \in BackDoc
    BY DEF ReportsTyped
  <1>2. TakenOff(backs) \in [DOMAIN backs -> Int]
    BY <1>1 DEF TakenOff, BackDoc
  <1>3. IsFiniteSet(DOMAIN backs)
    BY PlacesFinite DEF ReportsTyped
  <1> QED
    BY <1>2, <1>3, TotalInt

\* What all let go is a number.
LEMMA GoneIsInt ==
  ASSUME ReportsTyped
  PROVE  /\ AllGone(books, notes) \in [Bill -> Int]
         /\ SumFunction(AllGone(books, notes)) \in Int
  <1>1. \A d \in Book, n \in Nat : Gone(d, n) \in Int
    BY GoneTyped
  <1>2. \A i \in Bill : SumFunction(OffOf(notes, i)) \in Nat
    BY OffIsNat DEF ReportsTyped
  <1>3. AllGone(books, notes) \in [Bill -> Int]
    BY <1>1, <1>2 DEF AllGone, ReportsTyped
  <1> QED
    BY <1>3, ReportsAssumption, TotalInt

\* What is receivable is what is due on account.
LEMMA OutstandingIs ==
  ASSUME ReportsTyped, DebtFits, \A i \in Bill : BookFits(i)
  PROVE  /\ SumIn(OpenBooks, DueOf) = SumIn(Issued, DueOf)
         /\ SumIn(Issued, DueOf) = debt + again + SumFunction(TakenOff(backs))
                                     - SumFunction(AllGone(books, notes))
         /\ SumFunction(AllGone(books, notes)) \in Int
         /\ SumIn(Issued, DueOf) \in Int
  <1>1. \A i \in Bill : books[i].status \in BookStatuses
    BY DEF ReportsTyped, Book
  <1>2. \A i \in Bill : books[i].status = "paid" => books[i].due = 0
    BY DEF BookFits
  <1>3. Within(OpenBooks, DueOf) = Within(Issued, DueOf)
    BY <1>1, <1>2 DEF Within, DueOf, OpenBooks, Issued, Made, OnAccount, NotIssued, BookStatuses
  <1>4. Within(OpenBooks, DueOf) = AllOwe(books)
    BY DEF Within, AllOwe, Owes, DueOf, OpenBooks, Made, OnAccount
  <1>5. SumIn(OpenBooks, DueOf) = SumIn(Issued, DueOf)
    BY <1>3 DEF SumIn
  <1>6. SumFunction(AllGone(books, notes)) \in Int
    BY GoneIsInt
  <1>7. Issued \in SUBSET Bill
    BY InvoiceSets
  <1>8. SumIn(Issued, DueOf) \in Int
    BY <1>7, FiguresTyped, SumInIs
  <1>9. SumIn(Issued, DueOf) = SumFunction(AllOwe(books))
    BY <1>3, <1>4 DEF SumIn
  <1> DEFINE due == SumIn(Issued, DueOf)
             gone == SumFunction(AllGone(books, notes))
             known == debt + again + SumFunction(TakenOff(backs))
  <1>10. known = due + gone
    BY <1>9 DEF DebtFits
  <1>11. due = known - gone
    <2>1. due \in Int /\ gone \in Int
      BY <1>6, <1>8
    <2> HIDE DEF due, gone, known
    <2> QED
      BY <1>10, <2>1
  <1>12. SumIn(Issued, DueOf)
           = debt + again + SumFunction(TakenOff(backs)) - SumFunction(AllGone(books, notes))
    <2> DEFINE taken == SumFunction(TakenOff(backs))
    <2>1. debt \in Int /\ again \in Int /\ taken \in Int
      BY TakenIsInt DEF ReportsTyped
    <2>2. due = (debt + again + taken) - gone
      BY <1>11
    <2> HIDE DEF due, gone, taken
    <2>3. due = debt + again + taken - gone
      BY <1>6, <2>1, <2>2 DEF gone
    <2> QED
      BY <2>3 DEF due, gone, taken
  <1> QED
    BY <1>5, <1>6, <1>8, <1>12

\* What invoices still tell of having been paid above their totals, and what they let go.
CarriedOf == [i \in Bill |-> Carried(i)]
LEMMA CarriedIs ==
  ASSUME ReportsTyped, \A i \in Bill : BookFits(i)
  PROVE  /\ \A i \in Bill :
              /\ Carried(i) \in 0..books[i].over
              /\ Carried(i) = books[i].due + books[i].paid + SumFunction(OffOf(notes, i))
                                - books[i].total
              /\ books[i].over - Carried(i) = AllGone(books, notes)[i]
         /\ CarriedOf \in [Bill -> Int]
  <1>1. ASSUME NEW i \in Bill
        PROVE  /\ Carried(i) \in 0..books[i].over
               /\ Carried(i) = books[i].due + books[i].paid + SumFunction(OffOf(notes, i))
                                 - books[i].total
               /\ books[i].over - Carried(i) = AllGone(books, notes)[i]
    <2> DEFINE total == books[i].total
               paid == books[i].paid
               due == books[i].due
               over == books[i].over
               off == SumFunction(OffOf(notes, i))
    <2>1. books[i] \in Book
      BY DEF ReportsTyped
    <2>2. total \in Nat /\ paid \in Nat /\ due \in Nat /\ over \in Nat
      BY <2>1 DEF Book
    <2>3. off \in Nat
      BY OffIsNat DEF ReportsTyped
    <2>4. total <= paid + due + off /\ paid + due + off <= total + over
      BY DEF BookFits
    <2>5. Carried(i) = due + paid + off - total
      BY DEF Carried, OffNow, OffOf, SumAll
    <2>6. AllGone(books, notes)[i] = over + total - paid - due - off
      BY DEF AllGone, Gone
    <2> HIDE DEF total, paid, due, over, off
    <2>7. Carried(i) \in 0..over /\ over - Carried(i) = AllGone(books, notes)[i]
      BY <2>2, <2>3, <2>4, <2>5, <2>6
    <2> QED
      BY <2>5, <2>7 DEF total, paid, due, over, off
  <1>2. ASSUME NEW i \in Bill PROVE Carried(i) \in Int
    <2>1. books[i].over \in Nat
      BY DEF ReportsTyped, Book
    <2> QED
      BY <1>1, <2>1
  <1> QED
    BY <1>1, <1>2 DEF CarriedOf

\* Every invoice that is due is of some age.
LEMMA AgesAre ==
  ASSUME ReportsTyped
  PROVE  LET a == SumIn(Aged(-(LastDay + 2), 0), DueOf)
             b == SumIn(Aged(0, Span), DueOf)
             c == SumIn(Aged(Span, 2 * Span), DueOf)
             d == SumIn(Aged(2 * Span, LastDay), DueOf)
         IN /\ a + (b + c + d) = SumIn(Issued, DueOf) + SumIn(Counted \ Issued, DueOf)
            /\ b + c + d <= SumIn(Late, DueOf) + SumIn(Counted \ Issued, DueOf)
  <1> DEFINE A == Aged(-(LastDay + 2), 0)
             B == Aged(0, Span)
             C == Aged(Span, 2 * Span)
             D == Aged(2 * Span, LastDay)
             Some1 == C \cup D
             Some2 == B \cup Some1
  <1>1. /\ DueOf \in [Bill -> Int] /\ DueOf \in [Bill -> Nat]
        /\ \A i \in Bill : /\ books[i].due \in Nat /\ DueOf[i] = books[i].due
                           /\ books[i].dueOn \in 0..(LastDay + 1)
        /\ today \in 0..LastDay /\ LastDay \in Nat /\ Span \in Nat \ {0}
    BY ReportsAssumption DEF ReportsTyped, Book, DueOf
  <1>2. /\ A \in SUBSET Bill /\ B \in SUBSET Bill /\ C \in SUBSET Bill /\ D \in SUBSET Bill
        /\ Some1 \in SUBSET Bill /\ Some2 \in SUBSET Bill
        /\ Issued \in SUBSET Bill /\ Counted \in SUBSET Bill /\ Issued \subseteq Counted
        /\ Late \in SUBSET Bill /\ Counted \ Issued \in SUBSET Bill
    BY InvoiceSets
  <1>3. /\ C \cap D = {} /\ B \cap Some1 = {} /\ A \cap Some2 = {}
        /\ A \cup Some2 = {i \in Counted : books[i].due > 0}
        /\ Some2 \subseteq Late \cup (Counted \ Issued)
    <2>1. 2 * Span \in Nat /\ Span <= 2 * Span /\ 0 < Span
      BY <1>1
    <2>2. Counted \subseteq Bill
      BY <1>2
    <2>3. \A i \in Counted :
            -(LastDay + 2) < today - books[i].dueOn /\ today - books[i].dueOn <= LastDay
      BY <1>1, <2>2
    <2> QED
      BY <1>1, <2>1, <2>2, <2>3 DEF Aged, Late
  <1> HIDE DEF A, B, C, D, Some1, Some2
  <1>4. SumIn(Some1, DueOf) = SumIn(C, DueOf) + SumIn(D, DueOf)
    <2>1. Some1 = C \cup D /\ C \cap D = {}
      BY <1>3 DEF Some1
    <2> QED
      BY <1>1, <1>2, <2>1, SumsAdd
  <1>5. SumIn(Some2, DueOf) = SumIn(B, DueOf) + SumIn(Some1, DueOf)
    <2>1. Some2 = B \cup Some1 /\ B \cap Some1 = {}
      BY <1>3 DEF Some2
    <2> QED
      BY <1>1, <1>2, <2>1, SumsAdd
  <1>6. SumIn(Counted, DueOf) = SumIn(A, DueOf) + SumIn(Some2, DueOf)
    BY <1>1, <1>2, <1>3, SumsAdd
  <1>7. SumIn(Counted, DueOf) = SumIn(Issued, DueOf) + SumIn(Counted \ Issued, DueOf)
    BY <1>1, <1>2, SumsAdd
  <1>8. SumIn(Some2, DueOf) <= SumIn(Late, DueOf) + SumIn(Counted \ Issued, DueOf)
    BY <1>1, <1>2, <1>3, SumsLess
  <1>9. /\ SumIn(A, DueOf) \in Int /\ SumIn(B, DueOf) \in Int /\ SumIn(C, DueOf) \in Int
        /\ SumIn(D, DueOf) \in Int
    BY <1>1, <1>2, SumInIs
  <1> QED
    BY <1>4, <1>5, <1>6, <1>7, <1>8, <1>9 DEF A, B, C, D

\* The dashboard, the assistant, the agency's summary and the aging report agree.
LEMMA ReceivablesFollow ==
  ASSUME ReportsTyped, DebtFits, \A i \in Bill : BookFits(i)
  PROVE  ReceivablesAgree
  <1> DEFINE S == SumIn(Issued, DueOf)
  <1>1. /\ Issued \in SUBSET Bill /\ Late \in SUBSET Bill /\ Counted \ Issued \in SUBSET Bill
        /\ OpenBooks \in SUBSET Bill /\ \A lo, hi : Aged(lo, hi) \in SUBSET Bill
    BY InvoiceSets
  <1>2. getDashboardSummary = [revenue |-> SumIn(Issued, TotalOf),
                               collected |-> SumAll(paids, Completed),
                               outstanding |-> S, overdue |-> SumIn(Late, DueOf)]
    BY <1>1, OversAre DEF getDashboardSummary, Late
  <1>3. processAskBusinessQuery = [revenue |-> SumIn(Issued, TotalOf),
                                   collected |-> SumAll(paids, Completed), outstanding |-> S]
    BY <1>1, OversAre DEF processAskBusinessQuery
  <1>4. getAgencySummary = SumIn(OpenBooks, DueOf)
    BY <1>1, OversAre DEF getAgencySummary, OpenBooks
  <1>5. /\ getARAgingReport.overdue
             = SumIn(Aged(0, Span), DueOf) + SumIn(Aged(Span, 2 * Span), DueOf)
                 + SumIn(Aged(2 * Span, LastDay), DueOf)
        /\ getARAgingReport.receivables
             = SumIn(Aged(-(LastDay + 2), 0), DueOf) + getARAgingReport.overdue
    BY <1>1, OversAre DEF getARAgingReport, Aged
  <1>6. Over(Counted \ Issued, LAMBDA i : books[i].due) = SumIn(Counted \ Issued, DueOf)
    BY <1>1, OversAre
  <1>7. SumAll(backs, LAMBDA r : IF r.method = "customer_balance" THEN r.total ELSE 0)
          = SumFunction(TakenOff(backs))
    BY DEF SumAll, TakenOff
  <1> HIDE DEF S
  <1>8. processAskBusinessQuery
          = [a \in DOMAIN getDashboardSummary \ {"overdue"} |-> getDashboardSummary[a]]
    <2> DEFINE shown == getDashboardSummary
               told == [a \in DOMAIN shown \ {"overdue"} |-> shown[a]]
    <2>1. DOMAIN shown \ {"overdue"} = {"revenue", "collected", "outstanding"}
      BY <1>2
    <2>2. /\ shown["revenue"] = SumIn(Issued, TotalOf)
          /\ shown["collected"] = SumAll(paids, Completed)
          /\ shown["outstanding"] = S
      BY <1>2
    <2> HIDE DEF shown
    <2>3. told = [a \in {"revenue", "collected", "outstanding"} |-> shown[a]]
      BY <2>1
    <2> QED
      BY <1>3, <2>2, <2>3 DEF shown
  <1>9. /\ getDashboardSummary.outstanding = S /\ getDashboardSummary.overdue = SumIn(Late, DueOf)
    BY <1>2
  <1>10. S = debt + again
               + SumAll(backs, LAMBDA r : IF r.method = "customer_balance" THEN r.total ELSE 0)
               - Over(Bill, LAMBDA i : books[i].over - Carried(i))
    <2>1. \A i \in Bill : books[i].over - Carried(i) = AllGone(books, notes)[i]
      BY CarriedIs
    <2>2. [i \in Bill |-> books[i].over - Carried(i)] = AllGone(books, notes)
      BY <2>1 DEF AllGone
    <2>3. Over(Bill, LAMBDA i : books[i].over - Carried(i)) = SumFunction(AllGone(books, notes))
      BY <2>2 DEF Over
    <2> QED
      BY <1>7, <2>3, OutstandingIs DEF S
  <1>11. getAgencySummary = S
    BY <1>4, OutstandingIs DEF S
  <1>12. /\ getARAgingReport.receivables = S + SumIn(Counted \ Issued, DueOf)
         /\ getARAgingReport.overdue <= SumIn(Late, DueOf) + SumIn(Counted \ Issued, DueOf)
    BY <1>5, AgesAre DEF S
  <1>13. \A i \in Bill : Carried(i) \in 0..books[i].over
    BY CarriedIs
  <1> QED
    BY <1>6, <1>8, <1>9, <1>10, <1>11, <1>12, <1>13 DEF ReceivablesAgree
-----------------------------------------------------------------------------
(* Reports: sales *)

Months == {books[i].issued \div Month : i \in Counted}
InMonth(m) == {i \in Counted : books[i].issued \div Month = m}

\* The months add up to all that is counted.
LEMMA MonthsAdd ==
  ASSUME ReportsTyped, NEW f \in [Bill -> Int]
  PROVE  SumFunction([m \in Months |-> SumFunction([i \in InMonth(m) |-> f[i]])])
           = SumIn(Counted, f)
  <1> DEFINE N == Counted
             at == [i \in N |-> books[i].issued \div Month]
             c == [i \in N |-> f[i]]
             Inner(m) == SumFunction([n \in N |-> IF at[n] = m THEN c[n] ELSE 0])
  <1>1. N \in SUBSET Bill /\ IsFiniteSet(N)
    BY InvoiceSets, ReportsAssumption, FS_Subset
  <1>2. at \in [N -> Months] /\ \A m \in Months : \E i \in N : at[i] = m
    BY DEF Months
  <1>3. IsFiniteSet(Months)
    <2> HIDE DEF at, N
    <2>1. at \in Surjection(N, Months)
      BY <1>2 DEF Surjection
    <2> QED
      BY <1>1, <2>1, FS_Surjection
  <1>4. c \in [N -> Int]
    BY <1>1
  <1>5. SumFunction(c) = SumFunction([m \in Months |-> Inner(m)])
    <2> HIDE DEF at, c, N
    <2> QED
      BY <1>1, <1>2, <1>3, <1>4, TotalExchange
  <1>6. ASSUME NEW m \in Months
        PROVE  Inner(m) = SumFunction([i \in InMonth(m) |-> f[i]])
    <2> DEFINE U == InMonth(m)
               g == [i \in U |-> f[i]]
    <2>1. U \in SUBSET N /\ g \in [U -> Int]
      BY <1>1 DEF InMonth
    <2>2. [n \in N |-> IF at[n] = m THEN c[n] ELSE 0] = [n \in N |-> IF n \in U THEN g[n] ELSE 0]
      BY DEF InMonth
    <2> HIDE DEF U, g, N, at, c
    <2>3. SumFunction(g) = SumFunction([n \in N |-> IF n \in U THEN g[n] ELSE 0])
      BY <1>1, <2>1, TotalWithin
    <2> QED
      BY <2>2, <2>3 DEF U, g
  <1>7. [m \in Months |-> Inner(m)] = [m \in Months |-> SumFunction([i \in InMonth(m) |-> f[i]])]
    <2> HIDE DEF Inner
    <2> QED
      BY <1>6
  <1>8. SumFunction(c) = SumIn(Counted, f)
    BY <1>1, SumInIs
  <1> QED
    BY <1>5, <1>7, <1>8

\* The greater of nothing and what is not less.
LEMMA MaxIs == \A n \in Nat : Max({0, n}) = n
  <1> SUFFICES ASSUME NEW n \in Nat PROVE Max({0, n}) = n
    OBVIOUS
  <1>1. n \in {0, n} /\ \A y \in {0, n} : n >= y
    OBVIOUS
  <1>2. \A x \in {0, n} : (\A y \in {0, n} : x >= y) => x = n
    OBVIOUS
  <1>3. Max({0, n}) = CHOOSE x \in {0, n} : \A y \in {0, n} : x >= y
    BY DEF Max
  <1>4. \E x \in {0, n} : \A y \in {0, n} : x >= y
    BY <1>1
  <1> QED
    BY <1>2, <1>3, <1>4

LEMMA MaxOf == \A n \in Int : Max({0, n}) = IF n >= 0 THEN n ELSE 0
  <1> SUFFICES ASSUME NEW n \in Int PROVE Max({0, n}) = IF n >= 0 THEN n ELSE 0
    OBVIOUS
  <1> DEFINE m == IF n >= 0 THEN n ELSE 0
  <1>1. m \in {0, n} /\ \A y \in {0, n} : m >= y
    OBVIOUS
  <1>2. \A x \in {0, n} : (\A y \in {0, n} : x >= y) => x = m
    OBVIOUS
  <1>3. Max({0, n}) = CHOOSE x \in {0, n} : \A y \in {0, n} : x >= y
    BY DEF Max
  <1> HIDE DEF m
  <1>4. Max({0, n}) = m
    BY <1>1, <1>2, <1>3
  <1> QED
    BY <1>4 DEF m

\* The lesser of two.
LEMMA MinIs ==
  \A m, n \in Nat : /\ Min({m, n}) \in Nat /\ Min({m, n}) <= m /\ Min({m, n}) <= n
                    /\ m <= n => Min({m, n}) = m
                    /\ n <= m => Min({m, n}) = n
  <1> SUFFICES ASSUME NEW m \in Nat, NEW n \in Nat
               PROVE  /\ Min({m, n}) \in Nat /\ Min({m, n}) <= m /\ Min({m, n}) <= n
                      /\ m <= n => Min({m, n}) = m
                      /\ n <= m => Min({m, n}) = n
    OBVIOUS
  <1> DEFINE S == {m, n}
             k == CHOOSE x \in S : \A y \in S : x <= y
  <1>1. \E x \in S : \A y \in S : x <= y
    <2>1. m <= n \/ n <= m
      OBVIOUS
    <2> QED
      BY <2>1
  <1>2. k \in S /\ \A y \in S : k <= y
    BY <1>1
  <1>3. Min({m, n}) = k
    BY DEF Min
  <1> HIDE DEF k
  <1> QED
    BY <1>2, <1>3

\* What invoices come to is what was sold less discounts, and tax.
LEMMA TotalsAre ==
  ASSUME ReportsTyped, \A i \in Bill : BookFits(i)
  PROVE  /\ SumIn(Counted, TotalOf) = SumIn(Counted, TaxableOf) + SumIn(Counted, TaxOf)
         /\ SumIn(Counted, SubOf) = SumIn(Counted, TaxableOf) + SumIn(Counted, DiscountOf)
         /\ Over(Counted, LAMBDA i : Max({0, books[i].sub - books[i].off}))
              = SumIn(Counted, TaxableOf)
  <1>1. Counted \in SUBSET Bill
    BY InvoiceSets
  <1>2. \A i \in Bill : /\ books[i].sub \in Nat /\ books[i].off \in Nat /\ books[i].tax \in Nat
                        /\ books[i].total \in Nat /\ books[i].off <= books[i].sub
                        /\ books[i].total = books[i].sub - books[i].off + books[i].tax
    BY DEF ReportsTyped, Book, BookFits
  <1>3. \A i \in Bill : /\ TotalOf[i] = TaxableOf[i] + TaxOf[i]
                        /\ SubOf[i] = TaxableOf[i] + DiscountOf[i]
    BY <1>2 DEF TotalOf, TaxableOf, TaxOf, SubOf, DiscountOf
  <1>4. SumIn(Counted, TotalOf) = SumIn(Counted, TaxableOf) + SumIn(Counted, TaxOf)
    BY <1>1, <1>3, FiguresTyped, SumsAdd
  <1>5. SumIn(Counted, SubOf) = SumIn(Counted, TaxableOf) + SumIn(Counted, DiscountOf)
    BY <1>1, <1>3, FiguresTyped, SumsAdd
  <1>6. [i \in Counted |-> Max({0, books[i].sub - books[i].off})] = [i \in Counted |-> TaxableOf[i]]
    <2>1. ASSUME NEW i \in Bill
          PROVE  Max({0, books[i].sub - books[i].off}) = TaxableOf[i]
      <3>1. books[i].sub - books[i].off \in Nat
        BY <1>2
      <3> QED
        BY <3>1, MaxIs DEF TaxableOf
    <2> QED
      BY <1>1, <2>1
  <1> QED
    BY <1>1, <1>4, <1>5, <1>6, FiguresTyped, SumInIs DEF Over

\* What returns come to with tax and with what was put back is what they come to without.
LEMMA RefundsAre ==
  ASSUME ReportsTyped
  PROVE  LET total == SumAll(backs, LAMBDA r : r.total)
             bare == SumAll(backs, LAMBDA r : r.total - r.tax)
             kept == SumAll(backs, LAMBDA r : IF r.restock THEN r.qty * Cost ELSE 0)
             extra == SumAll(backs, LAMBDA r : r.tax + IF r.restock THEN r.qty * Cost ELSE 0)
         IN /\ total + kept = bare + extra
            /\ total \in Int /\ bare \in Int /\ kept \in Int /\ extra \in Int
  <1> DEFINE N == DOMAIN backs
             a == [n \in N |-> backs[n].total]
             b == [n \in N |-> backs[n].total - backs[n].tax]
             k == [n \in N |-> IF backs[n].restock THEN backs[n].qty * Cost ELSE 0]
             x == [n \in N |-> backs[n].tax + IF backs[n].restock THEN backs[n].qty * Cost ELSE 0]
             both == [n \in N |-> a[n] + k[n]]
  <1>1. IsFiniteSet(N)
    BY PlacesFinite DEF ReportsTyped
  <1>2. \A n \in N : /\ backs[n].total \in Nat /\ backs[n].tax \in Nat
                     /\ backs[n].qty * Cost \in Nat
    <2>1. \A n \in N : backs[n] \in BackDoc
      BY DEF ReportsTyped
    <2> QED
      BY <2>1, ReportsAssumption DEF BackDoc
  <1>3. /\ a \in [N -> Int] /\ b \in [N -> Int] /\ k \in [N -> Int] /\ x \in [N -> Int]
        /\ both \in [N -> Int]
    BY <1>2
  <1>4. \A n \in N : both[n] = a[n] + k[n] /\ both[n] = b[n] + x[n]
    BY <1>2
  <1>5. /\ SumAll(backs, LAMBDA r : r.total) = SumFunction(a)
        /\ SumAll(backs, LAMBDA r : r.total - r.tax) = SumFunction(b)
        /\ SumAll(backs, LAMBDA r : IF r.restock THEN r.qty * Cost ELSE 0) = SumFunction(k)
        /\ SumAll(backs, LAMBDA r : r.tax + IF r.restock THEN r.qty * Cost ELSE 0)
             = SumFunction(x)
    BY DEF SumAll
  <1> HIDE DEF N, a, b, k, x, both
  <1>6. /\ SumFunction(both) = SumFunction(a) + SumFunction(k)
        /\ SumFunction(both) = SumFunction(b) + SumFunction(x)
    BY <1>1, <1>3, <1>4, TotalPlus
  <1>7. /\ SumFunction(a) \in Int /\ SumFunction(b) \in Int /\ SumFunction(k) \in Int
        /\ SumFunction(x) \in Int
    BY <1>1, <1>3, TotalInt
  <1> QED
    BY <1>5, <1>6, <1>7

\* What the goods cost is a number.
LEMMA CostIsInt == ReportsTyped => CostOfGoods \in Int
  <1> SUFFICES ASSUME ReportsTyped PROVE CostOfGoods \in Int
    OBVIOUS
  <1> DEFINE f == [i \in Counted |-> books[i].qty * Cost]
  <1>1. Counted \in SUBSET Bill /\ IsFiniteSet(Counted)
    BY InvoiceSets, ReportsAssumption, FS_Subset
  <1>2. f \in [Counted -> Int]
    BY <1>1, ReportsAssumption DEF ReportsTyped, Book
  <1>3. CostOfGoods = SumFunction(f)
    BY DEF CostOfGoods, Over
  <1> HIDE DEF f
  <1> QED
    BY <1>1, <1>2, <1>3, TotalInt

\* The reports of sales agree.
LEMMA SalesFollow ==
  ASSUME ReportsTyped, \A i \in Bill : BookFits(i)
  PROVE  SalesAgree
  <1>0. /\ Counted \in SUBSET Bill /\ \A m : InMonth(m) \in SUBSET Bill
        /\ SumIn(Counted, TotalOf) \in Int /\ SumIn(Counted, TaxOf) \in Int
        /\ SumIn(Counted, TaxableOf) \in Int /\ SumIn(Counted, SubOf) \in Int
        /\ SumIn(Counted, DiscountOf) \in Int
    BY InvoiceSets, FiguresTyped, SumInIs DEF InMonth
  <1>1. getRevenueReport
          = [m \in Months |-> [revenue |-> SumFunction([i \in InMonth(m) |-> TotalOf[i]]),
                               tax |-> SumFunction([i \in InMonth(m) |-> TaxOf[i]])]]
    <2>1. \A m : /\ [i \in InMonth(m) |-> TotalOf[i]] = [i \in InMonth(m) |-> books[i].total]
                 /\ [i \in InMonth(m) |-> TaxOf[i]] = [i \in InMonth(m) |-> books[i].tax]
      BY <1>0 DEF TotalOf, TaxOf
    <2> QED
      BY <2>1 DEF getRevenueReport, Months, InMonth, Over
  <1>2. /\ SumFunction([m \in DOMAIN getRevenueReport |-> getRevenueReport[m].revenue])
             = SumIn(Counted, TotalOf)
        /\ SumFunction([m \in DOMAIN getRevenueReport |-> getRevenueReport[m].tax])
             = SumIn(Counted, TaxOf)
    <2> DEFINE r == getRevenueReport
    <2>1. /\ [m \in DOMAIN r |-> r[m].revenue]
               = [m \in Months |-> SumFunction([i \in InMonth(m) |-> TotalOf[i]])]
          /\ [m \in DOMAIN r |-> r[m].tax]
               = [m \in Months |-> SumFunction([i \in InMonth(m) |-> TaxOf[i]])]
      BY <1>1
    <2> QED
      BY <2>1, FiguresTyped, MonthsAdd
  <1>3. /\ getBestSellersReport.revenue = SumIn(Counted, TotalOf)
        /\ getGSTSummaryReport.tax = SumIn(Counted, TaxOf)
        /\ getGSTSummaryReport.taxable = SumIn(Counted, TaxableOf)
    BY <1>0, OversAre, TotalsAre DEF getBestSellersReport, getGSTSummaryReport
  <1>4. /\ getProfitReport.gross = SumIn(Counted, SubOf)
        /\ getProfitReport.off = SumIn(Counted, DiscountOf)
        /\ getProfitReport.profit
             = SumIn(Counted, SubOf) - SumIn(Counted, DiscountOf)
                 - SumAll(backs, LAMBDA r : r.total - r.tax)
                 - (CostOfGoods - SumAll(backs, LAMBDA r : IF r.restock THEN r.qty * Cost ELSE 0))
                 - spent
    BY <1>0, OversAre DEF getProfitReport
  <1>5. buildRetailKpis.profit
          = SumIn(Counted, SubOf) - SumIn(Counted, DiscountOf)
              - SumAll(backs, LAMBDA r : r.total) - CostOfGoods - spent
    BY <1>0, OversAre DEF buildRetailKpis
  <1>6. spent \in Int
    BY DEF ReportsTyped
  <1>7. buildRetailKpis.profit
          = getProfitReport.profit
              - SumAll(backs, LAMBDA r : r.tax + IF r.restock THEN r.qty * Cost ELSE 0)
    <2> DEFINE total == SumAll(backs, LAMBDA r : r.total)
               bare == SumAll(backs, LAMBDA r : r.total - r.tax)
               kept == SumAll(backs, LAMBDA r : IF r.restock THEN r.qty * Cost ELSE 0)
               extra == SumAll(backs, LAMBDA r : r.tax + IF r.restock THEN r.qty * Cost ELSE 0)
               gross == SumIn(Counted, SubOf)
               off == SumIn(Counted, DiscountOf)
               goods == CostOfGoods
    <2>1. /\ total + kept = bare + extra
          /\ total \in Int /\ bare \in Int /\ kept \in Int /\ extra \in Int
      BY RefundsAre
    <2>2. goods \in Int
      BY CostIsInt
    <2>3. gross \in Int /\ off \in Int
      BY <1>0
    <2>4. getProfitReport.profit = gross - off - bare - (goods - kept) - spent
      BY <1>4
    <2>5. buildRetailKpis.profit = gross - off - total - goods - spent
      BY <1>5
    <2> HIDE DEF total, bare, kept, extra, gross, off, goods
    <2>6. buildRetailKpis.profit = getProfitReport.profit - extra
      BY <1>6, <2>1, <2>2, <2>3, <2>4, <2>5
    <2> QED
      BY <2>6 DEF extra
  <1>8. SumIn(Counted, TaxableOf) = SumIn(Counted, SubOf) - SumIn(Counted, DiscountOf)
    BY <1>0, TotalsAre
  <1> QED
    BY <1>2, <1>3, <1>4, <1>7, <1>8, TotalsAre DEF SalesAgree
-----------------------------------------------------------------------------
(* Reports: the statement *)

CreditedOf == [i \in Bill |-> SumFunction(OffOf(notes, i))]
RefundedOf(p) == IF p.status = "completed" THEN p.refunded ELSE 0
AppliedOf(c) == IF c.status = "applied" THEN c.amount ELSE 0

\* What is left of every payment is what some invoice was paid.
LEMMA PaymentsTell ==
  ASSUME ReportsTyped, \A i \in Bill : BookFits(i)
  PROVE  /\ SumAll(paids, Completed) = SumIn(Issued, PaidOf) + SumAll(paids, RefundedOf)
         /\ SumAll(paids, RefundedOf) \in Int
  <1> DEFINE N == DOMAIN paids
             c == [n \in N |-> Completed(paids[n])]
             l == [n \in N |-> Left(paids[n])]
             r == [n \in N |-> RefundedOf(paids[n])]
             at == [n \in N |-> paids[n].of]
             At(i) == [n \in N |-> IF at[n] = i THEN l[n] ELSE 0]
  <1>1. IsFiniteSet(N) /\ IsFiniteSet(Bill)
    BY PlacesFinite, ReportsAssumption DEF ReportsTyped
  <1>2. \A n \in N : paids[n] \in PaidDoc
    BY DEF ReportsTyped
  <1>3. /\ c \in [N -> Int] /\ l \in [N -> Int] /\ r \in [N -> Int] /\ at \in [N -> Bill]
        /\ \A n \in N : c[n] = l[n] + r[n]
    BY <1>2 DEF PaidDoc, Completed, Left, RefundedOf
  <1>4. \A i \in Bill : At(i) = LeftOf(paids, i)
    BY DEF LeftOf
  <1>5. SumAll(paids, Completed) = SumFunction(c) /\ SumAll(paids, RefundedOf) = SumFunction(r)
    BY DEF SumAll
  <1>6. SumFunction(l) = SumFunction([i \in Bill |-> SumFunction(At(i))])
    <2> HIDE DEF N, l, at
    <2> QED
      BY <1>1, <1>3, TotalExchange
  <1>7. [i \in Bill |-> SumFunction(At(i))] = PaidOf
    <2>1. \A i \in Bill : SumFunction(At(i)) = books[i].paid
      BY <1>4 DEF BookFits
    <2> HIDE DEF At
    <2> QED
      BY <2>1 DEF PaidOf
  <1>8. Within(Issued, PaidOf) = PaidOf
    <2>1. \A i \in Bill : i \notin Issued => books[i].paid = 0
      BY DEF BookFits, Issued, Made, NotIssued
    <2> QED
      BY <2>1 DEF Within, PaidOf
  <1> HIDE DEF N, c, l, r, at, At
  <1>9. SumFunction(c) = SumFunction(l) + SumFunction(r)
    BY <1>1, <1>3, TotalPlus
  <1>10. SumFunction(r) \in Int
    BY <1>1, <1>3, TotalInt
  <1> QED
    BY <1>5, <1>6, <1>7, <1>8, <1>9, <1>10 DEF SumIn

\* What notes took off is what invoices were credited.
LEMMA NotesTell ==
  ASSUME ReportsTyped, DocsFit, \A i \in Bill : BookFits(i)
  PROVE  /\ SumAll(notes, AppliedOf) = SumIn(Issued, CreditedOf) + SumAll(notes, Excess)
         /\ SumAll(notes, Excess) \in Int
  <1> DEFINE N == DOMAIN notes
             a == [n \in N |-> AppliedOf(notes[n])]
             x == [n \in N |-> Excess(notes[n])]
             o == [n \in N |-> IF books[notes[n].of].status \in NotIssued THEN 0 ELSE notes[n].off]
             at == [n \in N |-> notes[n].of]
             At(i) == [n \in N |-> IF at[n] = i THEN o[n] ELSE 0]
             None == [n \in N |-> 0]
  <1>1. IsFiniteSet(N) /\ IsFiniteSet(Bill)
    BY PlacesFinite, ReportsAssumption DEF ReportsTyped
  <1>2. \A n \in N : notes[n] \in NoteDoc
    BY DEF ReportsTyped
  <1>3. /\ a \in [N -> Int] /\ x \in [N -> Int] /\ o \in [N -> Int] /\ at \in [N -> Bill]
        /\ \A n \in N : a[n] = o[n] + x[n]
    BY <1>2 DEF NoteDoc, AppliedOf, Excess, DocsFit
  <1>4. \A i \in Bill : At(i) = IF books[i].status \in NotIssued THEN None ELSE OffOf(notes, i)
    BY DEF OffOf
  <1>5. SumAll(notes, AppliedOf) = SumFunction(a) /\ SumAll(notes, Excess) = SumFunction(x)
    BY DEF SumAll
  <1>6. SumFunction(o) = SumFunction([i \in Bill |-> SumFunction(At(i))])
    <2> HIDE DEF N, o, at
    <2> QED
      BY <1>1, <1>3, TotalExchange
  <1>7. SumFunction(None) = 0
    <2>1. None \in [N -> Int] /\ \A n \in N : None[n] = 0
      OBVIOUS
    <2> HIDE DEF None, N
    <2> QED
      BY <1>1, <2>1, TotalNothing
  <1>8. ASSUME NEW i \in Bill
        PROVE  SumFunction(At(i)) = IF i \in Issued THEN CreditedOf[i] ELSE 0
    <2>1. CASE books[i].status \in NotIssued
      <3>1. i \notin Issued
        BY <2>1 DEF Issued
      <3> QED
        BY <1>4, <1>7, <2>1, <3>1
    <2>2. CASE books[i].status = "none"
      <3>1. i \notin Issued /\ books[i].status \notin NotIssued
        BY <2>2 DEF Issued, Made, NotIssued
      <3>2. SumFunction(OffOf(notes, i)) = 0
        <4>1. books[i] \in Book
          BY DEF ReportsTyped
        <4>2. /\ books[i].paid \in Nat /\ books[i].due \in Nat
              /\ books[i].total = 0 /\ books[i].over = 0
          BY <2>2, <4>1 DEF Book, BookFits
        <4>3. SumFunction(OffOf(notes, i)) \in Nat
          BY OffIsNat DEF ReportsTyped
        <4>4. books[i].paid + books[i].due + SumFunction(OffOf(notes, i))
                <= books[i].total + books[i].over
          BY DEF BookFits
        <4> QED
          BY <4>2, <4>3, <4>4
      <3> QED
        BY <1>4, <3>1, <3>2
    <2>3. CASE books[i].status \notin NotIssued /\ books[i].status # "none"
      <3>1. i \in Issued
        BY <2>3 DEF Issued, Made
      <3> QED
        BY <1>4, <2>3, <3>1 DEF CreditedOf
    <2> QED
      BY <2>1, <2>2, <2>3
  <1>9. [i \in Bill |-> SumFunction(At(i))] = Within(Issued, CreditedOf)
    <2> HIDE DEF At
    <2> QED
      BY <1>8 DEF Within
  <1> HIDE DEF N, a, x, o, at, At, None
  <1>10. SumFunction(a) = SumFunction(o) + SumFunction(x)
    BY <1>1, <1>3, TotalPlus
  <1>11. SumFunction(x) \in Int
    BY <1>1, <1>3, TotalInt
  <1> QED
    BY <1>5, <1>6, <1>9, <1>10, <1>11 DEF SumIn

\* A statement ends with the debt.
LEMMA StatementFollows ==
  ASSUME ReportsTyped, DocsFit, DebtFits, \A i \in Bill : BookFits(i)
  PROVE  StatementTellsDebt
  <1> DEFINE rest == [i \in Bill |-> DueOf[i] + CreditedOf[i]]
             both == [i \in Bill |-> TotalOf[i] + CarriedOf[i]]
             lost == [i \in Bill |-> books[i].over - IF i \in Issued THEN 0 ELSE Carried(i)]
             total == SumIn(Issued, TotalOf)
             paid == SumIn(Issued, PaidOf)
             due == SumIn(Issued, DueOf)
             credited == SumIn(Issued, CreditedOf)
             carried == SumIn(Issued, CarriedOf)
             gone == SumFunction(AllGone(books, notes))
             back == SumFunction(TakenOff(backs))
             refunded == SumAll(paids, RefundedOf)
             excess == SumAll(notes, Excess)
  <1>1. Issued \in SUBSET Bill
    BY InvoiceSets
  <1>2. \A i \in Bill : SumFunction(OffOf(notes, i)) \in Nat
    BY OffIsNat DEF ReportsTyped
  <1>3. CarriedOf \in [Bill -> Int] /\ CreditedOf \in [Bill -> Int]
    BY <1>2, CarriedIs DEF CreditedOf
  <1>4. /\ rest \in [Bill -> Int] /\ both \in [Bill -> Int]
        /\ \A i \in Bill : /\ rest[i] = DueOf[i] + CreditedOf[i]
                            /\ both[i] = TotalOf[i] + CarriedOf[i]
    BY <1>3, FiguresTyped
  <1>5. \A i \in Bill : both[i] = PaidOf[i] + rest[i]
    <2> SUFFICES ASSUME NEW i \in Bill PROVE both[i] = PaidOf[i] + rest[i]
      OBVIOUS
    <2> DEFINE t == books[i].total
               p == books[i].paid
               d == books[i].due
               o == SumFunction(OffOf(notes, i))
    <2>1. /\ TotalOf[i] = t /\ PaidOf[i] = p /\ DueOf[i] = d /\ CreditedOf[i] = o
          /\ CarriedOf[i] = d + p + o - t
      BY CarriedIs DEF TotalOf, PaidOf, DueOf, CreditedOf, CarriedOf
    <2>2. t \in Nat /\ p \in Nat /\ d \in Nat /\ o \in Nat
      <3>1. books[i] \in Book
        BY DEF ReportsTyped
      <3> QED
        BY <1>2, <3>1 DEF Book
    <2>3. both[i] = TotalOf[i] + CarriedOf[i] /\ rest[i] = DueOf[i] + CreditedOf[i]
      BY <1>4
    <2> HIDE DEF t, p, d, o, both, rest
    <2> QED
      BY <2>1, <2>2, <2>3
  <1>6. ASSUME NEW i \in Bill
        PROVE  lost[i] = AllGone(books, notes)[i] + IF i \in Issued THEN CarriedOf[i] ELSE 0
    <2>1. /\ books[i].over - Carried(i) = AllGone(books, notes)[i]
          /\ CarriedOf[i] = Carried(i)
      BY CarriedIs DEF CarriedOf
    <2>2. books[i].over \in Int /\ Carried(i) \in Int
      BY <1>3 DEF ReportsTyped, Book, CarriedOf
    <2> DEFINE o == books[i].over
               c == Carried(i)
    <2>3. lost[i] = o - IF i \in Issued THEN 0 ELSE c
      OBVIOUS
    <2>4. o \in Int /\ c \in Int /\ o - c = AllGone(books, notes)[i] /\ CarriedOf[i] = c
      BY <2>1, <2>2
    <2> HIDE DEF o, c, lost
    <2> QED
      BY <2>3, <2>4
  <1>7. SumFunction(lost) = gone + carried
    <2> DEFINE g == AllGone(books, notes)
               w == Within(Issued, CarriedOf)
    <2>1. g \in [Bill -> Int]
      BY GoneIsInt
    <2>2. w \in [Bill -> Int] /\ \A i \in Bill : w[i] = IF i \in Issued THEN CarriedOf[i] ELSE 0
      BY <1>3 DEF Within
    <2>3. \A i \in Bill : lost[i] = g[i] + w[i]
      BY <1>6, <2>2
    <2>4. lost \in [Bill -> Int]
      <3>1. DOMAIN lost = Bill /\ lost = [i \in Bill |-> lost[i]]
        OBVIOUS
      <3>2. \A i \in Bill : g[i] + w[i] \in Int
        BY <2>1, <2>2
      <3> HIDE DEF lost, g, w
      <3> QED
        BY <2>3, <3>1, <3>2
    <2> HIDE DEF lost, g, w
    <2>5. SumFunction(lost) = SumFunction(g) + SumFunction(w)
      BY <2>1, <2>2, <2>3, <2>4, ReportsAssumption, TotalPlus
    <2> QED
      BY <2>5 DEF g, w, SumIn
  <1> HIDE DEF rest, both, lost
  <1>8. SumIn(Issued, both) = total + carried /\ SumIn(Issued, rest) = due + credited
    BY <1>1, <1>3, <1>4, FiguresTyped, SumsAdd
  <1>9. SumIn(Issued, both) = paid + SumIn(Issued, rest)
    BY <1>1, <1>4, <1>5, FiguresTyped, SumsAdd
  <1>10. /\ total \in Int /\ paid \in Int /\ due \in Int /\ credited \in Int
         /\ carried \in Int
    BY <1>1, <1>3, FiguresTyped, SumInIs
  <1>11. due = debt + again + back - gone /\ gone \in Int
    BY OutstandingIs
  <1>12. back \in Int
    BY TakenIsInt
  <1>13. SumAll(paids, Completed) = paid + refunded /\ refunded \in Int
    BY PaymentsTell
  <1>14. SumAll(notes, AppliedOf) = credited + excess /\ excess \in Int
    BY NotesTell
  <1>15. getCustomerStatement = total - SumAll(paids, Completed) - SumAll(notes, AppliedOf)
    BY <1>1, OversAre DEF getCustomerStatement, AppliedOf, SumAll
  <1>16. /\ SumAll(backs, LAMBDA r : IF r.method = "customer_balance" THEN r.total ELSE 0) = back
         /\ SumAll(paids, LAMBDA p : IF p.status = "completed" THEN p.refunded ELSE 0) = refunded
    BY DEF SumAll, TakenOff, RefundedOf
  <1>17. Over(Bill, LAMBDA i : books[i].over - IF i \in Issued THEN 0 ELSE Carried(i))
           = SumFunction(lost)
    BY DEF Over, lost
  <1>18. debt \in Int /\ again \in Int
    BY DEF ReportsTyped
  <1> DEFINE above == SumFunction(lost)
  <1>19. above = gone + carried
    BY <1>7
  <1> HIDE DEF total, paid, due, credited, carried, gone, back, refunded, excess, above
  <1>20. getCustomerStatement = debt + again + back - refunded - excess - above
    <2>1. total + carried = paid + (due + credited)
      BY <1>8, <1>9
    <2> QED
      BY <1>10, <1>11, <1>12, <1>13, <1>14, <1>15, <1>18, <1>19, <2>1
  <1> QED
    BY <1>16, <1>17, <1>20 DEF StatementTellsDebt, excess, above
-----------------------------------------------------------------------------
(* Reports: every step keeps the books *)

\* What the invariant says of every invoice and of the documents about it.
LEMMA BooksSay ==
  ASSUME ReportsInv
  PROVE  /\ \A i \in Bill :
              /\ books[i] \in Book
              /\ books[i].paid = SumFunction(LeftOf(paids, i))
              /\ SumFunction(OffOf(notes, i)) \in Nat
         /\ SumFunction(TakenOff(backs)) \in Int
         /\ \A n \in DOMAIN paids : paids[n] \in PaidDoc
         /\ IsFiniteSet(Made) /\ Cardinality(Made) \in Nat
         /\ \A i \in Made : Cardinality(Made) >= 1
         /\ Len(paids) \in Nat /\ Len(notes) \in Nat /\ Len(backs) \in Nat /\ spent \in Nat
  <1>1. ReportsTyped /\ \A i \in Bill : BookFits(i)
    BY DEF ReportsInv
  <1>2. \A i \in Bill : SumFunction(OffOf(notes, i)) \in Nat
    BY <1>1, OffIsNat DEF ReportsTyped
  <1>3. SumFunction(TakenOff(backs)) \in Int
    BY <1>1, TakenIsInt
  <1>4. IsFiniteSet(Made)
    BY <1>1, InvoiceSets
  <1>5. Cardinality(Made) \in Nat /\ \A i \in Made : Cardinality(Made) >= 1
    <2>1. Cardinality(Made) \in Nat
      BY <1>4, FS_CardinalityType
    <2>2. Made # {} => Cardinality(Made) # 0
      BY <1>4, FS_EmptySet
    <2> QED
      BY <2>1, <2>2
  <1> QED
    BY <1>1, <1>2, <1>3, <1>4, <1>5 DEF ReportsTyped, BookFits

\* A handler that leaves one invoice and what it adds to the account fitting keeps the books.
LEMMA OneBookWith ==
  ASSUME ReportsInv, NEW i \in Bill, NEW e \in Book, books' = [books EXCEPT ![i] = e],
         paids' \in Seq(PaidDoc), notes' \in Seq(NoteDoc), UNCHANGED <<backs, spent, today>>,
         RecordsFew', DocsFit', BookFits(i)',
         \A j \in Bill \ {i} :
           /\ SumFunction(LeftOf(paids', j)) = SumFunction(LeftOf(paids, j))
           /\ SumFunction(OffOf(notes', j)) = SumFunction(OffOf(notes, j)),
         debt' \in Int, again' \in Nat,
         debt' + again' = debt + again + (Owes(e) - Owes(books[i]))
                            + (Gone(e, SumFunction(OffOf(notes', i)))
                                 - Gone(books[i], SumFunction(OffOf(notes, i))))
  PROVE  ReportsInv'
  <1>0. \A b \in Book : Owes(b) \in Int /\ \A n \in Nat : Gone(b, n) \in Int
    BY GoneTyped DEF Owes, Book
  <1>1. /\ books \in [Bill -> Book] /\ debt \in Int /\ again \in Nat
        /\ Owes(e) \in Int /\ Owes(books[i]) \in Int
    <2>1. books \in [Bill -> Book] /\ debt \in Int /\ again \in Nat
      BY DEF ReportsInv, ReportsTyped
    <2> QED
      BY <1>0, <2>1
  <1>2. ReportsTyped'
    BY <1>1 DEF ReportsInv, ReportsTyped
  <1>3. ASSUME NEW j \in Bill PROVE BookFits(j)'
    <2>1. CASE j # i
      <3>1. books'[j] = books[j] /\ BookFits(j)
        BY <1>1, <2>1 DEF ReportsInv
      <3> QED
        BY <2>1, <3>1 DEF BookFits
    <2> QED
      BY <2>1
  <1>4. DebtFits'
    <2> DEFINE owe == SumFunction(AllOwe(books))
               owe1 == SumFunction(AllOwe(books'))
               gone == SumFunction(AllGone(books, notes))
               gone1 == SumFunction(AllGone(books', notes'))
               taken == SumFunction(TakenOff(backs))
               x == Owes(e) - Owes(books[i])
               y == Gone(e, SumFunction(OffOf(notes', i)))
                      - Gone(books[i], SumFunction(OffOf(notes, i)))
    <2>1. owe1 = owe + x /\ owe \in Int
      BY <1>1, OweChanged
    <2>2. gone1 = gone + y /\ gone \in Int
      <3>1. notes \in Seq(NoteDoc)
        BY DEF ReportsInv, ReportsTyped
      <3> QED
        BY <1>1, <3>1, GoneChanged
    <2>3. SumFunction(TakenOff(backs')) = taken /\ taken \in Int
      BY BooksSay
    <2>4. debt + again + taken = owe + gone
      BY DEF ReportsInv, DebtFits
    <2>5. x \in Int /\ y \in Int
      <3>1. /\ SumFunction(OffOf(notes, i)) \in Nat
            /\ SumFunction(OffOf(notes', i)) \in Nat
        BY BooksSay, OffIsNat
      <3>2. books[i] \in Book
        BY <1>1
      <3>3. /\ Gone(e, SumFunction(OffOf(notes', i))) \in Int
            /\ Gone(books[i], SumFunction(OffOf(notes, i))) \in Int
        BY <1>0, <3>1, <3>2
      <3> DEFINE p == Owes(e)
                 q == Owes(books[i])
                 g == Gone(e, SumFunction(OffOf(notes', i)))
                 h == Gone(books[i], SumFunction(OffOf(notes, i)))
      <3>4. p \in Int /\ q \in Int /\ g \in Int /\ h \in Int
        BY <1>1, <3>3
      <3>5. x = p - q /\ y = g - h
        OBVIOUS
      <3> HIDE DEF p, q, g, h, x, y
      <3> QED
        BY <3>4, <3>5
    <2> DEFINE k == debt + again
               k1 == debt' + again'
    <2>6. k \in Int /\ k1 = k + x + y /\ k + taken = owe + gone
      BY <1>1, <2>4
    <2>7. k1 + taken = owe1 + gone1
      <3> HIDE DEF owe, owe1, gone, gone1, taken, x, y, k, k1
      <3> QED
        BY <2>1, <2>2, <2>3, <2>5, <2>6
    <2> QED
      BY <2>3, <2>7 DEF DebtFits, owe1, gone1
  <1> QED
    BY <1>2, <1>3, <1>4 DEF ReportsInv

\* The same of a handler that puts nothing back and lets nothing go.
LEMMA OneBookKept ==
  ASSUME ReportsInv, NEW i \in Bill, NEW e \in Book, books' = [books EXCEPT ![i] = e],
         paids' \in Seq(PaidDoc), notes' \in Seq(NoteDoc), UNCHANGED <<again, backs, spent, today>>,
         RecordsFew', DocsFit', BookFits(i)',
         \A j \in Bill \ {i} :
           /\ SumFunction(LeftOf(paids', j)) = SumFunction(LeftOf(paids, j))
           /\ SumFunction(OffOf(notes', j)) = SumFunction(OffOf(notes, j)),
         debt' = debt + (Owes(e) - Owes(books[i])),
         Gone(e, SumFunction(OffOf(notes', i))) = Gone(books[i], SumFunction(OffOf(notes, i)))
  PROVE  ReportsInv'
  <1>1. \A b \in Book : Owes(b) \in Int /\ \A n \in Nat : Gone(b, n) \in Int
    BY GoneTyped DEF Owes, Book
  <1>2. books \in [Bill -> Book] /\ debt \in Int /\ again \in Nat
    BY DEF ReportsInv, ReportsTyped
  <1>3. Owes(e) \in Int /\ Owes(books[i]) \in Int
    BY <1>1, <1>2
  <1>4. /\ debt' \in Int /\ again' \in Nat
        /\ debt' + again' = debt + again + (Owes(e) - Owes(books[i]))
                              + (Gone(e, SumFunction(OffOf(notes', i)))
                                   - Gone(books[i], SumFunction(OffOf(notes, i))))
    <2> DEFINE g == Gone(books[i], SumFunction(OffOf(notes, i)))
               h == Gone(e, SumFunction(OffOf(notes', i)))
               x == Owes(e) - Owes(books[i])
    <2>1. g \in Int /\ h = g
      <3>1. SumFunction(OffOf(notes, i)) \in Nat /\ books[i] \in Book
        BY <1>2, BooksSay
      <3> QED
        BY <1>1, <3>1
    <2>2. x \in Int /\ debt' = debt + x /\ again' = again
      BY <1>3
    <2> HIDE DEF g, h, x
    <2>3. debt' \in Int /\ again' \in Nat /\ debt' + again' = debt + again + x + (h - g)
      BY <1>2, <2>1, <2>2
    <2> QED
      BY <2>3 DEF g, h, x
  <1> QED
    BY <1>4, OneBookWith

NewBook(f, status, paid, term) ==
  [status |-> status, sub |-> f.sub, off |-> f.off, tax |-> f.tax, qty |-> f.qty,
   total |-> f.sub - f.off + f.tax, paid |-> paid,
   due |-> Max({0, (f.sub - f.off + f.tax) - paid}),
   over |-> Max({0, paid - (f.sub - f.off + f.tax)}),
   issued |-> today, dueOn |-> today + term]

\* What an invoice is when it is written.
LEMMA WrittenIs ==
  ASSUME ReportsInv, NEW i \in Bill, i \notin Made, NEW f \in Figures, NEW status \in BookStatuses,
         NEW paid \in Nat, NEW term \in {0, 1}
  PROVE  /\ Written(i, f, status, paid, term)
              = [books EXCEPT ![i] = NewBook(f, status, paid, term)]
         /\ NewBook(f, status, paid, term) \in Book
         /\ LET total == f.sub - f.off + f.tax
                e == NewBook(f, status, paid, term)
            IN /\ e.status = status /\ e.sub = f.sub /\ e.off = f.off /\ e.tax = f.tax
               /\ e.total = total /\ e.paid = paid
               /\ e.due = (IF paid < total THEN total - paid ELSE 0)
               /\ e.over = (IF paid < total THEN 0 ELSE paid - total)
               /\ Gone(e, 0) = 0
         /\ f.sub - f.off + f.tax \in Nat \ {0} /\ f.off <= f.sub
         /\ Owes(books[i]) = 0 /\ Gone(books[i], SumFunction(OffOf(notes, i))) = 0
         /\ books[i].paid = 0 /\ SumFunction(OffOf(notes, i)) = 0
  <1>1. f \in [sub : Nat, off : Nat, tax : Nat, qty : Nat \ {0}]
    BY ReportsAssumption
  <1>2. f.off <= f.sub /\ f.sub - f.off + f.tax > 0
    BY ReportsAssumption
  <1>3. /\ f.sub \in Nat /\ f.off \in Nat /\ f.tax \in Nat /\ f.qty \in Nat
        /\ f.sub - f.off + f.tax \in Nat
    BY <1>1, <1>2
  <1>4. today \in 0..LastDay /\ today + term \in 0..(LastDay + 1)
    BY ReportsAssumption DEF ReportsInv, ReportsTyped
  <1>5. books[i].status = "none"
    BY DEF Made
  <1>6. /\ books[i].paid = 0 /\ SumFunction(OffOf(notes, i)) = 0
        /\ Gone(books[i], SumFunction(OffOf(notes, i))) = 0
    <2>1. books[i] \in Book /\ SumFunction(OffOf(notes, i)) \in Nat
      BY BooksSay
    <2>2. BookFits(i)
      BY DEF ReportsInv
    <2>3. books[i].paid \in Nat /\ books[i].due \in Nat
      BY <2>1 DEF Book
    <2>4. /\ books[i].paid + books[i].due + SumFunction(OffOf(notes, i)) <= 0 + 0
          /\ books[i].total = 0 /\ books[i].over = 0
      BY <1>5, <2>2 DEF BookFits
    <2>5. books[i].paid = 0 /\ books[i].due = 0 /\ SumFunction(OffOf(notes, i)) = 0
      BY <2>1, <2>3, <2>4
    <2> QED
      BY <2>4, <2>5 DEF Gone
  <1>7. Written(i, f, status, paid, term)
          = [books EXCEPT ![i] = NewBook(f, status, paid, term)]
    <2> DEFINE total == f.sub - f.off + f.tax
               e == [status |-> status, sub |-> f.sub, off |-> f.off, tax |-> f.tax,
                     qty |-> f.qty, total |-> total, paid |-> paid,
                     due |-> Max({0, total - paid}), over |-> Max({0, paid - total}),
                     issued |-> today, dueOn |-> today + term]
    <2>1. Written(i, f, status, paid, term) = [books EXCEPT ![i] = e]
      BY DEF Written
    <2>2. NewBook(f, status, paid, term) = e
      BY <1>3, <1>4 DEF NewBook
    <2> HIDE DEF e
    <2> QED
      BY <2>1, <2>2
  <1>8. LET total == f.sub - f.off + f.tax
            e == NewBook(f, status, paid, term)
        IN /\ e \in Book
           /\ e.status = status /\ e.sub = f.sub /\ e.off = f.off /\ e.tax = f.tax
           /\ e.total = total /\ e.paid = paid
           /\ e.due = (IF paid < total THEN total - paid ELSE 0)
           /\ e.over = (IF paid < total THEN 0 ELSE paid - total)
           /\ Gone(e, 0) = 0
    <2> DEFINE total == f.sub - f.off + f.tax
               e == NewBook(f, status, paid, term)
               d == Max({0, total - paid})
               o == Max({0, paid - total})
    <2>1. /\ d = (IF paid < total THEN total - paid ELSE 0)
          /\ o = (IF paid < total THEN 0 ELSE paid - total)
      <3>1. total \in Nat
        BY <1>3
      <3> HIDE DEF total
      <3>2. total - paid \in Int /\ paid - total \in Int
        BY <3>1
      <3>3. /\ d = (IF total - paid >= 0 THEN total - paid ELSE 0)
            /\ o = (IF paid - total >= 0 THEN paid - total ELSE 0)
        BY <3>2, MaxOf
      <3> HIDE DEF d, o
      <3> QED
        BY <3>1, <3>3
    <2>2. total \in Nat
      BY <1>3
    <2> HIDE DEF d, o, total
    <2>3. d \in Nat /\ o \in Nat /\ o + total - paid - d - 0 = 0
      BY <2>1, <2>2
    <2>4. e = [status |-> status, sub |-> f.sub, off |-> f.off, tax |-> f.tax, qty |-> f.qty,
               total |-> total, paid |-> paid, due |-> d, over |-> o,
               issued |-> today, dueOn |-> today + term]
      BY DEF NewBook, d, o, total
    <2> HIDE DEF e
    <2>5. /\ e \in Book
          /\ e.status = status /\ e.sub = f.sub /\ e.off = f.off /\ e.tax = f.tax
          /\ e.total = total /\ e.paid = paid /\ e.due = d /\ e.over = o
      BY <1>3, <1>4, <2>2, <2>3, <2>4 DEF Book
    <2>6. Gone(e, 0) = 0
      BY <2>3, <2>5 DEF Gone
    <2> QED
      BY <2>1, <2>5, <2>6 DEF total, e
  <1>9. Owes(books[i]) = 0
    BY <1>5 DEF Owes, OnAccount
  <1> QED
    BY <1>2, <1>3, <1>6, <1>7, <1>8, <1>9

\* An invoice more is made.
LEMMA OneMoreMade ==
  ASSUME ReportsInv, NEW i \in Bill, i \notin Made, NEW e \in Book, e.status # "none",
         books' = [books EXCEPT ![i] = e]
  PROVE  Cardinality(Made') = Cardinality(Made) + 1
  <1>1. books \in [Bill -> Book]
    BY DEF ReportsInv, ReportsTyped
  <1>2. Made' = Made \cup {i}
    BY <1>1 DEF Made
  <1> QED
    BY <1>2, BooksSay, FS_AddElement

\* createInvoice: an invoice that is sent is due in full.
LEMMA InvoicingKeeps ==
  ASSUME ReportsInv, NEW i \in Bill, NEW f \in Figures,
         NEW s \in {"draft", "pending_approval", "sent"}, NEW t \in {0, 1}, Invoicing(i, f, s, t)
  PROVE  ReportsInv'
  <1> DEFINE total == f.sub - f.off + f.tax
             e == NewBook(f, s, 0, t)
  <1>1. /\ i \notin Made /\ books' = Written(i, f, s, 0, t)
        /\ debt' = debt + IF s = "sent" THEN books'[i].total ELSE 0
        /\ UNCHANGED <<paids, notes, again, backs, spent, today>>
    BY DEF Invoicing
  <1>2. s \in BookStatuses /\ 0 \in Nat
    BY DEF BookStatuses
  <1>3. /\ Written(i, f, s, 0, t) = [books EXCEPT ![i] = e]
        /\ e \in Book /\ total \in Nat \ {0} /\ f.off <= f.sub
        /\ Owes(books[i]) = 0 /\ books[i].paid = 0 /\ SumFunction(OffOf(notes, i)) = 0
        /\ Gone(books[i], SumFunction(OffOf(notes, i))) = 0 /\ Gone(e, 0) = 0
        /\ e.status = s /\ e.sub = f.sub /\ e.off = f.off /\ e.tax = f.tax
        /\ e.total = total /\ e.paid = 0
        /\ e.due = (IF 0 < total THEN total - 0 ELSE 0)
        /\ e.over = (IF 0 < total THEN 0 ELSE 0 - total)
    BY <1>1, <1>2, WrittenIs
  <1>4. books \in [Bill -> Book] /\ debt \in Int
    BY DEF ReportsInv, ReportsTyped
  <1>5. books' = [books EXCEPT ![i] = e] /\ books'[i] = e
    BY <1>1, <1>3, <1>4
  <1>6. /\ e.status = s /\ e.sub = f.sub /\ e.off = f.off /\ e.tax = f.tax /\ e.total = total
        /\ e.paid = 0 /\ e.due = total /\ e.over = 0
    <2> HIDE DEF total, e
    <2> QED
      BY <1>3
  <1> HIDE DEF total, e
  <1>7. debt' = debt + (Owes(e) - Owes(books[i]))
    BY <1>1, <1>3, <1>4, <1>5, <1>6 DEF Owes, OnAccount
  <1>8. BookFits(i)'
    <2>1. /\ SumFunction(LeftOf(paids', i)) = 0
          /\ SumFunction(OffOf(notes', i)) = 0
      BY <1>1, <1>3, BooksSay
    <2>2. total = f.sub - f.off + f.tax
      BY DEF total
    <2> QED
      BY <1>3, <1>5, <1>6, <2>1, <2>2 DEF BookFits
  <1>9. RecordsFew'
    <2>1. Cardinality(Made') = Cardinality(Made) + 1
      BY <1>1, <1>3, <1>5, <1>6, OneMoreMade
    <2>2. Records' = Records
      BY <1>1 DEF Records
    <2>3. Records \in Int /\ Cardinality(Made) \in Nat /\ MaxRecords \in Nat
      BY BooksSay, ReportsAssumption DEF Records
    <2> QED
      BY <2>1, <2>2, <2>3 DEF ReportsInv, RecordsFew
  <1>10. DocsFit' /\ paids' \in Seq(PaidDoc) /\ notes' \in Seq(NoteDoc)
    BY <1>1 DEF ReportsInv, ReportsTyped, DocsFit
  <1>11. Gone(e, SumFunction(OffOf(notes', i))) = Gone(books[i], SumFunction(OffOf(notes, i)))
    BY <1>1, <1>3
  <1> QED
    BY <1>1, <1>3, <1>5, <1>7, <1>8, <1>9, <1>10, <1>11, OneBookKept

\* Where one more payment is stored, or none because it is of nothing.
LEMMA PaymentStored ==
  ASSUME ReportsInv, NEW i \in Bill, NEW a \in Nat,
         paids' = IF a = 0 THEN paids
                  ELSE Append(paids, [of |-> i, amount |-> a, refunded |-> 0,
                                      status |-> "completed"])
  PROVE  /\ paids' \in Seq(PaidDoc) /\ Len(paids') \in Nat /\ Len(paids') <= Len(paids) + 1
         /\ \A n \in DOMAIN paids' :
              paids'[n].status = "completed" => paids'[n].refunded < paids'[n].amount
         /\ \A j \in Bill : SumFunction(LeftOf(paids', j))
                              = SumFunction(LeftOf(paids, j)) + IF j = i THEN a ELSE 0
  <1> DEFINE q == [of |-> i, amount |-> a, refunded |-> 0, status |-> "completed"]
  <1>1. /\ paids \in Seq(PaidDoc)
        /\ \A n \in DOMAIN paids :
             paids[n].status = "completed" => paids[n].refunded < paids[n].amount
    BY DEF ReportsInv, ReportsTyped, DocsFit
  <1>2. \A j \in Bill : SumFunction(LeftOf(paids, j)) \in Int
    <2>1. \A j \in Bill : books[j].paid = SumFunction(LeftOf(paids, j)) /\ books[j] \in Book
      BY BooksSay
    <2> QED
      BY <2>1 DEF Book
  <1>3. CASE a = 0
    <2>1. paids' = paids
      BY <1>3
    <2> QED
      BY <1>1, <1>2, <1>3, <2>1
  <1>4. CASE a # 0
    <2>1. q \in PaidDoc /\ q.of = i /\ q.amount = a /\ q.refunded = 0 /\ q.status = "completed"
      BY DEF PaidDoc
    <2>2. paids' = Append(paids, q)
      BY <1>4
    <2> HIDE DEF q
    <2>3. Left(q) = a
      BY <2>1 DEF Left
    <2>4. \A j \in Bill : SumFunction(LeftOf(Append(paids, q), j))
                            = SumFunction(LeftOf(paids, j)) + IF q.of = j THEN Left(q) ELSE 0
      BY <1>1, <2>1, LeftAdded
    <2>5. \A n \in DOMAIN paids' : paids'[n] = q \/ (n \in DOMAIN paids /\ paids'[n] = paids[n])
      BY <1>1, <2>2
    <2> QED
      BY <1>1, <1>4, <2>1, <2>2, <2>3, <2>4, <2>5
  <1> QED
    BY <1>3, <1>4

\* posCheckout: what is not paid is due.
LEMMA SellingKeeps ==
  ASSUME ReportsInv, NEW i \in Bill, NEW f \in Figures, NEW paid \in Paying \cup {0},
         Selling(i, f, paid)
  PROVE  ReportsInv'
  <1> DEFINE total == f.sub - f.off + f.tax
             s == IF paid < total THEN "partially_paid" ELSE "paid"
             e == NewBook(f, s, paid, 0)
  <1>1. /\ i \notin Made /\ books' = Written(i, f, s, paid, 0)
        /\ paids' = IF paid = 0 THEN paids
                    ELSE Append(paids, [of |-> i, amount |-> paid, refunded |-> 0,
                                        status |-> "completed"])
        /\ debt' = debt + books'[i].due
        /\ UNCHANGED <<notes, again, backs, spent, today>>
    BY DEF Selling
  <1>2. /\ s \in BookStatuses /\ paid \in Nat
        /\ f \in [sub : Nat, off : Nat, tax : Nat, qty : Nat \ {0}]
    BY ReportsAssumption DEF BookStatuses
  <1>3. /\ Written(i, f, s, paid, 0) = [books EXCEPT ![i] = e]
        /\ e \in Book /\ total \in Nat \ {0} /\ f.off <= f.sub
        /\ Owes(books[i]) = 0 /\ books[i].paid = 0 /\ SumFunction(OffOf(notes, i)) = 0
        /\ Gone(books[i], SumFunction(OffOf(notes, i))) = 0 /\ Gone(e, 0) = 0
        /\ e.status = s /\ e.sub = f.sub /\ e.off = f.off /\ e.tax = f.tax
        /\ e.total = total /\ e.paid = paid
        /\ e.due = (IF paid < total THEN total - paid ELSE 0)
        /\ e.over = (IF paid < total THEN 0 ELSE paid - total)
    <2> HIDE DEF s
    <2> QED
      BY <1>1, <1>2, WrittenIs
  <1>4. books \in [Bill -> Book] /\ debt \in Int
    BY DEF ReportsInv, ReportsTyped
  <1>5. books' = [books EXCEPT ![i] = e] /\ books'[i] = e
    BY <1>1, <1>3, <1>4
  <1> HIDE DEF total, e
  <1>6. e.due \in Nat /\ e.over \in Nat /\ paid + e.due = total + e.over
    BY <1>2, <1>3
  <1>7. s \in {"partially_paid", "paid"} /\ (s = "paid" => e.due = 0)
    BY <1>2, <1>3
  <1>8. /\ paids' \in Seq(PaidDoc) /\ Len(paids') \in Nat /\ Len(paids') <= Len(paids) + 1
        /\ \A n \in DOMAIN paids' :
             paids'[n].status = "completed" => paids'[n].refunded < paids'[n].amount
        /\ \A j \in Bill : SumFunction(LeftOf(paids', j))
                             = SumFunction(LeftOf(paids, j)) + IF j = i THEN paid ELSE 0
    BY <1>1, <1>2, PaymentStored
  <1>9. debt' = debt + (Owes(e) - Owes(books[i]))
    <2>1. debt' = debt + e.due /\ Owes(books[i]) = 0
      BY <1>1, <1>3, <1>5
    <2>2. Owes(e) = e.due
      <3> HIDE DEF s
      <3> QED
        BY <1>3, <1>7 DEF Owes, OnAccount
    <2> QED
      BY <1>4, <1>6, <2>1, <2>2
  <1>10. BookFits(i)'
    <2>1. /\ SumFunction(LeftOf(paids', i)) = paid
          /\ SumFunction(OffOf(notes', i)) = 0
      <3>1. SumFunction(LeftOf(paids, i)) = 0
        BY <1>3, BooksSay
      <3> QED
        BY <1>1, <1>2, <1>3, <1>8, <3>1
    <2>2. total = f.sub - f.off + f.tax
      BY DEF total
    <2>3. total <= paid + e.due + 0 /\ paid + e.due + 0 <= total + e.over
      BY <1>2, <1>3, <1>6
    <2> HIDE DEF s
    <2> QED
      BY <1>3, <1>5, <1>7, <2>1, <2>2, <2>3 DEF BookFits
  <1>11. RecordsFew'
    <2>1. Cardinality(Made') = Cardinality(Made) + 1
      <3>1. e.status # "none"
        BY <1>3, <1>7
      <3> QED
        BY <1>1, <1>3, <1>5, <3>1, OneMoreMade
    <2>2. Records' = Len(paids') + Len(notes) + Len(backs) + IF spent > 0 THEN 1 ELSE 0
      BY <1>1 DEF Records
    <2>3. /\ Len(paids) \in Nat /\ Len(notes) \in Nat /\ Len(backs) \in Nat
          /\ Cardinality(Made) \in Nat /\ MaxRecords \in Nat
      BY BooksSay, ReportsAssumption
    <2>4. Records <= MaxRecords + Cardinality(Made)
      BY DEF ReportsInv, RecordsFew
    <2> QED
      BY <1>8, <2>1, <2>2, <2>3, <2>4 DEF Records, RecordsFew
  <1>12. DocsFit' /\ notes' \in Seq(NoteDoc)
    BY <1>1, <1>8 DEF ReportsInv, ReportsTyped, DocsFit
  <1>13. \A j \in Bill \ {i} : /\ SumFunction(LeftOf(paids', j)) = SumFunction(LeftOf(paids, j))
                               /\ SumFunction(OffOf(notes', j)) = SumFunction(OffOf(notes, j))
    <2>1. \A j \in Bill : books[j].paid = SumFunction(LeftOf(paids, j)) /\ books[j].paid \in Int
      BY BooksSay DEF Book
    <2> QED
      BY <1>1, <1>8, <2>1
  <1>14. Gone(e, SumFunction(OffOf(notes', i))) = Gone(books[i], SumFunction(OffOf(notes, i)))
    BY <1>1, <1>3
  <1> QED
    BY <1>1, <1>3, <1>5, <1>8, <1>9, <1>10, <1>11, <1>12, <1>13, <1>14, OneBookKept

\* applyStatusChange: only an invoice on account adds what is due to it.
LEMMA MovingKeeps ==
  ASSUME ReportsInv, NEW i \in Bill, NEW to \in AskedStatus, Moving(i, to)
  PROVE  ReportsInv'
  <1> DEFINE b == books[i]
             from == b.status
             e == [b EXCEPT !.status = to]
  <1>1. /\ from \in DOMAIN Steps /\ to \in Steps[from] /\ books' = [books EXCEPT ![i].status = to]
        /\ debt' = debt + CASE to \in OnAccount /\ from \notin OnAccount -> b.due
                            [] to \notin OnAccount /\ from \in OnAccount -> -b.due
                            [] OTHER -> 0
        /\ UNCHANGED <<paids, notes, again, backs, spent, today>>
    BY DEF Moving
  <1>2. books \in [Bill -> Book] /\ debt \in Int /\ b \in Book
    BY DEF ReportsInv, ReportsTyped
  <1>3. /\ e.status = to /\ e.sub = b.sub /\ e.off = b.off /\ e.tax = b.tax /\ e.total = b.total
        /\ e.paid = b.paid /\ e.due = b.due /\ b.due \in Nat /\ e.over = b.over
        /\ e \in Book
    <2>1. to \in BookStatuses
      BY DEF AskedStatus, BookStatuses
    <2> QED
      BY <1>2, <2>1 DEF Book
  <1>4. books' = [books EXCEPT ![i] = e] /\ books'[i] = e
    BY <1>1, <1>2
  <1>5. /\ from \in {"draft", "pending_approval", "approved", "sent", "partially_paid", "overdue"}
        /\ to # "none" /\ to # "paid"
        /\ from \in {"partially_paid", "overdue"} => to \in {"partially_paid", "overdue"}
    BY <1>1 DEF Steps, AskedStatus
  <1> HIDE DEF b, e
  <1>6. debt' = debt + (Owes(e) - Owes(b))
    BY <1>1, <1>2, <1>3 DEF Owes
  <1>7. BookFits(i)'
    <2>1. BookFits(i)
      BY DEF ReportsInv
    <2> QED
      BY <1>1, <1>3, <1>4, <1>5, <2>1 DEF BookFits, b
  <1>8. RecordsFew'
    <2>1. Made' = Made
      BY <1>2, <1>3, <1>4, <1>5 DEF Made, b
    <2>2. Records' = Records
      BY <1>1 DEF Records
    <2> QED
      BY <2>1, <2>2 DEF ReportsInv, RecordsFew
  <1>9. DocsFit' /\ paids' \in Seq(PaidDoc) /\ notes' \in Seq(NoteDoc)
    BY <1>1 DEF ReportsInv, ReportsTyped, DocsFit
  <1>10. debt' = debt + (Owes(e) - Owes(books[i]))
    BY <1>6 DEF b
  <1>11. Gone(e, SumFunction(OffOf(notes', i))) = Gone(books[i], SumFunction(OffOf(notes, i)))
    BY <1>1, <1>3 DEF Gone, b
  <1> QED
    BY <1>1, <1>3, <1>4, <1>7, <1>8, <1>9, <1>10, <1>11, OneBookKept

\* What changes when a handler sets what an invoice was paid and what is due.
LEMMA StandingIs ==
  ASSUME NEW b \in Book, NEW status \in BookStatuses, NEW paid \in Nat, NEW due \in Nat,
         NEW e, e = Standing(b, status, paid, due)
  PROVE  /\ e \in Book /\ e.status = status /\ e.sub = b.sub /\ e.off = b.off
         /\ e.tax = b.tax /\ e.total = b.total /\ e.paid = paid /\ e.due = due
         /\ e.over = b.over
BY DEF Standing, Book

\* As many invoices are made as before, and there was room for one more document.
LEMMA RoomForOne ==
  ASSUME ReportsInv, Made' = Made, Records < MaxRecords, spent' = spent,
         Len(paids') + Len(notes') + Len(backs') = Len(paids) + Len(notes) + Len(backs) + 1
  PROVE  RecordsFew'
  <1>1. /\ Len(paids) \in Nat /\ Len(notes) \in Nat /\ Len(backs) \in Nat
        /\ Cardinality(Made) \in Nat /\ MaxRecords \in Nat
    BY BooksSay, ReportsAssumption
  <1> DEFINE k == Len(paids) + Len(notes) + Len(backs)
             k1 == Len(paids') + Len(notes') + Len(backs')
             x == IF spent > 0 THEN 1 ELSE 0
  <1>2. Records = k + x /\ Records' = k1 + x
    BY DEF Records
  <1>3. k \in Nat /\ x \in Nat /\ k1 = k + 1
    BY <1>1
  <1> HIDE DEF k, k1, x
  <1>4. Records' <= MaxRecords + Cardinality(Made')
    BY <1>1, <1>2, <1>3
  <1> QED
    BY <1>4 DEF RecordsFew

\* settleInvoice: what is paid is not due any more, but what notes took off is again.
LEMMA ReceivingKeeps ==
  ASSUME ReportsInv, NEW i \in Bill, NEW a \in Paying, Receiving(i, a)
  PROVE  ReportsInv'
  <1> DEFINE b == books[i]
             c == SumFunction(OffOf(notes, i))
             left == b.total - (b.paid + a)
             rest == Max({0, left})
             s == IF left <= 0 THEN "paid" ELSE "partially_paid"
             e == Standing(b, s, b.paid + a, rest)
             q == [of |-> i, amount |-> a, refunded |-> 0, status |-> "completed"]
  <1>1. /\ b.status \in OnAccount /\ a <= b.due /\ Records < MaxRecords
        /\ books' = [books EXCEPT ![i] = e] /\ paids' = Append(paids, q)
        /\ notes' = PutBack(i) /\ again' = again + c
        /\ debt' = debt - a
        /\ UNCHANGED <<backs, spent, today>>
    BY DEF Receiving, OffNow, OffOf, SumAll
  <1>2. /\ books \in [Bill -> Book] /\ debt \in Int /\ again \in Nat /\ b \in Book
        /\ paids \in Seq(PaidDoc) /\ notes \in Seq(NoteDoc)
    BY DEF ReportsInv, ReportsTyped
  <1>3. /\ a \in Nat /\ a > 0 /\ b.paid \in Nat /\ b.due \in Nat /\ b.status \in BookStatuses
        /\ b.total \in Nat /\ b.over \in Nat
    BY <1>2, ReportsAssumption DEF Book
  <1>4. /\ BookFits(i) /\ SumFunction(LeftOf(paids, i)) = b.paid
        /\ c \in Nat /\ b.status # "none"
    BY <1>1, BooksSay DEF ReportsInv, OnAccount
  <1>5. /\ b.total = b.sub - b.off + b.tax /\ b.off <= b.sub
        /\ b.total <= b.paid + b.due + c /\ b.paid + b.due + c <= b.total + b.over
    BY <1>4 DEF BookFits
  <1>6. left \in Int /\ rest = IF left >= 0 THEN left ELSE 0
    <2>1. left \in Int
      BY <1>3
    <2> HIDE DEF left
    <2> QED
      BY <2>1, MaxOf
  <1>7. rest \in Nat
    BY <1>6
  <1>8. /\ e \in Book /\ e.status = s /\ e.sub = b.sub /\ e.off = b.off /\ e.tax = b.tax
        /\ e.total = b.total /\ e.paid = b.paid + a /\ e.due = rest /\ e.over = b.over
    <2> DEFINE x == b.paid + a
    <2>1. s \in BookStatuses /\ x \in Nat /\ rest \in Nat /\ b \in Book
      BY <1>2, <1>3, <1>7 DEF BookStatuses
    <2>2. e = Standing(b, s, x, rest)
      OBVIOUS
    <2> HIDE DEF b, s, e, x, rest
    <2>3. /\ e \in Book /\ e.status = s /\ e.sub = b.sub /\ e.off = b.off /\ e.tax = b.tax
          /\ e.total = b.total /\ e.paid = x /\ e.due = rest /\ e.over = b.over
      BY <2>1, <2>2, StandingIs
    <2> QED
      BY <2>3 DEF x
  <1>9. s \in {"paid", "partially_paid"} /\ (s = "paid" => rest = 0)
    <2> HIDE DEF left, rest
    <2> QED
      BY <1>6
  <1> HIDE DEF e, s, left, rest
  <1>10. books'[i] = e
    BY <1>1, <1>2
  <1>11. /\ notes' \in Seq(NoteDoc) /\ Len(notes') = Len(notes) /\ DOMAIN notes' = DOMAIN notes
         /\ \A n \in DOMAIN notes :
              notes'[n].status = notes[n].status /\ notes'[n].off \in {0, notes[n].off}
         /\ \A j \in Bill : SumFunction(OffOf(notes', j))
                              = IF j = i THEN 0 ELSE SumFunction(OffOf(notes, j))
    <2>1. notes' = PutBack(i) /\ notes \in Seq(NoteDoc)
      BY <1>1, <1>2
    <2> HIDE DEF b, c, q
    <2> QED
      BY <2>1, OffPutBack
  <1>12. /\ paids' \in Seq(PaidDoc)
         /\ \A j \in Bill : SumFunction(LeftOf(paids', j))
                              = SumFunction(LeftOf(paids, j)) + IF j = i THEN a ELSE 0
         /\ \A n \in DOMAIN paids' :
              paids'[n].status = "completed" => paids'[n].refunded < paids'[n].amount
    <2>1. paids' = IF a = 0 THEN paids ELSE Append(paids, q)
      BY <1>1, <1>3
    <2> QED
      BY <1>3, <2>1, PaymentStored
  <1>13. /\ debt' \in Int /\ again' \in Nat
         /\ debt' + again' = debt + again + (Owes(e) - Owes(b))
                               + (Gone(e, SumFunction(OffOf(notes', i))) - Gone(b, c))
    <2> DEFINE due == b.due
               paid == b.paid
               total == b.total
               over == b.over
    <2>1. Owes(b) = due
      BY <1>1 DEF Owes
    <2>2. Owes(e) = rest
      BY <1>8, <1>9 DEF Owes, OnAccount
    <2>3. Gone(b, c) = over + total - paid - due - c
      BY DEF Gone
    <2>4. Gone(e, SumFunction(OffOf(notes', i))) = over + total - (paid + a) - rest - 0
      BY <1>8, <1>11 DEF Gone
    <2>5. /\ due \in Nat /\ paid \in Nat /\ total \in Nat /\ over \in Nat
          /\ again' = again + c /\ debt' = debt - a
      BY <1>1, <1>3
    <2> HIDE DEF b, c, due, paid, total, over
    <2> QED
      BY <1>2, <1>3, <1>4, <1>7, <2>1, <2>2, <2>3, <2>4, <2>5
  <1>14. BookFits(i)'
    <2>1. SumFunction(LeftOf(paids', i)) = b.paid + a
      BY <1>12, <1>4
    <2>2. SumFunction(OffOf(notes', i)) = 0
      BY <1>11
    <2>3. b.total <= (b.paid + a) + rest + 0 /\ (b.paid + a) + rest + 0 <= b.total + b.over
      <3> DEFINE due == b.due
                 paid == b.paid
                 total == b.total
                 over == b.over
      <3>1. /\ due \in Nat /\ paid \in Nat /\ total \in Nat /\ over \in Nat
            /\ a <= due /\ total <= paid + due + c /\ paid + due + c <= total + over
            /\ rest = IF total - (paid + a) >= 0 THEN total - (paid + a) ELSE 0
        BY <1>1, <1>3, <1>5, <1>6 DEF left
      <3> HIDE DEF b, c, due, paid, total, over
      <3>2. total <= (paid + a) + rest + 0 /\ (paid + a) + rest + 0 <= total + over
        BY <1>3, <1>4, <3>1
      <3> QED
        BY <3>2 DEF due, paid, total, over
    <2> HIDE DEF b, c
    <2> QED
      BY <1>8, <1>9, <1>10, <1>5, <2>1, <2>2, <2>3 DEF BookFits
  <1>15. RecordsFew'
    <2>1. Made' = Made
      BY <1>1, <1>2, <1>8, <1>9 DEF Made, OnAccount
    <2>2. /\ Len(paids') = Len(paids) + 1
          /\ Len(paids) \in Nat /\ Len(notes) \in Nat /\ Len(backs) \in Nat
      BY <1>1, <1>2, BooksSay
    <2>3. Len(paids') + Len(notes') + Len(backs') = Len(paids) + Len(notes) + Len(backs) + 1
      BY <1>1, <1>11, <2>2
    <2> QED
      BY <1>1, <2>1, <2>3, RoomForOne
  <1>16. DocsFit'
    <2>1. \A n \in DOMAIN notes : notes[n].status # "applied" => notes[n].off = 0
      BY DEF ReportsInv, DocsFit
    <2>2. \A n \in DOMAIN notes' : notes'[n].status # "applied" => notes'[n].off = 0
      BY <1>11, <2>1
    <2> QED
      BY <1>12, <2>2 DEF DocsFit
  <1>17. \A j \in Bill \ {i} : /\ SumFunction(LeftOf(paids', j)) = SumFunction(LeftOf(paids, j))
                               /\ SumFunction(OffOf(notes', j)) = SumFunction(OffOf(notes, j))
    <2>1. \A j \in Bill : books[j].paid = SumFunction(LeftOf(paids, j)) /\ books[j].paid \in Int
      BY BooksSay DEF Book
    <2> QED
      BY <1>12, <1>11, <2>1
  <1> QED
    BY <1>1, <1>8, <1>12, <1>13, <1>14, <1>15, <1>16, <1>17, <1>11, OneBookWith

\* refundPayment: what the payment still holds is no more than its invoice was paid; where the
\* total limits what is due again, something was paid above it that the invoice lets go.
LEMMA RefundingKeeps ==
  ASSUME ReportsInv, NEW n \in DOMAIN paids, NEW a \in Paying, Refunding(n, a),
         NEW i \in Bill, i = paids[n].of
  PROVE  ReportsInv'
  <1> DEFINE p == paids[n]
             b == books[i]
             t == IF p.refunded + a = p.amount THEN "refunded" ELSE p.status
             q == [of |-> i, amount |-> p.amount, refunded |-> p.refunded + a, status |-> t]
             s == IF b.paid - a <= 0 THEN "sent" ELSE "partially_paid"
             d == Min({b.total, b.due + a})
             e == Standing(b, s, Max({0, b.paid - a}), d)
  <1>1. /\ p.status = "completed" /\ p.refunded + a <= p.amount
        /\ paids' = [paids EXCEPT ![n] = q] /\ books' = [books EXCEPT ![i] = e]
        /\ debt' = debt + a
        /\ UNCHANGED <<notes, again, backs, spent, today>>
    BY DEF Refunding
  <1>2. /\ books \in [Bill -> Book] /\ debt \in Int /\ paids \in Seq(PaidDoc)
        /\ p \in PaidDoc /\ p.of = i /\ b \in Book
    BY DEF ReportsInv, ReportsTyped
  <1>3. /\ a \in Nat /\ a > 0 /\ p.amount \in Int /\ p.refunded \in Nat
        /\ b.paid \in Nat /\ b.due \in Nat /\ b.total \in Nat /\ b.status \in BookStatuses
        /\ b.over \in Nat
    <2>1. a \in Nat /\ a > 0
      BY ReportsAssumption
    <2>2. p.amount \in Int /\ p.refunded \in Nat
      BY <1>2 DEF PaidDoc
    <2>3. /\ b.paid \in Nat /\ b.due \in Nat /\ b.total \in Nat /\ b.status \in BookStatuses
          /\ b.over \in Nat
      BY <1>2 DEF Book
    <2> QED
      BY <2>1, <2>2, <2>3
  <1>4. q \in PaidDoc /\ q.of = i /\ Left(q) - Left(p) = -a
        /\ (q.status = "completed" => q.refunded < q.amount)
    <2>1. q \in PaidDoc /\ q.of = i /\ q.amount = p.amount /\ q.refunded = p.refunded + a
          /\ q.status = t
      BY <1>1, <1>2, <1>3, SMTT(30) DEF PaidDoc
    <2> QED
      BY <1>1, <1>3, <2>1 DEF Left
  <1>5. /\ BookFits(i) /\ SumFunction(LeftOf(paids, i)) = b.paid
        /\ SumFunction(OffOf(notes, i)) \in Nat
    BY <1>2, BooksSay DEF ReportsInv
  <1>6. a <= b.paid
    <2> DEFINE N == DOMAIN paids
               f == LeftOf(paids, i)
    <2>1. \A m \in N : Left(paids[m]) \in Nat
      <3>1. \A m \in N : paids[m] \in PaidDoc
        BY <1>2
      <3>2. \A m \in N : paids[m].status = "completed" => paids[m].refunded < paids[m].amount
        BY DEF ReportsInv, DocsFit
      <3> QED
        BY <3>1, <3>2 DEF Left, PaidDoc
    <2>2. f \in [N -> Nat] /\ IsFiniteSet(N) /\ f[n] = Left(p)
      BY <1>2, <2>1, PlacesFinite DEF LeftOf
    <2> HIDE DEF f, N
    <2>3. \A m \in N : f[m] <= SumFunction(f)
      BY <2>2, TotalNat
    <2>4. Left(p) <= b.paid
      BY <1>5, <2>2, <2>3 DEF f, N
    <2>5. a <= Left(p) /\ Left(p) \in Int
      BY <1>1, <1>3 DEF Left
    <2> QED
      BY <1>3, <2>4, <2>5
  <1>7. /\ b.total = b.sub - b.off + b.tax /\ b.off <= b.sub
        /\ b.total <= b.paid + b.due + SumFunction(OffOf(notes, i))
        /\ b.paid + b.due + SumFunction(OffOf(notes, i)) <= b.total + b.over
        /\ b.status = "paid" => b.due = 0
        /\ b.status \in {"partially_paid", "overdue", "paid"}
    <2>1. b.paid # 0
      BY <1>3, <1>6
    <2> QED
      BY <1>5, <2>1 DEF BookFits
  <1>8. /\ Max({0, b.paid - a}) = b.paid - a
        /\ d \in Nat /\ d <= b.due + a /\ d <= b.total /\ (d = b.total \/ d = b.due + a)
    <2> DEFINE x == b.paid - a
               y == b.due + a
               z == b.total
    <2>1. x \in Nat /\ y \in Nat /\ z \in Nat
      BY <1>3, <1>6
    <2>2. d = Min({z, y})
      OBVIOUS
    <2> HIDE DEF x, y, z, d
    <2>3. Max({0, x}) = x /\ d \in Nat /\ d <= y /\ d <= z
      BY <2>1, <2>2, MaxIs, MinIs
    <2>4. y <= z \/ z <= y
      BY <2>1
    <2>5. d = z \/ d = y
      BY <2>1, <2>2, <2>4, MinIs
    <2> QED
      BY <2>3, <2>5 DEF x, y, z
  <1> HIDE DEF d
  <1>9. /\ e \in Book /\ e.status = s /\ e.sub = b.sub /\ e.off = b.off /\ e.tax = b.tax
        /\ e.total = b.total /\ e.paid = b.paid - a /\ e.due = d /\ e.over = b.over
    <2> DEFINE x == b.paid - a
    <2>1. s \in BookStatuses /\ x \in Nat /\ d \in Nat /\ b \in Book
      BY <1>2, <1>3, <1>6, <1>8, SMTT(30) DEF BookStatuses
    <2>2. e = Standing(b, s, x, d)
      BY <1>8
    <2> HIDE DEF b, s, e, x
    <2>3. /\ e \in Book /\ e.status = s /\ e.sub = b.sub /\ e.off = b.off /\ e.tax = b.tax
          /\ e.total = b.total /\ e.paid = x /\ e.due = d /\ e.over = b.over
      BY <2>1, <2>2, StandingIs
    <2> QED
      BY <2>3 DEF x
  <1>10. s \in {"sent", "partially_paid"} /\ (s = "sent" => b.paid - a = 0)
    BY <1>3, <1>6
  <1> HIDE DEF e, s, q
  <1>11. books'[i] = e
    BY <1>1, <1>2
  <1>12. /\ paids' \in Seq(PaidDoc) /\ DocsFit' /\ notes' \in Seq(NoteDoc)
         /\ Len(paids') = Len(paids)
    <2>1. paids' \in Seq(PaidDoc) /\ Len(paids') = Len(paids) /\ DOMAIN paids' = DOMAIN paids
          /\ \A m \in DOMAIN paids : paids'[m] = IF m = n THEN q ELSE paids[m]
      BY <1>1, <1>2, <1>4
    <2> QED
      BY <1>1, <1>4, <2>1 DEF ReportsInv, ReportsTyped, DocsFit
  <1>13. \A j \in Bill : SumFunction(LeftOf(paids', j))
                           = SumFunction(LeftOf(paids, j)) + IF i = j THEN -a ELSE 0
    <2> SUFFICES ASSUME NEW j \in Bill
                 PROVE  SumFunction(LeftOf(paids', j))
                          = SumFunction(LeftOf(paids, j)) + IF i = j THEN -a ELSE 0
      OBVIOUS
    <2>1. q.of = paids[n].of /\ q \in PaidDoc /\ paids \in Seq(PaidDoc)
      BY <1>2, <1>4
    <2>2. SumFunction(LeftOf([paids EXCEPT ![n] = q], j))
            = SumFunction(LeftOf(paids, j)) + IF q.of = j THEN Left(q) - Left(paids[n]) ELSE 0
      BY <2>1, LeftChanged
    <2>3. paids' = [paids EXCEPT ![n] = q] /\ q.of = i /\ Left(q) - Left(paids[n]) = -a
      BY <1>1, <1>4
    <2> QED
      BY <2>2, <2>3
  <1>14. /\ debt' \in Int /\ again' \in Nat
         /\ debt' + again' = debt + again + (Owes(e) - Owes(b))
                               + (Gone(e, SumFunction(OffOf(notes', i)))
                                    - Gone(b, SumFunction(OffOf(notes, i))))
    <2> DEFINE due == b.due
               paid == b.paid
               total == b.total
               over == b.over
               off == SumFunction(OffOf(notes, i))
    <2>1. Owes(b) = due
      BY <1>7 DEF Owes, OnAccount
    <2>2. Owes(e) = d
      BY <1>9, <1>10 DEF Owes, OnAccount
    <2>3. Gone(b, off) = over + total - paid - due - off
      BY DEF Gone
    <2>4. Gone(e, off) = over + total - (paid - a) - d - off
      BY <1>9 DEF Gone
    <2>5. /\ due \in Nat /\ paid \in Nat /\ total \in Nat /\ over \in Nat /\ off \in Nat
          /\ again' = again /\ debt' = debt + a /\ SumFunction(OffOf(notes', i)) = off
      BY <1>1, <1>3, <1>5
    <2>6. again \in Nat
      BY DEF ReportsInv, ReportsTyped
    <2> HIDE DEF b, due, paid, total, over, off
    <2> DEFINE g == Gone(b, off)
               h == Gone(e, off)
    <2>7. g \in Int /\ h \in Int /\ h - g = a + due - d /\ d \in Int /\ due \in Int /\ a \in Int
      BY <1>3, <1>8, <2>3, <2>4, <2>5
    <2> HIDE DEF g, h
    <2>8. debt' + again' = debt + again + (d - due) + (h - g)
      BY <1>2, <2>5, <2>6, <2>7
    <2>9. debt' \in Int /\ again' \in Nat
      BY <1>2, <2>5, <2>6, <2>7
    <2> QED
      BY <2>1, <2>2, <2>5, <2>8, <2>9 DEF off, g, h
  <1>15. BookFits(i)'
    <2>1. SumFunction(LeftOf(paids', i)) = b.paid - a
      BY <1>2, <1>3, <1>5, <1>13
    <2>2. /\ b.total <= (b.paid - a) + d + SumFunction(OffOf(notes, i))
          /\ (b.paid - a) + d + SumFunction(OffOf(notes, i)) <= b.total + b.over
      <3> DEFINE due == b.due
                 paid == b.paid
                 total == b.total
                 over == b.over
                 off == SumFunction(OffOf(notes, i))
      <3>1. /\ due \in Nat /\ paid \in Nat /\ total \in Nat /\ over \in Nat /\ off \in Nat
            /\ a <= paid /\ total <= paid + due + off /\ paid + due + off <= total + over
            /\ d <= due + a /\ (d = total \/ d = due + a)
        BY <1>3, <1>5, <1>6, <1>7, <1>8
      <3> HIDE DEF b, due, paid, total, over, off
      <3>2. total <= (paid - a) + d + off /\ (paid - a) + d + off <= total + over
        BY <1>3, <1>8, <3>1
      <3> QED
        BY <3>2 DEF due, paid, total, over, off
    <2>3. UNCHANGED notes
      BY <1>1
    <2> HIDE DEF b
    <2> QED
      BY <1>7, <1>9, <1>10, <1>11, <2>1, <2>2, <2>3 DEF BookFits
  <1>16. RecordsFew'
    <2>1. Made' = Made
      BY <1>1, <1>2, <1>7, <1>9, <1>10 DEF Made
    <2>2. Records' = Records
      BY <1>1, <1>12 DEF Records
    <2> QED
      BY <2>1, <2>2 DEF ReportsInv, RecordsFew
  <1>17. \A j \in Bill \ {i} : /\ SumFunction(LeftOf(paids', j)) = SumFunction(LeftOf(paids, j))
                               /\ SumFunction(OffOf(notes', j)) = SumFunction(OffOf(notes, j))
    <2>1. \A j \in Bill : books[j].paid = SumFunction(LeftOf(paids, j)) /\ books[j].paid \in Int
      BY BooksSay DEF Book
    <2>2. notes' = notes
      BY <1>1
    <2> HIDE DEF b, p
    <2> QED
      BY <1>13, <2>1, <2>2
  <1> QED
    BY <1>1, <1>2, <1>9, <1>12, <1>14, <1>15, <1>16, <1>17, OneBookWith

\* createCreditNote: what a note takes off is not due any more.
LEMMA CreditingKeeps ==
  ASSUME ReportsInv, NEW i \in Bill, NEW a \in Paying, NEW apply \in BOOLEAN,
         Crediting(i, a, apply)
  PROVE  ReportsInv'
  <1> DEFINE b == books[i]
             off == IF apply THEN Min({b.due, a}) ELSE 0
             s == IF apply /\ b.due = off /\ b.paid > 0 THEN "paid" ELSE b.status
             x == b.due - off
             e == Standing(b, s, b.paid, x)
             c == [of |-> i, amount |-> a, off |-> off,
                   status |-> IF apply THEN "applied" ELSE "issued"]
  <1>1. /\ b.status \in OnAccount \cup {"paid"} /\ Records < MaxRecords
        /\ notes' = Append(notes, c) /\ books' = [books EXCEPT ![i] = e]
        /\ debt' = debt - off
        /\ UNCHANGED <<paids, again, backs, spent, today>>
    BY DEF Crediting
  <1>2. /\ books \in [Bill -> Book] /\ debt \in Int /\ b \in Book
        /\ notes \in Seq(NoteDoc) /\ paids \in Seq(PaidDoc)
    BY DEF ReportsInv, ReportsTyped
  <1>3. /\ b.paid \in Nat /\ b.due \in Nat /\ b.total \in Nat /\ b.over \in Nat
        /\ b.status \in BookStatuses /\ a \in Nat
    <2>1. /\ b.paid \in Nat /\ b.due \in Nat /\ b.total \in Nat /\ b.over \in Nat
          /\ b.status \in BookStatuses
      BY <1>2 DEF Book
    <2> QED
      BY <2>1, ReportsAssumption
  <1>4. off \in Nat /\ off <= b.due /\ (~apply => off = 0)
    <2> DEFINE d == b.due
    <2>1. Min({d, a}) \in Nat /\ Min({d, a}) <= d
      <3>1. d \in Nat
        BY <1>3
      <3> HIDE DEF d
      <3> QED
        BY <1>3, <3>1, MinIs
    <2> QED
      BY <1>3, <2>1
  <1>5. /\ s \in {"paid", b.status} /\ s \in OnAccount \cup {"paid"}
        /\ (s = "paid" => x = 0 \/ b.status = "paid") /\ (s # b.status => x = 0)
    BY <1>1, <1>3, <1>4
  <1>6. c \in NoteDoc /\ c.of = i /\ c.off = off /\ (c.status # "applied" => c.off = 0)
    <2> HIDE DEF off
    <2> QED
      BY <1>3, <1>4 DEF NoteDoc
  <1>7. /\ BookFits(i) /\ SumFunction(OffOf(notes, i)) \in Nat
        /\ SumFunction(LeftOf(paids, i)) = b.paid
    BY BooksSay DEF ReportsInv
  <1>8. /\ b.total = b.sub - b.off + b.tax /\ b.off <= b.sub
        /\ b.total <= b.paid + b.due + SumFunction(OffOf(notes, i))
        /\ b.paid + b.due + SumFunction(OffOf(notes, i)) <= b.total + b.over
        /\ b.status = "paid" => b.due = 0
        /\ b.status \notin {"partially_paid", "overdue", "paid"} => b.paid = 0
    BY <1>7 DEF BookFits
  <1>9. x \in Nat /\ (b.status = "paid" => x = 0 /\ off = 0) /\ (s = "paid" => x = 0)
    <2> DEFINE d == b.due
    <2>1. d \in Nat /\ off \in Nat /\ off <= d /\ x = d - off /\ (b.status = "paid" => d = 0)
      BY <1>3, <1>4, <1>8
    <2> HIDE DEF d, off, x
    <2>2. x \in Nat /\ (d = 0 => x = 0 /\ off = 0)
      BY <2>1
    <2> HIDE DEF s
    <2> QED
      BY <1>5, <2>1, <2>2
  <1>10. s = "paid" \/ s = b.status
    BY <1>5
  <1>11. x + off = b.due
    BY <1>3, <1>4
  <1> HIDE DEF s, x, off, c
  <1>12. /\ e \in Book /\ e.status = s /\ e.sub = b.sub /\ e.off = b.off /\ e.tax = b.tax
         /\ e.total = b.total /\ e.paid = b.paid /\ e.due = x /\ e.over = b.over
    <2> DEFINE y == b.paid
    <2>1. s \in BookStatuses /\ y \in Nat /\ x \in Nat /\ b \in Book
      BY <1>2, <1>3, <1>9, <1>10 DEF BookStatuses
    <2>2. e = Standing(b, s, y, x)
      OBVIOUS
    <2> HIDE DEF b, e, y
    <2>3. /\ e \in Book /\ e.status = s /\ e.sub = b.sub /\ e.off = b.off /\ e.tax = b.tax
          /\ e.total = b.total /\ e.paid = y /\ e.due = x /\ e.over = b.over
      BY <2>1, <2>2, StandingIs
    <2> QED
      BY <2>3 DEF y
  <1> HIDE DEF e
  <1>13. books'[i] = e
    BY <1>1, <1>2
  <1>14. /\ notes' \in Seq(NoteDoc) /\ Len(notes') = Len(notes) + 1
         /\ \A j \in Bill : SumFunction(OffOf(notes', j))
                              = SumFunction(OffOf(notes, j)) + IF i = j THEN off ELSE 0
    <2>1. \A j \in Bill : SumFunction(OffOf(Append(notes, c), j))
                            = SumFunction(OffOf(notes, j)) + IF c.of = j THEN c.off ELSE 0
      BY <1>2, <1>6, OffAdded
    <2> QED
      BY <1>1, <1>2, <1>6, <2>1
  <1>15. debt' = debt + (Owes(e) - Owes(b))
    <2>1. Owes(b) = b.due
      BY <1>1, <1>8 DEF Owes
    <2>2. Owes(e) = x
      BY <1>5, <1>9, <1>12 DEF Owes
    <2> QED
      BY <1>1, <1>2, <1>3, <1>4, <1>9, <1>11, <2>1, <2>2
  <1>16. BookFits(i)'
    <2>1. SumFunction(OffOf(notes', i)) = SumFunction(OffOf(notes, i)) + off
      BY <1>14
    <2>2. /\ b.total <= b.paid + x + (SumFunction(OffOf(notes, i)) + off)
          /\ b.paid + x + (SumFunction(OffOf(notes, i)) + off) <= b.total + b.over
      <3>1. b.paid + x + (SumFunction(OffOf(notes, i)) + off)
              = b.paid + b.due + SumFunction(OffOf(notes, i))
        BY <1>3, <1>4, <1>7, <1>9, <1>11
      <3> QED
        BY <1>8, <3>1
    <2>3. s # "none" /\ (s \notin {"partially_paid", "overdue", "paid"} => b.paid = 0)
      BY <1>5, <1>8 DEF OnAccount
    <2>4. SumFunction(LeftOf(paids', i)) = b.paid
      BY <1>1, <1>7
    <2> HIDE DEF b
    <2> QED
      BY <1>8, <1>9, <1>12, <1>13, <2>1, <2>2, <2>3, <2>4 DEF BookFits
  <1>17. RecordsFew'
    <2>1. Made' = Made
      BY <1>1, <1>2, <1>5, <1>12 DEF Made, OnAccount
    <2>2. Len(paids) \in Nat /\ Len(notes) \in Nat /\ Len(backs) \in Nat
      BY BooksSay
    <2>3. Len(paids') + Len(notes') + Len(backs') = Len(paids) + Len(notes) + Len(backs) + 1
      BY <1>1, <1>14, <2>2
    <2> QED
      BY <1>1, <2>1, <2>3, RoomForOne
  <1>18. DocsFit' /\ paids' \in Seq(PaidDoc)
    <2>1. \A n \in DOMAIN notes' : notes'[n] = c \/ (n \in DOMAIN notes /\ notes'[n] = notes[n])
      BY <1>1, <1>2
    <2> QED
      BY <1>1, <1>2, <1>6, <2>1 DEF ReportsInv, DocsFit
  <1>19. \A j \in Bill \ {i} : /\ SumFunction(LeftOf(paids', j)) = SumFunction(LeftOf(paids, j))
                               /\ SumFunction(OffOf(notes', j)) = SumFunction(OffOf(notes, j))
    <2>1. \A j \in Bill : SumFunction(OffOf(notes, j)) \in Nat
      BY BooksSay
    <2>2. paids' = paids
      BY <1>1
    <2> QED
      BY <1>14, <2>1, <2>2
  <1>20. Gone(e, SumFunction(OffOf(notes', i))) = Gone(b, SumFunction(OffOf(notes, i)))
    <2> DEFINE due == b.due
               paid == b.paid
               total == b.total
               over == b.over
               was == SumFunction(OffOf(notes, i))
    <2>1. SumFunction(OffOf(notes', i)) = was + off
      BY <1>14
    <2>2. Gone(e, was + off) = over + total - paid - x - (was + off)
      BY <1>12 DEF Gone
    <2>3. Gone(b, was) = over + total - paid - due - was
      BY DEF Gone
    <2>4. /\ due \in Nat /\ paid \in Nat /\ total \in Nat /\ over \in Nat /\ was \in Nat
          /\ x + off = due
      BY <1>3, <1>7, <1>11
    <2> HIDE DEF b, due, paid, total, over, was
    <2>5. Gone(e, was + off) = Gone(b, was)
      BY <1>4, <1>9, <2>2, <2>3, <2>4
    <2> QED
      BY <2>1, <2>5 DEF was
  <1> QED
    BY <1>1, <1>12, <1>14, <1>15, <1>16, <1>17, <1>18, <1>19, <1>20, OneBookKept

\* processReturn: what is paid out is no payment, and the account remembers the rest.
LEMMA ReturningKeeps ==
  ASSUME ReportsInv, NEW i \in Bill, NEW m \in {"cash", "store_credit", "customer_balance"},
         NEW restock \in BOOLEAN, Returning(i, m, restock)
  PROVE  ReportsInv'
  <1> DEFINE b == books[i]
             r == [of |-> i, total |-> b.total, tax |-> b.tax, qty |-> b.qty,
                   restock |-> restock, method |-> m]
             q == [of |-> i, amount |-> -b.total, refunded |-> 0, status |-> "refunded"]
  <1>1. /\ i \in Made /\ Records < MaxRecords /\ backs' = Append(backs, r)
        /\ paids' = IF m # "cash" THEN paids ELSE Append(paids, q)
        /\ debt' = debt - IF m = "customer_balance" THEN b.total ELSE 0
        /\ UNCHANGED <<books, notes, again, spent, today>>
    BY DEF Returning
  <1>2. /\ books \in [Bill -> Book] /\ debt \in Int /\ again \in Nat /\ b \in Book
        /\ backs \in Seq(BackDoc) /\ paids \in Seq(PaidDoc)
    BY DEF ReportsInv, ReportsTyped
  <1>3. b.total \in Nat /\ b.tax \in Nat /\ b.qty \in Nat
    BY <1>2 DEF Book
  <1>4. r \in BackDoc /\ r.method = m /\ r.total = b.total
    BY <1>3 DEF BackDoc
  <1>5. q \in PaidDoc /\ q.status # "completed" /\ Left(q) = 0
    BY <1>3 DEF PaidDoc, Left
  <1> HIDE DEF q, r, b
  <1>6. /\ paids' \in Seq(PaidDoc) /\ Len(paids') <= Len(paids) + 1 /\ Len(paids') \in Nat
        /\ \A j \in Bill : SumFunction(LeftOf(paids', j)) = SumFunction(LeftOf(paids, j))
        /\ DocsFit'
    <2>1. CASE m # "cash"
      <3>1. paids' = paids /\ notes' = notes
        BY <1>1, <2>1
      <3> QED
        BY <1>2, <3>1 DEF ReportsInv, DocsFit
    <2>2. CASE m = "cash"
      <3>1. paids' = Append(paids, q) /\ notes' = notes
        BY <1>1, <2>2
      <3>2. \A n \in DOMAIN paids' : paids'[n] = q \/ (n \in DOMAIN paids /\ paids'[n] = paids[n])
        BY <1>2, <3>1
      <3>3. DocsFit'
        BY <1>5, <3>1, <3>2 DEF ReportsInv, DocsFit
      <3>4. \A j \in Bill : SumFunction(LeftOf(paids, j)) \in Int
        <4>1. \A j \in Bill : books[j].paid = SumFunction(LeftOf(paids, j)) /\ books[j].paid \in Int
          BY BooksSay DEF Book
        <4> QED
          BY <4>1
      <3>5. \A j \in Bill : SumFunction(LeftOf(Append(paids, q), j))
                              = SumFunction(LeftOf(paids, j)) + IF q.of = j THEN Left(q) ELSE 0
        BY <1>2, <1>5, LeftAdded
      <3> QED
        BY <1>2, <1>5, <3>1, <3>3, <3>4, <3>5
    <2> QED
      BY <2>1, <2>2
  <1>7. ReportsTyped'
    <2>1. backs' \in Seq(BackDoc)
      BY <1>1, <1>2, <1>4
    <2>2. debt' \in Int
      BY <1>1, <1>2, <1>3
    <2> QED
      BY <1>1, <1>6, <2>1, <2>2 DEF ReportsInv, ReportsTyped
  <1>8. RecordsFew'
    <2>1. Made' = Made
      BY <1>1 DEF Made
    <2>2. /\ Cardinality(Made) \in Nat /\ Cardinality(Made) >= 1 /\ MaxRecords \in Nat
          /\ Len(paids) \in Nat /\ Len(notes) \in Nat /\ Len(backs) \in Nat
      BY <1>1, BooksSay, ReportsAssumption
    <2>3. Len(backs') = Len(backs) + 1
      BY <1>1, <1>2
    <2> DEFINE x == IF spent > 0 THEN 1 ELSE 0
               one == Cardinality(Made)
    <2>4. Records = Len(paids) + Len(notes) + Len(backs) + x
      BY DEF Records
    <2>5. Records' = Len(paids') + Len(notes) + Len(backs') + x
      BY <1>1 DEF Records
    <2>6. x \in Nat /\ one \in Nat /\ one >= 1 /\ Cardinality(Made') = one
      BY <2>1, <2>2
    <2>7. Len(paids') <= Len(paids) + 1 /\ Len(paids') \in Nat /\ Records < MaxRecords
      BY <1>1, <1>6
    <2> HIDE DEF x, one
    <2>8. Records' <= MaxRecords + Cardinality(Made')
      BY <2>2, <2>3, <2>4, <2>5, <2>6, <2>7
    <2> QED
      BY <2>8 DEF RecordsFew
  <1>9. \A j \in Bill : BookFits(j)'
    <2>1. \A j \in Bill : BookFits(j)
      BY DEF ReportsInv
    <2>2. books' = books /\ notes' = notes
      BY <1>1
    <2> QED
      BY <1>6, <2>1, <2>2 DEF BookFits
  <1>10. DebtFits'
    <2>1. SumFunction(TakenOff(backs'))
            = SumFunction(TakenOff(backs)) + IF m = "customer_balance" THEN b.total ELSE 0
      BY <1>1, <1>2, <1>4, TakenOffAdded
    <2>2. SumFunction(TakenOff(backs)) \in Int
      BY BooksSay
    <2>3. debt + again + SumFunction(TakenOff(backs))
            = SumFunction(AllOwe(books)) + SumFunction(AllGone(books, notes))
      BY DEF ReportsInv, DebtFits
    <2>4. debt' + again' + SumFunction(TakenOff(backs'))
            = debt + again + SumFunction(TakenOff(backs))
      BY <1>1, <1>2, <1>3, <2>1, <2>2
    <2>5. AllOwe(books') = AllOwe(books) /\ AllGone(books', notes') = AllGone(books, notes)
      BY <1>1
    <2> QED
      BY <2>3, <2>4, <2>5 DEF DebtFits
  <1> QED
    BY <1>6, <1>7, <1>8, <1>9, <1>10 DEF ReportsInv

\* createExpense: an expense is no document of the customer's.
LEMMA SpendingKeeps ==
  ASSUME ReportsInv, spent = 0, Records < MaxRecords, Spending(Cost)
  PROVE  ReportsInv'
  <1>1. spent' = spent + Cost /\ UNCHANGED <<books, paids, notes, again, backs, debt, today>>
    BY DEF Spending
  <1>2. ReportsTyped'
    BY <1>1, ReportsAssumption DEF ReportsInv, ReportsTyped
  <1>3. RecordsFew'
    <2>1. Made' = Made
      BY <1>1 DEF Made
    <2>2. /\ Len(paids) \in Nat /\ Len(notes) \in Nat /\ Len(backs) \in Nat
          /\ Cardinality(Made) \in Nat /\ MaxRecords \in Nat
      BY BooksSay, ReportsAssumption
    <2>3. Records = Len(paids) + Len(notes) + Len(backs) + 0
      BY DEF Records
    <2>4. Records' = Len(paids) + Len(notes) + Len(backs) + IF spent' > 0 THEN 1 ELSE 0
      BY <1>1 DEF Records
    <2>5. Records' <= MaxRecords + Cardinality(Made')
      BY <2>1, <2>2, <2>3, <2>4
    <2> QED
      BY <2>5 DEF RecordsFew
  <1>4. DocsFit' /\ DebtFits' /\ \A j \in Bill : BookFits(j)'
    BY <1>1 DEF ReportsInv, DocsFit, DebtFits, BookFits
  <1> QED
    BY <1>2, <1>3, <1>4 DEF ReportsInv

\* The clock changes no book.
LEMMA DayPassesKeeps ==
  ASSUME ReportsInv, today < LastDay, DayPasses
  PROVE  ReportsInv'
  <1>1. today' = today + 1 /\ UNCHANGED <<books, paids, notes, again, backs, spent, debt>>
    BY DEF DayPasses
  <1>2. ReportsTyped'
    BY <1>1, ReportsAssumption DEF ReportsInv, ReportsTyped
  <1>3. RecordsFew' /\ DocsFit' /\ DebtFits' /\ \A j \in Bill : BookFits(j)'
    BY <1>1 DEF ReportsInv, DocsFit, DebtFits, BookFits, RecordsFew, Records, Made
  <1> QED
    BY <1>2, <1>3 DEF ReportsInv

\* There are no documents at first.
LEMMA ReportsStart == ReportsInit => ReportsInv
  <1> SUFFICES ASSUME ReportsInit PROVE ReportsInv
    OBVIOUS
  <1>1. /\ books = [i \in Bill |-> Blank] /\ paids = <<>> /\ notes = <<>> /\ backs = <<>>
        /\ again = 0 /\ spent = 0 /\ debt = 0 /\ today = 0
    BY DEF ReportsInit
  <1>2. ReportsTyped
    <2>1. Blank \in Book
      BY ReportsAssumption DEF Blank, Book, BookStatuses
    <2> QED
      BY <1>1, <2>1, ReportsAssumption DEF ReportsTyped
  <1>3. \A f : f \in [{} -> Int] => SumFunction(f) = 0
    <2> SUFFICES ASSUME NEW f \in [{} -> Int] PROVE SumFunction(f) = 0
      OBVIOUS
    <2> QED
      BY FS_EmptySet, TotalNothing
  <1>4. /\ SumFunction(TakenOff(backs)) = 0
        /\ \A i : SumFunction(LeftOf(paids, i)) = 0 /\ SumFunction(OffOf(notes, i)) = 0
    <2>1. TakenOff(<<>>) \in [{} -> Int]
      BY DEF TakenOff
    <2>2. \A i : LeftOf(<<>>, i) \in [{} -> Int] /\ OffOf(<<>>, i) \in [{} -> Int]
      BY DEF LeftOf, OffOf
    <2> QED
      BY <1>1, <1>3, <2>1, <2>2
  <1>5. RecordsFew
    <2>1. Made = {}
      BY <1>1 DEF Made, Blank
    <2>2. Cardinality(Made) = 0
      BY <2>1, FS_EmptySet
    <2>3. Records = 0
      BY <1>1 DEF Records
    <2> QED
      BY <2>2, <2>3, ReportsAssumption DEF RecordsFew
  <1>6. DocsFit
    BY <1>1 DEF DocsFit
  <1>7. \A i \in Bill : BookFits(i)
    BY <1>1, <1>4 DEF BookFits, Blank
  <1>8. DebtFits
    <2>1. AllOwe(books) \in [Bill -> Int] /\ \A i \in Bill : AllOwe(books)[i] = 0
      BY <1>1 DEF AllOwe, Owes, Blank
    <2>2. SumFunction(AllOwe(books)) = 0
      BY <2>1, ReportsAssumption, TotalNothing
    <2>3. AllGone(books, notes) \in [Bill -> Int] /\ \A i \in Bill : AllGone(books, notes)[i] = 0
      BY <1>1, <1>4 DEF AllGone, Gone, Blank
    <2>4. SumFunction(AllGone(books, notes)) = 0
      BY <2>3, ReportsAssumption, TotalNothing
    <2> QED
      BY <1>1, <1>4, <2>2, <2>4 DEF DebtFits
  <1> QED
    BY <1>2, <1>5, <1>6, <1>7, <1>8 DEF ReportsInv

\* Every handler keeps the books.
LEMMA ReportsStep == ReportsInv /\ [ReportsNext]_reportsVars => ReportsInv'
  <1> SUFFICES ASSUME ReportsInv, [ReportsNext]_reportsVars PROVE ReportsInv'
    OBVIOUS
  <1>1. ASSUME NEW i \in Bill, NEW f \in Figures, NEW s \in {"draft", "pending_approval", "sent"},
               NEW t \in {0, 1}, Invoicing(i, f, s, t)
        PROVE  ReportsInv'
    BY <1>1, InvoicingKeeps
  <1>2. ASSUME NEW i \in Bill, NEW f \in Figures, NEW a \in Paying \cup {0}, Selling(i, f, a)
        PROVE  ReportsInv'
    BY <1>2, SellingKeeps
  <1>3. ASSUME NEW i \in Bill, NEW to \in AskedStatus, Moving(i, to)
        PROVE  ReportsInv'
    BY <1>3, MovingKeeps
  <1>4. ASSUME NEW i \in Bill, NEW a \in Paying, Receiving(i, a)
        PROVE  ReportsInv'
    BY <1>4, ReceivingKeeps
  <1>5. ASSUME NEW n \in DOMAIN paids, NEW a \in Paying, Refunding(n, a)
        PROVE  ReportsInv'
    <2> DEFINE i == paids[n].of
    <2>1. paids[n] \in PaidDoc
      BY BooksSay
    <2>2. i \in Bill
      BY <2>1 DEF PaidDoc
    <2> QED
      BY <1>5, <2>2, RefundingKeeps
  <1>6. ASSUME NEW i \in Bill, NEW a \in Paying, NEW apply \in BOOLEAN, Crediting(i, a, apply)
        PROVE  ReportsInv'
    BY <1>6, CreditingKeeps
  <1>7. ASSUME NEW i \in Bill, NEW m \in {"cash", "store_credit", "customer_balance"},
               NEW r \in BOOLEAN, Returning(i, m, r)
        PROVE  ReportsInv'
    BY <1>7, ReturningKeeps
  <1>8. CASE spent = 0 /\ Records < MaxRecords /\ Spending(Cost)
    BY <1>8, SpendingKeeps
  <1>9. CASE today < LastDay /\ DayPasses
    BY <1>9, DayPassesKeeps
  <1>10. CASE UNCHANGED reportsVars
    BY <1>10 DEF reportsVars, ReportsInv, ReportsTyped, RecordsFew, Records, Made, DocsFit,
                 BookFits, DebtFits
  <1> QED
    BY <1>1, <1>2, <1>3, <1>4, <1>5, <1>6, <1>7, <1>8, <1>9, <1>10 DEF ReportsNext

\* Reports over books that fit agree.
LEMMA ReportsTell == ReportsInv => ReportsAgree
  <1> SUFFICES ASSUME ReportsInv PROVE ReportsAgree
    OBVIOUS
  <1>1. ReportsTyped /\ RecordsFew /\ DocsFit /\ DebtFits /\ \A i \in Bill : BookFits(i)
    BY DEF ReportsInv
  <1>2. ReportsTypeOK
    BY <1>1 DEF ReportsTypeOK, ReportsTyped, RecordsFew
  <1> QED
    BY <1>1, <1>2, ReceivablesFollow, SalesFollow, StatementFollows DEF ReportsAgree

\* Whatever the handlers write, the dashboards, reports, statement and assistant tell of one set
\* of books.
THEOREM ReportsAlwaysAgree == ReportsSpec => []ReportsAgree
  <1>1. ReportsSpec => []ReportsInv
    BY ReportsStart, ReportsStep, PTL DEF ReportsSpec
  <1> QED
    BY <1>1, ReportsTell, PTL
-----------------------------------------------------------------------------
(* Pricing: rounding, and what one line is worth *)

\* To the nearest whole number.
LEMMA RoundedIs ==
  ASSUME NEW a \in Int, NEW b \in Nat, b > 0
  PROVE  /\ Rounded(a, b) \in Int
         /\ 2 * a - b < 2 * (Rounded(a, b) * b) /\ 2 * (Rounded(a, b) * b) <= 2 * a + b
  <1> DEFINE x == 2 * a + b
             y == 2 * b
             q == x \div y
             p == q * b
  <1>1. x \in Int /\ y \in Nat /\ y > 0
    OBVIOUS
  <1>2. q \in Int /\ q * y <= x /\ x < q * y + y
    <2> HIDE DEF x, y
    <2> QED
      BY <1>1, SMT
  <1>3. q * y = 2 * p /\ p \in Int
    <2> HIDE DEF q
    <2> QED
      BY <1>2
  <1>4. Rounded(a, b) = q
    BY DEF Rounded
  <1>5. 2 * a - b < 2 * p /\ 2 * p <= 2 * a + b
    <2> HIDE DEF q, p
    <2> QED
      BY <1>2, <1>3
  <1> QED
    BY <1>2, <1>4, <1>5

\* Two roundings: the greater the amount, and the fewer it is shared among, the more it is.
LEMMA RoundedWhole ==
  ASSUME NEW a \in Int, NEW b \in Nat, b > 0, NEW k \in Int
  PROVE  /\ a <= k * b => Rounded(a, b) <= k
         /\ a >= k * b => Rounded(a, b) >= k
  <1> DEFINE r == Rounded(a, b)
  <1>1. r \in Int /\ 2 * a - b < 2 * (r * b) /\ 2 * (r * b) <= 2 * a + b
    BY RoundedIs
  <1> HIDE DEF r
  <1>2. ASSUME a <= k * b PROVE r <= k
    <2>1. SUFFICES ASSUME r >= k + 1 PROVE FALSE
      BY <1>1
    <2>2. r * b >= (k + 1) * b
      BY <1>1, <2>1
    <2>3. (k + 1) * b = k * b + b
      OBVIOUS
    <2> QED
      BY <1>1, <1>2, <2>2, <2>3
  <1>3. ASSUME a >= k * b PROVE r >= k
    <2>1. SUFFICES ASSUME r <= k - 1 PROVE FALSE
      BY <1>1
    <2>2. r * b <= (k - 1) * b
      BY <1>1, <2>1
    <2>3. (k - 1) * b = k * b - b
      OBVIOUS
    <2> QED
      BY <1>1, <1>3, <2>2, <2>3
  <1> QED
    BY <1>2, <1>3 DEF r

\* What is taken off a line is at most its worth, and never raises it.
LEMMA LineIs ==
  ASSUME NEW l \in Line
  PROVE  /\ Base(l) \in Nat /\ LineOff(l) \in 0..Base(l) /\ Net(l) \in 0..Base(l)
         /\ l.rate \in 0..100
  <1>1. /\ l.qty \in Nat /\ l.price \in Nat /\ l.off \in Int /\ l.pct \in Int
        /\ l.rate \in 0..100
    BY DEF Line
  <1>2. Base(l) \in Nat
    BY <1>1 DEF Base
  <1> DEFINE b == Base(l)
             p == Least(l.pct, 100)
  <1>3. LineOff(l) \in 0..b
    <2>1. CASE l.pct > 0
      <3>1. p \in 0..100 /\ LineOff(l) = Rounded(b * p, 100)
        BY <1>1, <2>1 DEF LineOff, Least
      <3> HIDE DEF b, p
      <3>2. b * p \in Int /\ b * p <= b * 100 /\ b * p >= 0 * 100 /\ b \in Nat
        BY <1>2, <3>1 DEF b
      <3>3. Rounded(b * p, 100) \in Int
        BY <3>2, RoundedIs
      <3>4. Rounded(b * p, 100) <= b /\ Rounded(b * p, 100) >= 0
        <4> DEFINE a == b * p
        <4>1. a \in Int /\ a <= b * 100 /\ a >= 0 * 100 /\ 100 \in Nat /\ 100 > 0 /\ 0 \in Int /\ b \in Int
          BY <3>2
        <4> HIDE DEF a
        <4>2. Rounded(a, 100) <= b
          BY <4>1, RoundedWhole
        <4>3. Rounded(a, 100) >= 0
          BY <4>1, RoundedWhole
        <4> QED
          BY <4>2, <4>3 DEF a
      <3> QED
        BY <3>1, <3>2, <3>3, <3>4
    <2>2. CASE ~(l.pct > 0)
      <3>1. LineOff(l) = Least(b, Most(0, l.off))
        BY <2>2 DEF LineOff
      <3> HIDE DEF b
      <3>2. b \in Nat
        BY <1>2 DEF b
      <3> QED
        BY <1>1, <3>1, <3>2 DEF Least, Most
    <2> QED
      BY <2>1, <2>2
  <1> HIDE DEF b
  <1>4. b \in Nat
    BY <1>2 DEF b
  <1>5. Net(l) = b - LineOff(l)
    BY DEF Net, b
  <1> QED
    BY <1>1, <1>3, <1>4, <1>5 DEF b

\* The tax of a line is right to half a cent, and its central half is at most all of it.
LEMMA TaxIs ==
  ASSUME NEW l \in Line, NEW s \in Int, s <= Net(l)
  PROVE  /\ LineTax(l, s) \in Nat
         /\ 100 * LineTax(l, s) - (Net(l) - s) * l.rate \in (-50)..50
         /\ Central(l, s) \in Nat /\ StateTax(l, s) \in Nat
  <1> DEFINE x == (Net(l) - s) * l.rate
             t == Rounded(x, 100)
             c == Rounded(x, 200)
  <1>1. Net(l) \in Nat /\ l.rate \in 0..100
    BY LineIs
  <1>2. x \in Nat
    <2> DEFINE n == Net(l) - s
               r == l.rate
    <2>1. n \in Nat /\ r \in Nat
      BY <1>1
    <2> HIDE DEF n, r
    <2>2. n * r \in Nat
      BY <2>1
    <2> QED
      BY <2>2 DEF n, r
  <1>3. LineTax(l, s) = t /\ Central(l, s) = c /\ StateTax(l, s) = t - c
    BY DEF LineTax, Central, StateTax
  <1> HIDE DEF x
  <1>4. t \in Int /\ c \in Int
    BY <1>2, RoundedIs
  <1>5. 2 * x - 100 < 2 * (t * 100) /\ 2 * (t * 100) <= 2 * x + 100
    BY <1>2, RoundedIs
  <1>6. 2 * x - 200 < 2 * (c * 200) /\ 2 * (c * 200) <= 2 * x + 200
    BY <1>2, RoundedIs
  <1> HIDE DEF t, c
  <1>7. t \in Nat /\ c \in Nat /\ t - c \in Nat /\ 100 * t - x \in (-50)..50
    BY <1>2, <1>4, <1>5, <1>6
  <1> QED
    BY <1>3, <1>7 DEF x
-----------------------------------------------------------------------------
(* Pricing: the invoice discount, shared among the lines *)

Nets(ls) == [i \in DOMAIN ls |-> Net(ls[i])]
Worth(ls) == Total(Each(ls, Net))
Proportions(ls, d) == [i \in DOMAIN ls |-> Proportional(ls, d, i)]

\* What the lines are worth is a whole number of cents, and each is worth at most all of them.
LEMMA NetsAre ==
  ASSUME NEW ls \in Seq(Line)
  PROVE  /\ Each(ls, Net) = Nets(ls) /\ Nets(ls) \in [DOMAIN ls -> Nat]
         /\ Nets(ls) \in [DOMAIN ls -> Int] /\ IsFiniteSet(DOMAIN ls)
         /\ Worth(ls) = SumFunction(Nets(ls)) /\ Worth(ls) \in Nat
         /\ \A i \in DOMAIN ls : ls[i] \in Line /\ Nets(ls)[i] = Net(ls[i])
         /\ \A i \in DOMAIN ls : Net(ls[i]) \in Nat /\ Net(ls[i]) <= Worth(ls)
  <1> DEFINE f == Nets(ls)
  <1>1. \A i \in DOMAIN ls : ls[i] \in Line
    OBVIOUS
  <1>2. \A i \in DOMAIN ls : Net(ls[i]) \in Nat
    <2> TAKE i \in DOMAIN ls
    <2>1. Net(ls[i]) \in 0..Base(ls[i]) /\ Base(ls[i]) \in Nat
      BY <1>1, LineIs
    <2> QED
      BY <2>1
  <1>3. Each(ls, Net) = f
    BY DEF Each, Nets
  <1>4. f \in [DOMAIN ls -> Nat] /\ \A i \in DOMAIN ls : f[i] = Net(ls[i])
    BY <1>2 DEF Nets
  <1>5. DOMAIN ls = 1..Len(ls) /\ Len(ls) \in Nat
    OBVIOUS
  <1>6. IsFiniteSet(DOMAIN ls)
    BY <1>5, FS_Interval
  <1> HIDE DEF f
  <1>7. SumFunction(f) \in Nat /\ \A i \in DOMAIN ls : f[i] <= SumFunction(f)
    BY <1>4, <1>6, TotalNat
  <1>8. Worth(ls) = SumFunction(f)
    BY <1>3 DEF Worth, Total
  <1>9. f \in [DOMAIN ls -> Int]
    BY <1>4
  <1> QED
    BY <1>1, <1>2, <1>3, <1>4, <1>6, <1>7, <1>8, <1>9 DEF f

\* What one line's proportion is: right to half a cent, and at most what the line is worth.
LEMMA ProportionIs ==
  ASSUME NEW ls \in Seq(Line), NEW d \in Nat, NEW i \in DOMAIN ls
  PROVE  /\ Proportional(ls, d, i) \in 0..Net(ls[i])
         /\ d = 0 => Proportional(ls, d, i) = 0
         /\ d >= Worth(ls) => d = 0 \/ Proportional(ls, d, i) = Net(ls[i])
         /\ d <= Worth(ls) =>
              2 * (Proportional(ls, d, i) * Worth(ls) - Net(ls[i]) * d)
                \in (-Worth(ls))..Worth(ls)
  <1> DEFINE n == Net(ls[i])
             w == Worth(ls)
             p == Proportional(ls, d, i)
             r == Rounded(n * d, w)
  <1>1. n \in Nat /\ w \in Nat /\ n <= w /\ Total(Each(ls, Net)) = w
    BY NetsAre DEF Worth
  <1>2. p = IF n = 0 \/ d = 0 THEN 0 ELSE Least(n, r)
    BY <1>1 DEF Proportional
  <1> HIDE DEF n, w, p, r
  <1>3. CASE n = 0 \/ d = 0
    <2>1. p = 0 /\ n * d = 0 /\ p * w = 0
      BY <1>1, <1>2, <1>3
    <2> QED
      BY <1>1, <1>3, <2>1 DEF n, w, p
  <1>4. CASE ~(n = 0 \/ d = 0)
    <2> DEFINE a == n * d
    <2>1. a \in Int /\ w > 0 /\ a >= 0 * w
      BY <1>1, <1>4
    <2>2. d >= w => a >= n * w
      BY <1>1
    <2>3. d <= w => a <= n * w
      BY <1>1
    <2> HIDE DEF a
    <2>4. r = Rounded(a, w)
      BY DEF r, a
    <2>5. /\ r \in Int
          /\ 2 * a - w < 2 * (r * w) /\ 2 * (r * w) <= 2 * a + w
      BY <1>1, <2>1, <2>4, RoundedIs
    <2>6. r >= 0
      BY <1>1, <2>1, <2>4, RoundedWhole
    <2>7. d >= w => r >= n
      BY <1>1, <2>1, <2>2, <2>4, RoundedWhole
    <2>8. d <= w => r <= n
      BY <1>1, <2>1, <2>3, <2>4, RoundedWhole
    <2>9. p = Least(n, r)
      BY <1>2, <1>4
    <2>10. p \in 0..n /\ (d >= w => p = n) /\ (d <= w => p = r)
      BY <1>1, <2>5, <2>6, <2>7, <2>8, <2>9 DEF Least
    <2>11. ASSUME d <= w PROVE 2 * (p * w - a) \in (-w)..w
      <3> DEFINE q == r * w
      <3>1. q \in Int /\ p * w = q
        BY <1>1, <2>5, <2>10, <2>11
      <3>2. 2 * a - w < 2 * q /\ 2 * q <= 2 * a + w
        BY <2>5
      <3> HIDE DEF q
      <3>3. 2 * (q - a) \in (-w)..w
        BY <1>1, <2>1, <3>1, <3>2
      <3> QED
        BY <3>1, <3>3
    <2> QED
      BY <1>4, <2>10, <2>11 DEF n, w, p, a
  <1> QED
    BY <1>3, <1>4

\* A line is never given more than it is worth.
LEMMA ShareIs ==
  ASSUME NEW ls \in Seq(Line), NEW d \in Nat, NEW i \in DOMAIN ls
  PROVE  /\ Share(ls, d, i) \in Int /\ Share(ls, d, i) <= Net(ls[i])
         /\ ~(TakesRest(ls, i) /\ Net(ls[i]) # 0 /\ d # 0) =>
              Share(ls, d, i) = Proportional(ls, d, i)
  <1> DEFINE given == [j \in 1..(i - 1) |-> Proportional(ls, d, j)]
  <1>1. Net(ls[i]) \in Nat /\ Proportional(ls, d, i) \in 0..Net(ls[i])
    BY NetsAre, ProportionIs
  <1>2. Total(given) \in Int
    <2>1. i \in Nat /\ 1..(i - 1) \subseteq DOMAIN ls
      OBVIOUS
    <2>2. \A j \in DOMAIN ls : Proportional(ls, d, j) \in Int
      <3> TAKE j \in DOMAIN ls
      <3>1. Proportional(ls, d, j) \in 0..Net(ls[j])
        BY ProportionIs
      <3>2. Net(ls[j]) \in Nat
        BY NetsAre
      <3> QED
        BY <3>1, <3>2
    <2>3. given \in [1..(i - 1) -> Int]
      BY <2>1, <2>2
    <2>4. IsFiniteSet(1..(i - 1))
      BY <2>1, FS_Interval
    <2> HIDE DEF given
    <2> QED
      BY <2>3, <2>4, TotalInt DEF Total
  <1>3. Share(ls, d, i) = IF TakesRest(ls, i) /\ Net(ls[i]) # 0 /\ d # 0
                          THEN Least(Net(ls[i]), d - Total(given))
                          ELSE Proportional(ls, d, i)
    BY DEF Share
  <1> HIDE DEF given
  <1> QED
    BY <1>1, <1>2, <1>3 DEF Least

\* What is given for q of w in all is q's part of d, but for so many halves.
Near(p, q, w, d, halves) == 2 * (p * w - q * d) \in (-(halves * w))..(halves * w)

\* Where the rest goes: y takes it, the lines before were given g of the m they are worth.
RestAt(ls, d, y, g, m) ==
  /\ Net(ls[y]) # 0 /\ TakesRest(ls, y)
  /\ \A j \in DOMAIN ls \ {y} : Share(ls, d, j) = Proportional(ls, d, j)
  /\ Share(ls, d, y) = Least(Net(ls[y]), d - g)
  /\ Total(Shares(ls, d)) = g + Share(ls, d, y)
  /\ m = Worth(ls) - Net(ls[y]) /\ g <= m
  /\ d >= Worth(ls) => g = m
  /\ d <= Worth(ls) => Near(g, m, Worth(ls), d, Len(ls) - 1)

\* The first n places are n.
LEMMA FirstPlaces ==
  ASSUME NEW n \in Nat
  PROVE  IsFiniteSet(1..n) /\ Cardinality(1..n) = n
  <1>1. IsFiniteSet(1..n) /\ Cardinality(1..n) = IF 1 > n THEN 0 ELSE n - 1 + 1
    BY FS_Interval
  <1> QED
    BY <1>1

\* Roundings of at most half of w each are together at most half of w for each.
LEMMA Spread ==
  ASSUME NEW U, IsFiniteSet(U), NEW k \in Nat, Cardinality(U) = k,
         NEW p \in [U -> Int], NEW q \in [U -> Int],
         NEW w \in Nat, NEW d \in Nat, \A x \in U : Near(p[x], q[x], w, d, 1)
  PROVE  Near(SumFunction(p), SumFunction(q), w, d, k)
  <1> DEFINE a == 2 * w
             b == -(2 * d)
             f == [x \in U |-> a * p[x]]
             g == [x \in U |-> b * q[x]]
             h == [x \in U |-> f[x] + g[x]]
             P == SumFunction(p)
             Q == SumFunction(q)
  <1>1. \A u, v \in Int : a * u + b * v = 2 * (u * w - v * d)
    OBVIOUS
  <1>2. a \in Int /\ b \in Int /\ -w \in Int /\ \A x \in U : p[x] \in Int /\ q[x] \in Int
    OBVIOUS
  <1>3. \A x \in U : -w <= h[x] /\ h[x] <= w /\ h[x] \in Int
    <2> TAKE x \in U
    <2>1. h[x] = 2 * (p[x] * w - q[x] * d)
      BY <1>1, <1>2
    <2>2. h[x] \in (-w)..w
      BY <2>1 DEF Near
    <2> HIDE DEF h
    <2> QED
      BY <2>2
  <1>4. /\ p \in [U -> Int] /\ q \in [U -> Int] /\ h \in [U -> Int]
        /\ f \in [U -> Int] /\ g \in [U -> Int]
    <2>1. \A x \in U : a * p[x] \in Int /\ b * q[x] \in Int
      <3> HIDE DEF a, b
      <3> QED
        BY <1>2
    <2> HIDE DEF a, b
    <2> QED
      BY <1>3, <2>1
  <1>5. IsFiniteSet(U) /\ Cardinality(U) = k
    OBVIOUS
  <1>6. \A x \in U : f[x] = Times(a, p[x]) /\ g[x] = Times(b, q[x]) /\ h[x] = f[x] + g[x]
    BY DEF Times
  <1>7. \A x \in U : Bounded(1, -w, h[x], w)
    BY <1>3 DEF Bounded
  <1> HIDE DEF h, f, g, a, b
  <1>8. SumFunction(f) = Times(a, P)
    <2>1. p \in [U -> Int] /\ f \in [U -> Int] /\ IsFiniteSet(U) /\ a \in Int
      BY <1>2, <1>4, <1>5
    <2>2. \A x \in U : f[x] = Times(a, p[x])
      BY <1>6
    <2> QED
      BY <2>1, <2>2, TotalTimes
  <1>9. SumFunction(g) = Times(b, Q)
    <2>1. q \in [U -> Int] /\ g \in [U -> Int] /\ IsFiniteSet(U) /\ b \in Int
      BY <1>2, <1>4, <1>5
    <2>2. \A x \in U : g[x] = Times(b, q[x])
      BY <1>6
    <2> QED
      BY <2>1, <2>2, TotalTimes
  <1>10. SumFunction(h) = SumFunction(f) + SumFunction(g)
    <2>1. f \in [U -> Int] /\ g \in [U -> Int] /\ h \in [U -> Int] /\ IsFiniteSet(U)
      BY <1>4, <1>5
    <2>2. \A x \in U : h[x] = f[x] + g[x]
      BY <1>6
    <2> QED
      BY <2>1, <2>2, TotalPlus
  <1>11. Bounded(Cardinality(U), -w, SumFunction(h), w)
    BY <1>2, <1>4, <1>5, <1>7, TotalBounds
  <1>12. P \in Int /\ Q \in Int
    BY <1>4, <1>5, TotalInt
  <1> HIDE DEF P, Q
  <1>13. SumFunction(h) = 2 * (P * w - Q * d) /\ 2 * (P * w - Q * d) \in Int
    BY <1>1, <1>8, <1>9, <1>10, <1>12 DEF Times
  <1>14. k * (-w) = -(k * w) /\ k * w \in Int
    OBVIOUS
  <1> DEFINE e == 2 * (P * w - Q * d)
             z == k * w
  <1>15. e \in Int /\ z \in Int /\ -z <= e /\ e <= z
    BY <1>5, <1>11, <1>13, <1>14 DEF Bounded
  <1> HIDE DEF e, z
  <1>16. e \in (-z)..z
    BY <1>15
  <1> QED
    BY <1>16 DEF e, z, P, Q, Near

\* When there is something to share, one line that is worth something takes the rest.
LEMMA OneTakesRest ==
  ASSUME NEW ls \in Seq(Line), NEW d \in Nat, d # 0, Worth(ls) # 0
  PROVE  \E y \in DOMAIN ls, g \in Nat, m \in Nat : RestAt(ls, d, y, g, m)
  <1> DEFINE w == Worth(ls)
             D == DOMAIN ls
             s == Shares(ls, d)
             nets == Nets(ls)
             worthy == {i \in D : Net(ls[i]) # 0}
  <1>1. /\ nets \in [D -> Nat] /\ nets \in [D -> Int] /\ IsFiniteSet(D) /\ w = SumFunction(nets)
        /\ w \in Nat /\ \A i \in D : nets[i] = Net(ls[i])
    BY NetsAre
  <1>2. D = 1..Len(ls) /\ Len(ls) \in Nat
    OBVIOUS
  <1>3. worthy # {}
    <2>1. SUFFICES ASSUME \A i \in D : Net(ls[i]) = 0 PROVE FALSE
      OBVIOUS
    <2>2. \A i \in D : nets[i] = 0
      BY <1>1, <2>1
    <2> HIDE DEF nets, D, w
    <2>3. SumFunction(nets) = 0
      BY <1>1, <2>2, TotalNothing
    <2> QED
      BY <1>1, <2>3 DEF w
  <1>4. PICK y \in worthy : \A j \in worthy : y >= j
    <2>1. \A i \in worthy : i \in Int
      BY <1>2
    <2>2. IsFiniteSet(worthy)
      BY <1>1, FS_Subset
    <2> HIDE DEF worthy
    <2> QED
      BY <1>3, <2>1, <2>2, Highest
  <1> DEFINE k == y - 1
             U == 1..k
             p == [j \in U |-> Proportional(ls, d, j)]
             q == [j \in U |-> Net(ls[j])]
             g == SumFunction(p)
             m == SumFunction(q)
  <1>5. /\ y \in D /\ y \in Nat /\ Net(ls[y]) # 0 /\ k \in Nat /\ k <= Len(ls) - 1
        /\ U \in SUBSET D /\ y \notin U
    BY <1>2, <1>4
  <1>6. \A j \in D : j > y => Net(ls[j]) = 0
    <2> SUFFICES ASSUME NEW j \in D, j > y PROVE Net(ls[j]) = 0
      OBVIOUS
    <2>1. ~(y >= j)
      BY <1>2, <1>5
    <2> QED
      BY <1>4, <2>1
  <1>7. TakesRest(ls, y)
    BY <1>2, <1>5, <1>6 DEF TakesRest
  <1>8. \A j \in D \ {y} : s[j] = Proportional(ls, d, j) /\ Share(ls, d, j) = Proportional(ls, d, j)
    <2> TAKE j \in D \ {y}
    <2>1. ~(TakesRest(ls, j) /\ Net(ls[j]) # 0 /\ d # 0)
      <3>1. CASE j > y
        BY <1>6, <3>1
      <3>2. CASE ~(j > y)
        <4>1. y \in (j + 1)..Len(ls)
          BY <1>2, <1>5, <3>2
        <4> QED
          BY <1>5, <4>1 DEF TakesRest
      <3> QED
        BY <3>1, <3>2
    <2>2. Share(ls, d, j) = Proportional(ls, d, j)
      BY <2>1, ShareIs
    <2> QED
      BY <2>2 DEF Shares
  <1>9. \A j \in D : Proportional(ls, d, j) \in Int /\ 0 <= Proportional(ls, d, j)
                     /\ Proportional(ls, d, j) <= Net(ls[j]) /\ Net(ls[j]) \in Nat
    <2> TAKE j \in D
    <2>1. Net(ls[j]) \in Nat
      BY NetsAre
    <2>2. Proportional(ls, d, j) \in 0..Net(ls[j])
      BY ProportionIs
    <2> QED
      BY <2>1, <2>2
  <1>10. \A j \in D : j > y => Proportional(ls, d, j) = 0
    BY <1>6, <1>9
  <1>11. /\ p \in [U -> Int] /\ q \in [U -> Int] /\ p \in [U -> Nat] /\ q \in [U -> Nat]
         /\ \A x \in U : p[x] <= q[x]
    BY <1>5, <1>9
  <1>12. IsFiniteSet(U) /\ Cardinality(U) = k
    <2>1. k \in Nat
      BY <1>5
    <2> HIDE DEF k
    <2> QED
      BY <2>1, FirstPlaces
  <1>13. g \in Nat /\ m \in Nat /\ g <= m
    <2> HIDE DEF p, q, U
    <2>1. g \in Nat /\ m \in Nat
      BY <1>11, <1>12, TotalNat
    <2>2. g <= m
      BY <1>11, <1>12, TotalLeq
    <2> QED
      BY <2>1, <2>2
  <1>14. Share(ls, d, y) = Least(Net(ls[y]), d - g) /\ s[y] = Share(ls, d, y)
    BY <1>5, <1>7 DEF Share, Total, Shares
  <1>15. s \in [D -> Int]
    <2>1. \A j \in D : Share(ls, d, j) \in Int
      BY ShareIs
    <2> QED
      BY <2>1 DEF Shares
  <1>16. SumFunction(s) = g + s[y]
    <2>1. \A x \in D \ {y} : s[x] = IF x \in U THEN p[x] ELSE 0
      <3> TAKE x \in D \ {y}
      <3>1. CASE x > y
        <4>1. x \notin U
          BY <1>2, <1>5, <3>1
        <4> QED
          BY <1>8, <1>10, <3>1, <4>1
      <3>2. CASE ~(x > y)
        <4>1. x \in U
          BY <1>2, <1>5, <3>2
        <4> QED
          BY <1>8, <4>1
      <3> QED
        BY <3>1, <3>2
    <2>2. IsFiniteSet(D) /\ y \in D /\ y \notin U /\ U \in SUBSET D /\ p \in [U -> Int]
      BY <1>1, <1>5, <1>11
    <2> HIDE DEF s, p, D, U
    <2> QED
      BY <1>15, <2>1, <2>2, TotalBeside
  <1>17. m = w - Net(ls[y])
    <2>1. \A x \in D \ {y} : nets[x] = IF x \in U THEN q[x] ELSE 0
      <3> TAKE x \in D \ {y}
      <3>0. nets[x] = Net(ls[x])
        BY <1>1
      <3>1. CASE x > y
        <4>1. x \notin U
          BY <1>2, <1>5, <3>1
        <4> QED
          BY <1>6, <3>0, <3>1, <4>1
      <3>2. CASE ~(x > y)
        <4>1. x \in U
          BY <1>2, <1>5, <3>2
        <4> QED
          BY <3>0, <4>1
      <3> QED
        BY <3>1, <3>2
    <2>2. /\ IsFiniteSet(D) /\ y \in D /\ y \notin U /\ U \in SUBSET D /\ q \in [U -> Int]
          /\ nets \in [D -> Int] /\ w = SumFunction(nets) /\ nets[y] = Net(ls[y])
      BY <1>1, <1>5, <1>11
    <2>3. Net(ls[y]) \in Nat
      BY <1>5, <1>9
    <2> HIDE DEF nets, q, D, U, w
    <2>4. SumFunction(nets) = SumFunction(q) + nets[y]
      BY <2>1, <2>2, TotalBeside
    <2> HIDE DEF m
    <2>5. w = m + Net(ls[y])
      BY <2>2, <2>4 DEF m
    <2> QED
      BY <1>13, <2>3, <2>5
  <1>18. ASSUME d >= w PROVE g = m
    <2>1. \A x \in U : p[x] = q[x]
      <3> TAKE x \in U
      <3>1. x \in D
        BY <1>5
      <3>2. Proportional(ls, d, x) = Net(ls[x])
        BY <1>18, <3>1, ProportionIs
      <3> QED
        BY <3>2
    <2>2. p = q
      BY <2>1
    <2> QED
      BY <2>2
  <1>19. ASSUME d <= w
         PROVE  Near(g, m, w, d, Len(ls) - 1)
    <2>1. \A x \in U : Near(p[x], q[x], w, d, 1)
      <3> TAKE x \in U
      <3>1. x \in D
        BY <1>5
      <3>2. 2 * (Proportional(ls, d, x) * w - Net(ls[x]) * d) \in (-w)..w
        BY <1>19, <3>1, ProportionIs
      <3>3. w \in Nat
        BY <1>1
      <3> HIDE DEF w
      <3> QED
        BY <3>2, <3>3 DEF Near
    <2>2. w \in Nat /\ k \in Nat
      BY <1>1, <1>5
    <2>3. Near(g, m, w, d, k)
      <3>1. p \in [U -> Int] /\ q \in [U -> Int] /\ IsFiniteSet(U) /\ Cardinality(U) = k
        BY <1>11, <1>12
      <3> HIDE DEF p, q, w, k, U
      <3> QED
        BY <2>1, <2>2, <3>1, Spread
    <2> DEFINE t == Len(ls) - 1
    <2>4. t \in Nat /\ k <= t
      BY <1>2, <1>5
    <2> HIDE DEF t, k, w
    <2>5. k * w <= t * w /\ k * w \in Int /\ t * w \in Int
      BY <2>2, <2>4
    <2> DEFINE e == 2 * (g * w - m * d)
               z == t * w
               kw == k * w
    <2> HIDE DEF e, z, kw
    <2>6. e \in (-kw)..kw /\ kw <= z /\ kw \in Int /\ z \in Int
      BY <2>3, <2>5 DEF e, z, kw, Near
    <2>7. e \in (-z)..z
      BY <2>6
    <2> QED
      BY <2>7 DEF e, z, t, Near
  <1>20. Total(Shares(ls, d)) = g + Share(ls, d, y)
    BY <1>14, <1>16 DEF Total
  <1> HIDE DEF g, m, s
  <1>21. RestAt(ls, d, y, g, m)
    BY <1>5, <1>7, <1>8, <1>13, <1>14, <1>17, <1>18, <1>19, <1>20 DEF RestAt
  <1> QED
    BY <1>5, <1>13, <1>21

\* A comparison keeps when both sides are divided by the same.
LEMMA Cancel ==
  ASSUME NEW a \in Int, NEW b \in Int, NEW w \in Nat, w # 0, a * w <= b * w
  PROVE  a <= b
  <1>1. SUFFICES ASSUME b + 1 <= a PROVE FALSE
    OBVIOUS
  <1>2. (b + 1) * w <= a * w
    BY <1>1
  <1>3. (b + 1) * w = b * w + w
    OBVIOUS
  <1> DEFINE x == a * w
             y == b * w
             z == (b + 1) * w
  <1>4. x \in Int /\ y \in Int /\ z \in Int /\ x <= y /\ z <= x /\ z = y + w
    BY <1>2, <1>3
  <1> HIDE DEF x, y, z
  <1> QED
    BY <1>4

\* What the line that takes the rest is given, when g of d went to the lines before it.
LEMMA RestIs ==
  ASSUME NEW w \in Nat, w # 0, NEW d \in Nat, d <= w, NEW n \in Nat, n <= w, NEW g \in Nat,
         NEW m, m = w - n, NEW t \in Nat, NEW s, s = Least(n, d - g), Near(g, m, w, d, t)
  PROVE  /\ Near(s, n, w, d, t + 1)
         /\ 2 * s >= -t /\ g + s <= d /\ 2 * (d - (g + s)) <= t
         /\ s < 0 => g + s = d
  <1> DEFINE c == d - g
             cw == c * w
             nd == n * d
             nw == n * w
             tw == t * w
  <1>1. cw \in Int /\ nd \in Nat /\ nw \in Nat /\ tw \in Nat /\ nd <= nw
    OBVIOUS
  <1>2. 2 * (cw - nd) \in (-tw)..tw
    <2> DEFINE gw == g * w
               md == m * d
               wd == w * d
    <2>1. md = wd - nd /\ cw = wd - gw /\ wd \in Int /\ gw \in Int /\ md \in Int
      OBVIOUS
    <2>2. 2 * (gw - md) \in (-tw)..tw
      BY DEF Near
    <2> HIDE DEF gw, md, wd, cw, nd, tw
    <2> QED
      BY <1>1, <2>1, <2>2
  <1>3. (s = n /\ n <= c) \/ (s = c /\ c < n)
    BY DEF Least
  <1>4. c \in Int /\ s \in Int
    BY DEF Least
  <1>5. (t + 1) * w = tw + w
    OBVIOUS
  <1>6. CASE s = n /\ n <= c
    <2>1. nw <= cw
      BY <1>4, <1>6
    <2>2. 2 * (nw - nd) \in (-(tw + w))..(tw + w) /\ 2 * cw <= 2 * nw + tw
      <3> HIDE DEF cw, nd, nw, tw
      <3> QED
        BY <1>1, <1>2, <2>1
    <2>3. Near(s, n, w, d, t + 1)
      BY <1>5, <1>6, <2>2 DEF Near
    <2>4. 2 * (c - n) <= t
      <3> DEFINE a == 2 * (c - n)
      <3>1. a * w = 2 * cw - 2 * nw
        BY <1>4
      <3>2. a * w <= t * w
        <4> HIDE DEF cw, nw, a
        <4> QED
          BY <1>1, <2>2, <3>1
      <3>3. a \in Int
        BY <1>4
      <3> HIDE DEF a
      <3>4. a <= t
        BY <3>2, <3>3, Cancel
      <3> QED
        BY <3>4 DEF a
    <2> HIDE DEF cw, nd, nw, tw
    <2> QED
      BY <1>4, <1>6, <2>3, <2>4
  <1>7. CASE s = c /\ c < n
    <2>1. 2 * (cw - nd) \in (-(tw + w))..(tw + w) /\ 2 * cw >= -tw
      <3> HIDE DEF cw, nd, nw, tw
      <3> QED
        BY <1>1, <1>2
    <2>2. Near(s, n, w, d, t + 1)
      BY <1>5, <1>7, <2>1 DEF Near
    <2>3. -t <= 2 * c
      <3> DEFINE a == 2 * c
                 b == -t
      <3>1. a * w = 2 * cw /\ b * w = -tw
        BY <1>4
      <3>2. b * w <= a * w
        <4> HIDE DEF cw, tw, a, b
        <4> QED
          BY <1>1, <2>1, <3>1
      <3>3. a \in Int /\ b \in Int
        BY <1>4
      <3> HIDE DEF a, b
      <3>4. b <= a
        BY <3>2, <3>3, Cancel
      <3> QED
        BY <3>4 DEF a, b
    <2> HIDE DEF cw, nd, nw, tw
    <2> QED
      BY <1>4, <1>7, <2>2, <2>3
  <1> QED
    BY <1>3, <1>6, <1>7

\* How the discount d is shared: as DiscountIsShared says, and one line may take less than its part.
Asked(ls, d) == Least(d, Worth(ls))
SharedAt(ls, d, y) ==
  LET given == Total(Shares(ls, d)) IN
  /\ \A j \in DOMAIN ls \ {y} : Share(ls, d, j) >= 0
  /\ 2 * Share(ls, d, y) >= -(Len(ls) - 1)
  /\ given \in Int /\ given <= Asked(ls, d) /\ 2 * (Asked(ls, d) - given) <= Len(ls) - 1
  /\ Share(ls, d, y) < 0 => given = Asked(ls, d)
  /\ given = Asked(ls, d) \/ (TakesRest(ls, y) /\ Share(ls, d, y) = Net(ls[y]))
  /\ \A i \in DOMAIN ls :
       Near(Share(ls, d, i), Net(ls[i]), Worth(ls), Asked(ls, d), Len(ls))

\* Shares are whole numbers of cents, one a line.
LEMMA SharesAre ==
  ASSUME NEW ls \in Seq(Line), NEW d \in Nat
  PROVE  /\ Shares(ls, d) \in [DOMAIN ls -> Int]
         /\ \A i \in DOMAIN ls : Shares(ls, d)[i] = Share(ls, d, i)
  <1>1. \A i \in DOMAIN ls : Share(ls, d, i) \in Int
    BY ShareIs
  <1> QED
    BY <1>1 DEF Shares

\* All of it is near all of it.
LEMMA NearNothing ==
  ASSUME NEW n \in Int, NEW w \in Nat, NEW halves \in Nat
  PROVE  Near(n, n, w, w, halves)
  <1> DEFINE p == n * w
             q == halves * w
  <1>1. p \in Int /\ q \in Nat
    OBVIOUS
  <1> HIDE DEF p, q
  <1>2. 2 * (p - p) \in (-q)..q
    BY <1>1
  <1> QED
    BY <1>2 DEF p, q, Near

\* The discount of every bill is shared as SharedAt says, with some line that takes the rest.
LEMMA Shared ==
  ASSUME NEW ls \in Seq(Line), ls # <<>>, NEW d \in Nat
  PROVE  \E y \in DOMAIN ls : SharedAt(ls, d, y)
  <1> DEFINE w == Worth(ls)
             D == DOMAIN ls
             s == Shares(ls, d)
             t == Len(ls) - 1
  <1>1. /\ w \in Nat /\ D = 1..Len(ls) /\ Len(ls) \in Nat /\ t \in Nat /\ 1 \in D
        /\ Len(ls) = t + 1
    <2>1. w \in Nat
      BY NetsAre
    <2>2. Len(ls) \in Nat /\ Len(ls) # 0 /\ D = 1..Len(ls)
      OBVIOUS
    <2> QED
      BY <2>1, <2>2
  <1>2. s \in [D -> Int] /\ IsFiniteSet(D) /\ \A i \in D : s[i] = Share(ls, d, i)
    BY NetsAre, SharesAre
  <1>3. \A i \in D : Net(ls[i]) \in Nat /\ Net(ls[i]) <= w
    BY NetsAre
  <1>4. CASE d = 0 \/ w = 0
    <2>1. Asked(ls, d) = 0
      BY <1>1, <1>4 DEF Asked, Least
    <2>2. \A i \in D : Share(ls, d, i) = 0
      <3> TAKE i \in D
      <3>1. Net(ls[i]) \in Nat /\ Net(ls[i]) <= w
        BY <1>3
      <3>2. d = 0 \/ Net(ls[i]) = 0
        BY <1>1, <1>4, <3>1
      <3>3. Share(ls, d, i) = Proportional(ls, d, i)
        BY <3>2, ShareIs
      <3>4. Proportional(ls, d, i) = 0
        BY <3>2 DEF Proportional
      <3> QED
        BY <3>3, <3>4
    <2>3. Total(s) = 0
      <3>1. \A i \in D : s[i] = 0
        BY <1>2, <2>2
      <3> HIDE DEF s, D
      <3> QED
        BY <1>2, <3>1, TotalNothing DEF Total
    <2>4. \A i \in D : Near(0, Net(ls[i]), w, 0, Len(ls))
      <3> TAKE i \in D
      <3> DEFINE n == Net(ls[i])
                 q == Len(ls) * w
      <3>1. n \in Nat /\ q \in Nat
        BY <1>1, <1>3
      <3> HIDE DEF n, q, w
      <3>2. w \in Nat
        BY <1>1
      <3>3. 0 * w = 0 /\ n * 0 = 0
        BY <3>1, <3>2
      <3>4. 2 * (0 * w - n * 0) \in (-q)..q
        BY <3>1, <3>3
      <3> QED
        BY <3>4 DEF Near, n, q
    <2>5. /\ \A j \in D : Share(ls, d, j) >= 0 /\ ~(Share(ls, d, j) < 0)
          /\ 2 * Share(ls, d, 1) >= -t /\ 2 * (0 - 0) <= t
      BY <1>1, <2>2
    <2>6. \A i \in D : Near(Share(ls, d, i), Net(ls[i]), w, 0, Len(ls))
      BY <2>2, <2>4
    <2>7. SharedAt(ls, d, 1)
      <3>1. Total(Shares(ls, d)) = 0 /\ 0 \in Int /\ 0 <= 0
        BY <2>3
      <3>2. \A j \in D \ {1} : Share(ls, d, j) >= 0
        BY <2>5
      <3>3. 2 * Share(ls, d, 1) >= -(Len(ls) - 1) /\ 2 * (0 - 0) <= Len(ls) - 1
        BY <2>5
      <3>4. Share(ls, d, 1) < 0 => 0 = 0
        OBVIOUS
      <3> QED
        BY <2>1, <2>6, <3>1, <3>2, <3>3, <3>4, Zenon DEF SharedAt
    <2> QED
      BY <1>1, <2>7
  <1>5. CASE ~(d = 0 \/ w = 0)
    <2>1. PICK y \in D, g \in Nat, m \in Nat : RestAt(ls, d, y, g, m)
      BY <1>5, OneTakesRest
    <2> DEFINE n == Net(ls[y])
               sy == Share(ls, d, y)
    <2>2. n \in Nat /\ n <= w /\ sy \in Int
      BY <1>3, ShareIs
    <2>3. /\ m = w - n /\ sy = Least(n, d - g) /\ TakesRest(ls, y)
          /\ Total(s) = g + sy
          /\ \A j \in D \ {y} : Share(ls, d, j) = Proportional(ls, d, j)
          /\ d >= w => g = m
          /\ d <= w => Near(g, m, w, d, t)
      BY <2>1 DEF RestAt
    <2>4. \A j \in D \ {y} : Share(ls, d, j) \in 0..Net(ls[j])
      BY <2>3, ProportionIs
    <2>5. \A j \in D \ {y} : Share(ls, d, j) >= 0
      <3> TAKE j \in D \ {y}
      <3>1. Share(ls, d, j) \in 0..Net(ls[j]) /\ Net(ls[j]) \in Nat
        BY <1>3, <2>4
      <3> QED
        BY <3>1
    <2>6. CASE d >= w
      <3>1. g = w - n
        BY <2>3, <2>6
      <3>2. Asked(ls, d) = w /\ sy = n
        <4> HIDE DEF n, sy, w
        <4>1. w \in Nat
          BY <1>1
        <4>2. Asked(ls, d) = w
          BY <2>6, <4>1 DEF Asked, Least, w
        <4>3. sy = n
          BY <2>2, <2>3, <2>6, <3>1, <4>1 DEF Least
        <4> QED
          BY <4>2, <4>3
      <3>3. \A i \in D : Share(ls, d, i) = Net(ls[i])
        <4> TAKE i \in D
        <4>1. CASE i = y
          BY <3>2, <4>1
        <4>2. CASE i # y
          <5>1. Proportional(ls, d, i) = Net(ls[i])
            BY <1>5, <2>6, ProportionIs
          <5> QED
            BY <2>3, <4>2, <5>1
        <4> QED
          BY <4>1, <4>2
      <3>4. Total(s) = w
        <4> HIDE DEF n, sy, w, s
        <4>1. w \in Nat
          BY <1>1
        <4> QED
          BY <2>2, <2>3, <3>1, <3>2, <4>1
      <3>5. \A i \in D : Near(Share(ls, d, i), Net(ls[i]), w, Asked(ls, d), Len(ls))
        <4> TAKE i \in D
        <4>1. Net(ls[i]) \in Int /\ w \in Nat /\ Len(ls) \in Nat
          BY <1>1, <1>3
        <4>2. Near(Net(ls[i]), Net(ls[i]), w, w, Len(ls))
          BY <4>1, NearNothing
        <4> QED
          BY <3>2, <3>3, <4>2
      <3>6. 2 * sy >= -t /\ w \in Int /\ w <= w /\ 2 * (w - w) <= t /\ ~(sy < 0)
        <4> HIDE DEF n, sy, w, t
        <4> QED
          BY <1>1, <2>2, <3>2
      <3>7. SharedAt(ls, d, y)
        BY <2>3, <2>5, <3>2, <3>4, <3>5, <3>6 DEF SharedAt
      <3> QED
        BY <3>7
    <2>7. CASE ~(d >= w)
      <3>1. d <= w /\ Asked(ls, d) = d
        BY <1>1, <2>7 DEF Asked, Least
      <3>2. /\ Near(sy, n, w, d, t + 1)
            /\ 2 * sy >= -t /\ g + sy <= d /\ 2 * (d - (g + sy)) <= t
            /\ sy < 0 => g + sy = d
        <4>1. w \in Nat /\ w # 0 /\ t \in Nat
          BY <1>1, <1>5
        <4> HIDE DEF n, sy, w, t
        <4> QED
          BY <2>2, <2>3, <3>1, <4>1, RestIs
      <3>3. \A i \in D : Near(Share(ls, d, i), Net(ls[i]), w, d, Len(ls))
        <4> TAKE i \in D
        <4>1. CASE i = y
          BY <1>1, <3>2, <4>1
        <4>2. CASE i # y
          <5> DEFINE ni == Net(ls[i])
                     p == Proportional(ls, d, i)
                     e == 2 * (p * w - ni * d)
                     tw == t * w
          <5>1. e \in (-w)..w
            BY <3>1, ProportionIs
          <5>2. Len(ls) * w = tw + w /\ tw \in Nat /\ w \in Nat
            <6>1. w \in Nat /\ t \in Nat /\ Len(ls) = t + 1
              BY <1>1
            <6> HIDE DEF w, t
            <6> QED
              BY <6>1
          <5>3. e \in (-(tw + w))..(tw + w)
            <6> HIDE DEF e, tw, w
            <6> QED
              BY <5>1, <5>2
          <5>4. Near(p, ni, w, d, Len(ls))
            BY <5>2, <5>3 DEF Near
          <5> QED
            BY <2>3, <4>2, <5>4
        <4> QED
          BY <4>1, <4>2
      <3>4. g + sy = d \/ sy = n
        <4> HIDE DEF n, sy
        <4> QED
          BY <2>2, <2>3 DEF Least
      <3>5. g + sy \in Int
        BY <2>2
      <3>6. SharedAt(ls, d, y)
        <4>1. Total(Shares(ls, d)) = g + sy /\ Worth(ls) = w
          BY <2>3
        <4>2. g + sy = d \/ (TakesRest(ls, y) /\ sy = n)
          BY <2>3, <3>4
        <4>3. -(Len(ls) - 1) = -t /\ Len(ls) - 1 = t
          BY <1>1
        <4> QED
          BY <2>5, <3>1, <3>2, <3>3, <3>5, <4>1, <4>2, <4>3, Zenon DEF SharedAt
      <3> QED
        BY <3>6
    <2> QED
      BY <2>6, <2>7
  <1> QED
    BY <1>4, <1>5
-----------------------------------------------------------------------------
(* Pricing: what a bill adds up to *)

BillForm ==
  [lines : Seq(Int), subtotal : Int, discount : Int, central : Int, state : Int,
   taxable : Int, tax : Int, grand : Int]

\* Kept folded, where sums are proved.
Lines == Seq(Line)

AddsUp(b) ==
  /\ b \in BillForm
  /\ Total(b.lines) = b.grand
  /\ b.central + b.state = b.tax /\ b.state >= 0
  /\ b.subtotal - b.discount + b.tax = b.grand
  /\ \A i \in DOMAIN b.lines : b.lines[i] >= 0

Taxes(ls, d) == [i \in DOMAIN ls |-> LineTax(ls[i], Share(ls, d, i))]
Taxables(ls, d) == [i \in DOMAIN ls |-> Net(ls[i]) - Share(ls, d, i)]
Charged(ls, d) == [i \in DOMAIN ls |-> Net(ls[i]) - Share(ls, d, i) + LineTax(ls[i], Share(ls, d, i))]
Centrals(ls, d) == [i \in DOMAIN ls |-> Central(ls[i], Share(ls, d, i))]
StateTaxes(ls, d) == [i \in DOMAIN ls |-> StateTax(ls[i], Share(ls, d, i))]
Bases(ls) == [i \in DOMAIN ls |-> Base(ls[i])]
Offs(ls) == [i \in DOMAIN ls |-> LineOff(ls[i])]

\* A bill is the sums of its lines' parts.
LEMMA CalculateIs ==
  ASSUME NEW ls \in Seq(Line), NEW d \in Nat
  PROVE  Calculate(ls, d) =
           [lines |-> Charged(ls, d), subtotal |-> Total(Bases(ls)),
            discount |-> Total(Offs(ls)) + Total(Shares(ls, d)),
            central |-> Total(Centrals(ls, d)), state |-> Total(StateTaxes(ls, d)),
            taxable |-> Total(Taxables(ls, d)), tax |-> Total(Taxes(ls, d)),
            grand |-> Total(Taxables(ls, d)) + Total(Taxes(ls, d))]
  <1> DEFINE sh == Shares(ls, d)
  <1>1. \A i \in DOMAIN ls : sh[i] = Share(ls, d, i)
    BY SharesAre
  <1> HIDE DEF sh
  <1>2. [i \in DOMAIN ls |-> LineTax(ls[i], sh[i])] = Taxes(ls, d)
    BY <1>1 DEF Taxes
  <1>3. [i \in DOMAIN ls |-> Net(ls[i]) - sh[i]] = Taxables(ls, d)
    BY <1>1 DEF Taxables
  <1>4. [i \in DOMAIN ls |-> Taxables(ls, d)[i] + Taxes(ls, d)[i]] = Charged(ls, d)
    BY DEF Taxables, Taxes, Charged
  <1>5. [i \in DOMAIN ls |-> Central(ls[i], sh[i])] = Centrals(ls, d)
    BY <1>1 DEF Centrals
  <1>6. [i \in DOMAIN ls |-> StateTax(ls[i], sh[i])] = StateTaxes(ls, d)
    BY <1>1 DEF StateTaxes
  <1>7. Subtotal(ls) = Total(Bases(ls)) /\ Each(ls, LineOff) = Offs(ls)
    BY DEF Subtotal, Each, Bases, Offs
  <1>8. Calculate(ls, d) = Totals(ls, sh, Taxes(ls, d))
    BY <1>2 DEF Calculate, Taxed, sh
  <1> QED
    BY <1>3, <1>4, <1>5, <1>6, <1>7, <1>8, Zenon DEF Totals, sh

\* The parts of each line add up to it, and none of them is charged less than nothing.
LEMMA PartsAre ==
  ASSUME NEW ls \in Seq(Line), NEW d \in Nat
  PROVE  /\ Taxes(ls, d) \in [DOMAIN ls -> Int] /\ Taxables(ls, d) \in [DOMAIN ls -> Int]
         /\ Charged(ls, d) \in [DOMAIN ls -> Int] /\ Centrals(ls, d) \in [DOMAIN ls -> Int]
         /\ StateTaxes(ls, d) \in [DOMAIN ls -> Nat] /\ StateTaxes(ls, d) \in [DOMAIN ls -> Int]
         /\ Bases(ls) \in [DOMAIN ls -> Int] /\ Offs(ls) \in [DOMAIN ls -> Int]
         /\ \A i \in DOMAIN ls :
              /\ Charged(ls, d)[i] >= 0
              /\ Charged(ls, d)[i] = Taxables(ls, d)[i] + Taxes(ls, d)[i]
              /\ Taxes(ls, d)[i] = Centrals(ls, d)[i] + StateTaxes(ls, d)[i]
              /\ Nets(ls)[i] = Taxables(ls, d)[i] + Shares(ls, d)[i]
              /\ Bases(ls)[i] = Nets(ls)[i] + Offs(ls)[i]
  <1>1. \A i \in DOMAIN ls :
          LET l == ls[i]
              s == Share(ls, d, i) IN
          /\ Net(l) \in Int /\ s \in Int /\ LineTax(l, s) \in Int /\ Net(l) - s \in Int
          /\ Net(l) - s + LineTax(l, s) \in Int /\ Net(l) - s + LineTax(l, s) >= 0
          /\ Central(l, s) \in Int /\ StateTax(l, s) \in Nat /\ StateTax(l, s) \in Int
          /\ LineTax(l, s) = Central(l, s) + StateTax(l, s)
          /\ Base(l) \in Int /\ LineOff(l) \in Int /\ Base(l) = Net(l) + LineOff(l)
          /\ Net(l) = (Net(l) - s) + s
    <2> TAKE i \in DOMAIN ls
    <2> DEFINE l == ls[i]
               s == Share(ls, d, i)
    <2>1. l \in Line
      OBVIOUS
    <2>2. s \in Int /\ s <= Net(l)
      BY ShareIs
    <2>3. Base(l) \in Nat /\ LineOff(l) \in 0..Base(l) /\ Net(l) \in 0..Base(l)
      BY <2>1, LineIs
    <2>4. Net(l) = Base(l) - LineOff(l)
      BY DEF Net
    <2>5. LineTax(l, s) \in Nat /\ Central(l, s) \in Nat /\ StateTax(l, s) \in Nat
      <3> HIDE DEF l, s
      <3> QED
        BY <2>1, <2>2, TaxIs
    <2>6. StateTax(l, s) = LineTax(l, s) - Central(l, s)
      BY DEF StateTax
    <2> DEFINE ba == Base(l)
               of == LineOff(l)
               ne == Net(l)
               tx == LineTax(l, s)
               ce == Central(l, s)
               st == StateTax(l, s)
    <2> HIDE DEF l, s, ba, of, ne, tx, ce, st
    <2>7. /\ ne \in Int /\ s \in Int /\ tx \in Int /\ ne - s \in Int
          /\ ne - s + tx \in Int /\ ne - s + tx >= 0
          /\ ce \in Int /\ st \in Nat /\ st \in Int /\ tx = ce + st
          /\ ba \in Int /\ of \in Int /\ ba = ne + of /\ ne = (ne - s) + s
      BY <2>2, <2>3, <2>4, <2>5, <2>6, SMTT(30) DEF ba, of, ne, tx, ce, st
    <2> QED
      BY <2>7 DEF l, s, ba, of, ne, tx, ce, st
  <1>2. \A i \in DOMAIN ls : Shares(ls, d)[i] = Share(ls, d, i)
    BY SharesAre
  <1>3. /\ Taxes(ls, d) \in [DOMAIN ls -> Int] /\ Taxables(ls, d) \in [DOMAIN ls -> Int]
        /\ Charged(ls, d) \in [DOMAIN ls -> Int] /\ Centrals(ls, d) \in [DOMAIN ls -> Int]
        /\ StateTaxes(ls, d) \in [DOMAIN ls -> Nat] /\ StateTaxes(ls, d) \in [DOMAIN ls -> Int]
        /\ Bases(ls) \in [DOMAIN ls -> Int] /\ Offs(ls) \in [DOMAIN ls -> Int]
    BY <1>1 DEF Taxes, Taxables, Charged, Centrals, StateTaxes, Bases, Offs
  <1>4. \A i \in DOMAIN ls :
              /\ Charged(ls, d)[i] >= 0
              /\ Charged(ls, d)[i] = Taxables(ls, d)[i] + Taxes(ls, d)[i]
              /\ Taxes(ls, d)[i] = Centrals(ls, d)[i] + StateTaxes(ls, d)[i]
              /\ Nets(ls)[i] = Taxables(ls, d)[i] + Shares(ls, d)[i]
              /\ Bases(ls)[i] = Nets(ls)[i] + Offs(ls)[i]
    BY <1>1, <1>2 DEF Taxes, Taxables, Charged, Centrals, StateTaxes, Bases, Offs, Nets
  <1> QED
    BY <1>3, <1>4

\* Every bill that calculateInvoice works out adds up.
LEMMA Calculated ==
  ASSUME NEW ls \in Lines, NEW d \in Nat
  PROVE  /\ AddsUp(Calculate(ls, d))
         /\ Calculate(ls, d).grand = Worth(ls) - Total(Shares(ls, d)) + Total(Taxes(ls, d))
         /\ Total(Shares(ls, d)) \in Int /\ Total(Taxes(ls, d)) \in Int /\ Worth(ls) \in Int
         /\ Calculate(ls, d).grand \in Int
  <1> DEFINE D == DOMAIN ls
             tx == Taxes(ls, d)
             tb == Taxables(ls, d)
             li == Charged(ls, d)
             ce == Centrals(ls, d)
             st == StateTaxes(ls, d)
             ba == Bases(ls)
             ne == Nets(ls)
             of == Offs(ls)
             sh == Shares(ls, d)
             b == Calculate(ls, d)
  <1>1. /\ IsFiniteSet(D) /\ ne \in [D -> Int] /\ Worth(ls) = Total(ne)
        /\ DOMAIN ls = 1..Len(ls) /\ Len(ls) \in Nat
    <2>1. IsFiniteSet(D) /\ ne \in [D -> Int] /\ Worth(ls) = SumFunction(ne)
      BY NetsAre DEF Lines
    <2>2. DOMAIN ls = 1..Len(ls) /\ Len(ls) \in Nat
      BY DEF Lines
    <2> QED
      BY <2>1, <2>2 DEF Total
  <1>2. sh \in [D -> Int]
    BY SharesAre DEF Lines
  <1>3. /\ tx \in [D -> Int] /\ tb \in [D -> Int] /\ li \in [D -> Int] /\ ce \in [D -> Int]
        /\ st \in [D -> Int] /\ st \in [D -> Nat] /\ ba \in [D -> Int] /\ of \in [D -> Int]
    BY PartsAre DEF Lines
  <1>4. /\ \A i \in D : li[i] = tb[i] + tx[i]
        /\ \A i \in D : tx[i] = ce[i] + st[i]
        /\ \A i \in D : ne[i] = tb[i] + sh[i]
        /\ \A i \in D : ba[i] = ne[i] + of[i]
        /\ \A i \in D : li[i] >= 0
    BY PartsAre DEF Lines
  <1>5. b = [lines |-> li, subtotal |-> Total(ba), discount |-> Total(of) + Total(sh),
             central |-> Total(ce), state |-> Total(st), taxable |-> Total(tb), tax |-> Total(tx),
             grand |-> Total(tb) + Total(tx)]
    BY CalculateIs DEF Lines
  <1>6. li \in Seq(Int)
    <2> DEFINE n == Len(ls)
    <2>1. n \in Nat /\ li \in [1..n -> Int]
      BY <1>1, <1>3
    <2> HIDE DEF n, li
    <2> QED
      BY <2>1
  <1>7. DOMAIN li = D
    BY <1>3
  <1> HIDE DEF D, tx, tb, li, ce, st, ba, ne, of, sh, b
  <1>8. Total(li) = Total(tb) + Total(tx)
    <2>1. tb \in [D -> Int] /\ tx \in [D -> Int] /\ li \in [D -> Int] /\ IsFiniteSet(D)
      BY <1>1, <1>2, <1>3
    <2>2. \A i \in D : li[i] = tb[i] + tx[i]
      BY <1>4
    <2>3. SumFunction(li) = SumFunction(tb) + SumFunction(tx)
      BY <2>1, <2>2, TotalPlus
    <2> QED
      BY <2>3 DEF Total
  <1>9. Total(tx) = Total(ce) + Total(st)
    <2>1. ce \in [D -> Int] /\ st \in [D -> Int] /\ tx \in [D -> Int] /\ IsFiniteSet(D)
      BY <1>1, <1>2, <1>3
    <2>2. \A i \in D : tx[i] = ce[i] + st[i]
      BY <1>4
    <2>3. SumFunction(tx) = SumFunction(ce) + SumFunction(st)
      BY <2>1, <2>2, TotalPlus
    <2> QED
      BY <2>3 DEF Total
  <1>10. Total(ne) = Total(tb) + Total(sh)
    <2>1. tb \in [D -> Int] /\ sh \in [D -> Int] /\ ne \in [D -> Int] /\ IsFiniteSet(D)
      BY <1>1, <1>2, <1>3
    <2>2. \A i \in D : ne[i] = tb[i] + sh[i]
      BY <1>4
    <2>3. SumFunction(ne) = SumFunction(tb) + SumFunction(sh)
      BY <2>1, <2>2, TotalPlus
    <2> QED
      BY <2>3 DEF Total
  <1>11. Total(ba) = Total(ne) + Total(of)
    <2>1. ne \in [D -> Int] /\ of \in [D -> Int] /\ ba \in [D -> Int] /\ IsFiniteSet(D)
      BY <1>1, <1>2, <1>3
    <2>2. \A i \in D : ba[i] = ne[i] + of[i]
      BY <1>4
    <2>3. SumFunction(ba) = SumFunction(ne) + SumFunction(of)
      BY <2>1, <2>2, TotalPlus
    <2> QED
      BY <2>3 DEF Total
  <1>12. /\ Total(tx) \in Int /\ Total(tb) \in Int /\ Total(ce) \in Int /\ Total(of) \in Int
         /\ Total(ba) \in Int
    BY <1>1, <1>3, TotalInt DEF Total
  <1>13. Total(sh) \in Int /\ Total(ne) \in Int
    BY <1>1, <1>2, TotalInt DEF Total
  <1>14. Total(st) \in Nat
    BY <1>1, <1>3, TotalNat DEF Total
  <1>15. b.grand = Worth(ls) - Total(sh) + Total(tx) /\ b.grand \in Int
    BY <1>1, <1>5, <1>10, <1>12, <1>13
  <1>16. AddsUp(b)
    <2>1. b \in BillForm
      BY <1>5, <1>6, <1>12, <1>13, <1>14 DEF BillForm
    <2>2. /\ b.subtotal = Total(ba) /\ b.discount = Total(of) + Total(sh) /\ b.tax = Total(tx)
          /\ b.grand = Total(tb) + Total(tx) /\ b.lines = li /\ b.central = Total(ce)
          /\ b.state = Total(st)
      BY <1>5
    <2>3. b.central + b.state = b.tax /\ b.state >= 0
      BY <1>9, <1>14, <2>2
    <2>4. b.subtotal - b.discount + b.tax = b.grand
      BY <1>10, <1>11, <1>12, <1>13, <2>2
    <2> QED
      BY <1>7, <1>4, <1>8, <2>1, <2>2, <2>3, <2>4 DEF AddsUp
  <1> QED
    BY <1>1, <1>12, <1>13, <1>15, <1>16 DEF b, sh, tx
-----------------------------------------------------------------------------
(* Pricing: what the till shows *)

Rates(ls) == {l.rate : l \in Range(ls)}
NetRates(ls) == [i \in DOMAIN ls |-> Net(ls[i]) * ls[i].rate]
ShareRates(ls, d) == [i \in DOMAIN ls |-> Share(ls, d, i) * ls[i].rate]
Roundings(ls, d) ==
  [i \in DOMAIN ls |->
     100 * LineTax(ls[i], Share(ls, d, i)) - (Net(ls[i]) - Share(ls, d, i)) * ls[i].rate]
Unrounded(ls, d) == [i \in DOMAIN ls |-> NetRates(ls)[i] + Roundings(ls, d)[i]]
Hundreds(ls, d) == [i \in DOMAIN ls |-> 100 * Taxes(ls, d)[i]]
AtRate(ls, d, r) == [i \in DOMAIN ls |-> r * Share(ls, d, i)]
BelowRate(ls, d, r) == [i \in DOMAIN ls |-> r * Share(ls, d, i) - Share(ls, d, i) * ls[i].rate]

\* The highest rate of a bill is one of its rates, and above none.
LEMMA HighestRate ==
  ASSUME NEW ls \in Seq(Line), ls # <<>>
  PROVE  Max(Rates(ls)) \in 0..100 /\ \A i \in DOMAIN ls : ls[i].rate <= Max(Rates(ls))
  <1> DEFINE S == Rates(ls)
  <1>1. \A i \in DOMAIN ls : ls[i] \in Line /\ ls[i].rate \in S
    BY DEF Rates, Range
  <1>2. \A x \in S : x \in Int /\ x \in 0..100
    <2> TAKE x \in S
    <2>1. PICK i \in DOMAIN ls : x = ls[i].rate
      BY DEF Rates, Range
    <2>2. ls[i].rate \in 0..100
      BY <1>1, LineIs
    <2>3. x \in 0..100
      BY <2>1, <2>2
    <2> QED
      BY <2>3
  <1>3. IsFiniteSet(S) /\ S # {}
    <2>1. S = {ls[i].rate : i \in DOMAIN ls}
      BY DEF Rates, Range
    <2>2. IsFiniteSet(DOMAIN ls)
      BY NetsAre
    <2>3. IsFiniteSet(S)
      <3> DEFINE D == DOMAIN ls
                 f == [i \in D |-> ls[i].rate]
      <3>1. f \in Surjection(D, S)
        BY <2>1 DEF Surjection
      <3> HIDE DEF f, D, S
      <3>2. IsFiniteSet(D)
        BY <2>2 DEF D
      <3> QED
        BY <3>1, <3>2, FS_Surjection
    <2>4. 1 \in DOMAIN ls
      OBVIOUS
    <2> QED
      BY <1>1, <2>3, <2>4
  <1> HIDE DEF S
  <1>4. \E x \in S : \A y \in S : x >= y
    BY <1>2, <1>3, Highest
  <1>5. Max(S) \in S /\ \A y \in S : Max(S) >= y
    BY <1>4 DEF Max
  <1>6. \A i \in DOMAIN ls : ls[i].rate <= Max(S)
    BY <1>1, <1>2, <1>5
  <1> QED
    BY <1>2, <1>5, <1>6 DEF S

\* What the till's and the invoice's taxes of a line have to do with each other.
LEMMA RatesAre ==
  ASSUME NEW ls \in Seq(Line), NEW d \in Nat, NEW r \in 0..100,
         \A i \in DOMAIN ls : ls[i].rate <= r
  PROVE  /\ NetRates(ls) \in [DOMAIN ls -> Nat] /\ NetRates(ls) \in [DOMAIN ls -> Int]
         /\ ShareRates(ls, d) \in [DOMAIN ls -> Int] /\ Roundings(ls, d) \in [DOMAIN ls -> Int]
         /\ Unrounded(ls, d) \in [DOMAIN ls -> Int] /\ Hundreds(ls, d) \in [DOMAIN ls -> Int]
         /\ AtRate(ls, d, r) \in [DOMAIN ls -> Int] /\ BelowRate(ls, d, r) \in [DOMAIN ls -> Int]
         /\ \A i \in DOMAIN ls : Bounded(1, -50, Roundings(ls, d)[i], 50)
         /\ \A i \in DOMAIN ls : Unrounded(ls, d)[i] = NetRates(ls)[i] + Roundings(ls, d)[i]
         /\ \A i \in DOMAIN ls : Unrounded(ls, d)[i] = Hundreds(ls, d)[i] + ShareRates(ls, d)[i]
         /\ \A i \in DOMAIN ls : Hundreds(ls, d)[i] = Times(100, Taxes(ls, d)[i])
         /\ \A i \in DOMAIN ls : AtRate(ls, d, r)[i] = Times(r, Shares(ls, d)[i])
         /\ \A i \in DOMAIN ls : AtRate(ls, d, r)[i] = BelowRate(ls, d, r)[i] + ShareRates(ls, d)[i]
         /\ \A i \in DOMAIN ls : Share(ls, d, i) >= 0 =>
              ShareRates(ls, d)[i] >= 0 /\ BelowRate(ls, d, r)[i] >= 0
         /\ \A i \in DOMAIN ls, t \in Nat : Share(ls, d, i) < 0 /\ 2 * Share(ls, d, i) >= -t =>
              ShareRates(ls, d)[i] >= -(50 * t) /\ BelowRate(ls, d, r)[i] >= -(50 * t)
  <1> DEFINE N(i) == Net(ls[i])
             S(i) == Share(ls, d, i)
             R(i) == ls[i].rate
             T(i) == LineTax(ls[i], Share(ls, d, i))
  <1>1. \A i \in DOMAIN ls : N(i) \in Nat /\ S(i) \in Int /\ R(i) \in 0..100 /\ R(i) <= r /\ T(i) \in Nat
                             /\ 100 * T(i) - (N(i) - S(i)) * R(i) \in (-50)..50
    <2> TAKE i \in DOMAIN ls
    <2>1. ls[i] \in Line
      OBVIOUS
    <2>2. S(i) \in Int /\ S(i) <= N(i)
      BY ShareIs
    <2>3. N(i) \in Nat
      BY NetsAre
    <2>4. R(i) \in 0..100
      BY <2>1, LineIs
    <2>5. T(i) \in Nat /\ 100 * T(i) - (N(i) - S(i)) * R(i) \in (-50)..50
      BY <2>1, <2>2, TaxIs
    <2> HIDE DEF N, S, R, T
    <2> QED
      BY <2>2, <2>3, <2>4, <2>5 DEF R
  <1> DEFINE NR(i) == N(i) * R(i)
             SR(i) == S(i) * R(i)
             E(i) == 100 * T(i) - (N(i) - S(i)) * R(i)
             A(i) == r * S(i)
             B(i) == r * S(i) - S(i) * R(i)
  <1>2. \A i \in DOMAIN ls :
          /\ NR(i) \in Nat /\ SR(i) \in Int /\ E(i) \in Int /\ A(i) \in Int /\ B(i) \in Int
          /\ NR(i) + E(i) \in Int /\ 100 * T(i) \in Int
          /\ NR(i) + E(i) = 100 * T(i) + SR(i) /\ A(i) = B(i) + SR(i)
          /\ -50 <= E(i) /\ E(i) <= 50
          /\ S(i) >= 0 => SR(i) >= 0 /\ B(i) >= 0
          /\ \A t \in Nat : S(i) < 0 /\ 2 * S(i) >= -t => SR(i) >= -(50 * t) /\ B(i) >= -(50 * t)
    <2> TAKE i \in DOMAIN ls
    <2> DEFINE n == N(i)
               s == S(i)
               p == R(i)
               x == T(i)
               q == r - p
               nr == n * p
               sr == s * p
               e == E(i)
               a == r * s
    <2>1. n \in Nat /\ s \in Int /\ p \in 0..100 /\ q \in 0..100 /\ x \in Nat /\ e \in (-50)..50
      <3>1. n \in Nat /\ s \in Int /\ p \in 0..100 /\ p <= r /\ x \in Nat /\ e \in (-50)..50
        BY <1>1
      <3> HIDE DEF n, s, p, x, e
      <3>2. q \in 0..100
        BY <3>1
      <3> HIDE DEF q
      <3> QED
        BY <3>1, <3>2
    <2>2. e = 100 * x - (n - s) * p /\ B(i) = r * s - s * p
      OBVIOUS
    <2> HIDE DEF n, s, p, x, e, N, S, R, T, E
    <2>3. nr \in Nat /\ sr \in Int /\ a \in Int /\ (n - s) * p = nr - sr /\ a - sr = s * q /\ s * q \in Int
      BY <2>1
    <2>4. s >= 0 => sr >= 0 /\ s * q >= 0
      BY <2>1
    <2>5. ASSUME NEW t \in Nat, s < 0, 2 * s >= -t PROVE sr >= -(50 * t) /\ s * q >= -(50 * t)
      <3>1. \A k \in 0..100 : s * k >= s * 100
        BY <2>1, <2>5
      <3>2. s * 100 >= -(50 * t)
        BY <2>1, <2>5
      <3>3. sr >= s * 100 /\ s * q >= s * 100
        BY <2>1, <3>1
      <3> DEFINE u == s * q
                 v == s * 100
      <3>4. u \in Int /\ sr \in Int /\ v \in Int
        BY <2>1, <2>3
      <3> HIDE DEF sr, u, v
      <3> QED
        BY <3>2, <3>3, <3>4 DEF v, u
    <2> DEFINE u == s * q
               b == B(i)
    <2>6. u \in Int /\ a - sr = u /\ b = a - sr
      BY <2>2, <2>3 DEF s, p
    <2> HIDE DEF nr, sr, a, u, b
    <2>7. /\ nr \in Nat /\ sr \in Int /\ e \in Int /\ a \in Int /\ b \in Int
          /\ nr + e \in Int /\ 100 * x \in Int /\ nr + e = 100 * x + sr /\ a = b + sr
          /\ -50 <= e /\ e <= 50
          /\ s >= 0 => sr >= 0 /\ b >= 0
      BY <2>1, <2>2, <2>3, <2>4, <2>6 DEF u
    <2>8. \A t \in Nat : s < 0 /\ 2 * s >= -t => sr >= -(50 * t) /\ b >= -(50 * t)
      BY <2>3, <2>5, <2>6 DEF u
    <2>9. NR(i) = nr /\ SR(i) = sr /\ A(i) = a /\ E(i) = e /\ S(i) = s /\ T(i) = x /\ B(i) = b
      BY DEF nr, sr, a, e, s, x, b, n, p
    <2> HIDE DEF NR, SR, A, B
    <2> QED
      BY <2>7, <2>8, <2>9
  <1>3. \A i \in DOMAIN ls :
          /\ Taxes(ls, d)[i] = T(i) /\ Shares(ls, d)[i] = S(i)
    BY SharesAre DEF Taxes
  <1>4. /\ NetRates(ls) = [i \in DOMAIN ls |-> NR(i)]
        /\ ShareRates(ls, d) = [i \in DOMAIN ls |-> SR(i)]
        /\ Roundings(ls, d) = [i \in DOMAIN ls |-> E(i)]
        /\ AtRate(ls, d, r) = [i \in DOMAIN ls |-> A(i)]
        /\ BelowRate(ls, d, r) = [i \in DOMAIN ls |-> B(i)]
    BY DEF NetRates, ShareRates, Roundings, AtRate, BelowRate
  <1>5. /\ Hundreds(ls, d) = [i \in DOMAIN ls |-> 100 * T(i)]
        /\ Unrounded(ls, d) = [i \in DOMAIN ls |-> NR(i) + E(i)]
    BY <1>3, <1>4 DEF Hundreds, Unrounded
  <1>6. /\ \A i \in DOMAIN ls : Times(100, Taxes(ls, d)[i]) = 100 * T(i)
        /\ \A i \in DOMAIN ls : Times(r, Shares(ls, d)[i]) = A(i)
    BY <1>3 DEF Times
  <1>7. \A i \in DOMAIN ls : Bounded(1, -50, E(i), 50)
    <2> TAKE i \in DOMAIN ls
    <2> DEFINE e == E(i)
    <2>1. e \in Int /\ -50 <= e /\ e <= 50
      BY <1>2
    <2> HIDE DEF e
    <2> QED
      BY <2>1 DEF Bounded, e
  <1> HIDE DEF N, S, R, T, NR, SR, E, A, B
  <1>8. NetRates(ls) \in [DOMAIN ls -> Nat] /\ NetRates(ls) \in [DOMAIN ls -> Int]
    BY <1>2, <1>4
  <1>9. /\ ShareRates(ls, d) \in [DOMAIN ls -> Int] /\ Roundings(ls, d) \in [DOMAIN ls -> Int]
        /\ AtRate(ls, d, r) \in [DOMAIN ls -> Int] /\ BelowRate(ls, d, r) \in [DOMAIN ls -> Int]
    BY <1>2, <1>4
  <1>10. Unrounded(ls, d) \in [DOMAIN ls -> Int] /\ Hundreds(ls, d) \in [DOMAIN ls -> Int]
    BY <1>2, <1>5
  <1>11. \A i \in DOMAIN ls :
           /\ NetRates(ls)[i] = NR(i) /\ ShareRates(ls, d)[i] = SR(i) /\ Roundings(ls, d)[i] = E(i)
           /\ AtRate(ls, d, r)[i] = A(i) /\ BelowRate(ls, d, r)[i] = B(i)
           /\ Hundreds(ls, d)[i] = 100 * T(i) /\ Unrounded(ls, d)[i] = NR(i) + E(i)
    BY <1>4, <1>5
  <1>12. \A i \in DOMAIN ls : Bounded(1, -50, Roundings(ls, d)[i], 50)
    BY <1>7, <1>11
  <1>13. \A i \in DOMAIN ls :
           /\ Unrounded(ls, d)[i] = NetRates(ls)[i] + Roundings(ls, d)[i]
           /\ Unrounded(ls, d)[i] = Hundreds(ls, d)[i] + ShareRates(ls, d)[i]
           /\ AtRate(ls, d, r)[i] = BelowRate(ls, d, r)[i] + ShareRates(ls, d)[i]
    BY <1>2, <1>11
  <1>14. \A i \in DOMAIN ls :
           /\ Hundreds(ls, d)[i] = Times(100, Taxes(ls, d)[i])
           /\ AtRate(ls, d, r)[i] = Times(r, Shares(ls, d)[i])
    BY <1>6, <1>11
  <1>15. /\ \A i \in DOMAIN ls : Share(ls, d, i) >= 0 =>
              ShareRates(ls, d)[i] >= 0 /\ BelowRate(ls, d, r)[i] >= 0
         /\ \A i \in DOMAIN ls, t \in Nat : Share(ls, d, i) < 0 /\ 2 * Share(ls, d, i) >= -t =>
              ShareRates(ls, d)[i] >= -(50 * t) /\ BelowRate(ls, d, r)[i] >= -(50 * t)
    BY <1>2, <1>11 DEF S
  <1> QED
    BY <1>8, <1>9, <1>10, <1>12, <1>13, <1>14, <1>15

TillOver(ls, d) == CartTotal(ls, d) - 100 * Calculate(ls, d).grand

TopRate(ls, r) == r \in 0..100 /\ \A i \in DOMAIN ls : ls[i].rate <= r

\* The till's total less the invoice's, once each is put together.
LEMMA Difference ==
  ASSUME NEW w \in Nat, NEW asked \in Nat, w - asked \in Nat, NEW given \in Int, NEW tax \in Int,
         NEW nr \in Nat, NEW e \in Int, NEW sr \in Int, 100 * tax + sr = nr + e,
         NEW c, c = 100 * (w - asked) + nr, NEW gr, gr = w - given + tax
  PROVE  c \in Nat /\ c - 100 * gr = sr - e - 100 * (asked - given) /\ c - 100 * gr \in Int
  <1> DEFINE x == 100 * (w - asked) + nr
             y == w - given + tax
  <1>1. x \in Nat /\ y \in Int
    OBVIOUS
  <1>2. x - 100 * y = sr - e - 100 * (asked - given)
    OBVIOUS
  <1>3. c = x /\ gr = y
    OBVIOUS
  <1> HIDE DEF x, y
  <1> QED
    BY <1>1, <1>2, <1>3

\* The till's total, from what was left of the discount, its tax, and the roundings.
LEMMA OverIs ==
  ASSUME NEW ls \in Lines, NEW d \in Nat, NEW r, TopRate(ls, r)
  PROVE  /\ CartTotal(ls, d) \in Nat /\ TillOver(ls, d) \in Int
         /\ TillOver(ls, d) = Total(ShareRates(ls, d)) - Total(Roundings(ls, d))
                            - 100 * (Asked(ls, d) - Total(Shares(ls, d)))
         /\ Total(ShareRates(ls, d)) \in Int
         /\ Total(Roundings(ls, d)) \in (-(50 * Len(ls)))..(50 * Len(ls))
         /\ Total(ShareRates(ls, d)) = r * Total(Shares(ls, d)) - Total(BelowRate(ls, d, r))
         /\ Total(BelowRate(ls, d, r)) \in Int
  <1> DEFINE D == DOMAIN ls
             nr == NetRates(ls)
             sr == ShareRates(ls, d)
             e == Roundings(ls, d)
             u == Unrounded(ls, d)
             h == Hundreds(ls, d)
             a == AtRate(ls, d, r)
             b == BelowRate(ls, d, r)
             tx == Taxes(ls, d)
             sh == Shares(ls, d)
             w == Worth(ls)
             gr == Calculate(ls, d).grand
  <1>1. /\ nr \in [D -> Nat] /\ nr \in [D -> Int] /\ sr \in [D -> Int] /\ e \in [D -> Int]
        /\ u \in [D -> Int] /\ h \in [D -> Int] /\ a \in [D -> Int] /\ b \in [D -> Int]
    BY RatesAre DEF Lines, TopRate
  <1>2. \A i \in D : Bounded(1, -50, e[i], 50)
    BY RatesAre DEF Lines, TopRate
  <1>3. \A i \in D : u[i] = nr[i] + e[i]
    BY RatesAre DEF Lines, TopRate
  <1>4. \A i \in D : u[i] = h[i] + sr[i]
    BY RatesAre DEF Lines, TopRate
  <1>5. \A i \in D : h[i] = Times(100, tx[i])
    BY RatesAre DEF Lines, TopRate
  <1>6. \A i \in D : a[i] = Times(r, sh[i])
    BY RatesAre DEF Lines, TopRate
  <1>7. \A i \in D : a[i] = b[i] + sr[i]
    BY RatesAre DEF Lines, TopRate
  <1>8. IsFiniteSet(D) /\ Cardinality(D) = Len(ls) /\ Len(ls) \in Nat
    <2> DEFINE n == Len(ls)
    <2>1. n \in Nat /\ D = 1..n
      BY DEF Lines
    <2> HIDE DEF n, D
    <2> QED
      BY <2>1, FirstPlaces DEF n
  <1>9. sh \in [D -> Int] /\ tx \in [D -> Int]
    BY SharesAre, PartsAre DEF Lines
  <1>10. w \in Nat /\ Worth(ls) = w
    BY NetsAre DEF Lines
  <1>11. /\ gr = w - Total(sh) + Total(tx) /\ Total(sh) \in Int /\ Total(tx) \in Int /\ gr \in Int
    BY Calculated
  <1>12. CartTotal(ls, d) = 100 * Most(0, w - d) + Total(nr)
    BY DEF CartTotal, Worth, Each, NetRates
  <1>13. Most(0, w - d) = w - Asked(ls, d) /\ Asked(ls, d) \in Nat /\ w - Asked(ls, d) \in Nat
    <2> HIDE DEF w
    <2>1. Asked(ls, d) = Least(d, w)
      BY DEF Asked, w
    <2> QED
      BY <1>10, <2>1 DEF Most, Least
  <1> HIDE DEF D, nr, sr, e, u, h, a, b, tx, sh, w, gr
  <1>14. SumFunction(u) = SumFunction(nr) + SumFunction(e)
    <2>1. nr \in [D -> Int] /\ e \in [D -> Int] /\ u \in [D -> Int] /\ IsFiniteSet(D)
      BY <1>1, <1>8
    <2>2. \A i \in D : u[i] = nr[i] + e[i]
      BY <1>3
    <2> QED
      BY <2>1, <2>2, TotalPlus
  <1>15. SumFunction(u) = SumFunction(h) + SumFunction(sr)
    <2>1. h \in [D -> Int] /\ sr \in [D -> Int] /\ u \in [D -> Int] /\ IsFiniteSet(D)
      BY <1>1, <1>8
    <2>2. \A i \in D : u[i] = h[i] + sr[i]
      BY <1>4
    <2> QED
      BY <2>1, <2>2, TotalPlus
  <1>16. SumFunction(a) = SumFunction(b) + SumFunction(sr)
    <2>1. b \in [D -> Int] /\ sr \in [D -> Int] /\ a \in [D -> Int] /\ IsFiniteSet(D)
      BY <1>1, <1>8
    <2>2. \A i \in D : a[i] = b[i] + sr[i]
      BY <1>7
    <2> QED
      BY <2>1, <2>2, TotalPlus
  <1>17. SumFunction(h) = Times(100, SumFunction(tx))
    <2>1. tx \in [D -> Int] /\ h \in [D -> Int] /\ IsFiniteSet(D) /\ 100 \in Int
      BY <1>1, <1>8, <1>9
    <2>2. \A i \in D : h[i] = Times(100, tx[i])
      BY <1>5
    <2> QED
      BY <2>1, <2>2, TotalTimes
  <1>18. SumFunction(a) = Times(r, SumFunction(sh))
    <2>1. sh \in [D -> Int] /\ a \in [D -> Int] /\ IsFiniteSet(D) /\ r \in Int
      BY <1>1, <1>8, <1>9 DEF TopRate
    <2>2. \A i \in D : a[i] = Times(r, sh[i])
      BY <1>6
    <2> QED
      BY <2>1, <2>2, TotalTimes
  <1>19. Bounded(Cardinality(D), -50, SumFunction(e), 50)
    <2>1. -50 \in Int /\ 50 \in Int
      OBVIOUS
    <2> QED
      BY <1>1, <1>2, <1>8, <2>1, TotalBounds
  <1>20. /\ SumFunction(nr) \in Nat /\ SumFunction(e) \in Int /\ SumFunction(sr) \in Int
         /\ SumFunction(b) \in Int
    BY <1>1, <1>8, TotalInt, TotalNat
  <1>21. /\ Total(tx) = SumFunction(tx) /\ Total(sh) = SumFunction(sh) /\ Total(nr) = SumFunction(nr)
         /\ Total(sr) = SumFunction(sr) /\ Total(e) = SumFunction(e) /\ Total(b) = SumFunction(b)
    BY DEF Total
  <1> DEFINE NR == Total(nr)
             SR == Total(sr)
             E == Total(e)
             TX == Total(tx)
             G == Total(sh)
             B == Total(b)
             ak == Asked(ls, d)
             rg == r * G
             c == CartTotal(ls, d)
  <1>22. /\ 100 * TX + SR = NR + E /\ NR \in Nat /\ E \in Int /\ SR \in Int /\ B \in Int
         /\ rg = B + SR /\ rg \in Int
    BY <1>11, <1>14, <1>15, <1>16, <1>17, <1>18, <1>20, <1>21 DEF Times
  <1>23. E \in (-(50 * Len(ls)))..(50 * Len(ls))
    BY <1>8, <1>19, <1>20, <1>21 DEF Bounded
  <1>24. c = 100 * (w - ak) + NR /\ gr = w - G + TX
    BY <1>11, <1>12, <1>13
  <1>25. w \in Nat /\ ak \in Nat /\ w - ak \in Nat /\ G \in Int /\ TX \in Int /\ gr \in Int
    BY <1>10, <1>11, <1>13
  <1> HIDE DEF NR, SR, E, TX, G, B, ak, rg, c
  <1>26. c \in Nat /\ c - 100 * gr = SR - E - 100 * (ak - G) /\ c - 100 * gr \in Int
    <2>1. 100 * TX + SR = NR + E /\ NR \in Nat /\ E \in Int /\ SR \in Int
      BY <1>22
    <2> QED
      BY <1>24, <1>25, <2>1, Difference
  <1>27. SR = rg - B
    BY <1>22
  <1>28. TillOver(ls, d) = c - 100 * gr
    BY DEF TillOver, c, gr
  <1> QED
    BY <1>22, <1>23, <1>26, <1>27, <1>28 DEF NR, SR, E, TX, G, B, ak, rg, c, sr, e, sh, b

\* The till and the invoice are at most a cent a line apart, but for the tax on the discount.
LEMMA OverBounds ==
  ASSUME NEW ls \in Lines, ls # <<>>, NEW d \in Nat
  PROVE  /\ CartTotal(ls, d) \in Nat /\ TillOver(ls, d) \in Int
         /\ TillOver(ls, d) >= 50 - 100 * Len(ls)
         /\ TillOver(ls, d) <= 100 * Len(ls) + Asked(ls, d) * Max(Rates(ls))
  <1> DEFINE r == Max(Rates(ls))
             D == DOMAIN ls
             n == Len(ls)
             t == Len(ls) - 1
             sr == ShareRates(ls, d)
             b == BelowRate(ls, d, r)
  <1>1. TopRate(ls, r) /\ r \in 0..100
    BY HighestRate DEF Lines, TopRate
  <1>2. PICK y \in D : SharedAt(ls, d, y)
    BY Shared DEF Lines
  <1> DEFINE s == Share(ls, d, y)
             given == Total(Shares(ls, d))
             asked == Asked(ls, d)
             e == Total(Roundings(ls, d))
             over == TillOver(ls, d)
  <1>3. n \in Nat /\ t \in Nat /\ n = t + 1
    BY DEF Lines
  <1>4. /\ \A j \in D \ {y} : Share(ls, d, j) >= 0
        /\ 2 * s >= -t /\ given \in Int /\ given <= asked /\ 2 * (asked - given) <= t
        /\ s < 0 => given = asked
    BY <1>2 DEF SharedAt
  <1>5. asked \in Nat /\ s \in Int /\ IsFiniteSet(D)
    <2>1. Worth(ls) \in Nat /\ IsFiniteSet(D)
      BY NetsAre DEF Lines
    <2>2. s \in Int
      BY ShareIs DEF Lines
    <2> QED
      BY <2>1, <2>2 DEF Asked, Least
  <1>6. sr \in [D -> Int] /\ b \in [D -> Int]
    BY <1>1, RatesAre DEF Lines, TopRate
  <1>7. \A j \in D : Share(ls, d, j) >= 0 => sr[j] >= 0 /\ b[j] >= 0
    BY <1>1, RatesAre DEF Lines, TopRate
  <1>8. \A j \in D, k \in Nat : Share(ls, d, j) < 0 /\ 2 * Share(ls, d, j) >= -k =>
          sr[j] >= -(50 * k) /\ b[j] >= -(50 * k)
    BY <1>1, RatesAre DEF Lines, TopRate
  <1>9. s >= 0 => sr[y] >= 0 /\ b[y] >= 0
    BY <1>7
  <1>10. s < 0 => sr[y] >= -(50 * t) /\ b[y] >= -(50 * t)
    BY <1>3, <1>4, <1>8
  <1>11. \A j \in D \ {y} : sr[j] >= 0 /\ b[j] >= 0
    BY <1>4, <1>7
  <1>12. Total(sr) >= sr[y] /\ Total(b) >= b[y] /\ sr[y] \in Int /\ b[y] \in Int
    <2> HIDE DEF sr, b, D
    <2>1. SumFunction(sr) >= sr[y]
      BY <1>5, <1>6, <1>11, TotalBut
    <2>2. SumFunction(b) >= b[y]
      BY <1>5, <1>6, <1>11, TotalBut
    <2> QED
      BY <1>6, <2>1, <2>2 DEF Total
  <1>13. /\ CartTotal(ls, d) \in Nat /\ over \in Int
         /\ over = Total(sr) - e - 100 * (asked - given)
         /\ Total(sr) \in Int /\ e \in (-(50 * n))..(50 * n)
         /\ Total(sr) = r * given - Total(b) /\ Total(b) \in Int
    BY <1>1, OverIs, ZenonT(30)
  <1> DEFINE SR == Total(sr)
             B == Total(b)
             v == sr[y]
             z == b[y]
             rg == r * given
             ra == asked * r
  <1>14. rg <= ra /\ rg \in Int /\ ra \in Int
    <2> HIDE DEF r, given, asked
    <2>1. r \in Nat /\ given \in Int /\ asked \in Int /\ given <= asked
      BY <1>1, <1>4, <1>5
    <2> QED
      BY <2>1
  <1> HIDE DEF r, D, n, t, sr, b, s, given, asked, e, over, SR, B, v, z, rg, ra
  <1>15. /\ over = SR - e - 100 * (asked - given) /\ SR = rg - B /\ SR >= v /\ B >= z
         /\ SR \in Int /\ B \in Int /\ v \in Int /\ z \in Int /\ e \in (-(50 * n))..(50 * n)
         /\ s >= 0 => v >= 0 /\ z >= 0
         /\ s < 0 => v >= -(50 * t) /\ z >= -(50 * t)
    BY <1>9, <1>10, <1>12, <1>13 DEF SR, B, v, z, rg
  <1>16. over >= 50 - 100 * n
    <2>1. CASE s >= 0
      BY <1>3, <1>4, <1>5, <1>15, <2>1
    <2>2. CASE s < 0
      BY <1>3, <1>4, <1>5, <1>15, <2>2
    <2> QED
      BY <1>5, <2>1, <2>2
  <1>17. over <= 100 * n + ra
    <2>1. CASE s >= 0
      BY <1>3, <1>4, <1>5, <1>14, <1>15, <2>1
    <2>2. CASE s < 0
      BY <1>3, <1>4, <1>5, <1>14, <1>15, <2>2
    <2> QED
      BY <1>5, <2>1, <2>2
  <1> QED
    BY <1>13, <1>16, <1>17 DEF over, ra, asked, r, n
-----------------------------------------------------------------------------
(* Pricing: rules *)

\* One more amount adds just that to the total.
LEMMA OneMoreLine ==
  ASSUME NEW s \in Seq(Int), NEW c \in Int
  PROVE  Total(Append(s, c)) = Total(s) + c
  <1> DEFINE t == Append(s, c)
             n == Len(s)
  <1>1. /\ n \in Nat /\ s \in [1..n -> Int] /\ t[n + 1] = c
        /\ \A x \in 1..n : t[x] = s[x]
    OBVIOUS
  <1>2. t \in Seq(Int) /\ Len(t) = n + 1
    OBVIOUS
  <1>3. t \in [1..(n + 1) -> Int]
    <2> HIDE DEF t, n
    <2> QED
      BY <1>2
  <1> HIDE DEF t, n
  <1>4. SumFunction(t) = SumFunction(s) + t[n + 1]
    BY <1>1, <1>3, TotalAppended
  <1> QED
    BY <1>1, <1>4 DEF Total, t

\* A bill that adds up still does with a surcharge.
LEMMA Surcharged ==
  ASSUME NEW b, AddsUp(b), NEW c \in Nat
  PROVE  AddsUp(WithSurcharge(b, c))
  <1>1. CASE c = 0
    BY <1>1 DEF WithSurcharge
  <1>2. CASE c # 0
    <2> DEFINE e == WithSurcharge(b, c)
               li == b.lines
               app == Append(li, c)
    <2>1. b \in BillForm
      BY DEF AddsUp
    <2>2. e = [b EXCEPT !.lines = app, !.subtotal = b.subtotal + c,
                 !.taxable = b.taxable + c, !.grand = b.grand + c]
      BY <1>2 DEF WithSurcharge
    <2>3. /\ li \in Seq(Int) /\ b.subtotal \in Int /\ b.discount \in Int /\ b.central \in Int
          /\ b.state \in Int /\ b.taxable \in Int /\ b.tax \in Int /\ b.grand \in Int
      BY <2>1 DEF BillForm
    <2>4. app \in Seq(Int) /\ DOMAIN app = DOMAIN li \cup {Len(li) + 1} /\ app[Len(li) + 1] = c
          /\ \A i \in DOMAIN li : app[i] = li[i]
      BY <2>3
    <2>5. e = [lines |-> app, subtotal |-> b.subtotal + c, discount |-> b.discount,
               central |-> b.central, state |-> b.state, taxable |-> b.taxable + c, tax |-> b.tax,
               grand |-> b.grand + c]
      BY <2>1, <2>2 DEF BillForm
    <2> HIDE DEF app, e
    <2>6. /\ e.lines = app /\ e.subtotal = b.subtotal + c /\ e.taxable = b.taxable + c
          /\ e.grand = b.grand + c /\ e.discount = b.discount /\ e.central = b.central
          /\ e.state = b.state /\ e.tax = b.tax
      BY <2>5
    <2>7. e \in BillForm
      <3>1. b.subtotal + c \in Int /\ b.taxable + c \in Int /\ b.grand + c \in Int
        BY <2>3
      <3> QED
        BY <2>3, <2>4, <2>5, <3>1 DEF BillForm
    <2>8. Total(app) = Total(li) + c
      BY <2>3, OneMoreLine DEF app
    <2>9. /\ Total(li) = b.grand /\ b.central + b.state = b.tax /\ b.state >= 0
          /\ b.subtotal - b.discount + b.tax = b.grand /\ \A i \in DOMAIN li : li[i] >= 0
      BY DEF AddsUp
    <2>10. e.subtotal - e.discount + e.tax = e.grand
      <3> HIDE DEF li
      <3> QED
        BY <2>3, <2>6, <2>9, SMTT(30)
    <2>11. \A i \in DOMAIN e.lines : e.lines[i] >= 0
      BY <2>4, <2>6, <2>9
    <2>12. Total(e.lines) = e.grand /\ e.central + e.state = e.tax /\ e.state >= 0
      BY <2>6, <2>8, <2>9
    <2>13. AddsUp(e)
      BY <2>7, <2>10, <2>11, <2>12 DEF AddsUp
    <2> QED
      BY <2>13 DEF e
  <1> QED
    BY <1>1, <1>2

\* The places of the lines that are no rule's, and the k-th of them.
OwnPlaces(items) == {i \in DOMAIN items : ~items[i].rule}
Place(S, k) == CHOOSE i \in S : Cardinality(S \cap 1..i) = k

\* Own, by places.
LEMMA OwnIs ==
  ASSUME NEW items
  PROVE  Own(items) = [k \in 1..Cardinality(OwnPlaces(items)) |-> items[Place(OwnPlaces(items), k)]]
  BY DEF Own, OwnPlaces, Place

\* Every place of a finite set of them is the k-th for one k.
LEMMA Ranked ==
  ASSUME NEW n \in Nat, NEW S \in SUBSET (1..n)
  PROVE  /\ IsFiniteSet(S) /\ Cardinality(S) \in Nat
         /\ \A k \in 1..Cardinality(S) : Place(S, k) \in S /\ Cardinality(S \cap 1..Place(S, k)) = k
  <1> DEFINE U(i) == S \cap 1..i
             c == Cardinality(S)
             f == [i \in S |-> Cardinality(U(i))]
  <1>1. IsFiniteSet(S)
    <2>1. IsFiniteSet(1..n)
      BY FirstPlaces
    <2> QED
      BY <2>1, FS_Subset
  <1>2. c \in Nat /\ IsFiniteSet(1..c) /\ Cardinality(1..c) = c
    <2>1. c \in Nat
      BY <1>1, FS_CardinalityType
    <2> HIDE DEF c
    <2> QED
      BY <2>1, FirstPlaces
  <1>3. \A i \in S : i \in Nat /\ i > 0
    OBVIOUS
  <1>4. \A i \in S : U(i) \in SUBSET S /\ i \in U(i) /\ IsFiniteSet(U(i))
    <2> TAKE i \in S
    <2>1. U(i) \in SUBSET S /\ i \in U(i)
      BY <1>3
    <2> QED
      BY <1>1, <2>1, FS_Subset
  <1>5. \A i \in S : Cardinality(U(i)) \in 1..c
    <2> TAKE i \in S
    <2> DEFINE V == U(i)
    <2>1. V \in SUBSET S /\ i \in V /\ IsFiniteSet(V)
      BY <1>4
    <2> HIDE DEF V
    <2>2. Cardinality(V) \in Nat /\ Cardinality(V) <= c /\ Cardinality(V) # 0
      BY <1>1, <2>1, FS_Subset, FS_CardinalityType, FS_EmptySet
    <2> QED
      BY <1>2, <2>2 DEF V
  <1>6. \A i, j \in S : i < j => Cardinality(U(i)) # Cardinality(U(j))
    <2> SUFFICES ASSUME NEW i \in S, NEW j \in S, i < j PROVE Cardinality(U(i)) # Cardinality(U(j))
      OBVIOUS
    <2> DEFINE V == U(i)
               W == U(j)
    <2>1. V \in SUBSET W /\ j \in W /\ j \notin V /\ IsFiniteSet(W)
      BY <1>3, <1>4
    <2> HIDE DEF V, W
    <2>2. Cardinality(W) # Cardinality(V)
      BY <2>1, FS_Subset
    <2> QED
      BY <2>2 DEF V, W
  <1>7. f \in Injection(S, 1..c)
    <2>1. f \in [S -> 1..c] /\ \A i \in S : f[i] = Cardinality(U(i))
      BY <1>5
    <2> HIDE DEF f
    <2>2. \A i, j \in S : f[i] = f[j] => i = j
      <3> SUFFICES ASSUME NEW i \in S, NEW j \in S, i # j PROVE f[i] # f[j]
        OBVIOUS
      <3>1. i < j \/ j < i
        BY <1>3
      <3> QED
        BY <1>6, <2>1, <3>1
    <2> QED
      BY <2>1, <2>2 DEF Injection, IsInjective
  <1>8. f \in Surjection(S, 1..c)
    <2> HIDE DEF f
    <2>1. Cardinality(S) = Cardinality(1..c)
      BY <1>2
    <2> HIDE DEF c
    <2> QED
      BY <1>2, <1>7, <2>1, FS_Injection
  <1>9. \A k \in 1..c : \E i \in S : Cardinality(U(i)) = k
    <2> TAKE k \in 1..c
    <2>1. \E i \in S : f[i] = k
      <3> HIDE DEF f
      <3> QED
        BY <1>8 DEF Surjection
    <2> QED
      BY <2>1
  <1> QED
    BY <1>1, <1>2, <1>9 DEF Place

\* The lines that are no rule's are lines, and no rule's.
LEMMA OwnLines ==
  ASSUME NEW items \in Lines
  PROVE  /\ Own(items) \in Lines
         /\ \A k \in DOMAIN Own(items) : Own(items)[k].rule = FALSE
  <1> DEFINE S == OwnPlaces(items)
             c == Cardinality(S)
             o == Own(items)
  <1>1. S \in SUBSET (1..Len(items)) /\ Len(items) \in Nat
    BY DEF Lines, OwnPlaces
  <1>2. \A i \in S : items[i] \in Line /\ ~items[i].rule /\ items[i].rule \in BOOLEAN
    <2>1. \A i \in S : items[i] \in Line /\ ~items[i].rule
      BY DEF Lines, OwnPlaces
    <2>2. \A l \in Line : l.rule \in BOOLEAN
      BY DEF Line
    <2> QED
      BY <2>1, <2>2
  <1>3. o = [k \in 1..c |-> items[Place(S, k)]]
    BY OwnIs
  <1> HIDE DEF S, o
  <1>4. c \in Nat /\ \A k \in 1..c : Place(S, k) \in S
    BY <1>1, Ranked
  <1> HIDE DEF c
  <1>5. o \in [1..c -> Line] /\ \A k \in 1..c : o[k] = items[Place(S, k)]
    <2>1. \A k \in 1..c : items[Place(S, k)] \in Line
      BY <1>2, <1>4
    <2> QED
      BY <1>3, <2>1
  <1>6. o \in Seq(Line) /\ DOMAIN o = 1..c
    BY <1>4, <1>5
  <1>7. \A k \in DOMAIN o : o[k].rule = FALSE
    BY <1>2, <1>4, <1>5, <1>6
  <1> QED
    BY <1>6, <1>7 DEF Lines, o

Effect == [pct : 0..100, extra : Nat, held : BOOLEAN, marked : BOOLEAN]

\* What rules give together is a whole number.
LEMMA SumIs ==
  ASSUME NEW rs, IsFiniteSet(rs), \A r \in rs : r.amount \in Int, NEW act
  PROVE  Sum(rs, act) \in Int
  <1> DEFINE S == {r \in rs : r.act = act}
             f == [r \in S |-> r.amount]
  <1>1. IsFiniteSet(S)
    BY FS_Subset
  <1>2. f \in [S -> Int]
    OBVIOUS
  <1>3. Sum(rs, act) = SumFunction(f)
    BY DEF Sum
  <1> HIDE DEF f, S
  <1> QED
    BY <1>1, <1>2, <1>3, TotalInt

Hold(rs, ctx) == {r \in rs : Holds(r, ctx)}

\* What the rules that hold do: a rate, an amount, and two answers.
LEMMA EffectsAre ==
  ASSUME NEW rs \in Rules, NEW ctx
  PROVE  /\ Effects(rs, ctx) \in Effect
         /\ Effects(rs, ctx).pct = Least(100, Most(0, Sum(Hold(rs, ctx), "apply_discount")))
         /\ Effects(rs, ctx).extra = Most(0, Sum(Hold(rs, ctx), "add_surcharge"))
         /\ Effects(rs, ctx).marked = (\E r \in Hold(rs, ctx) : r.act = "set_field")
  <1> DEFINE h == Hold(rs, ctx)
             p == Sum(h, "apply_discount")
             x == Sum(h, "add_surcharge")
             m == \E r \in h : r.act = "set_field"
             a == \E r \in h : r.act = "require_approval"
  <1>1. IsFiniteSet(h) /\ \A r \in h : r.amount \in Int
    <2>1. IsFiniteSet(rs) /\ \A r \in rs : r.amount \in Int
      BY PricingAssumption
    <2>2. h \in SUBSET rs
      BY DEF Hold
    <2> HIDE DEF h
    <2> QED
      BY <2>1, <2>2, FS_Subset
  <1>2. Effects(rs, ctx) = [pct |-> Least(100, Most(0, p)), extra |-> Most(0, x), held |-> a, marked |-> m]
    BY DEF Effects, Hold
  <1> HIDE DEF h
  <1>3. p \in Int /\ x \in Int
    BY <1>1, SumIs
  <1>4. m \in BOOLEAN /\ a \in BOOLEAN
    OBVIOUS
  <1> HIDE DEF p, x, m, a
  <1>5. Least(100, Most(0, p)) \in 0..100 /\ Most(0, x) \in Nat
    BY <1>3 DEF Least, Most
  <1> QED
    BY <1>2, <1>4, <1>5 DEF Effect, p, x, m, h

\* What is between nothing and a bound is left as it is.
LEMMA KeptBetween ==
  ASSUME NEW b \in Nat, NEW o \in 0..b
  PROVE  Least(b, Most(0, o)) = o
  BY DEF Least, Most

\* Two sequences joined hold what they held.
LEMMA LinesJoined ==
  ASSUME NEW S, NEW s \in Seq(S), NEW t \in Seq(S)
  PROVE  s \o t \in Seq(S)
  OBVIOUS

\* What a draft becomes.
LEMMA StoredIs ==
  ASSUME NEW l \in Line
  PROVE  /\ Stored(l) \in Line /\ Stored(l).rule = l.rule /\ Stored(l).rate = l.rate
         /\ Base(Stored(l)) = Base(l) /\ LineOff(Stored(l)) = LineOff(l) /\ Net(Stored(l)) = Net(l)
  <1> DEFINE o == LineOff(l)
             s == Stored(l)
  <1>1. o \in 0..Base(l) /\ Base(l) \in Nat
    BY LineIs
  <1>2. s = [l EXCEPT !.off = o]
    BY DEF Stored
  <1>3. /\ l.qty \in Nat /\ l.price \in Nat /\ l.off \in Int /\ l.pct \in Int
        /\ l.rate \in 0..100 /\ l.rule \in BOOLEAN
    BY DEF Line
  <1>4. o \in Int
    BY <1>1
  <1> HIDE DEF o, s
  <1>5. s = [qty |-> l.qty, price |-> l.price, off |-> o, pct |-> l.pct, rate |-> l.rate, rule |-> l.rule]
    BY <1>2 DEF Line
  <1>6. s \in Line
    BY <1>3, <1>4, <1>5 DEF Line
  <1>7. s.qty = l.qty /\ s.price = l.price /\ s.off = o /\ s.pct = l.pct /\ s.rate = l.rate /\ s.rule = l.rule
    BY <1>5
  <1>8. Base(s) = Base(l)
    BY <1>7 DEF Base
  <1>9. LineOff(s) = o
    <2>1. CASE l.pct > 0
      BY <1>7, <1>8, <2>1 DEF LineOff, o
    <2>2. CASE ~(l.pct > 0)
      <3>1. o = Least(Base(l), Most(0, l.off))
        BY <2>2 DEF LineOff, o
      <3>2. LineOff(s) = Least(Base(l), Most(0, o))
        BY <1>7, <1>8, <2>2 DEF LineOff
      <3>3. Least(Base(l), Most(0, o)) = o
        BY <1>1, KeptBetween
      <3> QED
        BY <3>2, <3>3
    <2> QED
      BY <2>1, <2>2
  <1> QED
    BY <1>6, <1>7, <1>8, <1>9 DEF s, o, Net

\* A surcharge is a line, and a rule's.
LEMMA SurchargeIs ==
  ASSUME NEW c \in Nat
  PROVE  Surcharge(c) \in Line /\ Surcharge(c).rule = TRUE
  BY DEF Surcharge, Line

\* A discount with that of the rules is a whole number of cents.
LEMMA DiscountNat ==
  ASSUME NEW w \in Nat, NEW manual \in Nat, NEW pct \in 0..100
  PROVE  manual + Rounded(w * pct, 100) \in Nat
  <1> DEFINE a == w * pct
             r == Rounded(a, 100)
  <1>1. a \in Int /\ a >= 0 * 100
    OBVIOUS
  <1>2. r \in Int /\ r >= 0
    <2> HIDE DEF a
    <2> QED
      BY <1>1, RoundedIs, RoundedWhole
  <1> HIDE DEF r
  <1>3. manual + r \in Nat
    BY <1>2
  <1> QED
    BY <1>3 DEF r

\* A bill adds up with the discount of the rules.
LEMMA DiscountedAddsUp ==
  ASSUME NEW ls \in Lines, NEW manual \in Nat, NEW pct \in 0..100
  PROVE  AddsUp(Discounted(ls, manual, pct))
  <1>1. Worth(ls) \in Nat
    BY NetsAre DEF Lines
  <1>2. manual + Rounded(Worth(ls) * pct, 100) \in Nat
    BY <1>1, DiscountNat
  <1>3. Discounted(ls, manual, pct) = Calculate(ls, manual + Rounded(Worth(ls) * pct, 100))
    BY DEF Discounted, Worth
  <1> QED
    BY <1>2, <1>3, Calculated

Context(ls, marked) == [subtotal |-> Subtotal(ls), count |-> Len(ls), marked |-> marked]
Shown(ls) == Each(ls, Stored)
Extra(e) == IF e.extra = 0 THEN <<>> ELSE <<Surcharge(e.extra)>>

\* A draft shows its lines one by one.
LEMMA ShownIs ==
  ASSUME NEW ls \in Lines
  PROVE  /\ Shown(ls) \in Lines /\ DOMAIN Shown(ls) = DOMAIN ls /\ Len(Shown(ls)) = Len(ls)
         /\ \A i \in DOMAIN ls : Shown(ls)[i] = Stored(ls[i])
  <1> DEFINE n == Len(ls)
             s == Shown(ls)
  <1>1. n \in Nat /\ DOMAIN ls = 1..n /\ \A i \in DOMAIN ls : ls[i] \in Line
    BY DEF Lines
  <1>2. s = [i \in DOMAIN ls |-> Stored(ls[i])]
    BY DEF Shown, Each
  <1>3. \A i \in DOMAIN ls : Stored(ls[i]) \in Line
    BY <1>1, StoredIs
  <1> HIDE DEF n, s
  <1>4. s \in [1..n -> Line]
    BY <1>1, <1>2, <1>3
  <1>5. s \in Seq(Line) /\ Len(s) = n
    BY <1>1, <1>4
  <1> QED
    BY <1>1, <1>2, <1>4, <1>5 DEF Lines, n, s

PricedBy(p, rs) ==
  /\ p.items \in Lines /\ {p.marked, p.held} \subseteq BOOLEAN /\ p.by = rs
  /\ AddsUp(p.bill)

\* What pricing makes, in the operators above.
DraftOf(ls, manual, rs, marked, e) ==
  [items |-> Shown(ls) \o Extra(e), manual |-> manual, marked |-> marked \/ e.marked,
   held |-> e.held, by |-> rs,
   bill |-> WithSurcharge(Discounted(ls, manual, e.pct), e.extra)]

\* Pricing takes the lines that are no rule's, and makes a draft of them.
LEMMA PriceIs ==
  ASSUME NEW items, NEW manual, NEW rs, NEW marked
  PROVE  Price(items, manual, rs, marked) =
           DraftOf(Own(items), manual, rs, marked, Effects(rs, Context(Own(items), marked)))
  BY DEF Price, Apply, DraftOf, Shown, Extra, Context

\* A draft that is made of lines has lines, and a bill that adds up.
LEMMA MadeIs ==
  ASSUME NEW ls \in Lines, NEW manual \in Nat, NEW rs, NEW marked \in BOOLEAN, NEW e \in Effect
  PROVE  /\ PricedBy(DraftOf(ls, manual, rs, marked, e), rs)
         /\ Shown(ls) \in Lines /\ Extra(e) \in Lines
  <1> DEFINE p == DraftOf(ls, manual, rs, marked, e)
             pi == Shown(ls) \o Extra(e)
             pm == marked \/ e.marked
             pb == WithSurcharge(Discounted(ls, manual, e.pct), e.extra)
  <1>1. e.extra \in Nat /\ e.pct \in 0..100 /\ e.held \in BOOLEAN /\ e.marked \in BOOLEAN
    BY DEF Effect
  <1>2. Shown(ls) \in Lines
    BY ShownIs
  <1>3. Extra(e) \in Lines
    <2>1. Surcharge(e.extra) \in Line
      BY <1>1, SurchargeIs
    <2> QED
      BY <2>1 DEF Extra, Lines
  <1>4. pi \in Lines
    BY <1>2, <1>3, LinesJoined DEF Lines
  <1>5. AddsUp(pb)
    BY <1>1, DiscountedAddsUp, Surcharged
  <1>6. pm \in BOOLEAN
    BY <1>1
  <1>7. p = [items |-> pi, manual |-> manual, marked |-> pm, held |-> e.held, by |-> rs, bill |-> pb]
    BY DEF DraftOf
  <1> HIDE DEF p, pi, pm, pb
  <1>8. p.items = pi /\ p.marked = pm /\ p.held = e.held /\ p.by = rs /\ p.bill = pb
    BY <1>7
  <1>9. PricedBy(p, rs)
    BY <1>1, <1>4, <1>5, <1>6, <1>8 DEF PricedBy
  <1> QED
    BY <1>2, <1>3, <1>9 DEF p

\* So has one that is priced.
LEMMA PricedIs ==
  ASSUME NEW items \in Lines, NEW manual \in Nat, NEW rs \in Rules, NEW marked \in BOOLEAN
  PROVE  PricedBy(Price(items, manual, rs, marked), rs)
  <1> DEFINE ls == Own(items)
             e == Effects(rs, Context(ls, marked))
  <1>1. ls \in Lines
    BY OwnLines
  <1>2. e \in Effect
    BY EffectsAre
  <1>3. Price(items, manual, rs, marked) = DraftOf(ls, manual, rs, marked, e)
    BY PriceIs
  <1> HIDE DEF ls, e
  <1> QED
    BY <1>1, <1>2, <1>3, MadeIs
-----------------------------------------------------------------------------
(* Pricing: the inductive invariant *)

DraftPriced ==
  \/ draft = NoDraft
  \/ \E items \in Lines, manual \in Nat, marked \in BOOLEAN, rs \in Rules :
       draft = Price(items, manual, rs, marked)

SaleMade ==
  \/ sale = NoSale
  \/ /\ sale.items \in Bills /\ sale.discount \in Discounts
     /\ sale.total = CartTotal(sale.items, sale.discount)
     /\ sale.bill = Calculate(sale.items, sale.discount)
     /\ sale.status \in {"paid", "partially_paid", "refused"}
     /\ 100 * sale.bill.grand - sale.paid <= 100 * Len(sale.items)

PricingInv == inForce \in Rules /\ DraftPriced /\ SaleMade

\* A draft as it is priced, and the same priced again, is one that PricingInv knows.
LEMMA DraftIs ==
  ASSUME DraftPriced, draft # NoDraft
  PROVE  draft.by \in Rules /\ PricedBy(draft, draft.by)
  <1>1. PICK items \in Lines, manual \in Nat, marked \in BOOLEAN, rs \in Rules :
          draft = Price(items, manual, rs, marked)
    BY DEF DraftPriced
  <1>2. PricedBy(draft, rs)
    BY <1>1, PricedIs
  <1>3. draft.by = rs
    BY <1>2 DEF PricedBy
  <1> QED
    BY <1>2, <1>3

\* There is no draft and no sale at first.
LEMMA PricingStarts == PricingInit => PricingInv
  BY DEF PricingInit, PricingInv, DraftPriced, SaleMade

\* What a customer pays at the till, against the invoice.
LEMMA PaidEnough ==
  ASSUME NEW total \in Nat, NEW g \in Int, NEW n \in Nat, total - 100 * g >= 50 - 100 * n,
         NEW t \in Tenders(total),
         NEW paid, paid = CashPart(total, t.cash, t.card) + t.card
  PROVE  paid \in Int /\ 100 * g - paid <= 100 * n
  <1> DEFINE r == Rounded(total, 100)
  <1>1. r \in Int /\ 2 * (100 * r - total) >= -100
    <2>1. total \in Int /\ 100 \in Nat /\ 100 > 0
      OBVIOUS
    <2>2. r \in Int /\ 2 * total - 100 < 2 * (r * 100)
      BY <2>1, RoundedIs
    <2> HIDE DEF r
    <2> QED
      BY <2>2
  <1> HIDE DEF r
  <1>2. CASE t = [cash |-> total, card |-> 0]
    <2>1. t.cash = total /\ t.card = 0
      BY <1>2
    <2>2. CashPart(total, t.cash, t.card) = total
      BY <2>1 DEF CashPart, Least, Most
    <2> QED
      BY <2>1, <2>2
  <1>3. CASE t = [cash |-> total + 10000, card |-> 0]
    <2>1. t.cash = total + 10000 /\ t.card = 0
      BY <1>3
    <2>2. CashPart(total, t.cash, t.card) = total
      BY <2>1 DEF CashPart, Least, Most
    <2> QED
      BY <2>1, <2>2
  <1>4. CASE t = [cash |-> 0, card |-> 100 * r]
    <2>1. t.cash = 0 /\ t.card = 100 * r
      BY <1>4
    <2>2. CashPart(total, t.cash, t.card) = 0
      BY <1>1, <2>1 DEF CashPart, Least, Most
    <2> QED
      BY <1>1, <2>1, <2>2
  <1> QED
    BY <1>2, <1>3, <1>4 DEF Tenders, r

\* Bills and revisions are lines, discounts are cents.
LEMMA BillsAre ==
  /\ \A ls \in Bills : ls \in Lines /\ ls # <<>>
  /\ \A ls \in Revisions : ls \in Lines
  /\ \A d \in Discounts : d \in Nat
  BY PricingAssumption DEF Lines

\* A customer who pays what the till shows owes at most a cent a line.
LEMMA PaidAtTheTill ==
  ASSUME NEW ls \in Lines, ls # <<>>, NEW d \in Nat, NEW t \in Tenders(CartTotal(ls, d)),
         NEW paid, paid = CashPart(CartTotal(ls, d), t.cash, t.card) + t.card
  PROVE  100 * Calculate(ls, d).grand - paid <= 100 * Len(ls)
  <1> DEFINE total == CartTotal(ls, d)
             g == Calculate(ls, d).grand
             n == Len(ls)
  <1>1. total \in Nat /\ total - 100 * g >= 50 - 100 * n
    BY OverBounds DEF TillOver
  <1>2. g \in Int
    BY Calculated
  <1>3. n \in Nat
    BY DEF Lines
  <1>4. t \in Tenders(total) /\ paid = CashPart(total, t.cash, t.card) + t.card
    OBVIOUS
  <1> HIDE DEF total, g, n
  <1>5. 100 * g - paid <= 100 * n
    BY <1>1, <1>2, <1>3, <1>4, PaidEnough
  <1> QED
    BY <1>5 DEF g, n

\* Every step keeps PricingInv.
LEMMA PricingStep ==
  ASSUME PricingInv, [PricingNext]_pricingVars
  PROVE  PricingInv'
  <1> USE DEF PricingInv
  <1>1. ASSUME NEW ls \in Bills, NEW d \in Discounts, CreateInvoice(ls, d)
        PROVE  PricingInv'
    <2>1. ls \in Lines /\ d \in Nat /\ FALSE \in BOOLEAN
      BY BillsAre
    <2>2. draft' = Price(ls, d, inForce, FALSE) /\ inForce' = inForce /\ sale' = sale
      BY <1>1 DEF CreateInvoice
    <2>3. DraftPriced'
      BY <2>1, <2>2 DEF DraftPriced
    <2> QED
      BY <2>2, <2>3 DEF SaleMade
  <1>2. ASSUME NEW ls \in Revisions \cup {draft.items}, NEW d \in Discounts, UpdateInvoice(ls, d)
        PROVE  PricingInv'
    <2>1. draft # NoDraft
      BY <1>2 DEF UpdateInvoice
    <2>2. draft.items \in Lines /\ draft.marked \in BOOLEAN
      BY <2>1, DraftIs DEF PricedBy
    <2>3. ls \in Lines /\ d \in Nat
      BY <2>2, BillsAre
    <2>4. draft' = Price(ls, d, inForce, draft.marked) /\ inForce' = inForce /\ sale' = sale
      BY <1>2 DEF UpdateInvoice
    <2>5. DraftPriced'
      BY <2>2, <2>3, <2>4 DEF DraftPriced
    <2> QED
      BY <2>4, <2>5 DEF SaleMade
  <1>3. ASSUME NEW rs \in Rules, ChangeRules(rs)
        PROVE  PricingInv'
    BY <1>3 DEF ChangeRules, DraftPriced, SaleMade
  <1>4. ASSUME NEW ls \in Bills, NEW d \in Discounts, NEW customer \in BOOLEAN,
               NEW t \in Tenders(CartTotal(ls, d)), Checkout(ls, d, t, customer)
        PROVE  PricingInv'
    <2>1. ls \in Lines /\ ls # <<>> /\ d \in Nat
      BY BillsAre
    <2> DEFINE total == CartTotal(ls, d)
               paid == CashPart(total, t.cash, t.card) + t.card
               bill == Calculate(ls, d)
               due == Most(0, 100 * bill.grand - paid)
               st == IF due = 0 THEN "paid" ELSE IF customer THEN "partially_paid" ELSE "refused"
    <2>2. /\ draft' = draft /\ inForce' = inForce
          /\ sale' = [items |-> ls, discount |-> d, total |-> total, paid |-> paid, bill |-> bill,
                      customer |-> customer, status |-> st]
      BY <1>4 DEF Checkout
    <2>3. 100 * bill.grand - paid <= 100 * Len(ls)
      BY <2>1, PaidAtTheTill
    <2>4. st \in {"paid", "partially_paid", "refused"}
      <3> HIDE DEF due
      <3> QED
        OBVIOUS
    <2> HIDE DEF paid, bill, due, st, total
    <2>5. /\ sale'.items = ls /\ sale'.discount = d /\ sale'.total = total /\ sale'.bill = bill
          /\ sale'.paid = paid /\ sale'.status = st
      BY <2>2
    <2>6. SaleMade'
      BY <2>3, <2>4, <2>5 DEF SaleMade, total, bill
    <2> QED
      BY <2>2, <2>6 DEF DraftPriced
  <1>5. CASE UNCHANGED pricingVars
    BY <1>5 DEF pricingVars, DraftPriced, SaleMade
  <1> QED
    BY <1>1, <1>2, <1>3, <1>4, <1>5 DEF PricingNext
-----------------------------------------------------------------------------
(* Pricing: the property *)

\* The discount of a sale is shared as DiscountIsShared says.
LEMMA SaleShared ==
  ASSUME NEW ls \in Lines, ls # <<>>, NEW d \in Nat
  PROVE  LET sh == Shares(ls, d)
             worth == Total(Each(ls, Net))
             asked == Least(d, worth) IN
         /\ Total(sh) <= asked
         /\ Total(sh) = asked \/ \E i \in DOMAIN ls : TakesRest(ls, i) /\ sh[i] = Net(ls[i])
         /\ \A i \in DOMAIN ls : 2 * (sh[i] * worth - Net(ls[i]) * asked) \in
                                   (-(Len(ls) * worth))..(Len(ls) * worth)
  <1>1. PICK y \in DOMAIN ls : SharedAt(ls, d, y)
    BY Shared DEF Lines
  <1>2. \A i \in DOMAIN ls : Shares(ls, d)[i] = Share(ls, d, i)
    BY DEF Shares
  <1>3. Worth(ls) = Total(Each(ls, Net)) /\ Asked(ls, d) = Least(d, Worth(ls))
    BY DEF Worth, Asked
  <1>4. Total(Shares(ls, d)) <= Asked(ls, d)
    BY <1>1 DEF SharedAt
  <1>5. \/ Total(Shares(ls, d)) = Asked(ls, d)
        \/ \E i \in DOMAIN ls : TakesRest(ls, i) /\ Shares(ls, d)[i] = Net(ls[i])
    BY <1>1, <1>2 DEF SharedAt
  <1>6. \A i \in DOMAIN ls :
          2 * (Shares(ls, d)[i] * Worth(ls) - Net(ls[i]) * Asked(ls, d)) \in
            (-(Len(ls) * Worth(ls)))..(Len(ls) * Worth(ls))
    BY <1>1, <1>2 DEF SharedAt, Near
  <1> QED
    BY <1>3, <1>4, <1>5, <1>6

\* PricingInv is what BillsAreFair needs.
LEMMA PricingFair == ASSUME PricingInv PROVE BillsAreFair
  <1> USE DEF PricingInv
  <1>1. draft # NoDraft => draft.by \in Rules /\ PricedBy(draft, draft.by)
    BY DraftIs
  <1>2. ASSUME sale # NoSale
        PROVE  /\ sale.items \in Lines /\ sale.items # <<>> /\ sale.discount \in Nat
               /\ sale.total = CartTotal(sale.items, sale.discount)
               /\ sale.bill = Calculate(sale.items, sale.discount)
               /\ 100 * sale.bill.grand - sale.paid <= 100 * Len(sale.items)
    BY <1>2, BillsAre DEF SaleMade
  <1>3. PricingTypeOK
    BY <1>1 DEF PricingTypeOK, SaleMade, PricedBy
  <1>4. BillsAddUp
    <2>1. ASSUME NEW x, AddsUp(x.bill)
          PROVE  LET b == x.bill IN
                 /\ Total(b.lines) = b.grand
                 /\ b.central + b.state = b.tax /\ b.state >= 0
                 /\ b.subtotal - b.discount + b.tax = b.grand
                 /\ \A i \in DOMAIN b.lines : b.lines[i] >= 0
      BY <2>1 DEF AddsUp
    <2>2. draft.items # <<>> => AddsUp(draft.bill)
      BY <1>1 DEF NoDraft, PricedBy
    <2>3. sale.items # <<>> => AddsUp(sale.bill)
      BY <1>2, Calculated DEF NoSale
    <2>4. ASSUME NEW x \in Priced PROVE AddsUp(x.bill)
      <3>1. (x = draft \/ x = sale) /\ x.items # <<>>
        BY DEF Priced
      <3>2. CASE x = draft
        BY <2>2, <3>1, <3>2
      <3>3. CASE x = sale
        BY <2>3, <3>1, <3>3
      <3> QED
        BY <3>1, <3>2, <3>3
    <2> QED
      BY <2>1, <2>4 DEF BillsAddUp
  <1>5. DiscountIsShared
    BY <1>2, SaleShared DEF DiscountIsShared
  <1>6. TillIsClose
    <2> SUFFICES ASSUME sale # NoSale
                 PROVE  LET n == 100 * Len(sale.items)
                            asked == Least(sale.discount, Total(Each(sale.items, Net)))
                            over == sale.total - 100 * sale.bill.grand IN
                        /\ over >= -n
                        /\ over <= n + asked * Max({l.rate : l \in Range(sale.items)})
                        /\ 100 * sale.bill.grand - sale.paid <= n
      BY DEF TillIsClose
    <2> DEFINE ls == sale.items
               d == sale.discount
    <2>1. /\ TillOver(ls, d) \in Int
          /\ TillOver(ls, d) >= 50 - 100 * Len(ls)
          /\ TillOver(ls, d) <= 100 * Len(ls) + Asked(ls, d) * Max(Rates(ls))
      BY <1>2, OverBounds
    <2>2. TillOver(ls, d) = sale.total - 100 * sale.bill.grand
      BY <1>2 DEF TillOver
    <2>3. /\ Asked(ls, d) = Least(sale.discount, Total(Each(sale.items, Net)))
          /\ Rates(ls) = {l.rate : l \in Range(sale.items)}
      BY DEF Asked, Worth, Rates
    <2>4. Len(ls) \in Nat
      BY <1>2 DEF Lines
    <2> HIDE DEF ls, d
    <2>5. TillOver(ls, d) >= -(100 * Len(ls))
      BY <2>1, <2>4
    <2> QED
      BY <1>2, <2>1, <2>2, <2>3, <2>5 DEF ls
  <1> QED
    BY <1>3, <1>4, <1>5, <1>6 DEF BillsAreFair

\* What a customer is charged is what the bill tells, however many lines it has, at whatever
\* prices, rates, discounts and rules: calculateInvoice adds up to the cent and shares its discount
\* out, and the till's own total is at most a cent a line away, but for its tax on the discount.
THEOREM BillsStayFair == PricingSpec => []BillsAreFair
  <1>1. PricingInit => PricingInv
    BY PricingStarts
  <1>2. PricingInv /\ [PricingNext]_pricingVars => PricingInv'
    BY PricingStep
  <1>3. PricingInv => BillsAreFair
    BY PricingFair
  <1> QED
    BY <1>1, <1>2, <1>3, PTL DEF PricingSpec
-----------------------------------------------------------------------------
(* Pricing: a draft that is priced again *)

\* A rule's surcharge after the lines is left out of them again.
LEMMA OwnOfJoined ==
  ASSUME NEW s \in Lines, \A i \in DOMAIN s : s[i].rule = FALSE,
         NEW x \in Lines, \A i \in DOMAIN x : x[i].rule = TRUE
  PROVE  Own(s \o x) = s
  <1> DEFINE n == Len(s)
             t == s \o x
             S == OwnPlaces(t)
  <1>1. n \in Nat /\ Len(x) \in Nat /\ DOMAIN s = 1..n /\ DOMAIN x = 1..Len(x)
        /\ s = [k \in 1..n |-> s[k]]
    BY DEF Lines
  <1>2. /\ DOMAIN t = 1..(n + Len(x)) /\ \A i \in 1..n : t[i] = s[i]
        /\ \A i \in (n + 1)..(n + Len(x)) : t[i] = x[i - n] /\ i - n \in DOMAIN x
    BY DEF Lines
  <1>3. S = {i \in DOMAIN t : ~t[i].rule}
    BY DEF OwnPlaces
  <1>4. Own(t) = [k \in 1..Cardinality(S) |-> t[Place(S, k)]]
    BY OwnIs
  <1> HIDE DEF t, S, n
  <1>5. S = 1..n
    <2>1. \A i \in 1..n : i \in DOMAIN t /\ ~t[i].rule
      BY <1>1, <1>2
    <2>2. \A i \in DOMAIN t : i \notin 1..n => t[i].rule
      <3> SUFFICES ASSUME NEW i \in DOMAIN t, i \notin 1..n PROVE t[i].rule
        OBVIOUS
      <3>1. i \in (n + 1)..(n + Len(x))
        BY <1>1, <1>2
      <3> QED
        BY <1>2, <3>1
    <2> QED
      BY <1>3, <2>1, <2>2
  <1>6. Cardinality(S) = n
    BY <1>1, <1>5, FirstPlaces
  <1>7. \A k \in 1..n : Place(S, k) = k
    <2> TAKE k \in 1..n
    <2> DEFINE p == Place(S, k)
    <2>1. p \in S /\ Cardinality(S \cap 1..p) = k
      <3>1. S \in SUBSET (1..n)
        BY <1>5
      <3> QED
        BY <1>1, <1>6, <3>1, Ranked
    <2> HIDE DEF p
    <2>2. p \in Nat /\ S \cap 1..p = 1..p
      BY <1>1, <1>5, <2>1
    <2>3. Cardinality(1..p) = p
      BY <2>2, FirstPlaces
    <2> QED
      BY <2>1, <2>2, <2>3 DEF p
  <1>8. Own(t) = [k \in 1..n |-> t[k]]
    BY <1>4, <1>6, <1>7
  <1>9. [k \in 1..n |-> t[k]] = [k \in 1..n |-> s[k]]
    BY <1>2
  <1> QED
    BY <1>1, <1>8, <1>9 DEF t

Alike(ls, ms) ==
  /\ DOMAIN ms = DOMAIN ls /\ Len(ms) = Len(ls)
  /\ \A i \in DOMAIN ls :
       /\ Base(ms[i]) = Base(ls[i]) /\ LineOff(ms[i]) = LineOff(ls[i]) /\ Net(ms[i]) = Net(ls[i])
       /\ ms[i].rate = ls[i].rate

\* Lines that are worth the same share a discount alike.
LEMMA SharesAlike ==
  ASSUME NEW ls \in Lines, NEW ms \in Lines, Alike(ls, ms), NEW d \in Nat
  PROVE  /\ Worth(ms) = Worth(ls) /\ Subtotal(ms) = Subtotal(ls)
         /\ \A i \in DOMAIN ls : Share(ms, d, i) = Share(ls, d, i)
         /\ Shares(ms, d) = Shares(ls, d)
  <1> DEFINE n == Len(ls)
             N(i) == Net(ls[i])
  <1>1. /\ DOMAIN ls = 1..n /\ DOMAIN ms = 1..n /\ Len(ms) = n /\ n \in Nat
        /\ \A i \in 1..n : Net(ms[i]) = Net(ls[i]) /\ Base(ms[i]) = Base(ls[i])
    BY DEF Alike, Lines
  <1>2. Each(ms, Net) = Each(ls, Net) /\ Each(ms, Base) = Each(ls, Base)
    BY <1>1 DEF Each
  <1>3. Worth(ms) = Worth(ls) /\ Subtotal(ms) = Subtotal(ls)
    BY <1>2 DEF Worth, Subtotal
  <1>4. \A i \in 1..n : Proportional(ms, d, i) = Proportional(ls, d, i)
    BY <1>1, <1>2 DEF Proportional
  <1>5. \A i \in 1..n : TakesRest(ms, i) = TakesRest(ls, i)
    <2> TAKE i \in 1..n
    <2>1. \A j \in (i + 1)..n : j \in 1..n
      BY <1>1
    <2> QED
      BY <1>1, <2>1 DEF TakesRest
  <1>6. \A i \in 1..n : [j \in 1..(i - 1) |-> Proportional(ms, d, j)]
                          = [j \in 1..(i - 1) |-> Proportional(ls, d, j)]
    <2> TAKE i \in 1..n
    <2>1. \A j \in 1..(i - 1) : j \in 1..n
      BY <1>1
    <2> QED
      BY <1>4, <2>1
  <1>7. \A i \in 1..n : Share(ms, d, i) = Share(ls, d, i)
    BY <1>1, <1>4, <1>5, <1>6 DEF Share
  <1>8. Shares(ms, d) = Shares(ls, d)
    BY <1>1, <1>7 DEF Shares
  <1> QED
    BY <1>1, <1>3, <1>7, <1>8

\* Lines that are worth and taxed the same make the same bill.
LEMMA BillsAlike ==
  ASSUME NEW ls \in Lines, NEW ms \in Lines, Alike(ls, ms), NEW d \in Nat
  PROVE  Calculate(ms, d) = Calculate(ls, d)
  <1>1. /\ \A i \in DOMAIN ls : Share(ms, d, i) = Share(ls, d, i)
        /\ Shares(ms, d) = Shares(ls, d)
    BY SharesAlike
  <1>2. \A i \in DOMAIN ls :
          /\ LineTax(ms[i], Share(ms, d, i)) = LineTax(ls[i], Share(ls, d, i))
          /\ Central(ms[i], Share(ms, d, i)) = Central(ls[i], Share(ls, d, i))
    BY <1>1 DEF Alike, LineTax, Central
  <1>3. \A i \in DOMAIN ls :
          StateTax(ms[i], Share(ms, d, i)) = StateTax(ls[i], Share(ls, d, i))
    BY <1>2 DEF StateTax
  <1>4. /\ Taxes(ms, d) = Taxes(ls, d) /\ Centrals(ms, d) = Centrals(ls, d)
        /\ StateTaxes(ms, d) = StateTaxes(ls, d)
    BY <1>2, <1>3 DEF Alike, Taxes, Centrals, StateTaxes
  <1>5. /\ Taxables(ms, d) = Taxables(ls, d) /\ Charged(ms, d) = Charged(ls, d)
        /\ Bases(ms) = Bases(ls) /\ Offs(ms) = Offs(ls)
    BY <1>1, <1>2 DEF Alike, Taxables, Charged, Bases, Offs
  <1> QED
    BY <1>1, <1>4, <1>5, CalculateIs DEF Lines

\* Rules that hold in the same cases do the same.
LEMMA SameEffects ==
  ASSUME NEW rs \in Rules, NEW a, NEW b,
         \A r \in rs : Holds(r, a) = Holds(r, b)
  PROVE  Effects(rs, b) = Effects(rs, a)
  <1>1. {r \in rs : Holds(r, b)} = {r \in rs : Holds(r, a)}
    OBVIOUS
  <1> QED
    BY <1>1 DEF Effects

\* Rules hold of a draft priced again when they did the first time.
LEMMA EffectsAgain ==
  ASSUME NEW rs \in Rules, NEW s, NEW n, NEW marked \in BOOLEAN,
         NEW a, a = [subtotal |-> s, count |-> n, marked |-> marked],
         ~(\E r, q \in rs : r.act = "set_field" /\ q.field = "marked"),
         NEW b, b = [subtotal |-> s, count |-> n, marked |-> marked \/ Effects(rs, a).marked]
  PROVE  Effects(rs, b) = Effects(rs, a)
  <1> DEFINE e == Effects(rs, a)
  <1>1. e \in Effect /\ e.marked = (\E r \in Hold(rs, a) : r.act = "set_field")
    BY EffectsAre, ZenonT(30)
  <1> HIDE DEF e
  <1>2. e.marked \in BOOLEAN
    BY <1>1 DEF Effect
  <1>3. CASE e.marked
    <2>1. \A r \in rs : r.field \in {"subtotal", "count"}
      BY <1>1, <1>3, PricingAssumption DEF Hold
    <2>2. \A r \in rs : a[r.field] = b[r.field]
      BY <2>1
    <2>3. \A r \in rs : Holds(r, a) = Holds(r, b)
      BY <2>2 DEF Holds
    <2> QED
      BY <2>3, SameEffects
  <1>4. CASE ~e.marked
    <2>1. b = a
      BY <1>2, <1>4 DEF e
    <2> QED
      BY <2>1
  <1> QED
    BY <1>2, <1>3, <1>4

\* At most one line, and a rule's.
LEMMA AtMostOne ==
  ASSUME NEW l \in Line, l.rule = TRUE, NEW x, x = <<>> \/ x = <<l>>
  PROVE  x \in Lines /\ \A i \in DOMAIN x : x[i].rule = TRUE
  <1>1. CASE x = <<>>
    BY <1>1 DEF Lines
  <1>2. CASE x = <<l>>
    <2>1. x \in Seq(Line) /\ DOMAIN x = {1} /\ x[1] = l
      BY <1>2
    <2> QED
      BY <2>1 DEF Lines
  <1> QED
    BY <1>1, <1>2

\* A draft that is priced again as it is costs the same.
LEMMA SameAgain ==
  ASSUME NEW items \in Lines, NEW manual \in Nat, NEW marked \in BOOLEAN, NEW rs \in Rules,
         ~(\E r, q \in rs : r.act = "set_field" /\ q.field = "marked"),
         NEW p, p = Price(items, manual, rs, marked)
  PROVE  Price(p.items, p.manual, rs, p.marked).bill = p.bill
  <1> DEFINE ls == Own(items)
             a == Context(ls, marked)
             e == Effects(rs, a)
             ms == Shown(ls)
             b == Context(ms, p.marked)
             f == Effects(rs, b)
  <1>1. ls \in Lines /\ \A i \in DOMAIN ls : ls[i].rule = FALSE
    BY OwnLines
  <1>2. e \in Effect
    BY EffectsAre
  <1>3. p = DraftOf(ls, manual, rs, marked, e)
    BY PriceIs
  <1> HIDE DEF ls, e
  <1>4. /\ p.items = ms \o Extra(e) /\ p.manual = manual /\ p.marked = (marked \/ e.marked)
        /\ p.bill = WithSurcharge(Discounted(ls, manual, e.pct), e.extra)
    <2> DEFINE pi == ms \o Extra(e)
               pm == marked \/ e.marked
               ph == e.held
               pb == WithSurcharge(Discounted(ls, manual, e.pct), e.extra)
    <2>1. p = [items |-> pi, manual |-> manual, marked |-> pm, held |-> ph, by |-> rs, bill |-> pb]
      BY <1>3 DEF DraftOf
    <2> HIDE DEF pi, pm, ph, pb
    <2>2. p.items = pi /\ p.manual = manual /\ p.bill = pb
      BY <2>1
    <2>3. p.marked = pm
      BY <2>1
    <2> QED
      BY <2>2, <2>3 DEF pi, pm, pb
  <1>5. /\ ms \in Lines /\ DOMAIN ms = DOMAIN ls /\ Len(ms) = Len(ls)
        /\ \A i \in DOMAIN ls : ms[i] = Stored(ls[i])
    BY <1>1, ShownIs
  <1>6. Extra(e) \in Lines /\ \A i \in DOMAIN Extra(e) : Extra(e)[i].rule = TRUE
    <2>1. e.extra \in Nat
      BY <1>2 DEF Effect
    <2>2. Surcharge(e.extra) \in Line /\ Surcharge(e.extra).rule = TRUE
      BY <2>1, SurchargeIs
    <2>3. Extra(e) = <<>> \/ Extra(e) = <<Surcharge(e.extra)>>
      BY DEF Extra
    <2> QED
      BY <2>2, <2>3, AtMostOne
  <1>7. \A i \in DOMAIN ls : /\ Stored(ls[i]).rule = ls[i].rule /\ Stored(ls[i]).rate = ls[i].rate
                             /\ Base(Stored(ls[i])) = Base(ls[i])
                             /\ LineOff(Stored(ls[i])) = LineOff(ls[i])
                             /\ Net(Stored(ls[i])) = Net(ls[i])
    <2>1. \A i \in DOMAIN ls : ls[i] \in Line
      BY <1>1 DEF Lines
    <2> QED
      BY <2>1, StoredIs
  <1>8. Own(p.items) = ms
    <2>1. \A i \in DOMAIN ms : ms[i].rule = FALSE
      BY <1>1, <1>5, <1>7
    <2> QED
      BY <1>4, <1>5, <1>6, <2>1, OwnOfJoined
  <1>9. Alike(ls, ms)
    BY <1>5, <1>7 DEF Alike
  <1>10. Price(p.items, p.manual, rs, p.marked) = DraftOf(ms, manual, rs, p.marked, f)
    BY <1>4, <1>8, PriceIs
  <1>11. Subtotal(ms) = Subtotal(ls) /\ Worth(ms) = Worth(ls)
    BY <1>1, <1>5, <1>9, SharesAlike, 0 \in Nat
  <1>12. f = e
    <2>1. /\ a = [subtotal |-> Subtotal(ls), count |-> Len(ls), marked |-> marked]
          /\ b = [subtotal |-> Subtotal(ls), count |-> Len(ls), marked |-> marked \/ Effects(rs, a).marked]
      BY <1>4, <1>5, <1>11 DEF Context, e
    <2> HIDE DEF a, b, ms
    <2> QED
      BY <2>1, EffectsAgain DEF e
  <1>13. DraftOf(ms, manual, rs, p.marked, e).bill = WithSurcharge(Discounted(ms, manual, e.pct), e.extra)
    <2> DEFINE pi == Shown(ms) \o Extra(e)
               pm == p.marked \/ e.marked
               ph == e.held
               pb == WithSurcharge(Discounted(ms, manual, e.pct), e.extra)
    <2>1. DraftOf(ms, manual, rs, p.marked, e)
            = [items |-> pi, manual |-> manual, marked |-> pm, held |-> ph, by |-> rs, bill |-> pb]
      BY DEF DraftOf
    <2> HIDE DEF pi, pm, ph, pb
    <2>2. DraftOf(ms, manual, rs, p.marked, e).bill = pb
      BY <2>1
    <2> QED
      BY <2>2 DEF pb
  <1>14. Discounted(ms, manual, e.pct) = Discounted(ls, manual, e.pct)
    <2>1. manual + Rounded(Worth(ls) * e.pct, 100) \in Nat
      <3>1. Worth(ls) \in Nat /\ e.pct \in 0..100
        BY <1>1, <1>2, NetsAre DEF Lines, Effect
      <3> QED
        BY <3>1, DiscountNat
    <2>2. /\ Discounted(ms, manual, e.pct) = Calculate(ms, manual + Rounded(Worth(ms) * e.pct, 100))
          /\ Discounted(ls, manual, e.pct) = Calculate(ls, manual + Rounded(Worth(ls) * e.pct, 100))
      BY DEF Discounted, Worth
    <2> QED
      BY <1>1, <1>5, <1>9, <1>11, <2>1, <2>2, BillsAlike
  <1> QED
    BY <1>4, <1>10, <1>12, <1>13, <1>14

\* So does a draft that is saved again as it is.
LEMMA StepReprices ==
  ASSUME PricingInv, draft # NoDraft, draft.by = inForce, UpdateInvoice(draft.items, draft.manual),
         ~(\E r, q \in inForce : r.act = "set_field" /\ q.field = "marked")
  PROVE  draft'.bill = draft.bill
  <1>1. PICK items \in Lines, manual \in Nat, marked \in BOOLEAN, rs \in Rules :
          draft = Price(items, manual, rs, marked)
    BY DEF PricingInv, DraftPriced
  <1>2. rs = inForce
    BY <1>1, PricedIs DEF PricedBy
  <1>3. draft' = Price(draft.items, draft.manual, rs, draft.marked)
    BY <1>2 DEF UpdateInvoice
  <1>4. Price(draft.items, draft.manual, rs, draft.marked).bill = draft.bill
    BY <1>1, <1>2, SameAgain
  <1> QED
    BY <1>3, <1>4

\* priceInvoiceWithRules may be run again on what it stored: the surcharge of a rule is not priced
\* twice, rounded discounts are kept, and rules that held before hold again.
THEOREM RepricingIsStable == PricingSpec => RepricedTheSame
  <1>1. PricingInit => PricingInv
    BY PricingStarts
  <1>2. PricingInv /\ [PricingNext]_pricingVars => PricingInv'
    BY PricingStep
  <1>3. PricingInv /\ [PricingNext]_pricingVars =>
          [draft # NoDraft /\ draft.by = inForce /\ UpdateInvoice(draft.items, draft.manual)
           /\ ~(\E r, q \in inForce : r.act = "set_field" /\ q.field = "marked")
           => draft'.bill = draft.bill]_pricingVars
    BY StepReprices
  <1> QED
    BY <1>1, <1>2, <1>3, PTL DEF PricingSpec, RepricedTheSame
=============================================================================
