--------------------------------- MODULE Till ---------------------------------
(***************************************************************************)
(* The tills of a shop: the browser page that sells (PointOfSalePage), its *)
(* cart, the sales it queues in IndexedDB while the browser is offline,    *)
(* the loops that post them later, and parked bills.  The server is what   *)
(* the pages see of it: posCheckout keeps a clientTransactionId once and   *)
(* refuses what is not in stock; parked bills are inserted and taken.      *)
(* Any request may be lost, answered late or answered in vain, and a page  *)
(* may be reloaded at any time.                                            *)
(* A cart holds one shopper's goods, so that it can be told whose it is.   *)
(***************************************************************************)
EXTENDS Integers, Sequences, FiniteSets, SequencesExt, Functions

CONSTANTS
  Tills,      \* browsers, one cashier at each
  Shoppers,   \* each comes once, with goods in one cart
  Stock,      \* units in stock when the run starts
  MaxQty,     \* bound: units in a cart
  MaxConfirm, \* bound: how often cashiers press Complete Sale for a shopper
  MaxPark,    \* bound: how often a bill is parked
  MaxFault,   \* bound: lost connections, timeouts and reloads
  Loops       \* sync loops a page can have running at once

ASSUME TillAssumption ==
  /\ Stock \in Nat
  /\ {MaxQty, MaxConfirm, MaxPark} \subseteq Nat \ {0}
  /\ MaxFault \in Nat

VARIABLES
  page,     \* what each page shows: its cart, the stock it knows, its flags
  queue,    \* IndexedDB of each browser: sales to post, oldest first
  loop,     \* the sync loops of each page: what each has still to post
  call,     \* requests under way: from whom, what, and where they are
  server,   \* sales stored and refused, parked bills, stock
  receipts, \* history: the confirmations a receipt was printed for
  pressed,  \* history: how often each shopper's sale was confirmed
  parked,   \* history: how often each shopper's bill was sent to be parked
  unsure,   \* history: shoppers with two calls at once, or one nobody heard the end of
  faults

vars == <<page, queue, loop, call, server, receipts, pressed, parked, unsure, faults>>

NoCart == [of |-> {}, qty |-> 0, left |-> 0]
Bill == [of : {{s} : s \in Shoppers}, qty : 1..(MaxQty + 1), left : 0..Stock] \cup {NoCart}
\* A confirmation of a sale: its payload, with the clientTransactionId n makes unique.
Sale == [of : Shoppers, n : 1..MaxConfirm, qty : 1..(MaxQty + 1)]

FreshPage == [cart |-> NoCart, known |-> Stock, offline |-> FALSE, busy |-> FALSE,
              syncing |-> FALSE]
NoLoop == [on |-> FALSE, todo |-> <<>>]

Init ==
  /\ page = [t \in Tills |-> FreshPage]
  /\ queue = [t \in Tills |-> <<>>]
  /\ loop = [t \in Tills |-> [l \in Loops |-> NoLoop]]
  /\ call = {}
  /\ server = [sold |-> {}, refused |-> {}, held |-> {}, stock |-> Stock]
  /\ receipts = {}
  /\ pressed = [s \in Shoppers |-> 0]
  /\ parked = [s \in Shoppers |-> 0]
  /\ unsure = {}
  /\ faults = 0

TypeOK ==
  /\ page \in [Tills -> [cart : Bill, known : 0..Stock, offline : BOOLEAN, busy : BOOLEAN,
                         syncing : BOOLEAN]]
  /\ \A t \in Tills : ToSet(queue[t]) \subseteq Sale
  /\ server.sold \subseteq Sale /\ server.stock \in 0..Stock

CartOf(t) == page[t].cart
Owner(bill) == CHOOSE s \in Shoppers : s \in bill.of
\* Shoppers who have not been served at any till yet.
Waiting == {s \in Shoppers : pressed[s] = 0 /\ parked[s] = 0
                             /\ \A t \in Tills : s \notin CartOf(t).of}
Fault == faults < MaxFault /\ faults' = faults + 1
-----------------------------------------------------------------------------
(* The cart *)

\* A unit more of what is in the cart, or its first unit, not beyond the stock on hand.
WithOneMore(c, s, stock) ==
  [of |-> {s}, qty |-> c.qty + 1, left |-> IF c = NoCart THEN stock ELSE c.left]

Joins(t, s) ==
  \/ CartOf(t) = NoCart /\ s \in Waiting
  \/ CartOf(t).of = {s} /\ CartOf(t).qty < MaxQty

\* A click on a product: the stock is what the page was told when it loaded its list.
AddToCart(t, s) ==
  /\ ~page[t].busy /\ Joins(t, s)
  /\ CartOf(t).qty + 1 <= page[t].known
  /\ page' = [page EXCEPT ![t].cart = WithOneMore(@, s, page[t].known)]
  /\ UNCHANGED <<queue, loop, call, server, receipts, pressed, parked, unsure, faults>>

\* A scanned code that is not in the list is asked from the server, and joins the list.
ScanBarcode(t, s) ==
  /\ ~page[t].busy /\ Joins(t, s)
  /\ CartOf(t).qty + 1 <= server.stock
  /\ page' = [page EXCEPT ![t].cart = WithOneMore(@, s, server.stock), ![t].known = server.stock]
  /\ UNCHANGED <<queue, loop, call, server, receipts, pressed, parked, unsure, faults>>

\* What the field is set to when q is typed into it: the cart's own copy of the stock caps it.
Capped(c, q) == IF q <= c.left THEN q ELSE IF c.left = 0 THEN 1 ELSE c.left

UpdateQuantity(t, q) ==
  LET c == CartOf(t) IN
  /\ c # NoCart /\ ~page[t].busy
  /\ page' = [page EXCEPT ![t].cart = IF q = 0 THEN NoCart ELSE [c EXCEPT !.qty = Capped(c, q)]]
  /\ UNCHANGED <<queue, loop, call, server, receipts, pressed, parked, unsure, faults>>

\* Typing in the search box loads the products again.
FetchProducts(t) ==
  /\ page[t].known # server.stock
  /\ page' = [page EXCEPT ![t].known = server.stock]
  /\ UNCHANGED <<queue, loop, call, server, receipts, pressed, parked, unsure, faults>>
-----------------------------------------------------------------------------
(* Complete Sale *)

Checkout(t, sale) == [kind |-> "checkout", by |-> <<t>>, sale |-> sale, at |-> "sent"]

Payload(t, n) ==
  [of |-> Owner(CartOf(t)), n |-> n, qty |-> CartOf(t).qty]

\* A shopper with a call under way is entangled by a second one.
Entangled(s) == IF \E c \in call : c.sale.of = s THEN {s} ELSE {}

ConfirmCheckout(t) ==
  /\ CartOf(t) # NoCart /\ ~page[t].busy
  /\ LET s == Owner(CartOf(t))
         sale == Payload(t, pressed[s] + 1)
     IN /\ pressed[s] < MaxConfirm
        /\ pressed' = [pressed EXCEPT ![s] = @ + 1]
        /\ unsure' = unsure \cup Entangled(s)
        /\ \/ /\ page[t].offline
              /\ queue' = [queue EXCEPT ![t] = Append(@, sale)]
              /\ receipts' = receipts \cup {sale}
              /\ page' = [page EXCEPT ![t].cart = NoCart]
              /\ UNCHANGED call
           \/ /\ ~page[t].offline
              /\ call' = call \cup {Checkout(t, sale)}
              /\ page' = [page EXCEPT ![t].busy = TRUE]
              /\ UNCHANGED <<queue, receipts>>
  /\ UNCHANGED <<loop, server, parked, faults>>

\* Mutant of Stored: a clientTransactionId is not looked up.
StoredAlways(s) == FALSE

Stored(s) == \E x \in server.sold : x.of = s.of /\ x.n = s.n

\* The server gets a checkout, from a page or a sync loop.  The answer to a known
\* clientTransactionId is the sale it made.
Serve(c) ==
  /\ c.kind = "checkout" /\ c.at = "sent"
  /\ LET fits == c.sale.qty <= server.stock IN
     /\ server' = IF Stored(c.sale) THEN server
                  ELSE IF fits
                  THEN [server EXCEPT !.sold = @ \cup {c.sale}, !.stock = @ - c.sale.qty]
                  ELSE [server EXCEPT !.refused = @ \cup {c.sale}]
     /\ call' = (call \ {c}) \cup
          IF c.by = <<>> THEN {}
          ELSE {[c EXCEPT !.at = IF Stored(c.sale) \/ fits THEN "stored" ELSE "refused"]}
  /\ UNCHANGED <<page, queue, loop, receipts, pressed, parked, unsure, faults>>

OfPage(t, c) == c.by = <<t>> /\ c.kind = "checkout"

\* The page hears from the server: a receipt and an empty cart, or an alert.
CheckoutAnswered(t, c) ==
  /\ OfPage(t, c) /\ c.at \in {"stored", "refused"}
  /\ call' = call \ {c}
  /\ IF c.at = "stored"
     THEN /\ receipts' = receipts \cup {c.sale}
          /\ page' = [page EXCEPT ![t].cart = NoCart, ![t].busy = FALSE]
     ELSE /\ page' = [page EXCEPT ![t].busy = FALSE]
          /\ UNCHANGED receipts
  /\ UNCHANGED <<queue, loop, server, pressed, parked, unsure, faults>>

\* What is left of a call nobody waits for: a request the server may still get, or nothing.
Abandoned(c) == IF c.at = "sent" THEN {{}, {[c EXCEPT !.by = <<>>]}} ELSE {{}}

\* No connection, no answer within a minute, a bad gateway: apiRequest answers
\* success = FALSE and the cart stays as it is.
CheckoutLost(t, c) ==
  /\ OfPage(t, c) /\ Fault
  /\ \E rest \in Abandoned(c) : call' = (call \ {c}) \cup rest
  /\ page' = [page EXCEPT ![t].busy = FALSE]
  /\ unsure' = unsure \cup {c.sale.of}
  /\ UNCHANGED <<queue, loop, server, receipts, pressed, parked>>
-----------------------------------------------------------------------------
(* The offline queue *)

GoOffline(t) ==
  /\ ~page[t].offline /\ Fault
  /\ page' = [page EXCEPT ![t].offline = TRUE]
  /\ UNCHANGED <<queue, loop, call, server, receipts, pressed, parked, unsure>>

Start(t, l) == loop' = [loop EXCEPT ![t][l] = [on |-> TRUE, todo |-> queue[t]]]

\* The online event runs the sync of the render that set it up: its `syncing' is FALSE
\* for ever, so another loop starts beside one that runs.
GoOnline(t) ==
  /\ page[t].offline
  /\ \/ \E l \in Loops : ~loop[t][l].on /\ Start(t, l)
     \/ (\A l \in Loops : loop[t][l].on) /\ UNCHANGED loop  \* bound: no loop beyond Loops
  /\ page' = [page EXCEPT ![t].offline = FALSE, ![t].syncing = TRUE]
  /\ UNCHANGED <<queue, call, server, receipts, pressed, parked, unsure, faults>>

\* The button of the tray.
SyncPending(t) ==
  /\ queue[t] # <<>> /\ ~page[t].syncing /\ ~page[t].offline
  /\ \E l \in Loops : ~loop[t][l].on /\ Start(t, l)
  /\ page' = [page EXCEPT ![t].syncing = TRUE]
  /\ UNCHANGED <<queue, call, server, receipts, pressed, parked, unsure, faults>>

OfLoop(t, l, c) == c.by = <<t, l>>
Waits(t, l) == \E c \in call : OfLoop(t, l, c)

PostQueued(t, l) ==
  /\ loop[t][l].on /\ loop[t][l].todo # <<>> /\ ~Waits(t, l)
  /\ call' = call \cup {[kind |-> "checkout", by |-> <<t, l>>, sale |-> Head(loop[t][l].todo),
                         at |-> "sent"]}
  /\ UNCHANGED <<page, queue, loop, server, receipts, pressed, parked, unsure, faults>>

Advance(t, l) == loop' = [loop EXCEPT ![t][l].todo = Tail(@)]

\* IndexedDB deletes by localId; nothing happens when another loop was faster.
Without(q, s) == IF s \in ToSet(q) THEN RemoveAt(q, CHOOSE i \in DOMAIN q : q[i] = s) ELSE q

\* Mutant of Dropped: a sale leaves the queue with any answer.
DroppedAnyway(t, c) == Without(queue[t], c.sale)

Dropped(t, c) == IF c.at = "stored" THEN Without(queue[t], c.sale) ELSE queue[t]

QueuedAnswered(t, l, c) ==
  /\ OfLoop(t, l, c) /\ c.at \in {"stored", "refused"}
  /\ call' = call \ {c}
  /\ queue' = [queue EXCEPT ![t] = Dropped(t, c)]
  /\ Advance(t, l)
  /\ UNCHANGED <<page, server, receipts, pressed, parked, unsure, faults>>

QueuedLost(t, l, c) ==
  /\ OfLoop(t, l, c) /\ Fault
  /\ \E rest \in Abandoned(c) : call' = (call \ {c}) \cup rest
  /\ Advance(t, l)
  /\ UNCHANGED <<page, queue, server, receipts, pressed, parked, unsure>>

\* Mutant of EndLoop: the flag is not taken back.
EndLoopSyncing(t, l) ==
  /\ loop[t][l].on /\ loop[t][l].todo = <<>>
  /\ loop' = [loop EXCEPT ![t][l] = NoLoop]
  /\ UNCHANGED <<page, queue, call, server, receipts, pressed, parked, unsure, faults>>

EndLoop(t, l) ==
  /\ loop[t][l].on /\ loop[t][l].todo = <<>>
  /\ loop' = [loop EXCEPT ![t][l] = NoLoop]
  /\ page' = [page EXCEPT ![t].syncing = FALSE]
  /\ UNCHANGED <<queue, call, server, receipts, pressed, parked, unsure, faults>>

\* The page is loaded again: sessionStorage gives the cart back and IndexedDB the queue;
\* nobody waits for the calls any more.
Reload(t) ==
  /\ Fault
  /\ LET mine == {c \in call : c.by # <<>> /\ c.by[1] = t} IN
     /\ call' = (call \ mine)
                \cup {[c EXCEPT !.by = <<>>] : c \in {d \in mine : d.at = "sent"}}
     /\ unsure' = unsure \cup {c.sale.of : c \in {d \in mine : d.by = <<t>>}}
  /\ page' = [page EXCEPT ![t] = [FreshPage EXCEPT !.cart = CartOf(t), !.known = server.stock,
                                                   !.offline = page[t].offline]]
  /\ loop' = [loop EXCEPT ![t] = [l \in Loops |-> NoLoop]]
  /\ UNCHANGED <<queue, server, receipts, pressed, parked>>
-----------------------------------------------------------------------------
(* Parked bills *)

\* Park Bill: the button stays enabled while the call runs.
HoldBill(t) ==
  /\ CartOf(t) # NoCart
  /\ LET s == Owner(CartOf(t)) IN
     /\ parked[s] < MaxPark
     /\ parked' = [parked EXCEPT ![s] = @ + 1]
     /\ unsure' = unsure \cup Entangled(s)
     /\ call' = call \cup {[kind |-> "hold", by |-> <<t>>, at |-> "sent",
                            sale |-> [of |-> s, n |-> parked[s] + 1, qty |-> CartOf(t).qty],
                            bill |-> CartOf(t)]}
  /\ UNCHANGED <<page, queue, loop, server, receipts, pressed, faults>>

StoreHeld(c) ==
  /\ c.kind = "hold" /\ c.at = "sent"
  /\ server' = [server EXCEPT !.held = @ \cup {[bill |-> c.bill, n |-> c.sale.n]}]
  /\ call' = (call \ {c}) \cup IF c.by = <<>> THEN {} ELSE {[c EXCEPT !.at = "stored"]}
  /\ UNCHANGED <<page, queue, loop, receipts, pressed, parked, unsure, faults>>

\* apiRequest answers and never throws: the page says the bill is held and clears the cart.
HoldAnswered(t, c) ==
  /\ c.kind = "hold" /\ c.by = <<t>> /\ c.at = "stored"
  /\ call' = call \ {c}
  /\ page' = [page EXCEPT ![t].cart = NoCart]
  /\ UNCHANGED <<queue, loop, server, receipts, pressed, parked, unsure, faults>>

HoldLost(t, c) ==
  /\ c.kind = "hold" /\ c.by = <<t>> /\ Fault
  /\ \E rest \in Abandoned(c) : call' = (call \ {c}) \cup rest
  /\ page' = [page EXCEPT ![t].cart = NoCart]
  /\ unsure' = unsure \cup {c.sale.of}
  /\ UNCHANGED <<queue, loop, server, receipts, pressed, parked>>

\* Mutant of Taken: the bill is read and stays parked.
TakenCopy(h) == server.held

Taken(h) == server.held \ {h}

\* The bill leaves the server and becomes the cart of the till that asked, which may
\* not hear of it.
RestoreHeldBill(t, h) ==
  /\ h \in server.held /\ ~page[t].busy
  /\ server' = [server EXCEPT !.held = Taken(h)]
  /\ \/ /\ page' = [page EXCEPT ![t].cart = h.bill]
        /\ UNCHANGED <<unsure, faults>>
     \/ /\ Fault
        /\ unsure' = unsure \cup h.bill.of
        /\ UNCHANGED page
  /\ UNCHANGED <<queue, loop, call, receipts, pressed, parked>>

DeleteHeldBill(h) ==
  /\ h \in server.held
  /\ server' = [server EXCEPT !.held = @ \ {h}]
  /\ UNCHANGED <<page, queue, loop, call, receipts, pressed, parked, unsure, faults>>
-----------------------------------------------------------------------------
PageStep(t) ==
  \/ \E s \in Shoppers : AddToCart(t, s) \/ ScanBarcode(t, s)
  \/ \E q \in 0..MaxQty + 1 : UpdateQuantity(t, q)
  \/ FetchProducts(t)
  \/ ConfirmCheckout(t)
  \/ HoldBill(t)
  \/ \E h \in server.held : RestoreHeldBill(t, h)
  \/ GoOffline(t) \/ GoOnline(t) \/ SyncPending(t) \/ Reload(t)

Answered(t) ==
  \E c \in call :
    \/ CheckoutAnswered(t, c) \/ CheckoutLost(t, c)
    \/ HoldAnswered(t, c) \/ HoldLost(t, c)

LoopStep(t, l) ==
  \/ PostQueued(t, l) \/ EndLoop(t, l)
  \/ \E c \in call : QueuedAnswered(t, l, c) \/ QueuedLost(t, l, c)

ServerStep == \E c \in call : Serve(c) \/ StoreHeld(c)

Next ==
  \/ \E t \in Tills : PageStep(t) \/ Answered(t) \/ \E l \in Loops : LoopStep(t, l)
  \/ ServerStep
  \/ \E h \in server.held : DeleteHeldBill(h)

Spec == Init /\ [][Next]_vars

\* What goes on by itself once a sync loop runs: the server works off its request, and the
\* fetch that resolves runs on.
Syncing(t, l) == LoopStep(t, l) \/ \E c \in call : OfLoop(t, l, c) /\ Serve(c)

\* Nothing else has to be fair: no connection comes back for sure, nobody has to press Sync
\* Pending, and the page has no timer that would.
FairSpec == Spec /\ \A t \in Tills, l \in Loops : WF_vars(Syncing(t, l))
-----------------------------------------------------------------------------
(* Properties *)

\* However often a sale is posted, by its page, by overlapping sync loops, and by requests
\* nobody waits for any more, the server takes its goods out of stock once (posCheckout looks
\* the clientTransactionId up), and stock is never taken that is not there.
EachConfirmationSoldOnce ==
  /\ TypeOK
  /\ server.stock = Stock - SumFunctionOnSet([s \in Sale |-> s.qty], server.sold)
  /\ server.stock >= 0

\* A receipt is printed for goods the server sold as the receipt says, or for a sale that is
\* still in the queue of some browser: reloads, refusals and lost answers lose none.
ReceiptMeansSale ==
  \A r \in receipts : r \in server.sold \/ \E t \in Tills : r \in ToSet(queue[t])

\* A shopper pays once, though the bill may have been parked and taken up at another till,
\* refused and confirmed again.  Not so when a call was entangled with another
\* or its end not heard: the cashier presses again, under a new clientTransactionId.
OneSalePerShopper ==
  \A s \in Shoppers \ unsure : Cardinality({x \in server.sold : x.of = s}) <= 1

\* What the sync loops of a page have still to post.
TakenUp(t) == UNION {ToSet(loop[t][l].todo) : l \in Loops}

\* A sync comes to its end, however many of its calls are lost, and gives the tray its button
\* back; and no sale drops out of it that the server has not sold or refused, unless a call
\* is lost or the page reloaded.  Whether anybody starts a sync is not promised.
SyncedIsPosted ==
  /\ [][faults' = faults =>
          \A t \in Tills : TakenUp(t) \ TakenUp(t)' \subseteq server.sold \cup server.refused]_loop
  /\ \A t \in Tills : page[t].syncing ~> ~page[t].syncing
=============================================================================
