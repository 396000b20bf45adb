-------------------------------- MODULE Store --------------------------------
(***************************************************************************)
(* The shop floor: posCheckout, processReturn, adjustStock, createPurchase *)
(* and updateProduct, which share the products' stock, a customer's        *)
(* account and the organization's invoice counter.  The first four run in  *)
(* a MongoDB transaction each.  A transaction reads one snapshot of the    *)
(* database and is refused when a document it writes was written by        *)
(* somebody else since; documents it only reads may have changed.          *)
(* What a request sells or returns is a bag of products: the lines of one  *)
(* request name different products, as the pages of the shop send them.    *)
(***************************************************************************)
EXTENDS Integers, Sequences, FiniteSets, Functions

CONSTANTS
  Product,
  Managed,  \* products with manageInventory
  Price,    \* catalog price of each product, tax included
  Opening,  \* stockQuantity of each product when the run starts
  Funds,    \* the customer's balance, store credit and points then
  Spend,    \* money that earns one loyalty point (100 in the code)
  Req,      \* requests: each is one execution of one handler
  Key,      \* clientTransactionIds
  NoKey,
  Cart,     \* bags of products customers buy, return or get in exchange
  Tender,   \* how a sale is paid: store-credit rows, points, and what is left due
  Method,   \* how a return is refunded
  Recount,  \* stock quantities a product form is saved with
  Ops       \* the handlers that run

ASSUME StoreAssumption ==
  /\ IsFiniteSet(Product) /\ IsFiniteSet(Req)
  /\ Managed \subseteq Product
  /\ Price \in [Product -> Nat \ {0}]
  /\ Opening \in [Product -> Nat]
  /\ Funds \in [{"balance", "credit", "points"} -> Nat]
  /\ Spend \in Nat \ {0}
  /\ NoKey \notin Key
  /\ Cart \subseteq [Product -> Nat]
  /\ Tender \subseteq [credit : Seq(Nat \ {0}), points : Nat, due : Nat]
  /\ Method \subseteq {"cash", "store_credit", "customer_balance"}
  /\ Recount \subseteq Nat

Account == {"balance", "credit", "points"}
Doc == Product \cup {"counter", "customer"}  \* the documents transactions contend for

VARIABLES
  db,       \* the committed database
  view,     \* the snapshot each open transaction reads
  touched,  \* documents others wrote since each open transaction began
  pc,       \* where each request is
  ask,      \* what each request asks
  recounted,\* history: products whose stock a form overwrote
  elsewhere \* history: what the payment handlers took off the balance with $inc

vars == <<db, view, touched, pc, ask, recounted, elsewhere>>

Nothing == [p \in Product |-> 0]
NoSale == [number |-> 0, items |-> Nothing, total |-> 0, due |-> 0, credit |-> <<>>,
           key |-> NoKey, customer |-> FALSE]
NoReturn == [of |-> {}, items |-> Nothing, restock |-> FALSE,
             method |-> "none"]
NoAsk == [op |-> "none", cart |-> Nothing, customer |-> FALSE, key |-> NoKey,
          tender |-> [credit |-> <<>>, points |-> 0, due |-> 0],
          of |-> {}, restock |-> FALSE, method |-> "none"]

EmptyDb == [
  stock   |-> Opening,                       \* Product.stockQuantity
  moves   |-> [p \in Product |-> <<>>],      \* InventoryMovement
  account |-> Funds,                         \* Customer: its three balances
  book    |-> [a \in Account |-> <<>>],      \* Ledger-, StoreCredit- and LoyaltyTransaction
  counter |-> 1,                             \* Organization.settings.nextInvoiceNumber
  sale    |-> [r \in Req |-> NoSale],        \* Invoice: the sale each request made
  return  |-> [r \in Req |-> NoReturn]]      \* Return: the return each request made

Init ==
  /\ db = EmptyDb
  /\ view = [r \in Req |-> EmptyDb]
  /\ touched = [r \in Req |-> {}]
  /\ pc = [r \in Req |-> "idle"]
  /\ ask = [r \in Req |-> NoAsk]
  /\ recounted = {}
  /\ elsewhere = 0

Worth(cart) == SumFunction([p \in Product |-> cart[p] * Price[p]])
Sold(d) == {r \in Req : d.sale[r].number > 0}
Returned(d, s, p) ==
  SumFunction([r \in Req |-> IF d.return[r].of = {s} THEN d.return[r].items[p] ELSE 0])
KeySold(d, k) == k # NoKey /\ \E s \in Sold(d) : d.sale[s].key = k

(* Effects of a transaction on the database d it read. *)

\* Every changed product gets its new stock and a movement that says so.
Move(d, change) ==
  [d EXCEPT
    !.stock = [p \in Product |-> d.stock[p] + change[p]],
    !.moves = [p \in Product |-> IF change[p] = 0 THEN d.moves[p] ELSE Append(d.moves[p],
      [quantity |-> change[p], before |-> d.stock[p], after |-> d.stock[p] + change[p]])]]

\* One of the customer's balances changes and its journal gets an entry.
Post(d, a, amount) ==
  IF amount = 0 THEN d
  ELSE [d EXCEPT !.account[a] = @ + amount,
                 !.book[a] = Append(@, [amount |-> amount, after |-> d.account[a] + amount])]

\* The first n store-credit rows of a sale.
Rows(rows, n) == SumFunction([m \in 1..n |-> rows[m]])
Whole(rows) == Rows(rows, Len(rows))

\* Each store-credit row of a sale lowers the balance and makes a line of its journal.
Redeem(d, rows) ==
  LET lines == [n \in 1..Len(rows) |->
                  [amount |-> -rows[n], after |-> d.account["credit"] - Rows(rows, n)]]
  IN [d EXCEPT !.account["credit"] = @ - Whole(rows),
               !.book["credit"] = @ \o lines]
-----------------------------------------------------------------------------
(* posCheckout *)

OnlyManaged(cart, sign) == [p \in Product |-> IF p \in Managed THEN sign * cart[p] ELSE 0]

\* What the handler checks before it writes: every store-credit row alone against
\* the whole balance.
Sellable(d, a) ==
  /\ \A p \in Managed : a.cart[p] <= d.stock[p]
  /\ a.tender.due + Len(a.tender.credit) + a.tender.points > 0 => a.customer
  /\ \A n \in DOMAIN a.tender.credit : a.tender.credit[n] <= d.account["credit"]
  /\ a.tender.points <= d.account["points"] /\ a.tender.points <= Worth(a.cart)

Earned(a) == IF a.customer THEN (Worth(a.cart) - a.tender.points) \div Spend ELSE 0

Sell(d, r) ==
  LET a == ask[r]
      numbered == [d EXCEPT
        !.counter = @ + 1,
        !.sale[r] = [number |-> d.counter, items |-> a.cart, total |-> Worth(a.cart),
                     due |-> a.tender.due, credit |-> a.tender.credit, key |-> a.key,
                     customer |-> a.customer]]
      paid == Post(Post(Redeem(numbered, a.tender.credit),
                        "points", -a.tender.points), "points", Earned(a))
  IN Post(Move(paid, OnlyManaged(a.cart, -1)), "balance", a.tender.due)
-----------------------------------------------------------------------------
(* processReturn *)

\* Mutant of Returnable: earlier returns are not subtracted.
ReturnableAlone(d, s, a) ==
  /\ \A p \in Product : a.cart[p] <= d.sale[s].items[p]
  /\ a.method \in {"store_credit", "customer_balance"} => d.sale[s].customer

\* No more than was sold, less what earlier returns took back; what goes to an
\* account needs a customer.
Returnable(d, s, a) ==
  /\ \A p \in Product : a.cart[p] + Returned(d, s, p) <= d.sale[s].items[p]
  /\ a.method \in {"store_credit", "customer_balance"} => d.sale[s].customer

(* An exchange changes nothing more.  A replacement that is managed is always *)
(* refused, because its movement has a type InventoryMovement does not know;  *)
(* any other has no stock, and the difference in price is a payment record.   *)

TakeBack(d, r) ==
  LET a == ask[r]
      restocked == IF a.restock THEN Move(d, OnlyManaged(a.cart, 1)) ELSE d
      refunded == CASE a.method = "store_credit" -> Post(restocked, "credit", Worth(a.cart))
                    [] a.method = "customer_balance" -> Post(restocked, "balance", -Worth(a.cart))
                    [] OTHER -> restocked
  IN [refunded EXCEPT !.return[r] =
        [of |-> a.of, items |-> a.cart, restock |-> a.restock, method |-> a.method]]
-----------------------------------------------------------------------------
(* adjustStock and createPurchase: a received purchase adds every product's    *)
(* quantity, an adjustment changes one product's in either direction.         *)

Adjustable(d, a) == \A p \in Product : d.stock[p] + a.cart[p] >= 0

Outcome(d, r) ==
  CASE ask[r].op = "checkout" -> Sell(d, r)
    [] ask[r].op = "return"   -> TakeBack(d, r)
    [] OTHER                  -> Move(d, ask[r].cart)

\* Mutant of Writes: the products are saved outside of the session.
WritesButProducts(d, e) ==
  (IF d.counter # e.counter THEN {"counter"} ELSE {})
    \cup (IF d.book # e.book THEN {"customer"} ELSE {})
\* What the handlers write with the session of their transaction and others contend
\* for: the counter, the products and the customer, where their outcome changes them.
Writes(d, e) ==
  {p \in Product : d.stock[p] # e.stock[p]}
    \cup (IF d.counter # e.counter THEN {"counter"} ELSE {})
    \cup (IF d.book # e.book THEN {"customer"} ELSE {})

Open(r) == pc[r] = "open"
Touch(docs) == [r \in Req |-> IF Open(r) THEN touched[r] \cup docs ELSE touched[r]]
Finish(r, where) ==
  /\ pc' = [pc EXCEPT ![r] = where]
  /\ view' = [view EXCEPT ![r] = EmptyDb]
  /\ ask' = [ask EXCEPT ![r] = NoAsk]

\* A request opens its transaction, reads its snapshot and decides on it.  One
\* that is refused leaves no trace, so it is not a step.
Begin(r, a) ==
  /\ a.op \in Ops
  /\ ask' = [ask EXCEPT ![r] = a]
  /\ pc' = [pc EXCEPT ![r] = "open"]
  /\ view' = [view EXCEPT ![r] = db]
  /\ UNCHANGED <<db, touched, recounted, elsewhere>>

\* A known clientTransactionId is answered with the sale there is.  What is left due
\* is what the rows do not pay; they may come to more than the total.
BeginCheckout(r, cart, customer, tender, k) ==
  LET a == [NoAsk EXCEPT !.op = "checkout", !.cart = cart, !.customer = customer,
                         !.tender = tender, !.key = k]
  IN /\ tender.due > 0 => Whole(tender.credit) + tender.due <= Worth(cart)
     /\ ~KeySold(db, k) /\ Sellable(db, a)
     /\ Begin(r, a)

BeginReturn(r, s, cart, restock, method) ==
  LET a == [NoAsk EXCEPT !.op = "return", !.cart = cart, !.of = {s},
                         !.restock = restock, !.method = method]
  IN /\ Returnable(db, s, a)
     /\ Begin(r, a)

BeginPurchase(r, cart) ==
  Begin(r, [NoAsk EXCEPT !.op = "purchase", !.cart = cart])

BeginAdjust(r, cart, sign) ==
  LET a == [NoAsk EXCEPT !.op = "adjust", !.cart = [p \in Product |-> sign * cart[p]]]
  IN /\ Cardinality({p \in Product : cart[p] > 0}) = 1
     /\ Adjustable(db, a)
     /\ Begin(r, a)

\* What the transaction inserts is added, what it writes takes the values
\* computed from the snapshot.
Merged(v, e) == [
  stock   |-> [p \in Product |-> IF e.stock[p] # v.stock[p] THEN e.stock[p] ELSE db.stock[p]],
  moves   |-> [p \in Product |->
                db.moves[p] \o SubSeq(e.moves[p], Len(v.moves[p]) + 1, Len(e.moves[p]))],
  account |-> [a \in Account |->
                IF e.book[a] # v.book[a] THEN e.account[a] ELSE db.account[a]],
  book    |-> [a \in Account |->
                db.book[a] \o SubSeq(e.book[a], Len(v.book[a]) + 1, Len(e.book[a]))],
  counter |-> IF e.counter # v.counter THEN e.counter ELSE db.counter,
  sale    |-> [r \in Req |-> IF e.sale[r] # v.sale[r] THEN e.sale[r] ELSE db.sale[r]],
  return  |-> [r \in Req |-> IF e.return[r] # v.return[r] THEN e.return[r] ELSE db.return[r]]]

Commit(r) ==
  LET e == Outcome(view[r], r)
      docs == Writes(view[r], e)
  IN /\ Open(r)
     /\ IF docs \cap touched[r] = {}
        THEN /\ db' = Merged(view[r], e)
             /\ touched' = [Touch(docs) EXCEPT ![r] = {}]
             /\ Finish(r, "ok")
        ELSE /\ touched' = [touched EXCEPT ![r] = {}]
             /\ Finish(r, "conflict")
             /\ UNCHANGED db
     /\ UNCHANGED <<recounted, elsewhere>>
-----------------------------------------------------------------------------
(* Writers without a transaction, or with one of a single step *)

\* updateProduct stores the whole form, stockQuantity and all.
UpdateProduct(r, p, n) ==
  /\ "form" \in Ops
  /\ db' = [db EXCEPT !.stock[p] = n]
  /\ touched' = Touch({p})
  /\ recounted' = recounted \cup {p}
  /\ pc' = [pc EXCEPT ![r] = "ok"]
  /\ UNCHANGED <<view, ask, elsewhere>>

\* recordCustomerPayment, as far as the customer goes: see Settlement.
AccountPayment(r, n) ==
  /\ "account" \in Ops
  /\ n > 0 /\ n <= db.account["balance"]
  /\ db' = Post(db, "balance", -n)
  /\ touched' = Touch({"customer"})
  /\ pc' = [pc EXCEPT ![r] = "ok"]
  /\ UNCHANGED <<view, ask, recounted, elsewhere>>

\* recordPayment's $inc on the balance, which keeps no journal: see Settlement.
InvoicePayment(r, n) ==
  /\ "invoice" \in Ops
  /\ n > 0 /\ n <= db.account["balance"]
  /\ db' = [db EXCEPT !.account["balance"] = @ - n]
  /\ touched' = Touch({"customer"})
  /\ elsewhere' = elsewhere - n
  /\ pc' = [pc EXCEPT ![r] = "ok"]
  /\ UNCHANGED <<view, ask, recounted>>

Arrive(r) ==
  /\ pc[r] = "idle"
  /\ \/ \E cart \in Cart, customer \in BOOLEAN, tender \in Tender, k \in Key \cup {NoKey} :
          BeginCheckout(r, cart, customer, tender, k)
     \/ \E s \in Sold(db), cart \in Cart, restock \in BOOLEAN, method \in Method :
          BeginReturn(r, s, cart, restock, method)
     \/ \E cart \in Cart : BeginPurchase(r, cart)
     \/ \E cart \in Cart, sign \in {1, -1} : BeginAdjust(r, cart, sign)
     \/ \E p \in Product, n \in Recount : UpdateProduct(r, p, n)
     \/ \E n \in 1..Funds["balance"] : AccountPayment(r, n) \/ InvoicePayment(r, n)

Next == \E r \in Req : Arrive(r) \/ Commit(r)

Spec == Init /\ [][Next]_vars
-----------------------------------------------------------------------------
(* Properties *)

Entry == [amount : Int, after : Int]
Movement == [quantity : Int, before : Int, after : Int]
Database == [
  stock : [Product -> Int], moves : [Product -> Seq(Movement)],
  account : [Account -> Int], book : [Account -> Seq(Entry)], counter : Nat \ {0},
  sale : [Req -> [number : Nat, items : [Product -> Nat], total : Nat, due : Nat,
                  credit : Seq(Nat \ {0}), key : Key \cup {NoKey}, customer : BOOLEAN]],
  return : [Req -> [of : SUBSET Req, items : [Product -> Nat], restock : BOOLEAN,
                    method : Method \cup {"none"}]]]

\* Every variable stays within its type.
TypeOK ==
  /\ db \in Database
  /\ touched \in [Req -> SUBSET Doc]
  /\ pc \in [Req -> {"idle", "open", "ok", "conflict"}]
  /\ recounted \subseteq Product /\ elsewhere \in Int

\* What the store-credit rows of a sale take beside row n.
Beside(s, n) == Whole(db.sale[s].credit) - db.sale[s].credit[n]

\* A sale that paid in store credit, each row of it covered by what was there
\* before, if not all of them together.
Overdrew(s) ==
  /\ db.sale[s].credit # <<>>
  /\ \A n \in DOMAIN db.sale[s].credit : db.account["credit"] + Beside(s, n) >= 0

\* Concurrent sales, returns and adjustments never take more off the shelf, or off
\* a customer's points, than was there.  Store credit goes below zero by the rows of
\* one single sale only, never by two sales or a sale that raced another.
NothingOversold ==
  /\ \A p \in Managed : db.stock[p] >= 0
  /\ db.account["points"] >= 0
  /\ db.account["credit"] < 0 => \E s \in Sold(db) : Overdrew(s)

\* The movements of a product tell its stock: each starts where the one before
\* it ended, the first at the opening stock, the last at what there is now; but
\* for products a form overwrote.
MovementsTellStock ==
  \A p \in Product \ recounted :
    LET m == db.moves[p] IN
    /\ \A n \in DOMAIN m : m[n].before = IF n = 1 THEN Opening[p] ELSE m[n - 1].after
    /\ db.stock[p] = IF m = <<>> THEN Opening[p] ELSE m[Len(m)].after

Entered(journal) == SumFunction([n \in DOMAIN journal |-> journal[n].amount])

\* The customer's journals add up to what changed on each balance, but for the
\* invoice payments, which keep none: no balance update is lost.
JournalsTellBalances ==
  \A a \in Account :
    db.account[a] = Funds[a] + (IF a = "balance" THEN elsewhere ELSE 0) + Entered(db.book[a])

\* Concurrent transactions lose no update, of stock or of a balance.
StockAndBalancesTold ==
  TypeOK /\ NothingOversold /\ MovementsTellStock /\ JournalsTellBalances

\* A clientTransactionId sells once, although no index keeps it unique.
SoldOnce ==
  \A r, s \in Sold(db) :
    db.sale[r].key = db.sale[s].key /\ db.sale[r].key # NoKey => r = s

\* The numbers of the sales run 1, 2, 3: none is used twice, and a sale that
\* fails leaves no gap.
NumberedInARow == {db.sale[r].number : r \in Sold(db)} = 1..(db.counter - 1)

\* Checks made on a snapshot still hold when a sale commits: posCheckout is as
\* good as atomic.
SalesAreSerial ==
  [][\A r \in Sold(db') \ Sold(db) : Sellable(db, ask[r]) /\ ~KeySold(db, ask[r].key)]_vars

\* The returns that took product p of sale s back.
ReturnsOf(s, p) == {r \in Req : db.return[r].of = {s} /\ db.return[r].items[p] > 0}
\* No more of a product is returned than was sold, where the returns meet on a
\* document: all of them restocked the product, or all went to the account.
ReturnedWithinSold ==
  \A s \in Sold(db), p \in Product :
    \/ p \in Managed /\ \A r \in ReturnsOf(s, p) : db.return[r].restock
    \/ \A r \in ReturnsOf(s, p) : db.return[r].method # "cash"
    => Returned(db, s, p) <= db.sale[s].items[p]

\* Concurrent sales and returns stay apart.
SalesAreApart == SoldOnce /\ NumberedInARow /\ ReturnedWithinSold
=============================================================================
