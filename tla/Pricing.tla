-------------------------------- MODULE Pricing --------------------------------
(***************************************************************************)
(* What is charged: the invoice calculator with its taxes, the business    *)
(* rules that change it each time a draft is priced, and the till, which   *)
(* works out a total of its own before the server does.                    *)
(*                                                                         *)
(* Amounts are cents and rates per cent; Math.round is to the nearest, and *)
(* up half-way.  The till does not round: its amounts are hundredths of a  *)
(* cent.  That numbers are binary fractions in the code is left out.       *)
(***************************************************************************)
EXTENDS Integers, Sequences, FiniteSetsExt, Functions

CONSTANTS
  Bills,      \* lines of an invoice, as forms and carts send them
  Revisions,  \* lines a draft is given when it is edited
  Discounts,  \* invoice and bill discounts
  Rules       \* sets of business rules that are in force at one time

\* `rule' marks the surcharge of a rule; the schemas let no rate exceed the whole.  Quantities are
\* whole: of a fraction, only the rounded base counts.
Line == [qty : Nat, price : Nat, off : Int, pct : Int, rate : 0..100, rule : BOOLEAN]

ASSUME PricingAssumption ==
  /\ \A ls \in Bills : ls \in Seq(Line) /\ ls # <<>>
  /\ Revisions \subseteq Bills /\ Discounts \subseteq Nat
  /\ \A rs \in Rules :
     /\ IsFiniteSet(rs)
     /\ \A r \in rs : r.amount \in Int /\ r.field \in {"subtotal", "count", "marked"}

VARIABLES
  draft,   \* the draft invoice
  inForce, \* active rules of beforeInvoiceCalculate
  sale     \* the last checkout at the till

pricingVars == <<draft, inForce, sale>>

Rounded(a, b) == (2 * a + b) \div (2 * b)
Least(a, b) == IF a < b THEN a ELSE b
Most(a, b) == IF a > b THEN a ELSE b
Total(s) == SumFunction(s)
Each(ls, Of(_)) == [i \in DOMAIN ls |-> Of(ls[i])]
-----------------------------------------------------------------------------
(* calculateInvoice and calculateLineTaxes *)

Base(l) == l.qty * l.price
LineOff(l) ==
  IF l.pct > 0 THEN Rounded(Base(l) * Least(l.pct, 100), 100)
  ELSE Least(Base(l), Most(0, l.off))
Net(l) == Base(l) - LineOff(l)

\* Mutant of TakesRest: the last line takes what is left, even if it is worth nothing.
TakesRestAlways(ls, i) == i = Len(ls)

\* The last line that is worth anything takes what rounding left of the discount.
TakesRest(ls, i) == \A j \in (i + 1)..Len(ls) : Net(ls[j]) = 0

Proportional(ls, d, i) ==
  IF Net(ls[i]) = 0 \/ d = 0 THEN 0
  ELSE Least(Net(ls[i]), Rounded(Net(ls[i]) * d, Total(Each(ls, Net))))

\* Each line before that one has its proportion.
Share(ls, d, i) ==
  IF TakesRest(ls, i) /\ Net(ls[i]) # 0 /\ d # 0
  THEN Least(Net(ls[i]), d - Total([j \in 1..(i - 1) |-> Proportional(ls, d, j)]))
  ELSE Proportional(ls, d, i)

Shares(ls, d) == [i \in DOMAIN ls |-> Share(ls, d, i)]

LineTax(l, share) == Rounded((Net(l) - share) * l.rate, 100)

\* Within a state GST is half central and half state tax; the second half is what is left.
Central(l, share) == Rounded((Net(l) - share) * l.rate, 200)

StateTax(l, share) == LineTax(l, share) - Central(l, share)

Subtotal(ls) == Total(Each(ls, Base))

\* The totals, from the share sh of the invoice discount that each line gets.
Totals(ls, sh, taxes) ==
  LET TotalOf(Part(_, _)) == Total([i \in DOMAIN ls |-> Part(ls[i], sh[i])])
      taxable == [i \in DOMAIN ls |-> Net(ls[i]) - sh[i]] IN
  [lines |-> [i \in DOMAIN ls |-> taxable[i] + taxes[i]],
   subtotal |-> Subtotal(ls),
   discount |-> Total(Each(ls, LineOff)) + Total(sh),
   central |-> TotalOf(Central), state |-> TotalOf(StateTax),
   taxable |-> Total(taxable), tax |-> Total(taxes), grand |-> Total(taxable) + Total(taxes)]

Taxed(ls, sh) == Totals(ls, sh, [i \in DOMAIN ls |-> LineTax(ls[i], sh[i])])

Calculate(ls, d) == Taxed(ls, Shares(ls, d))
-----------------------------------------------------------------------------
(* evaluateBusinessRules and priceInvoiceWithRules *)

\* A rule: [name, field, op, value, act, amount].
Holds(r, ctx) ==
  CASE r.op = "greater_than" -> ctx[r.field] > r.value
    [] r.op = "less_than" -> ctx[r.field] < r.value
    [] r.op = "equals" -> ctx[r.field] = r.value

Sum(rs, act) == SumFunction([r \in {r \in rs : r.act = act} |-> r.amount])

Effects(rs, ctx) ==
  LET hold == {r \in rs : Holds(r, ctx)} IN
  [pct |-> Least(100, Most(0, Sum(hold, "apply_discount"))),
   extra |-> Most(0, Sum(hold, "add_surcharge")),
   held |-> \E r \in hold : r.act = "require_approval",
   marked |-> \E r \in hold : r.act = "set_field"]

\* Mutant of Own: the surcharge of the last pricing is priced again.
OwnAll(items) == items

\* withoutRuleSurcharge: the lines that are no rule's, in their order.
Own(items) ==
  LET own == {i \in DOMAIN items : ~items[i].rule} IN
  [k \in 1..Cardinality(own) |-> items[CHOOSE i \in own : Cardinality(own \cap 1..i) = k]]

Surcharge(c) == [qty |-> 1, price |-> c, off |-> 0, pct |-> 0, rate |-> 0, rule |-> TRUE]
Stored(l) == [l EXCEPT !.off = LineOff(l)]

Discounted(ls, manual, pct) ==
  Calculate(ls, manual + Rounded(Total(Each(ls, Net)) * pct, 100))

WithSurcharge(bill, c) ==
  IF c = 0 THEN bill
  ELSE [bill EXCEPT !.lines = Append(@, c), !.subtotal = @ + c, !.taxable = @ + c, !.grand = @ + c]

Apply(ls, manual, rs, marked, e) ==
  [items |-> Each(ls, Stored) \o IF e.extra = 0 THEN <<>> ELSE <<Surcharge(e.extra)>>,
   manual |-> manual, marked |-> marked \/ e.marked, held |-> e.held, by |-> rs,
   bill |-> WithSurcharge(Discounted(ls, manual, e.pct), e.extra)]

\* The lines and the discount a user asked for, the rules, and the custom field they read.
Price(items, manual, rs, marked) ==
  LET ls == Own(items) IN
  Apply(ls, manual, rs, marked,
        Effects(rs, [subtotal |-> Subtotal(ls), count |-> Len(ls), marked |-> marked]))
-----------------------------------------------------------------------------
(* A draft that is created and edited, while rules come and go *)

NoDraft == [items |-> <<>>]
NoSale == [items |-> <<>>]

PricingInit == draft = NoDraft /\ inForce \in Rules /\ sale = NoSale

\* One draft or one sale is followed at a time: they share nothing.
CreateInvoice(ls, d) ==
  /\ draft = NoDraft /\ sale = NoSale
  /\ draft' = Price(ls, d, inForce, FALSE)
  /\ UNCHANGED <<inForce, sale>>

\* What the request does not give is as it was stored.
UpdateInvoice(items, d) ==
  /\ draft # NoDraft
  /\ draft' = Price(items, d, inForce, draft.marked)
  /\ UNCHANGED <<inForce, sale>>

ChangeRules(rs) ==
  /\ draft # NoDraft /\ inForce # rs
  /\ inForce' = rs
  /\ UNCHANGED <<draft, sale>>
-----------------------------------------------------------------------------
(* The till *)

\* The bill discount does not lower the tax.
CartTotal(ls, d) ==
  100 * Most(0, Total(Each(ls, Net)) - d) + Total(Each(ls, LAMBDA l : Net(l) * l.rate))

\* Cash beyond what is left to pay is given back.
CashPart(total, cash, card) == Least(cash, Most(0, total - card))

\* Cash comes as the modal fills it in, or as a larger note; a card is charged in cents.
Tenders(total) ==
  {[cash |-> total, card |-> 0], [cash |-> total + 10000, card |-> 0],
   [cash |-> 0, card |-> 100 * Rounded(total, 100)]}

\* posCheckout: a walk-in owes nothing, or is refused.  Carts have discounts in money only.
Checkout(ls, d, t, customer) ==
  /\ draft = NoDraft /\ sale = NoSale
  /\ \A i \in DOMAIN ls : ls[i].pct = 0
  /\ LET total == CartTotal(ls, d)
         paid == CashPart(total, t.cash, t.card) + t.card
         bill == Calculate(ls, d)
         due == Most(0, 100 * bill.grand - paid) IN
     sale' = [items |-> ls, discount |-> d, total |-> total, paid |-> paid, bill |-> bill,
              customer |-> customer,
              status |-> IF due = 0 THEN "paid"
                         ELSE IF customer THEN "partially_paid" ELSE "refused"]
  /\ UNCHANGED <<draft, inForce>>

PricingNext ==
  \/ \E ls \in Bills, d \in Discounts : CreateInvoice(ls, d)
  \/ \E ls \in Revisions \cup {draft.items}, d \in Discounts : UpdateInvoice(ls, d)
  \/ \E rs \in Rules : ChangeRules(rs)
  \/ \E ls \in Bills, d \in Discounts, customer \in BOOLEAN :
       \E t \in Tenders(CartTotal(ls, d)) : Checkout(ls, d, t, customer)

PricingSpec == PricingInit /\ [][PricingNext]_pricingVars
-----------------------------------------------------------------------------
(* Properties *)

Priced == {x \in {draft, sale} : x.items # <<>>}

\* What an invoice prints adds up: its lines to the total, its halves of GST to the tax, the
\* subtotal less discounts plus tax to the total; and no line, total or tax is below zero.
BillsAddUp ==
  \A x \in Priced :
    LET b == x.bill IN
    /\ Total(b.lines) = b.grand
    /\ b.central + b.state = b.tax /\ b.state >= 0
    /\ b.subtotal - b.discount + b.tax = b.grand
    /\ \A i \in DOMAIN b.lines : b.lines[i] >= 0

\* The invoice discount is given to the cent, up to what the lines are worth, unless the last
\* line was worth less than what rounding left; it is never exceeded; and no line's share is
\* further from its proportion than half a cent for each line.
DiscountIsShared ==
  sale # NoSale =>
    LET ls == sale.items
        d == sale.discount
        sh == Shares(ls, d)
        worth == Total(Each(ls, Net))
        asked == Least(d, worth) IN
    /\ Total(sh) <= asked
    /\ Total(sh) = asked \/ \E i \in DOMAIN ls : TakesRest(ls, i) /\ sh[i] = Net(ls[i])
    /\ \A i \in DOMAIN ls : 2 * (sh[i] * worth - Net(ls[i]) * asked) \in
                              (-Len(ls) * worth)..(Len(ls) * worth)

\* A draft that is saved again as it is, under the same rules, costs the same, unless one rule
\* reads the custom field that another one sets.
RepricedTheSame ==
  [][draft # NoDraft /\ draft.by = inForce /\ UpdateInvoice(draft.items, draft.manual)
     /\ ~(\E r, q \in inForce : r.act = "set_field" /\ q.field = "marked")
     => draft'.bill = draft.bill]_pricingVars

\* The till shows the invoice's total but for a cent a line (half of it the rounding of its share
\* of the discount, half that of its tax) and the tax on the bill discount, and a customer who
\* pays it owes at most that cent a line.
TillIsClose ==
  sale # NoSale =>
    LET n == 100 * Len(sale.items)
        asked == Least(sale.discount, Total(Each(sale.items, Net)))
        over == sale.total - 100 * sale.bill.grand IN
    /\ over >= -n
    /\ over <= n + asked * Max({l.rate : l \in Range(sale.items)})
    /\ 100 * sale.bill.grand - sale.paid <= n

PricingTypeOK ==
  /\ inForce \in Rules
  /\ draft # NoDraft => draft.by \in Rules /\ {draft.marked, draft.held} \subseteq BOOLEAN
  /\ sale # NoSale => sale.items \in Bills /\ sale.status \in {"paid", "partially_paid", "refused"}

\* A customer is charged what the bill tells: it adds up, its discount is shared out in full,
\* and the till shows the same but for rounding and its tax on the bill discount.
BillsAreFair == PricingTypeOK /\ BillsAddUp /\ DiscountIsShared /\ TillIsClose
=============================================================================
