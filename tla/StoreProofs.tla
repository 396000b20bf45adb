----------------------------- MODULE StoreProofs -----------------------------
(***************************************************************************)
(* Proofs about Store, for every number of requests and products: what a   *)
(* transaction checked on its snapshot still holds of the database when it *)
(* commits, because it writes whatever it relies on and may have changed.  *)
(***************************************************************************)
EXTENDS Store, SumLemmas, SequenceTheorems

-----------------------------------------------------------------------------
(* Types *)

SaleRow == [number : Nat, items : [Product -> Nat], total : Nat, due : Nat,
            credit : Seq(Nat \ {0}), key : Key \cup {NoKey}, customer : BOOLEAN]
ReturnRow == [of : SUBSET Req, items : [Product -> Nat], restock : BOOLEAN,
              method : Method \cup {"none"}]
Money == [credit : Seq(Nat \ {0}), points : Nat, due : Nat]
Ask == [op : {"none", "checkout", "return", "purchase", "adjust"}, cart : [Product -> Int],
        customer : BOOLEAN, key : Key \cup {NoKey}, tender : Money, of : SUBSET Req,
        restock : BOOLEAN, method : Method \cup {"none"}]

\* The columns of a database.
Stocks   == [Product -> Int]
Moves    == [Product -> Seq(Movement)]
Accounts == [Account -> Int]
Books    == [Account -> Seq(Entry)]
Counters == Nat \ {0}
Sales    == [Req -> SaleRow]
Returns  == [Req -> ReturnRow]

Typed ==
  /\ db \in Database /\ view \in [Req -> Database]
  /\ touched \in [Req -> SUBSET Doc] /\ ask \in [Req -> Ask]
  /\ pc \in [Req -> {"idle", "open", "ok", "conflict"}]
  /\ recounted \subseteq Product /\ elsewhere \in Int

LEMMA Columns ==
  Database = [stock : Stocks, moves : Moves, account : Accounts, book : Books,
              counter : Counters, sale : Sales, return : Returns]
  BY DEF Database, Stocks, Moves, Accounts, Books, Counters, Sales, Returns, SaleRow, ReturnRow

LEMMA EmptyDbType == EmptyDb \in Database
  <1>1. Opening \in Stocks /\ Funds \in Accounts
    BY StoreAssumption DEF Account, Stocks, Accounts
  <1>2. [p \in Product |-> <<>>] \in Moves /\ [a \in Account |-> <<>>] \in Books
    BY DEF Moves, Books
  <1>3. Nothing \in [Product -> Nat]
    BY DEF Nothing
  <1>4. NoSale \in SaleRow /\ NoReturn \in ReturnRow
    <2>1. <<>> \in Seq(Nat \ {0})
      OBVIOUS
    <2> QED
      BY <1>3, <2>1 DEF NoSale, NoReturn, SaleRow, ReturnRow
  <1>5. [r \in Req |-> NoSale] \in Sales /\ [r \in Req |-> NoReturn] \in Returns
    BY <1>4 DEF Sales, Returns
  <1>6. 1 \in Counters
    BY DEF Counters
  <1> QED
    BY <1>1, <1>2, <1>5, <1>6, Columns DEF EmptyDb
-----------------------------------------------------------------------------
(* Sums and lists *)

\* What a cart is worth is more than any one product in it.
LEMMA WorthType ==
  ASSUME NEW cart \in [Product -> Nat]
  PROVE  Worth(cart) \in Nat /\ \A p \in Product : cart[p] <= Worth(cart)
  <1> DEFINE f == [p \in Product |-> cart[p] * Price[p]]
  <1>1. \A m \in Nat, n \in Nat \ {0} : m * n \in Nat /\ m <= m * n
    OBVIOUS
  <1>2. \A p \in Product : cart[p] \in Nat /\ Price[p] \in Nat \ {0}
    BY StoreAssumption
  <1>3. f \in [Product -> Nat] /\ \A p \in Product : cart[p] <= f[p]
    BY <1>1, <1>2
  <1>4. Worth(cart) = SumFunction(f)
    BY DEF Worth
  <1> HIDE DEF f
  <1>5. SumFunction(f) \in Nat /\ \A p \in Product : f[p] <= SumFunction(f)
    BY <1>3, StoreAssumption, TotalNat
  <1>6. \A p \in Product : cart[p] \in Nat /\ f[p] \in Nat
    BY <1>3
  <1> QED
    BY <1>3, <1>4, <1>5, <1>6

\* What a journal adds up to, and one line more.
LEMMA EnteredType ==
  ASSUME NEW j \in Seq(Entry)
  PROVE  Entered(j) \in Int
  <1> DEFINE f == [n \in DOMAIN j |-> j[n].amount]
  <1>1. DOMAIN j = 1..Len(j) /\ Len(j) \in Nat /\ \A n \in DOMAIN j : j[n] \in Entry
    BY LenProperties
  <1>2. f \in [1..Len(j) -> Int]
    BY <1>1 DEF Entry
  <1>3. IsFiniteSet(1..Len(j))
    BY <1>1, FS_Interval
  <1>4. Entered(j) = SumFunction(f)
    BY DEF Entered
  <1> HIDE DEF f
  <1> QED
    BY <1>2, <1>3, <1>4, TotalInt

LEMMA EnteredAppend ==
  ASSUME NEW j \in Seq(Entry), NEW x \in Entry
  PROVE  Entered(Append(j, x)) = Entered(j) + x.amount
  <1> DEFINE k == Append(j, x)
             S == 1..Len(j)
             y == Len(j) + 1
             f == [n \in DOMAIN j |-> j[n].amount]
             g == [n \in DOMAIN k |-> k[n].amount]
  <1>1. /\ Len(j) \in Nat /\ DOMAIN j = S /\ k \in Seq(Entry) /\ Len(k) = Len(j) + 1
        /\ \A n \in S : k[n] = j[n]
        /\ k[y] = x /\ DOMAIN k = 1..Len(k)
        /\ \A n \in S : j[n] \in Entry
    BY LenProperties, AppendProperties
  <1>2. DOMAIN k = S \cup {y} /\ y \notin S /\ IsFiniteSet(S) /\ y \in DOMAIN k
    <2>1. IsFiniteSet(S)
      BY <1>1, FS_Interval
    <2>2. \A n \in Nat : 1..(n + 1) = 1..n \cup {n + 1} /\ n + 1 \notin 1..n
      OBVIOUS
    <2>3. 1..Len(k) = S \cup {y} /\ y \notin S
      BY <1>1, <2>2
    <2> QED
      BY <1>1, <2>1, <2>3
  <1>3. \A n \in S : j[n].amount \in Int
    BY <1>1 DEF Entry
  <1>4. x.amount \in Int
    BY DEF Entry
  <1> HIDE DEF k, S, y
  <1>5. DOMAIN f = S /\ DOMAIN g = S \cup {y} /\ g[y] = x.amount
    BY <1>1, <1>2
  <1>6. \A n \in S : f[n] = g[n] /\ f[n] \in Int /\ g[n] \in Int
    BY <1>1, <1>2, <1>3
  <1>7. Entered(j) = SumFunctionOnSet(f, S) /\ Entered(k) = SumFunctionOnSet(g, S \cup {y})
    BY <1>5 DEF Entered, SumFunction
  <1> HIDE DEF f, g
  <1>8. \A n \in S \cup {y} : g[n] \in Int
    BY <1>4, <1>5, <1>6
  <1>9. SumFunctionOnSet(g, S \cup {y}) = g[y] + SumFunctionOnSet(g, S)
    BY <1>2, <1>8, SumAdd
  <1>10. SumFunctionOnSet(f, S) = SumFunctionOnSet(g, S)
    BY <1>2, <1>6, SumEqual
  <1>11. SumFunctionOnSet(g, S) \in Int
    BY <1>2, <1>6, SumInt
  <1> QED
    BY <1>4, <1>5, <1>7, <1>9, <1>10, <1>11 DEF k

\* A list grows at its end only.
Grown(s, t) == Len(s) <= Len(t) /\ \A n \in 1..Len(s) : t[n] = s[n]

LEMMA GrownAppend ==
  ASSUME NEW S, NEW s \in Seq(S), NEW x \in S
  PROVE  Grown(s, Append(s, x)) /\ Grown(s, s)
  BY AppendProperties, LenProperties DEF Grown

LEMMA GrownOn ==
  ASSUME NEW S, NEW s \in Seq(S), NEW t \in Seq(S), NEW u \in Seq(S), Grown(s, t), Grown(t, u)
  PROVE  Grown(s, u)
  <1>1. Len(s) \in Nat /\ Len(t) \in Nat /\ Len(u) \in Nat
    BY LenProperties
  <1>2. Len(s) <= Len(t) /\ Len(t) <= Len(u) /\ \A n \in 1..Len(s) : t[n] = s[n]
    BY DEF Grown
  <1>3. \A n \in 1..Len(t) : u[n] = t[n]
    BY DEF Grown
  <1>4. \A n \in 1..Len(s) : n \in 1..Len(t)
    BY <1>1, <1>2
  <1> QED
    BY <1>1, <1>2, <1>3, <1>4 DEF Grown

\* What a commit adds to the list it read, and to a list where it added nothing.
Added(list, s, t) == list \o SubSeq(t, Len(s) + 1, Len(t))

LEMMA GrownEnd ==
  ASSUME NEW S, NEW s \in Seq(S), NEW t \in Seq(S), Grown(s, t)
  PROVE  Added(s, s, t) = t
  <1> DEFINE u == SubSeq(t, Len(s) + 1, Len(t))
  <1>1. /\ Len(s) \in Nat /\ Len(t) \in Nat /\ Len(s) <= Len(t)
        /\ \A n \in 1..Len(s) : t[n] = s[n]
        /\ \A n \in 1..Len(t) : t[n] \in S
    BY LenProperties, ElementOfSeq DEF Grown
  <1>2. \A n \in (Len(s) + 1)..Len(t) : t[n] \in S
    BY <1>1
  <1>3. /\ Len(s) + 1 \in Int /\ Len(t) \in Int
    BY <1>1
  <1>4. /\ u \in Seq(S)
        /\ Len(u) = IF Len(s) + 1 <= Len(t) THEN Len(t) - (Len(s) + 1) + 1 ELSE 0
        /\ \A i \in 1..(Len(t) - (Len(s) + 1) + 1) : u[i] = t[Len(s) + 1 + i - 1]
    BY <1>2, <1>3, SubSeqProperties
  <1>5. Len(u) = Len(t) - Len(s) /\ \A i \in 1..(Len(t) - Len(s)) : u[i] = t[Len(s) + i]
    BY <1>1, <1>4
  <1> HIDE DEF u
  <1>6. /\ s \o u \in Seq(S) /\ Len(s \o u) = Len(s) + Len(u)
        /\ \A i \in 1..(Len(s) + Len(u)) :
             (s \o u)[i] = IF i <= Len(s) THEN s[i] ELSE u[i - Len(s)]
    BY <1>4, ConcatProperties
  <1>7. Len(s \o u) = Len(t)
    BY <1>1, <1>5, <1>6
  <1>8. ASSUME NEW i \in 1..Len(s \o u) PROVE (s \o u)[i] = t[i]
    <2>1. CASE i <= Len(s)
      BY <1>1, <1>6, <1>7, <2>1
    <2>2. CASE ~(i <= Len(s))
      <3>1. i - Len(s) \in 1..(Len(t) - Len(s)) /\ Len(s) + (i - Len(s)) = i
        BY <1>1, <1>7, <2>2
      <3>2. (s \o u)[i] = u[i - Len(s)]
        BY <1>1, <1>5, <1>6, <1>7, <2>2
      <3>3. u[i - Len(s)] = t[Len(s) + (i - Len(s))]
        BY <1>5, <3>1
      <3> QED
        BY <3>1, <3>2, <3>3
    <2> QED
      BY <2>1, <2>2
  <1>9. s \o u = t
    BY <1>6, <1>7, <1>8, SeqEqual
  <1> QED
    BY <1>9 DEF u, Added

LEMMA NothingAdded ==
  ASSUME NEW S, NEW s \in Seq(S), NEW t \in Seq(S)
  PROVE  Added(t, s, s) = t
  <1>1. Len(s) \in Nat
    OBVIOUS
  <1>2. SubSeq(s, Len(s) + 1, Len(s)) = <<>>
    BY <1>1
  <1> QED
    BY <1>2 DEF Added
-----------------------------------------------------------------------------
(* Effects on a database *)

\* What the lines of a request move.
MovedTo(d, change, p) ==
  IF change[p] = 0 THEN d.moves[p]
  ELSE Append(d.moves[p], [quantity |-> change[p], before |-> d.stock[p],
                           after |-> d.stock[p] + change[p]])

LEMMA MoveFields ==
  ASSUME NEW d \in Database, NEW change \in [Product -> Int]
  PROVE  /\ Move(d, change) \in Database
         /\ Move(d, change).account = d.account /\ Move(d, change).book = d.book
         /\ Move(d, change).counter = d.counter
         /\ Move(d, change).sale = d.sale /\ Move(d, change).return = d.return
         /\ \A p \in Product :
              /\ Move(d, change).stock[p] = d.stock[p] + change[p]
              /\ Move(d, change).moves[p] = MovedTo(d, change, p)
  <1> DEFINE st == [p \in Product |-> d.stock[p] + change[p]]
             mv == [p \in Product |-> MovedTo(d, change, p)]
  <1>1. d.stock \in Stocks /\ d.moves \in Moves
    BY Columns
  <1>2. Move(d, change) = [d EXCEPT !.stock = st, !.moves = mv]
    BY DEF Move, MovedTo
  <1>3. st \in Stocks
    BY <1>1 DEF Stocks
  <1>4. mv \in Moves
    <2> SUFFICES ASSUME NEW p \in Product PROVE MovedTo(d, change, p) \in Seq(Movement)
      BY DEF Moves
    <2>1. [quantity |-> change[p], before |-> d.stock[p], after |-> d.stock[p] + change[p]]
            \in Movement
      BY <1>1 DEF Movement, Stocks
    <2> QED
      BY <1>1, <2>1 DEF MovedTo, Moves
  <1>5. \A p \in Product : st[p] = d.stock[p] + change[p] /\ mv[p] = MovedTo(d, change, p)
    OBVIOUS
  <1> HIDE DEF st, mv
  <1>6. Move(d, change) \in Database
    BY <1>2, <1>3, <1>4, Columns
  <1> QED
    BY <1>2, <1>5, <1>6, Columns

\* A balance follows its journal.
Booked(d, e, b) ==
  /\ Grown(d.book[b], e.book[b])
  /\ e.account[b] - Entered(e.book[b]) = d.account[b] - Entered(d.book[b])
  /\ Len(e.book[b]) = Len(d.book[b]) => e.account[b] = d.account[b]

LEMMA BookedOn ==
  ASSUME NEW d \in Database, NEW e \in Database, NEW f \in Database,
         \A b \in Account : Booked(d, e, b), \A b \in Account : Booked(e, f, b)
  PROVE  \A b \in Account : Booked(d, f, b)
  <1> SUFFICES ASSUME NEW b \in Account PROVE Booked(d, f, b)
    OBVIOUS
  <1>1. /\ d.book[b] \in Seq(Entry) /\ e.book[b] \in Seq(Entry) /\ f.book[b] \in Seq(Entry)
    BY Columns DEF Books
  <1>2. /\ Len(d.book[b]) \in Nat /\ Len(e.book[b]) \in Nat /\ Len(f.book[b]) \in Nat
    BY <1>1, LenProperties
  <1>3. Booked(d, e, b) /\ Booked(e, f, b)
    OBVIOUS
  <1>4. /\ Len(d.book[b]) <= Len(e.book[b]) /\ Len(e.book[b]) <= Len(f.book[b])
    BY <1>3 DEF Booked, Grown
  <1>5. Grown(d.book[b], f.book[b])
    BY <1>1, <1>3, GrownOn DEF Booked
  <1>6. Len(f.book[b]) = Len(d.book[b]) =>
          Len(f.book[b]) = Len(e.book[b]) /\ Len(e.book[b]) = Len(d.book[b])
    BY <1>2, <1>4
  <1> QED
    BY <1>3, <1>5, <1>6 DEF Booked

LEMMA BookedSame ==
  ASSUME NEW d \in Database, NEW e \in Database, e.account = d.account, e.book = d.book
  PROVE  \A b \in Account : Booked(d, e, b)
  <1>1. \A b \in Account : d.book[b] \in Seq(Entry)
    BY Columns DEF Books
  <1>2. \A b \in Account : Len(d.book[b]) \in Nat
    BY <1>1, LenProperties
  <1> QED
    BY <1>2 DEF Booked, Grown

\* What a balance gets, and its journal.
Posted(d, e, a, amount) ==
  /\ e.stock = d.stock /\ e.moves = d.moves /\ e.counter = d.counter
  /\ e.sale = d.sale /\ e.return = d.return
  /\ \A b \in Account \ {a} : e.account[b] = d.account[b] /\ e.book[b] = d.book[b]
  /\ e.account[a] = d.account[a] + amount
  /\ Len(e.book[a]) = IF amount = 0 THEN Len(d.book[a]) ELSE Len(d.book[a]) + 1
  /\ \A b \in Account : Booked(d, e, b)

LEMMA PostFields ==
  ASSUME NEW d \in Database, NEW a \in Account, NEW amount \in Int
  PROVE  Post(d, a, amount) \in Database /\ Posted(d, Post(d, a, amount), a, amount)
  <1>1. d.account \in Accounts /\ d.book \in Books
    BY Columns
  <1>2. CASE amount = 0
    <2>1. \A b \in Account : Booked(d, d, b)
      BY BookedSame
    <2> QED
      BY <1>1, <1>2, <2>1 DEF Post, Posted, Accounts
  <1>3. CASE amount # 0
    <2> DEFINE new == [amount |-> amount, after |-> d.account[a] + amount]
               ac == [d.account EXCEPT ![a] = d.account[a] + amount]
               bk == [d.book EXCEPT ![a] = Append(d.book[a], new)]
               e == [d EXCEPT !.account = ac, !.book = bk]
    <2>1. Post(d, a, amount) = e
      BY <1>3, Columns DEF Post
    <2>2. ac \in Accounts /\ new \in Entry /\ new.amount = amount
      BY <1>1 DEF Entry, Accounts
    <2> HIDE DEF new
    <2>3. bk \in Books /\ Len(bk[a]) = Len(d.book[a]) + 1 /\ bk[a] = Append(d.book[a], new)
      BY <1>1, <2>2 DEF Books
    <2>4. /\ ac[a] = d.account[a] + amount
          /\ \A b \in Account \ {a} : ac[b] = d.account[b] /\ bk[b] = d.book[b]
      BY <1>1 DEF Accounts, Books
    <2> HIDE DEF ac, bk
    <2>5. /\ e \in Database /\ e.account = ac /\ e.book = bk
          /\ e.stock = d.stock /\ e.moves = d.moves /\ e.counter = d.counter
          /\ e.sale = d.sale /\ e.return = d.return
      BY <2>2, <2>3, Columns
    <2> HIDE DEF e
    <2>6. ASSUME NEW b \in Account PROVE Booked(d, e, b)
      <3>1. d.book[b] \in Seq(Entry) /\ d.account[b] \in Int /\ d.book[a] \in Seq(Entry)
        BY <1>1 DEF Books, Accounts
      <3>2. Entered(d.book[b]) \in Int /\ Len(d.book[b]) \in Nat
        BY <3>1, EnteredType, LenProperties
      <3>3. CASE b = a
        <4>1. Entered(bk[a]) = Entered(d.book[a]) + amount /\ Grown(d.book[a], bk[a])
          BY <2>2, <2>3, <3>1, EnteredAppend, GrownAppend
        <4>2. Len(bk[a]) # Len(d.book[a])
          BY <2>3, <3>2, <3>3
        <4>3. \A x, y \in Int : (x + amount) - (y + amount) = x - y
          OBVIOUS
        <4>4. ac[a] - Entered(bk[a]) = d.account[a] - Entered(d.book[a])
          BY <2>4, <3>1, <3>2, <3>3, <4>1, <4>3
        <4> QED
          BY <2>5, <3>3, <4>1, <4>2, <4>4 DEF Booked
      <3>4. CASE b # a
        BY <2>4, <2>5, <3>2, <3>4 DEF Booked, Grown
      <3> QED
        BY <3>3, <3>4
    <2> QED
      BY <1>3, <2>1, <2>3, <2>4, <2>5, <2>6 DEF Posted
  <1> QED
    BY <1>2, <1>3

\* What the store-credit rows of a sale come to, row by row.
LEMMA RowsType ==
  ASSUME NEW rows \in Seq(Nat \ {0}), NEW n \in Nat, n <= Len(rows)
  PROVE  /\ Rows(rows, n) \in Nat /\ Rows(rows, 0) = 0
         /\ n < Len(rows) => Rows(rows, n + 1) = Rows(rows, n) + rows[n + 1]
  <1>1. Len(rows) \in Nat /\ \A m \in 1..Len(rows) : rows[m] \in Nat \ {0}
    BY LenProperties, ElementOfSeq
  <1> DEFINE Part(k) == [m \in 1..k |-> rows[m]]
  <1>2. \A k \in Nat : k <= Len(rows) => /\ Part(k) \in [1..k -> Nat]
                                        /\ Part(k) \in [1..k -> Int]
    BY <1>1
  <1>3. ASSUME n < Len(rows) PROVE Rows(rows, n + 1) = Rows(rows, n) + rows[n + 1]
    <2>1. n + 1 \in Nat /\ n + 1 <= Len(rows) /\ n + 1 \in 1..(n + 1)
      BY <1>1, <1>3
    <2>2. Part(n + 1) \in [1..(n + 1) -> Int] /\ Part(n) \in [1..n -> Int]
      BY <1>2, <2>1
    <2>3. \A x \in 1..n : Part(n + 1)[x] = Part(n)[x]
      OBVIOUS
    <2>4. Part(n + 1)[n + 1] = rows[n + 1]
      BY <2>1
    <2> HIDE DEF Part
    <2>5. SumFunction(Part(n + 1)) = SumFunction(Part(n)) + Part(n + 1)[n + 1]
      BY <2>2, <2>3, TotalAppended
    <2>6. Rows(rows, n + 1) = SumFunction(Part(n + 1)) /\ Rows(rows, n) = SumFunction(Part(n))
      BY DEF Rows, Part
    <2> QED
      BY <2>4, <2>5, <2>6
  <1>4. IsFiniteSet(1..n) /\ IsFiniteSet({}) /\ 1..0 = {}
    BY FS_Interval, FS_EmptySet
  <1>5. Rows(rows, n) \in Nat
    <2>1. Part(n) \in [1..n -> Nat]
      BY <1>2
    <2> HIDE DEF Part
    <2>2. SumFunction(Part(n)) \in Nat
      BY <1>4, <2>1, TotalNat
    <2> QED
      BY <2>2 DEF Rows, Part
  <1>6. Rows(rows, 0) = 0
    <2>1. Part(0) \in [{} -> Int]
      BY <1>4
    <2> HIDE DEF Part
    <2>2. SumFunction(Part(0)) = 0
      BY <1>4, <2>1, TotalNothing
    <2> QED
      BY <2>2 DEF Rows, Part
  <1> QED
    BY <1>3, <1>5, <1>6

LEMMA WholeType ==
  ASSUME NEW rows \in Seq(Nat \ {0})
  PROVE  Whole(rows) \in Nat /\ (rows = <<>> => Whole(rows) = 0)
  <1>1. Len(rows) \in Nat /\ (rows = <<>> => Len(rows) = 0)
    BY LenProperties
  <1>2. Rows(rows, Len(rows)) \in Nat /\ Rows(rows, 0) = 0
    BY <1>1, RowsType
  <1> QED
    BY <1>1, <1>2 DEF Whole

\* The first n lines that the rows of a sale make of a balance c.
Lines(rows, c, n) == [m \in 1..n |-> [amount |-> -rows[m], after |-> c - Rows(rows, m)]]

\* The lines of the rows take what the rows come to off the journal.
LEMMA LinesEntered ==
  ASSUME NEW rows \in Seq(Nat \ {0}), NEW c \in Int, NEW j \in Seq(Entry)
  PROVE  LET k == j \o Lines(rows, c, Len(rows)) IN
         /\ k \in Seq(Entry) /\ Len(k) = Len(j) + Len(rows) /\ Grown(j, k)
         /\ Entered(k) = Entered(j) - Whole(rows)
  <1> DEFINE N == Len(rows)
             L(n) == Lines(rows, c, n)
             J(n) == j \o L(n)
             SumUp(n) == Entered(J(n)) = Entered(j) - Rows(rows, n)
             T == {n \in 0..N : \A m \in 0..n : SumUp(m)}
  <1>1. /\ N \in Nat /\ Len(j) \in Nat
        /\ \A m \in 1..N : rows[m] \in Int /\ Rows(rows, m) \in Int
    <2>1. N \in Nat /\ Len(j) \in Nat /\ \A m \in 1..N : rows[m] \in Int
      BY LenProperties, ElementOfSeq
    <2>2. \A m \in 1..N : m \in Nat /\ m <= N
      BY <2>1
    <2>3. \A m \in 1..N : Rows(rows, m) \in Nat
      BY <2>2, RowsType
    <2> QED
      BY <2>1, <2>3
  <1>2. \A m \in 1..N : /\ -rows[m] \in Int
                        /\ [amount |-> -rows[m], after |-> c - Rows(rows, m)] \in Entry
    BY <1>1 DEF Entry
  <1> HIDE DEF N
  <1>3. ASSUME NEW n \in 0..N
        PROVE  /\ L(n) \in Seq(Entry) /\ Len(L(n)) = n
               /\ J(n) \in Seq(Entry) /\ Len(J(n)) = Len(j) + n
               /\ \A i \in 1..(Len(j) + n) :
                    J(n)[i] = IF i <= Len(j) THEN j[i] ELSE L(n)[i - Len(j)]
    <2>1. n \in Nat /\ \A m \in 1..n : m \in 1..N
      BY <1>1
    <2>2. L(n) \in [1..n -> Entry]
      BY <1>2, <2>1 DEF Lines
    <2> HIDE DEF L
    <2>3. L(n) \in Seq(Entry) /\ Len(L(n)) = n
      BY <2>1, <2>2
    <2> QED
      BY <2>3, ConcatProperties
  <1>4. ASSUME NEW n \in 0..N, n + 1 \in 0..N, SumUp(n) PROVE SumUp(n + 1)
    <2> DEFINE x == [amount |-> -rows[n + 1], after |-> c - Rows(rows, n + 1)]
    <2>1. n \in Nat /\ n + 1 \in 1..N /\ n < N /\ n <= N
      BY <1>1, <1>4
    <2>2. x \in Entry /\ x.amount = -rows[n + 1]
      BY <1>2, <2>1
    <2>3. /\ \A m \in 1..n : L(n + 1)[m] = L(n)[m]
          /\ L(n + 1)[n + 1] = x
      BY <2>1 DEF Lines
    <2> HIDE DEF x, L
    <2>4. /\ J(n) \in Seq(Entry) /\ Len(J(n)) = Len(j) + n
          /\ \A i \in 1..(Len(j) + n) :
               J(n)[i] = IF i <= Len(j) THEN j[i] ELSE L(n)[i - Len(j)]
          /\ J(n + 1) \in Seq(Entry) /\ Len(J(n + 1)) = Len(j) + (n + 1)
          /\ \A i \in 1..(Len(j) + (n + 1)) :
               J(n + 1)[i] = IF i <= Len(j) THEN j[i] ELSE L(n + 1)[i - Len(j)]
      BY <1>3, <1>4
    <2> HIDE DEF J
    <2>5. /\ Append(J(n), x) \in Seq(Entry) /\ Len(Append(J(n), x)) = Len(J(n)) + 1
          /\ \A i \in 1..Len(J(n)) : Append(J(n), x)[i] = J(n)[i]
          /\ Append(J(n), x)[Len(J(n)) + 1] = x
      <3> DEFINE g == J(n)
      <3>1. g \in Seq(Entry) /\ x \in Entry
        BY <2>2, <2>4
      <3> HIDE DEF g
      <3>2. /\ Append(g, x) \in Seq(Entry) /\ Len(Append(g, x)) = Len(g) + 1
            /\ \A i \in 1..Len(g) : Append(g, x)[i] = g[i]
            /\ Append(g, x)[Len(g) + 1] = x
        BY <3>1, AppendProperties
      <3> QED
        BY <3>2 DEF g
    <2>6. Len(Append(J(n), x)) = Len(J(n + 1))
      BY <1>1, <2>1, <2>4, <2>5
    <2>7. ASSUME NEW i \in 1..Len(J(n + 1)) PROVE Append(J(n), x)[i] = J(n + 1)[i]
      <3>1. i \in 1..(Len(j) + (n + 1))
        BY <2>4
      <3>2. CASE i <= Len(j)
        <4>1. i \in 1..(Len(j) + n)
          BY <1>1, <2>1, <3>1, <3>2
        <4>2. J(n)[i] = j[i] /\ J(n + 1)[i] = j[i]
          BY <2>4, <3>1, <3>2, <4>1
        <4>3. Append(J(n), x)[i] = J(n)[i]
          BY <2>4, <2>5, <4>1
        <4> QED
          BY <4>2, <4>3
      <3>3. CASE ~(i <= Len(j)) /\ i # Len(j) + (n + 1)
        <4>1. i \in 1..(Len(j) + n) /\ i - Len(j) \in 1..n
          <5>1. \A w, y, z \in Nat : z \in 1..(w + (y + 1)) /\ ~(z <= w) /\ z # w + (y + 1)
                                      => z \in 1..(w + y) /\ z - w \in 1..y
            OBVIOUS
          <5>2. i \in Nat
            BY <3>1
          <5> QED
            BY <1>1, <2>1, <3>1, <3>3, <5>1, <5>2
        <4>2. J(n)[i] = L(n)[i - Len(j)] /\ J(n + 1)[i] = L(n + 1)[i - Len(j)]
          BY <2>4, <3>1, <3>3, <4>1
        <4>3. Append(J(n), x)[i] = J(n)[i]
          BY <2>4, <2>5, <4>1
        <4> QED
          BY <2>3, <4>1, <4>2, <4>3
      <3>4. CASE i = Len(j) + (n + 1)
        <4>1. i - Len(j) = n + 1 /\ ~(i <= Len(j)) /\ i = Len(J(n)) + 1
          BY <1>1, <2>1, <2>4, <3>4
        <4>2. J(n + 1)[i] = L(n + 1)[i - Len(j)]
          BY <2>4, <3>1, <4>1
        <4> QED
          BY <2>3, <2>5, <4>1, <4>2
      <3> QED
        BY <3>2, <3>3, <3>4
    <2>8. Append(J(n), x) = J(n + 1)
      BY <2>4, <2>5, <2>6, <2>7, SeqEqual
    <2>9. Entered(J(n + 1)) = Entered(J(n)) + x.amount
      BY <2>2, <2>4, <2>8, EnteredAppend
    <2>10. Rows(rows, n + 1) = Rows(rows, n) + rows[n + 1] /\ Rows(rows, n) \in Nat
      BY <2>1, RowsType DEF N
    <2>11. Entered(j) \in Int /\ rows[n + 1] \in Int
      BY <1>1, <2>1, EnteredType
    <2>12. \A p, q, t \in Int : (p - q) + (-t) = p - (q + t)
      OBVIOUS
    <2> QED
      BY <1>4, <2>2, <2>9, <2>10, <2>11, <2>12
  <1>5. SumUp(0)
    <2>1. 0 \in 0..N /\ Rows(rows, 0) = 0 /\ Entered(j) \in Int
      BY <1>1, RowsType, EnteredType DEF N
    <2>2. L(0) \in Seq(Entry) /\ Len(L(0)) = 0
      BY <1>3, <2>1
    <2> HIDE DEF L
    <2>3. J(0) = j
      BY <2>2
    <2> HIDE DEF J
    <2> QED
      BY <2>1, <2>3
  <1> HIDE DEF J, L, SumUp
  <1>6. SumUp(N)
    <2>1. IsFiniteSet(T)
      <3>1. IsFiniteSet(0..N)
        BY <1>1, FS_Interval
      <3>2. T \subseteq 0..N
        OBVIOUS
      <3> HIDE DEF T
      <3> QED
        BY <3>1, <3>2, FS_Subset
    <2>2. 0 \in T
      <3>1. 0 \in 0..N /\ \A m \in 0..0 : m = 0
        BY <1>1
      <3>2. \A m \in 0..0 : SumUp(m)
        BY <1>5, <3>1
      <3> QED
        BY <3>1, <3>2
    <2>3. \A x \in T : x \in Int
      BY <1>1
    <2>4. PICK h \in T : \A y \in T : h >= y
      <3> HIDE DEF T
      <3> QED
        BY <2>1, <2>2, <2>3, Highest
    <2>5. h \in 0..N /\ \A m \in 0..h : SumUp(m)
      OBVIOUS
    <2>6. h \in 0..h /\ SumUp(h)
      BY <1>1, <2>5
    <2>7. CASE h # N
      <3>1. h + 1 \in 0..N /\ \A m \in 0..(h + 1) : m \in 0..h \/ m = h + 1
        BY <1>1, <2>5, <2>7
      <3>2. SumUp(h + 1)
        BY <1>4, <2>5, <2>6, <3>1
      <3>3. h + 1 \in T
        <4>1. \A m \in 0..(h + 1) : SumUp(m)
          BY <2>5, <3>1, <3>2
        <4> QED
          BY <3>1, <4>1
      <3>4. h >= h + 1
        <4> HIDE DEF T
        <4> QED
          BY <2>4, <3>3
      <3>5. h \in Int
        BY <2>5
      <3> QED
        BY <3>4, <3>5
    <2> QED
      BY <2>6, <2>7
  <1>7. N \in 0..N /\ Len(j) <= Len(j) + N /\ 1..Len(j) \subseteq 1..(Len(j) + N)
    BY <1>1
  <1>8. /\ J(N) \in Seq(Entry) /\ Len(J(N)) = Len(j) + N
        /\ \A i \in 1..Len(j) : J(N)[i] = j[i]
    <2>1. /\ J(N) \in Seq(Entry) /\ Len(J(N)) = Len(j) + N
          /\ \A i \in 1..(Len(j) + N) :
               J(N)[i] = IF i <= Len(j) THEN j[i] ELSE L(N)[i - Len(j)]
      BY <1>3, <1>7
    <2>2. \A i \in 1..Len(j) : i <= Len(j) /\ i \in 1..(Len(j) + N)
      BY <1>1, <1>7
    <2> HIDE DEF J, L
    <2> QED
      BY <2>1, <2>2
  <1>9. Grown(j, J(N))
    <2> HIDE DEF J
    <2> QED
      BY <1>7, <1>8 DEF Grown
  <1> QED
    BY <1>6, <1>8, <1>9 DEF SumUp, J, L, N, Whole

\* What paying in store credit does.
Redeemed(d, e, rows) ==
  /\ e.stock = d.stock /\ e.moves = d.moves /\ e.counter = d.counter
  /\ e.sale = d.sale /\ e.return = d.return
  /\ \A b \in Account \ {"credit"} : e.account[b] = d.account[b] /\ e.book[b] = d.book[b]
  /\ e.account["credit"] = d.account["credit"] - Whole(rows)
  /\ rows # <<>> => e.book["credit"] # d.book["credit"]
  /\ \A b \in Account : Booked(d, e, b)

LEMMA RedeemFields ==
  ASSUME NEW d \in Database, NEW rows \in Seq(Nat \ {0})
  PROVE  Redeem(d, rows) \in Database /\ Redeemed(d, Redeem(d, rows), rows)
  <1> DEFINE c == d.account["credit"]
             j == d.book["credit"]
             k == j \o Lines(rows, c, Len(rows))
             ac == [d.account EXCEPT !["credit"] = c - Whole(rows)]
             bk == [d.book EXCEPT !["credit"] = k]
             e == [d EXCEPT !.account = ac, !.book = bk]
  <1>1. d.account \in Accounts /\ d.book \in Books /\ "credit" \in Account
    BY Columns DEF Account
  <1>2. c \in Int /\ j \in Seq(Entry) /\ Len(j) \in Nat
    <2>1. c \in Int /\ j \in Seq(Entry)
      BY <1>1 DEF Accounts, Books
    <2> QED
      BY <2>1, LenProperties
  <1>3. Whole(rows) \in Nat /\ Len(rows) \in Nat /\ (rows = <<>> => Whole(rows) = 0)
        /\ (Len(rows) = 0 => rows = <<>>)
    BY WholeType, LenProperties, EmptySeq
  <1>4. Redeem(d, rows) = e
    BY DEF Redeem, Lines
  <1> HIDE DEF c, j
  <1>5. /\ k \in Seq(Entry) /\ Len(k) = Len(j) + Len(rows) /\ Grown(j, k)
        /\ Entered(k) = Entered(j) - Whole(rows)
    BY <1>2, LinesEntered
  <1> HIDE DEF k
  <1>6. /\ ac \in Accounts /\ bk \in Books /\ ac["credit"] = c - Whole(rows) /\ bk["credit"] = k
        /\ \A b \in Account \ {"credit"} : ac[b] = d.account[b] /\ bk[b] = d.book[b]
    BY <1>1, <1>2, <1>3, <1>5 DEF Accounts, Books
  <1> HIDE DEF ac, bk
  <1>7. /\ e \in Database /\ e.account = ac /\ e.book = bk
        /\ e.stock = d.stock /\ e.moves = d.moves /\ e.counter = d.counter
        /\ e.sale = d.sale /\ e.return = d.return
    BY <1>6, Columns
  <1> HIDE DEF e
  <1>8. rows # <<>> => k # j
    BY <1>2, <1>3, <1>5
  <1>9. ASSUME NEW b \in Account PROVE Booked(d, e, b)
    <2>1. CASE b = "credit"
      <3>1. Entered(j) \in Int
        BY <1>2, EnteredType
      <3>2. \A x, y \in Int, z \in Nat : (x - z) - (y - z) = x - y
        OBVIOUS
      <3>3. ac["credit"] - Entered(bk["credit"]) = c - Entered(j)
        BY <1>2, <1>3, <1>5, <1>6, <3>1, <3>2
      <3>4. Len(k) = Len(j) => ac["credit"] = c
        BY <1>2, <1>3, <1>5, <1>6
      <3> QED
        BY <1>5, <1>6, <1>7, <2>1, <3>3, <3>4 DEF Booked, c, j
    <2>2. CASE b # "credit"
      <3>1. Len(d.book[b]) \in Nat
        <4>1. d.book[b] \in Seq(Entry)
          BY <1>1 DEF Books
        <4> QED
          BY <4>1, LenProperties
      <3> QED
        BY <1>6, <1>7, <2>2, <3>1 DEF Booked, Grown
    <2> QED
      BY <2>1, <2>2
  <1> QED
    BY <1>4, <1>6, <1>7, <1>8, <1>9 DEF Redeemed, c, j

\* The lines of a sale, a return, a purchase or an adjustment, as changes of stock.
LEMMA OnlyManagedType ==
  ASSUME NEW cart \in [Product -> Nat], NEW sign \in {1, -1}
  PROVE  /\ OnlyManaged(cart, sign) \in [Product -> Int]
         /\ \A p \in Product : OnlyManaged(cart, sign)[p] =
              IF p \in Managed THEN sign * cart[p] ELSE 0
  BY DEF OnlyManaged

LEMMA EarnedType ==
  ASSUME NEW a \in Ask, a.cart \in Cart, a.tender.points <= Worth(a.cart)
  PROVE  Earned(a) \in Nat
  <1>1. Worth(a.cart) \in Nat /\ Spend \in Nat \ {0}
    BY WorthType, StoreAssumption
  <1>2. a.tender.points \in Nat
    BY DEF Ask, Money
  <1>3. Worth(a.cart) - a.tender.points \in Nat
    BY <1>1, <1>2
  <1>4. \A m \in Nat, n \in Nat \ {0} : m \div n \in Nat
    OBVIOUS
  <1> QED
    BY <1>1, <1>3, <1>4 DEF Earned

\* What a sale asks for, in range.
Priced(a) == a.cart \in Cart /\ a.tender.points <= Worth(a.cart)

\* What a sale takes off a balance is in its journal.
Pays(a, d, e) == a.tender.credit # <<>> \/ a.tender.points > 0 => e.book # d.book

LEMMA SellFields ==
  ASSUME NEW d \in Database, NEW r \in Req, ask[r] \in Ask, Priced(ask[r])
  PROVE  LET a == ask[r]
             e == Sell(d, r)
         IN /\ e \in Database
            /\ \A p \in Product :
                 /\ e.stock[p] = d.stock[p] + OnlyManaged(a.cart, -1)[p]
                 /\ e.moves[p] = MovedTo(d, OnlyManaged(a.cart, -1), p)
            /\ e.counter = d.counter + 1
            /\ e.sale[r].number = d.counter /\ e.sale[r].key = a.key
            /\ e.sale[r].credit = a.tender.credit
            /\ \A s \in Req \ {r} : e.sale[s] = d.sale[s]
            /\ e.return = d.return
            /\ e.account["credit"] = d.account["credit"] - Whole(a.tender.credit)
            /\ e.account["points"] >= d.account["points"] - a.tender.points
            /\ Pays(a, d, e)
            /\ \A b \in Account : Booked(d, e, b)
  <1> DEFINE a == ask[r]
             row == [number |-> d.counter, items |-> a.cart, total |-> Worth(a.cart),
                     due |-> a.tender.due, credit |-> a.tender.credit, key |-> a.key,
                     customer |-> a.customer]
             sl == [d.sale EXCEPT ![r] = row]
             numbered == [d EXCEPT !.counter = d.counter + 1, !.sale = sl]
             p1 == Redeem(numbered, a.tender.credit)
             p2 == Post(p1, "points", -a.tender.points)
             p3 == Post(p2, "points", Earned(a))
             change == OnlyManaged(a.cart, -1)
             moved == Move(p3, change)
             e == Post(moved, "balance", a.tender.due)
  <1>1. /\ a.cart \in [Product -> Nat] /\ Worth(a.cart) \in Nat /\ Earned(a) \in Nat
        /\ a.tender.credit \in Seq(Nat \ {0}) /\ a.tender.points \in Nat /\ a.tender.due \in Nat
        /\ a.key \in Key \cup {NoKey} /\ a.customer \in BOOLEAN
    BY StoreAssumption, WorthType, EarnedType DEF Priced, Ask, Money
  <1>2. /\ d.stock \in Stocks /\ d.account \in Accounts /\ d.book \in Books
        /\ d.counter \in Counters /\ d.sale \in Sales
    BY Columns
  <1>3. {"balance", "credit", "points"} = Account
    BY DEF Account
  <1>4. row \in SaleRow
    BY <1>1, <1>2 DEF SaleRow, Counters
  <1>5. row.number = d.counter /\ row.key = a.key /\ row.credit = a.tender.credit
    OBVIOUS
  <1> HIDE DEF row
  <1>6. /\ sl \in Sales /\ sl[r] = row
        /\ \A s \in Req \ {r} : sl[s] = d.sale[s]
    BY <1>2, <1>4 DEF Sales
  <1> HIDE DEF sl
  <1>7. d.counter + 1 \in Counters
    BY <1>2 DEF Counters
  <1>8. /\ numbered \in Database /\ numbered.counter = d.counter + 1 /\ numbered.sale = sl
        /\ numbered.stock = d.stock /\ numbered.moves = d.moves
        /\ numbered.account = d.account /\ numbered.book = d.book
        /\ numbered.return = d.return
    BY <1>6, <1>7, Columns
  <1>9. Sell(d, r) = e
    <2>1. numbered = [d EXCEPT !.counter = @ + 1, !.sale[r] = row]
      BY Columns DEF sl
    <2> QED
      BY <2>1 DEF Sell, row
  <1> HIDE DEF numbered
  <1>10. change \in [Product -> Int]
    BY <1>1, OnlyManagedType
  <1> HIDE DEF a, change
  <1>11. /\ p1 \in Database /\ Redeemed(numbered, p1, a.tender.credit)
         /\ p2 \in Database /\ Posted(p1, p2, "points", -a.tender.points)
         /\ p3 \in Database /\ Posted(p2, p3, "points", Earned(a))
    <2>1. /\ -a.tender.points \in Int /\ Earned(a) \in Int
          /\ "credit" \in Account /\ "points" \in Account
      BY <1>1, <1>3
    <2>2. p1 \in Database /\ Redeemed(numbered, p1, a.tender.credit)
      BY <1>1, <1>8, RedeemFields
    <2> HIDE DEF p1
    <2>3. p2 \in Database /\ Posted(p1, p2, "points", -a.tender.points)
      BY <2>1, <2>2, PostFields
    <2> HIDE DEF p2
    <2>4. p3 \in Database /\ Posted(p2, p3, "points", Earned(a))
      BY <2>1, <2>3, PostFields
    <2> QED
      BY <2>2, <2>3, <2>4
  <1> HIDE DEF p1, p2, p3
  <1>12. /\ p3.counter = d.counter + 1 /\ p3.sale = sl
         /\ p3.stock = d.stock /\ p3.moves = d.moves /\ p3.return = d.return
    BY <1>8, <1>11 DEF Posted, Redeemed
  <1>13. /\ p3.account["credit"] = d.account["credit"] - Whole(a.tender.credit)
         /\ p3.account["points"] >= d.account["points"] - a.tender.points
         /\ a.tender.credit # <<>> => p3.book["credit"] # d.book["credit"]
         /\ a.tender.points > 0 => p3.book["points"] # d.book["points"]
    <2>1. "credit" \in Account \ {"points"} /\ "points" \in Account \ {"credit"}
      BY <1>3
    <2>2. /\ d.account["credit"] \in Int /\ d.account["points"] \in Int
          /\ Len(d.book["credit"]) \in Nat /\ Len(d.book["points"]) \in Nat
      BY <1>2, <2>1 DEF Accounts, Books
    <2>3. /\ p1.account["credit"] = d.account["credit"] - Whole(a.tender.credit)
          /\ a.tender.credit # <<>> => p1.book["credit"] # d.book["credit"]
          /\ p1.account["points"] = d.account["points"] /\ p1.book["points"] = d.book["points"]
      BY <1>8, <1>11, <2>1 DEF Redeemed
    <2>4. /\ p3.account["credit"] = p1.account["credit"] /\ p3.book["credit"] = p1.book["credit"]
          /\ p3.account["points"] = (p1.account["points"] + (-a.tender.points)) + Earned(a)
          /\ Len(p2.book["points"]) = IF -a.tender.points = 0 THEN Len(p1.book["points"])
                                                              ELSE Len(p1.book["points"]) + 1
          /\ Len(p3.book["points"]) \in {Len(p2.book["points"]), Len(p2.book["points"]) + 1}
      BY <1>11, <2>1 DEF Posted
    <2>5. \A x \in Int, m, n \in Nat : x + (-m) = x - m /\ (x + (-m)) + n >= x - m
      OBVIOUS
    <2>6. \A k, l \in Nat, m, n \in Nat : /\ m > 0 /\ l = (IF -m = 0 THEN k ELSE k + 1) => l # k
                                          /\ m > 0 /\ l = (IF -m = 0 THEN k ELSE k + 1)
                                             /\ n \in {l, l + 1} => n # k
      OBVIOUS
    <2>7. /\ p3.account["credit"] = d.account["credit"] - Whole(a.tender.credit)
          /\ p3.account["points"] >= d.account["points"] - a.tender.points
      BY <1>1, <2>2, <2>3, <2>4, <2>5
    <2>8. /\ Len(p2.book["points"]) \in Nat
          /\ Len(p3.book["points"]) \in Nat
      BY <1>11, <2>1, Columns DEF Books
    <2>9. a.tender.credit # <<>> => p3.book["credit"] # d.book["credit"]
      BY <2>3, <2>4
    <2>10. a.tender.points > 0 => Len(p3.book["points"]) # Len(d.book["points"])
      BY <1>1, <2>2, <2>3, <2>4, <2>6, <2>8
    <2> QED
      BY <2>7, <2>9, <2>10
  <1>14. /\ moved \in Database /\ moved.counter = d.counter + 1 /\ moved.sale = sl
         /\ moved.return = d.return
         /\ moved.account = p3.account /\ moved.book = p3.book
         /\ \A p \in Product : /\ moved.stock[p] = d.stock[p] + change[p]
                               /\ moved.moves[p] = MovedTo(d, change, p)
    <2>1. \A p \in Product : MovedTo(p3, change, p) = MovedTo(d, change, p)
      BY <1>12 DEF MovedTo
    <2>2. /\ moved \in Database /\ moved.account = p3.account /\ moved.book = p3.book
          /\ moved.counter = p3.counter /\ moved.sale = p3.sale /\ moved.return = p3.return
          /\ \A p \in Product : /\ moved.stock[p] = p3.stock[p] + change[p]
                                /\ moved.moves[p] = MovedTo(p3, change, p)
      BY <1>10, <1>11, MoveFields
    <2> HIDE DEF moved
    <2> QED
      BY <1>12, <2>1, <2>2
  <1> HIDE DEF moved
  <1>15. e \in Database /\ Posted(moved, e, "balance", a.tender.due)
    <2>1. moved \in Database /\ "balance" \in Account /\ a.tender.due \in Int
      BY <1>1, <1>3, <1>14
    <2> QED
      BY <2>1, PostFields
  <1> HIDE DEF e
  <1>16. /\ e.counter = d.counter + 1 /\ e.sale = sl
         /\ e.return = d.return /\ e.stock = moved.stock /\ e.moves = moved.moves
         /\ e.account["credit"] = p3.account["credit"] /\ e.book["credit"] = p3.book["credit"]
         /\ e.account["points"] = p3.account["points"] /\ e.book["points"] = p3.book["points"]
    BY <1>3, <1>14, <1>15 DEF Posted
  <1>17. Pays(a, d, e)
    BY <1>13, <1>16 DEF Pays
  <1>18. /\ \A p \in Product : /\ e.stock[p] = d.stock[p] + change[p]
                               /\ e.moves[p] = MovedTo(d, change, p)
         /\ e.sale[r].number = d.counter /\ e.sale[r].key = a.key
         /\ e.sale[r].credit = a.tender.credit
         /\ \A s \in Req \ {r} : e.sale[s] = d.sale[s]
         /\ e.account["credit"] = d.account["credit"] - Whole(a.tender.credit)
         /\ e.account["points"] >= d.account["points"] - a.tender.points
    BY <1>5, <1>6, <1>13, <1>14, <1>16
  <1>19. \A b \in Account : Booked(d, e, b)
    <2>1. \A b \in Account : Booked(d, numbered, b)
      BY <1>8, BookedSame
    <2>2. \A b \in Account : Booked(d, p1, b)
      BY <1>8, <1>11, <2>1, BookedOn DEF Redeemed
    <2>3. \A b \in Account : Booked(d, p2, b)
      BY <1>11, <2>2, BookedOn DEF Posted
    <2>4. \A b \in Account : Booked(d, p3, b)
      BY <1>11, <2>3, BookedOn DEF Posted
    <2>5. \A b \in Account : Booked(p3, moved, b)
      BY <1>11, <1>14, BookedSame
    <2>6. \A b \in Account : Booked(d, moved, b)
      BY <1>11, <1>14, <2>4, <2>5, BookedOn
    <2> QED
      BY <1>14, <1>15, <2>6, BookedOn DEF Posted
  <1> QED
    BY <1>9, <1>15, <1>16, <1>17, <1>18, <1>19 DEF a, change

\* Products get their change, and movements that say so.
Stocked(d, e, change) == \A p \in Product :
  e.stock[p] = d.stock[p] + change[p] /\ e.moves[p] = MovedTo(d, change, p)

\* A return puts what was stocked back, if it is to be restocked, and its row
\* says so; what it pays back to an account is in that account's journal.
TakesBack(a, d, e, r) ==
  /\ e.return[r] = [of |-> a.of, items |-> a.cart, restock |-> a.restock, method |-> a.method]
  /\ \A q \in Req \ {r} : e.return[q] = d.return[q]
  /\ a.method \in {"store_credit", "customer_balance"} /\ Worth(a.cart) > 0 => e.book # d.book
Restocks(a, change) ==
  \A p \in Managed : a.restock => change[p] = a.cart[p]

LEMMA TakeBackFields ==
  ASSUME NEW d \in Database, NEW r \in Req, ask[r] \in Ask, ask[r].cart \in Cart
  PROVE  LET e == TakeBack(d, r)
         IN /\ e \in Database
            /\ \E change \in [Product -> Nat] : Stocked(d, e, change) /\ Restocks(ask[r], change)
            /\ e.counter = d.counter /\ e.sale = d.sale
            /\ e.account["credit"] >= d.account["credit"]
            /\ e.account["points"] = d.account["points"]
            /\ TakesBack(ask[r], d, e, r)
            /\ \A b \in Account : Booked(d, e, b)
  <1> DEFINE a == ask[r]
             restocked == IF a.restock THEN Move(d, OnlyManaged(a.cart, 1)) ELSE d
             refunded == CASE a.method = "store_credit" -> Post(restocked, "credit", Worth(a.cart))
                           [] a.method = "customer_balance" ->
                                Post(restocked, "balance", -Worth(a.cart))
                           [] OTHER -> restocked
             row == [of |-> a.of, items |-> a.cart, restock |-> a.restock, method |-> a.method]
             rt == [refunded.return EXCEPT ![r] = row]
             e == [refunded EXCEPT !.return = rt]
             changes == {change \in [Product -> Nat] : Restocks(a, change)}
  <1>1. /\ a.cart \in [Product -> Nat] /\ Worth(a.cart) \in Nat
        /\ a.restock \in BOOLEAN /\ a.of \in SUBSET Req /\ a.method \in Method \cup {"none"}
    BY StoreAssumption, WorthType DEF Ask
  <1>2. "credit" \in Account /\ "balance" \in Account /\ "points" \in Account
        /\ "credit" # "balance" /\ "credit" # "points" /\ "balance" # "points"
    BY DEF Account
  <1>3. d.stock \in Stocks /\ d.account \in Accounts /\ d.book \in Books
    BY Columns
  <1>4. row \in ReturnRow
    BY <1>1 DEF ReturnRow
  <1>5. TakeBack(d, r) = [refunded EXCEPT !.return[r] = row]
    BY DEF TakeBack
  <1> HIDE DEF row
  <1>6. /\ restocked \in Database
        /\ restocked.counter = d.counter /\ restocked.sale = d.sale
        /\ restocked.return = d.return
        /\ restocked.account = d.account /\ restocked.book = d.book
        /\ \E change \in changes : Stocked(d, restocked, change)
    <2>1. CASE a.restock
      <3>1. /\ OnlyManaged(a.cart, 1) \in [Product -> Int]
            /\ OnlyManaged(a.cart, 1) \in [Product -> Nat]
            /\ \A p \in Managed : OnlyManaged(a.cart, 1)[p] = a.cart[p]
        BY <1>1, StoreAssumption DEF OnlyManaged
      <3>2. OnlyManaged(a.cart, 1) \in changes
        BY <3>1 DEF Restocks
      <3> QED
        BY <2>1, <3>1, <3>2, MoveFields DEF Stocked
    <2>2. CASE ~a.restock
      <3> DEFINE zero == [p \in Product |-> 0]
      <3>1. zero \in changes /\ Stocked(d, d, zero)
        BY <1>3, <2>2 DEF Stocked, MovedTo, Stocks, Restocks
      <3> QED
        BY <2>2, <3>1
    <2> QED
      BY <2>1, <2>2
  <1>7. \A b \in Account : Booked(d, restocked, b)
    BY <1>6, BookedSame
  <1> HIDE DEF restocked
  <1>8. /\ refunded \in Database
        /\ refunded.counter = d.counter /\ refunded.sale = d.sale /\ refunded.return = d.return
        /\ refunded.stock = restocked.stock /\ refunded.moves = restocked.moves
        /\ refunded.account["credit"] >= d.account["credit"]
        /\ refunded.account["points"] = d.account["points"]
        /\ a.method \in {"store_credit", "customer_balance"} /\ Worth(a.cart) > 0
             => refunded.book # d.book
        /\ \A b \in Account : Booked(restocked, refunded, b)
    <2>1. d.account["credit"] \in Int /\ Worth(a.cart) \in Int /\ -Worth(a.cart) \in Int
      BY <1>1, <1>2, <1>3 DEF Accounts
    <2>2. Len(d.book["credit"]) \in Nat /\ Len(d.book["balance"]) \in Nat
      BY <1>2, <1>3 DEF Books
    <2>3. CASE a.method = "store_credit"
      <3>1. refunded = Post(restocked, "credit", Worth(a.cart))
        BY <2>3
      <3>2. refunded \in Database /\ Posted(restocked, refunded, "credit", Worth(a.cart))
        BY <1>2, <1>6, <2>1, <3>1, PostFields
      <3> HIDE DEF refunded
      <3>3. Worth(a.cart) > 0 => Len(refunded.book["credit"]) # Len(d.book["credit"])
        BY <1>6, <2>1, <2>2, <3>2 DEF Posted
      <3> QED
        BY <1>1, <1>2, <1>6, <2>1, <3>2, <3>3 DEF Posted
    <2>4. CASE a.method = "customer_balance"
      <3>1. refunded = Post(restocked, "balance", -Worth(a.cart))
        BY <2>4
      <3>2. refunded \in Database /\ Posted(restocked, refunded, "balance", -Worth(a.cart))
        BY <1>2, <1>6, <2>1, <3>1, PostFields
      <3> HIDE DEF refunded
      <3>3. Worth(a.cart) > 0 => Len(refunded.book["balance"]) # Len(d.book["balance"])
        BY <1>6, <2>1, <2>2, <3>2 DEF Posted
      <3> QED
        BY <1>2, <1>6, <2>1, <3>2, <3>3 DEF Posted
    <2>5. CASE a.method \notin {"store_credit", "customer_balance"}
      <3>1. refunded = restocked
        BY <2>5
      <3>2. \A b \in Account : Booked(restocked, restocked, b)
        BY <1>6, BookedSame
      <3> QED
        BY <1>6, <2>1, <2>5, <3>1, <3>2
    <2> QED
      BY <2>3, <2>4, <2>5
  <1> HIDE DEF refunded
  <1>9. /\ rt \in Returns /\ rt[r] = row
        /\ \A q \in Req \ {r} : rt[q] = d.return[q]
    BY <1>4, <1>8, Columns DEF Returns
  <1>10. TakeBack(d, r) = e
    BY <1>5, <1>8, Columns
  <1> HIDE DEF rt
  <1>11. /\ e \in Database /\ e.counter = refunded.counter /\ e.sale = refunded.sale
         /\ e.stock = refunded.stock /\ e.moves = refunded.moves
         /\ e.account = refunded.account /\ e.book = refunded.book /\ e.return = rt
    BY <1>8, <1>9, Columns
  <1> HIDE DEF e
  <1>12. \E change \in changes : Stocked(d, e, change)
    BY <1>6, <1>8, <1>11 DEF Stocked
  <1>13. TakesBack(a, d, e, r)
    BY <1>8, <1>9, <1>11 DEF TakesBack, row
  <1>14. \A b \in Account : Booked(d, e, b)
    <2>1. \A b \in Account : Booked(d, refunded, b)
      BY <1>6, <1>7, <1>8, BookedOn
    <2>2. \A b \in Account : Booked(refunded, e, b)
      BY <1>8, <1>11, BookedSame
    <2> QED
      BY <1>8, <1>11, <2>1, <2>2, BookedOn
  <1> QED
    BY <1>8, <1>10, <1>11, <1>12, <1>13, <1>14

\* What a request asks is in range.
InRange(a) ==
  /\ a.op \in {"checkout", "return", "purchase", "adjust"}
  /\ a.op = "checkout" => Priced(a)
  /\ a.op \in {"return", "purchase"} => a.cart \in Cart
  /\ a.op = "return" => a.method \in Method

Sells(a, d, e, r) ==
  /\ e.counter = d.counter + 1
  /\ e.sale[r].number = d.counter /\ e.sale[r].key = a.key
  /\ e.sale[r].credit = a.tender.credit
  /\ \A s \in Req \ {r} : e.sale[s] = d.sale[s]
  /\ e.account["credit"] = d.account["credit"] - Whole(a.tender.credit)
  /\ e.account["points"] >= d.account["points"] - a.tender.points
SellsNothing(d, e) ==
  /\ e.counter = d.counter /\ e.sale = d.sale
  /\ e.account["credit"] >= d.account["credit"] /\ e.account["points"] >= d.account["points"]
Changes(a, change) ==
  /\ a.op = "checkout" => change = OnlyManaged(a.cart, -1)
  /\ a.op \in {"return", "purchase"} => change \in [Product -> Nat]
  /\ a.op = "return" => Restocks(a, change)
  /\ a.op = "adjust" => change = a.cart

LEMMA OutcomeFields ==
  ASSUME NEW d \in Database, NEW r \in Req, ask[r] \in Ask, InRange(ask[r])
  PROVE  LET e == Outcome(d, r) IN
         /\ e \in Database
         /\ \E change \in [Product -> Int] : Stocked(d, e, change) /\ Changes(ask[r], change)
         /\ ask[r].op = "checkout" => Sells(ask[r], d, e, r) /\ Pays(ask[r], d, e)
         /\ ask[r].op # "checkout" => SellsNothing(d, e)
         /\ ask[r].op = "return" => TakesBack(ask[r], d, e, r)
         /\ ask[r].op # "return" => e.return = d.return
         /\ \A b \in Account : Booked(d, e, b)
  <1>1. \A a \in Account : d.account[a] \in Int
    BY Columns DEF Accounts
  <1>2. "credit" \in Account /\ "points" \in Account
    BY DEF Account
  <1>3. Cart \subseteq [Product -> Nat]
    BY StoreAssumption
  <1>4. CASE ask[r].op = "checkout"
    <2> DEFINE e == Sell(d, r)
    <2>1. Outcome(d, r) = e /\ Priced(ask[r])
      BY <1>4 DEF Outcome, InRange
    <2>2. OnlyManaged(ask[r].cart, -1) \in [Product -> Int]
      BY <1>3, <2>1, OnlyManagedType DEF Priced
    <2>3. /\ e \in Database /\ Stocked(d, e, OnlyManaged(ask[r].cart, -1))
          /\ Sells(ask[r], d, e, r) /\ Pays(ask[r], d, e) /\ e.return = d.return
          /\ \A b \in Account : Booked(d, e, b)
      BY <2>1, SellFields DEF Stocked, Sells
    <2> HIDE DEF e
    <2>4. Changes(ask[r], OnlyManaged(ask[r].cart, -1))
      BY <1>4 DEF Changes
    <2> QED
      BY <1>4, <2>1, <2>2, <2>3, <2>4
  <1>5. CASE ask[r].op = "return"
    <2> DEFINE e == TakeBack(d, r)
    <2>1. Outcome(d, r) = e /\ ask[r].cart \in Cart
      BY <1>5 DEF Outcome, InRange
    <2>2. /\ e \in Database
          /\ \E change \in [Product -> Nat] : Stocked(d, e, change) /\ Restocks(ask[r], change)
          /\ e.counter = d.counter /\ e.sale = d.sale
          /\ e.account["credit"] >= d.account["credit"]
          /\ e.account["points"] = d.account["points"]
          /\ TakesBack(ask[r], d, e, r)
          /\ \A b \in Account : Booked(d, e, b)
      BY <2>1, TakeBackFields
    <2> HIDE DEF e
    <2>3. SellsNothing(d, e)
      BY <1>1, <1>2, <2>2 DEF SellsNothing
    <2>4. PICK change \in [Product -> Nat] : Stocked(d, e, change) /\ Restocks(ask[r], change)
      BY <2>2
    <2>5. change \in [Product -> Int] /\ Changes(ask[r], change)
      BY <1>5, <2>4 DEF Changes
    <2> QED
      BY <1>5, <2>1, <2>2, <2>3, <2>4, <2>5
  <1>6. CASE ask[r].op \in {"purchase", "adjust"}
    <2> DEFINE e == Move(d, ask[r].cart)
    <2>1. Outcome(d, r) = e
      BY <1>6 DEF Outcome
    <2>2. ask[r].cart \in [Product -> Int]
          /\ (ask[r].op = "purchase" => ask[r].cart \in [Product -> Nat])
      BY <1>3 DEF Ask, InRange
    <2>3. /\ e \in Database /\ Stocked(d, e, ask[r].cart)
          /\ e.counter = d.counter /\ e.sale = d.sale /\ e.account = d.account
          /\ e.book = d.book /\ e.return = d.return
      BY <2>2, MoveFields DEF Stocked
    <2> HIDE DEF e
    <2>4. SellsNothing(d, e)
      BY <1>1, <1>2, <2>3 DEF SellsNothing
    <2>5. \A b \in Account : Booked(d, e, b)
      BY <2>3, BookedSame
    <2>6. Changes(ask[r], ask[r].cart)
      BY <1>6, <2>2 DEF Changes
    <2> QED
      BY <1>6, <2>1, <2>2, <2>3, <2>4, <2>5, <2>6
  <1> QED
    BY <1>4, <1>5, <1>6 DEF InRange
-----------------------------------------------------------------------------
(* Commits *)

\* What a commit adds to a list fits.
LEMMA AddedType ==
  ASSUME NEW S, NEW list \in Seq(S), NEW s \in Seq(S), NEW t \in Seq(S)
  PROVE  Added(list, s, t) \in Seq(S)
  <1>1. Len(s) \in Nat
    OBVIOUS
  <1>2. SubSeq(t, Len(s) + 1, Len(t)) \in Seq(S)
    BY <1>1
  <1> QED
    BY <1>2 DEF Added

LEMMA MergedFields ==
  ASSUME db \in Database, NEW v \in Database, NEW e \in Database
  PROVE  /\ Merged(v, e) \in Database
         /\ \A p \in Product :
              /\ Merged(v, e).stock[p] = IF e.stock[p] # v.stock[p] THEN e.stock[p] ELSE db.stock[p]
              /\ Merged(v, e).moves[p] =
                   Added(db.moves[p], v.moves[p], e.moves[p])
         /\ \A a \in Account :
              /\ Merged(v, e).account[a] =
                   IF e.book[a] # v.book[a] THEN e.account[a] ELSE db.account[a]
              /\ Merged(v, e).book[a] =
                   Added(db.book[a], v.book[a], e.book[a])
         /\ Merged(v, e).counter = IF e.counter # v.counter THEN e.counter ELSE db.counter
         /\ \A r \in Req :
              /\ Merged(v, e).sale[r] = IF e.sale[r] # v.sale[r] THEN e.sale[r] ELSE db.sale[r]
              /\ Merged(v, e).return[r] =
                   IF e.return[r] # v.return[r] THEN e.return[r] ELSE db.return[r]
  <1> DEFINE
        st == [p \in Product |-> IF e.stock[p] # v.stock[p] THEN e.stock[p] ELSE db.stock[p]]
        mv == [p \in Product |->
                Added(db.moves[p], v.moves[p], e.moves[p])]
        ac == [a \in Account |-> IF e.book[a] # v.book[a] THEN e.account[a] ELSE db.account[a]]
        bk == [a \in Account |->
                Added(db.book[a], v.book[a], e.book[a])]
        ct == IF e.counter # v.counter THEN e.counter ELSE db.counter
        sl == [r \in Req |-> IF e.sale[r] # v.sale[r] THEN e.sale[r] ELSE db.sale[r]]
        rt == [r \in Req |-> IF e.return[r] # v.return[r] THEN e.return[r] ELSE db.return[r]]
        table == [stock |-> st, moves |-> mv, account |-> ac, book |-> bk, counter |-> ct,
                  sale |-> sl, return |-> rt]
  <1>1. st \in Stocks
    BY Columns DEF Stocks
  <1>2. mv \in Moves
    <2> SUFFICES ASSUME NEW p \in Product PROVE mv[p] \in Seq(Movement)
      BY DEF Moves
    <2>1. db.moves[p] \in Seq(Movement) /\ e.moves[p] \in Seq(Movement)
          /\ v.moves[p] \in Seq(Movement)
      BY Columns DEF Moves
    <2> QED
      BY <2>1, AddedType
  <1>3. ac \in Accounts
    BY Columns DEF Accounts
  <1>4. bk \in Books
    <2> SUFFICES ASSUME NEW a \in Account PROVE bk[a] \in Seq(Entry)
      BY DEF Books
    <2>1. db.book[a] \in Seq(Entry) /\ e.book[a] \in Seq(Entry) /\ v.book[a] \in Seq(Entry)
      BY Columns DEF Books
    <2> QED
      BY <2>1, AddedType
  <1>5. ct \in Counters
    BY Columns
  <1>6. sl \in Sales
    BY Columns DEF Sales
  <1>7. rt \in Returns
    BY Columns DEF Returns
  <1>8. Merged(v, e) = table
    BY DEF Merged, Added
  <1>9. table.stock = st /\ table.moves = mv /\ table.account = ac /\ table.counter = ct
        /\ table.sale = sl /\ table.book = bk /\ table.return = rt
    OBVIOUS
  <1>10. table \in Database
    <2> HIDE DEF st, mv, ac, bk, ct, sl, rt
    <2> QED
      BY <1>1, <1>2, <1>3, <1>4, <1>5, <1>6, <1>7, Columns
  <1>11. /\ \A p \in Product :
              /\ st[p] = IF e.stock[p] # v.stock[p] THEN e.stock[p] ELSE db.stock[p]
              /\ mv[p] = Added(db.moves[p], v.moves[p], e.moves[p])
         /\ \A a \in Account :
              /\ ac[a] = IF e.book[a] # v.book[a] THEN e.account[a] ELSE db.account[a]
              /\ bk[a] = Added(db.book[a], v.book[a], e.book[a])
         /\ \A r \in Req :
              /\ sl[r] = IF e.sale[r] # v.sale[r] THEN e.sale[r] ELSE db.sale[r]
              /\ rt[r] = IF e.return[r] # v.return[r] THEN e.return[r] ELSE db.return[r]
    OBVIOUS
  <1> HIDE DEF st, mv, ac, bk, sl, rt, table
  <1> QED
    BY <1>8, <1>9, <1>10, <1>11
-----------------------------------------------------------------------------
(* The invariant *)

\* What an open transaction read is what there still is, but for what others
\* touched since; the sales it saw stay as they are, and of the returns that
\* meet on a document it saw all there are.
SnapshotStock(r) == \A p \in Product \ touched[r] :
  view[r].stock[p] = db.stock[p] /\ view[r].moves[p] = db.moves[p]
SnapshotCounter(r) ==
  "counter" \notin touched[r] => view[r].counter = db.counter /\ view[r].sale = db.sale
SnapshotCustomer(r) ==
  "customer" \notin touched[r] => view[r].account = db.account /\ view[r].book = db.book
SnapshotSales(r) == \A s \in Sold(view[r]) : db.sale[s] = view[r].sale[s]
Meets(row, p, docs) ==
  \/ p \in Managed \ docs /\ row.restock
  \/ "customer" \notin docs /\ row.method # "cash"
SnapshotReturns(r) == \A q \in Req, p \in Product :
  db.return[q].items[p] > 0 /\ Meets(db.return[q], p, touched[r])
    => view[r].return[q] = db.return[q]
Snapshot(r) ==
  /\ SnapshotStock(r) /\ SnapshotCounter(r) /\ SnapshotCustomer(r)
  /\ SnapshotSales(r) /\ SnapshotReturns(r)

\* What an open transaction checked on what it read.
Asked(r) ==
  /\ InRange(ask[r])
  /\ ask[r].op = "checkout" => Sellable(view[r], ask[r]) /\ ~KeySold(view[r], ask[r].key)
  /\ ask[r].op = "adjust" => Adjustable(view[r], ask[r])
  /\ ask[r].op = "return" =>
       \E s \in Sold(view[r]) : ask[r].of = {s} /\ Returnable(view[r], s, ask[r])

\* A request that has not committed left no sale and no return.
Own(r) ==
  /\ pc[r] \in {"idle", "open", "conflict"} => db.sale[r] = NoSale /\ db.return[r] = NoReturn
  /\ Open(r) => view[r].sale[r] = NoSale /\ view[r].return[r] = NoReturn

\* What is returned was sold before.
ReturnsOfSold == \A q, s \in Req : db.return[q].of = {s} => s \in Sold(db)

IInv ==
  /\ Typed
  /\ NothingOversold /\ MovementsTellStock /\ JournalsTellBalances
  /\ SoldOnce /\ NumberedInARow /\ ReturnedWithinSold /\ ReturnsOfSold
  /\ \A r \in Req : Own(r) /\ (Open(r) => Snapshot(r) /\ Asked(r))

\* What a commit does to the database d there is.
Lands(a, d, e, r, docs) ==
  /\ e \in Database
  /\ \E change \in [Product -> Int] :
       Stocked(d, e, change) /\ Changes(a, change) /\ \A p \in Product : change[p] # 0 => p \in docs
  /\ \A b \in Account : Booked(d, e, b)
  /\ "customer" \notin docs => e.account = d.account /\ e.book = d.book
  /\ a.op = "checkout" =>
       /\ Sells(a, d, e, r) /\ "counter" \in docs
       /\ a.tender.credit # <<>> \/ a.tender.points > 0 => "customer" \in docs
  /\ a.op # "checkout" => SellsNothing(d, e)
  /\ a.op = "return" => /\ e.return[r] = [of |-> a.of, items |-> a.cart, restock |-> a.restock,
                                          method |-> a.method]
                        /\ a.method # "cash" /\ Worth(a.cart) > 0 => "customer" \in docs
  /\ \A q \in Req \ {r} : e.return[q] = d.return[q]
  /\ a.op # "return" => e.return = d.return

LEMMA CommitLands ==
  ASSUME Typed, NEW r \in Req, Own(r), Open(r), Snapshot(r), Asked(r),
         Writes(view[r], Outcome(view[r], r)) \cap touched[r] = {}
  PROVE  LET e == Outcome(view[r], r)
         IN  Lands(ask[r], db, Merged(view[r], e), r, Writes(view[r], e))
  <1> DEFINE v == view[r]
             a == ask[r]
             e == Outcome(v, r)
             d == Merged(v, e)
             docs == Writes(v, e)
             seen == Product \ touched[r]
  <1>1. db \in Database /\ v \in Database /\ a \in Ask /\ InRange(a)
    BY DEF Typed, Asked
  <1>2. /\ e \in Database
        /\ \E change \in [Product -> Int] : Stocked(v, e, change) /\ Changes(a, change)
        /\ a.op = "checkout" => Sells(a, v, e, r) /\ Pays(a, v, e)
        /\ a.op # "checkout" => SellsNothing(v, e)
        /\ a.op = "return" => TakesBack(a, v, e, r)
        /\ a.op # "return" => e.return = v.return
        /\ \A b \in Account : Booked(v, e, b)
    BY <1>1, OutcomeFields
  <1>3. docs \cap touched[r] = {}
    OBVIOUS
  <1>4. /\ \A p \in Product : e.stock[p] # v.stock[p] => p \in docs
        /\ e.counter # v.counter => "counter" \in docs
        /\ e.book # v.book => "customer" \in docs
    BY DEF Writes
  <1> HIDE DEF e
  <1>5. /\ d \in Database
        /\ \A p \in Product :
             /\ d.stock[p] = IF e.stock[p] # v.stock[p] THEN e.stock[p] ELSE db.stock[p]
             /\ d.moves[p] = Added(db.moves[p], v.moves[p], e.moves[p])
        /\ \A b \in Account :
             /\ d.account[b] = IF e.book[b] # v.book[b] THEN e.account[b] ELSE db.account[b]
             /\ d.book[b] = Added(db.book[b], v.book[b], e.book[b])
        /\ d.counter = IF e.counter # v.counter THEN e.counter ELSE db.counter
        /\ \A q \in Req :
             /\ d.sale[q] = IF e.sale[q] # v.sale[q] THEN e.sale[q] ELSE db.sale[q]
             /\ d.return[q] = IF e.return[q] # v.return[q] THEN e.return[q] ELSE db.return[q]
    BY <1>1, <1>2, MergedFields
  <1>6. /\ \A p \in seen : v.stock[p] = db.stock[p] /\ v.moves[p] = db.moves[p]
        /\ "counter" \notin touched[r] => v.counter = db.counter /\ v.sale = db.sale
        /\ "customer" \notin touched[r] => v.account = db.account /\ v.book = db.book
    BY DEF Snapshot, SnapshotStock, SnapshotCounter, SnapshotCustomer
  <1>7. v.sale[r] = NoSale /\ v.return[r] = NoReturn
    BY DEF Own
  <1> HIDE DEF d, docs, v, a
  <1>8. PICK change \in [Product -> Int] : Stocked(v, e, change) /\ Changes(a, change)
    BY <1>2
  <1>9. \A p \in Product : change[p] # 0 => p \in docs
    <2> SUFFICES ASSUME NEW p \in Product, change[p] # 0 PROVE p \in docs
      OBVIOUS
    <2>1. v.stock[p] \in Int /\ e.stock[p] = v.stock[p] + change[p]
      BY <1>1, <1>8, Columns DEF Stocks, Stocked
    <2> QED
      BY <1>4, <2>1
  <1>10. Stocked(db, d, change)
    <2> SUFFICES ASSUME NEW p \in Product
                 PROVE  d.stock[p] = db.stock[p] + change[p] /\ d.moves[p] = MovedTo(db, change, p)
      BY DEF Stocked
    <2>1. /\ v.stock[p] \in Int /\ db.stock[p] \in Int
          /\ e.stock[p] = v.stock[p] + change[p] /\ e.moves[p] = MovedTo(v, change, p)
          /\ v.moves[p] \in Seq(Movement) /\ db.moves[p] \in Seq(Movement)
          /\ e.moves[p] \in Seq(Movement)
      BY <1>1, <1>2, <1>8, Columns DEF Stocks, Moves, Stocked
    <2>2. CASE change[p] = 0
      <3>1. e.stock[p] = v.stock[p] /\ e.moves[p] = v.moves[p]
        BY <2>1, <2>2 DEF MovedTo
      <3>2. Added(db.moves[p], v.moves[p], v.moves[p]) = db.moves[p]
        BY <2>1, NothingAdded
      <3>3. d.moves[p] = db.moves[p]
        BY <1>5, <3>1, <3>2
      <3>4. d.stock[p] = db.stock[p]
        BY <1>5, <3>1
      <3> QED
        BY <2>1, <2>2, <3>3, <3>4 DEF MovedTo
    <2>3. CASE change[p] # 0
      <3>1. v.stock[p] = db.stock[p] /\ v.moves[p] = db.moves[p]
        BY <1>3, <1>6, <1>9, <2>3
      <3>2. Grown(v.moves[p], e.moves[p])
        <4> DEFINE x == [quantity |-> change[p], before |-> v.stock[p],
                         after |-> v.stock[p] + change[p]]
        <4>1. x \in Movement
          BY <2>1 DEF Movement
        <4>2. e.moves[p] = Append(v.moves[p], x)
          BY <2>1, <2>3 DEF MovedTo
        <4> HIDE DEF x
        <4> QED
          BY <2>1, <4>1, <4>2, GrownAppend
      <3>3. d.moves[p] = e.moves[p]
        <4>1. Added(v.moves[p], v.moves[p], e.moves[p]) = e.moves[p]
          BY <2>1, <3>2, GrownEnd
        <4> QED
          BY <1>5, <3>1, <4>1
      <3>4. MovedTo(v, change, p) = MovedTo(db, change, p)
        BY <3>1 DEF MovedTo
      <3>5. e.stock[p] # v.stock[p]
        BY <2>1, <2>3
      <3> QED
        BY <1>5, <2>1, <3>1, <3>3, <3>4, <3>5
    <2> QED
      BY <2>2, <2>3
  <1>11. \A b \in Account :
           /\ Booked(db, d, b)
           /\ d.account[b] - db.account[b] = e.account[b] - v.account[b]
           /\ "customer" \notin docs => d.account[b] = db.account[b] /\ d.book[b] = db.book[b]
    <2> SUFFICES ASSUME NEW b \in Account
                 PROVE  /\ Booked(db, d, b)
                        /\ d.account[b] - db.account[b] = e.account[b] - v.account[b]
                        /\ "customer" \notin docs =>
                             d.account[b] = db.account[b] /\ d.book[b] = db.book[b]
      OBVIOUS
    <2>1. /\ v.book[b] \in Seq(Entry) /\ db.book[b] \in Seq(Entry) /\ e.book[b] \in Seq(Entry)
          /\ v.account[b] \in Int /\ db.account[b] \in Int /\ e.account[b] \in Int
      BY <1>1, <1>2, Columns DEF Books, Accounts
    <2>2. Booked(v, e, b)
      BY <1>2
    <2>3. Len(db.book[b]) \in Nat /\ Len(v.book[b]) \in Nat /\ Len(e.book[b]) \in Nat
      BY <2>1, LenProperties
    <2>4. CASE e.book = v.book
      <3>1. e.account[b] = v.account[b]
        BY <2>2, <2>4 DEF Booked
      <3>2. d.book[b] = db.book[b]
        <4>1. Added(db.book[b], v.book[b], v.book[b]) = db.book[b]
          BY <2>1, NothingAdded
        <4> QED
          BY <1>5, <2>4, <4>1
      <3>3. d.account[b] = db.account[b]
        BY <1>5, <2>4
      <3> QED
        BY <2>1, <2>3, <3>1, <3>2, <3>3 DEF Booked, Grown
    <2>5. CASE e.book # v.book
      <3>1. "customer" \in docs
        BY <1>4, <2>5
      <3>2. v.account[b] = db.account[b] /\ v.book[b] = db.book[b]
        BY <1>3, <1>6, <3>1
      <3>3. d.book[b] = e.book[b]
        <4>1. Added(v.book[b], v.book[b], e.book[b]) = e.book[b]
          BY <2>1, <2>2, GrownEnd DEF Booked
        <4> QED
          BY <1>5, <3>2, <4>1
      <3>4. d.account[b] = e.account[b]
        BY <1>5, <2>2, <3>2 DEF Booked
      <3> QED
        BY <2>2, <3>1, <3>2, <3>3, <3>4 DEF Booked
    <2> QED
      BY <2>4, <2>5
  <1>12. "customer" \notin docs => d.account = db.account /\ d.book = db.book
    BY <1>1, <1>5, <1>11, Columns DEF Accounts, Books
  <1>13. a.op = "checkout" => Sells(a, db, d, r) /\ "counter" \in docs
    <2> SUFFICES ASSUME a.op = "checkout" PROVE Sells(a, db, d, r) /\ "counter" \in docs
      OBVIOUS
    <2>1. Sells(a, v, e, r)
      BY <1>2
    <2>2. v.counter \in Nat \ {0}
      BY <1>1, Columns DEF Counters
    <2>3. e.counter = v.counter + 1 /\ e.counter # v.counter
      BY <2>1, <2>2 DEF Sells
    <2>4. "counter" \in docs /\ v.counter = db.counter
      BY <1>3, <1>4, <1>6, <2>3
    <2>5. d.counter = db.counter + 1
      BY <1>5, <2>3, <2>4
    <2>6. e.sale[r] # v.sale[r]
      BY <1>7, <2>1, <2>2 DEF Sells, NoSale
    <2>7. d.sale[r] = e.sale[r] /\ \A s \in Req \ {r} : d.sale[s] = db.sale[s]
      BY <1>5, <2>1, <2>6 DEF Sells
    <2>8. "credit" \in Account /\ "points" \in Account
      BY DEF Account
    <2>9. /\ \A b \in Account : v.account[b] \in Int /\ db.account[b] \in Int
                               /\ e.account[b] \in Int /\ d.account[b] \in Int
          /\ Whole(a.tender.credit) \in Int /\ a.tender.points \in Int
      <3>1. a.tender.credit \in Seq(Nat \ {0}) /\ a.tender.points \in Int
        BY <1>1 DEF Ask, Money
      <3> QED
        BY <1>1, <1>2, <1>5, <3>1, WholeType, Columns DEF Accounts
    <2>10. \A w, x, y, z, m \in Int : w - x = y - z => /\ y = z - m => w = x - m
                                                       /\ y >= z - m => w >= x - m
      OBVIOUS
    <2>11. /\ e.account["credit"] = v.account["credit"] - Whole(a.tender.credit)
           /\ e.account["points"] >= v.account["points"] - a.tender.points
      BY <2>1 DEF Sells
    <2>12. /\ d.account["credit"] = db.account["credit"] - Whole(a.tender.credit)
           /\ d.account["points"] >= db.account["points"] - a.tender.points
      BY <1>11, <2>8, <2>9, <2>10, <2>11
    <2> QED
      BY <2>1, <2>4, <2>5, <2>7, <2>12 DEF Sells
  <1>14. a.op # "checkout" => SellsNothing(db, d)
    <2> SUFFICES ASSUME a.op # "checkout" PROVE SellsNothing(db, d)
      OBVIOUS
    <2>1. SellsNothing(v, e)
      BY <1>2
    <2>2. d.counter = db.counter
      BY <1>5, <2>1 DEF SellsNothing
    <2>3. \A q \in Req : d.sale[q] = db.sale[q]
      BY <1>5, <2>1 DEF SellsNothing
    <2>4. d.sale = db.sale
      BY <1>1, <1>5, <2>3, Columns DEF Sales
    <2>5. "credit" \in Account /\ "points" \in Account
      BY DEF Account
    <2>6. \A b \in Account : v.account[b] \in Int /\ db.account[b] \in Int
                             /\ e.account[b] \in Int /\ d.account[b] \in Int
      BY <1>1, <1>2, <1>5, Columns DEF Accounts
    <2>7. \A w, x, y, z \in Int : w - x = y - z => (y >= z => w >= x)
      OBVIOUS
    <2>8. \A b \in {"credit", "points"} : e.account[b] >= v.account[b]
      BY <2>1 DEF SellsNothing
    <2>9. \A b \in {"credit", "points"} : d.account[b] >= db.account[b]
      BY <1>11, <2>5, <2>6, <2>7, <2>8
    <2> QED
      BY <2>2, <2>4, <2>9 DEF SellsNothing
  <1>15. \A q \in Req : e.return[q] = v.return[q] => d.return[q] = db.return[q]
    BY <1>5
  <1>16. a.op # "return" => d.return = db.return
    <2> SUFFICES ASSUME a.op # "return" PROVE d.return = db.return
      OBVIOUS
    <2>1. \A q \in Req : d.return[q] = db.return[q]
      BY <1>2, <1>15
    <2> QED
      BY <1>1, <1>5, <2>1, Columns DEF Returns
  <1>17. a.op = "return" =>
           /\ d.return[r] = [of |-> a.of, items |-> a.cart, restock |-> a.restock,
                             method |-> a.method]
           /\ a.method # "cash" /\ Worth(a.cart) > 0 => "customer" \in docs
           /\ \A q \in Req \ {r} : d.return[q] = db.return[q]
    <2> SUFFICES ASSUME a.op = "return"
                 PROVE  /\ d.return[r] = [of |-> a.of, items |-> a.cart, restock |-> a.restock,
                                          method |-> a.method]
                        /\ a.method # "cash" /\ Worth(a.cart) > 0 => "customer" \in docs
                        /\ \A q \in Req \ {r} : d.return[q] = db.return[q]
      OBVIOUS
    <2>1. TakesBack(a, v, e, r)
      BY <1>2
    <2>2. a.of # {}
      BY DEF Asked, a
    <2>3. e.return[r] # v.return[r]
      BY <1>7, <2>1, <2>2 DEF TakesBack, NoReturn
    <2>4. a.method \in {"cash", "store_credit", "customer_balance"}
      BY <1>1, StoreAssumption DEF InRange
    <2> QED
      BY <1>4, <1>5, <1>15, <2>1, <2>3, <2>4 DEF TakesBack
  <1>18. \A q \in Req \ {r} : d.return[q] = db.return[q]
    BY <1>16, <1>17
  <1>19. \A b \in Account : Booked(db, d, b)
    BY <1>11
  <1>20. a.op = "checkout" =>
           (a.tender.credit # <<>> \/ a.tender.points > 0 => "customer" \in docs)
    BY <1>2, <1>4 DEF Pays
  <1>21. Lands(a, db, d, r, docs)
    BY <1>5, <1>8, <1>9, <1>10, <1>12, <1>13, <1>14, <1>16, <1>17, <1>18, <1>19, <1>20 DEF Lands
  <1> QED
    BY <1>21 DEF a, d, docs, v, e

\* What was checked on the snapshot holds of the database.
Checked(a, d, docs) ==
  /\ a.op = "checkout" => Sellable(d, a) /\ ~KeySold(d, a.key)
  /\ a.op = "adjust" => \A p \in Product \cap docs : d.stock[p] + a.cart[p] >= 0

LEMMA CommitChecks ==
  ASSUME Typed, NothingOversold, NEW r \in Req, Snapshot(r), Asked(r),
         NEW docs, docs \cap touched[r] = {}, NEW e, Lands(ask[r], db, e, r, docs)
  PROVE  Checked(ask[r], db, docs)
  <1> DEFINE a == ask[r]
             v == view[r]
  <1>1. db \in Database /\ v \in Database /\ a \in Ask /\ InRange(a)
    BY DEF Typed, Asked
  <1>2. /\ \A p \in Product \cap docs : v.stock[p] = db.stock[p]
        /\ "counter" \in docs => v.counter = db.counter /\ v.sale = db.sale
        /\ "customer" \in docs => v.account = db.account /\ v.book = db.book
    BY DEF Snapshot, SnapshotStock, SnapshotCounter, SnapshotCustomer
  <1>3. /\ a.op = "checkout" => Sellable(v, a) /\ ~KeySold(v, a.key)
        /\ a.op = "adjust" => Adjustable(v, a)
    BY DEF Asked
  <1>4. PICK change \in [Product -> Int] :
          Changes(a, change) /\ \A p \in Product : change[p] # 0 => p \in docs
    BY DEF Lands
  <1>5. a.op = "checkout" =>
          /\ "counter" \in docs
          /\ a.tender.credit # <<>> \/ a.tender.points > 0 => "customer" \in docs
    BY DEF Lands
  <1>6. ASSUME a.op = "checkout" PROVE Sellable(db, a) /\ ~KeySold(db, a.key)
    <2> HIDE DEF v
    <2>1. /\ a.cart \in [Product -> Nat] /\ a.tender.points \in Nat
          /\ a.tender.credit \in Seq(Nat \ {0})
      BY <1>1, <1>6, StoreAssumption DEF InRange, Priced, Ask, Money
    <2>2. Sellable(v, a) /\ ~KeySold(v, a.key)
      BY <1>3, <1>6
    <2>3. v.sale = db.sale
      BY <1>2, <1>5, <1>6
    <2>4. ~KeySold(db, a.key)
      BY <2>2, <2>3 DEF KeySold, Sold
    <2>5. ASSUME NEW p \in Managed PROVE a.cart[p] <= db.stock[p]
      <3>1. p \in Product /\ db.stock[p] \in Int /\ db.stock[p] >= 0
        BY <1>1, StoreAssumption, Columns DEF Stocks, NothingOversold
      <3>2. CASE a.cart[p] = 0
        BY <3>1, <3>2
      <3>3. CASE a.cart[p] # 0
        <4>1. change[p] = -a.cart[p]
          BY <1>4, <1>6, <2>1, <3>1, OnlyManagedType DEF Changes, OnlyManaged
        <4>2. p \in docs
          BY <1>4, <2>1, <3>1, <3>3, <4>1
        <4> QED
          BY <1>2, <2>2, <3>1, <4>2 DEF Sellable
      <3> QED
        BY <3>2, <3>3
    <2>6. /\ \A n \in DOMAIN a.tender.credit : a.tender.credit[n] <= db.account["credit"]
          /\ a.tender.points <= db.account["points"]
      <3>1. db.account["points"] >= 0 /\ db.account["points"] \in Int
        BY <1>1, Columns DEF Accounts, Account, NothingOversold
      <3>2. CASE a.tender.credit # <<>> \/ a.tender.points > 0
        BY <1>2, <1>5, <1>6, <2>2, <3>2 DEF Sellable
      <3>3. CASE ~(a.tender.credit # <<>> \/ a.tender.points > 0)
        <4>1. DOMAIN a.tender.credit = {} /\ a.tender.points = 0
          BY <2>1, <3>3
        <4> QED
          BY <3>1, <4>1
      <3> QED
        BY <3>2, <3>3
    <2> QED
      BY <2>2, <2>4, <2>5, <2>6 DEF Sellable
  <1>7. ASSUME a.op = "adjust" PROVE \A p \in Product \cap docs : db.stock[p] + a.cart[p] >= 0
    BY <1>2, <1>3, <1>7 DEF Adjustable
  <1> QED
    BY <1>6, <1>7 DEF Checked

LEMMA BesideType ==
  ASSUME db \in Database, NEW s \in Req, NEW n \in DOMAIN db.sale[s].credit
  PROVE  Beside(s, n) \in Int
  <1>1. db.sale[s].credit \in Seq(Nat \ {0})
    BY Columns DEF Sales, SaleRow
  <1>2. Whole(db.sale[s].credit) \in Nat /\ db.sale[s].credit[n] \in Nat
    BY <1>1, WholeType
  <1> QED
    BY <1>2 DEF Beside

\* Store credit that was below zero by the rows of one sale is so after it rises.
LEMMA OverdrewKept ==
  ASSUME db \in Database, db' \in Database, NEW s \in Req, Overdrew(s),
         db'.sale[s] = db.sale[s], db'.account["credit"] >= db.account["credit"]
  PROVE  Overdrew(s)'
  <1>1. db.account["credit"] \in Int /\ db'.account["credit"] \in Int
    BY Columns DEF Accounts, Account
  <1>2. ASSUME NEW n \in DOMAIN db.sale[s].credit
        PROVE  db'.account["credit"] + Beside(s, n) >= 0
    <2>1. Beside(s, n) \in Int /\ db.account["credit"] + Beside(s, n) >= 0
      BY BesideType DEF Overdrew
    <2> QED
      BY <1>1, <2>1
  <1>3. \A n : Beside(s, n)' = Beside(s, n)
    BY DEF Beside
  <1> QED
    BY <1>2, <1>3 DEF Overdrew

\* A commit leaves no stock and no points below zero, and store credit only by the
\* rows of one sale.
LEMMA CommitOversells ==
  ASSUME db \in Database, NothingOversold, NEW a \in Ask, InRange(a), NEW r \in Req,
         db.sale[r] = NoSale, NEW docs, Lands(a, db, db', r, docs), Checked(a, db, docs)
  PROVE  NothingOversold'
  <1>1. db' \in Database
    BY DEF Lands
  <1>2. PICK change \in [Product -> Int] :
          /\ Stocked(db, db', change) /\ Changes(a, change)
          /\ \A p \in Product : change[p] # 0 => p \in docs
    BY DEF Lands
  <1>3. ASSUME NEW p \in Managed PROVE db.stock[p] + change[p] >= 0
    <2>1. p \in Product /\ db.stock[p] \in Int /\ db.stock[p] >= 0 /\ change[p] \in Int
      BY StoreAssumption, Columns DEF Stocks, NothingOversold
    <2>2. CASE a.op = "checkout"
      <3>1. a.cart \in [Product -> Nat] /\ a.cart[p] <= db.stock[p]
        BY <2>2, StoreAssumption DEF InRange, Priced, Checked, Sellable
      <3>2. change[p] = -a.cart[p]
        BY <1>2, <2>1, <2>2, <3>1 DEF Changes, OnlyManaged
      <3> QED
        BY <2>1, <3>1, <3>2
    <2>3. CASE a.op \in {"return", "purchase"}
      <3>1. change[p] \in Nat
        BY <1>2, <2>1, <2>3 DEF Changes
      <3> QED
        BY <2>1, <3>1
    <2>4. CASE a.op = "adjust"
      <3>1. CASE change[p] = 0
        BY <2>1, <3>1
      <3>2. CASE change[p] # 0
        BY <1>2, <2>1, <2>4, <3>2 DEF Changes, Checked
      <3> QED
        BY <3>1, <3>2
    <2> QED
      BY <2>2, <2>3, <2>4 DEF InRange
  <1>4. \A p \in Managed : db'.stock[p] >= 0
    BY <1>2, <1>3, StoreAssumption DEF Stocked
  <1>5. /\ db.account["points"] >= 0
        /\ db.account["credit"] \in Int /\ db.account["points"] \in Int
        /\ db'.account["credit"] \in Int /\ db'.account["points"] \in Int
    BY <1>1, Columns DEF Accounts, Account, NothingOversold
  <1>6. db'.account["points"] >= 0
    <2>1. CASE a.op = "checkout"
      <3>1. a.tender.points <= db.account["points"]
        BY <2>1 DEF Checked, Sellable
      <3>2. db'.account["points"] >= db.account["points"] - a.tender.points
        BY <2>1 DEF Lands, Sells
      <3>3. a.tender.points \in Int
        BY DEF Ask, Money
      <3> QED
        BY <1>5, <3>1, <3>2, <3>3
    <2>2. CASE a.op # "checkout"
      <3>1. db'.account["points"] >= db.account["points"]
        BY <2>2 DEF Lands, SellsNothing
      <3> QED
        BY <1>5, <3>1
    <2> QED
      BY <2>1, <2>2
  <1>7. r \notin Sold(db)
    BY DEF Sold, NoSale
  <1>8. ASSUME NEW s \in Sold(db), Overdrew(s), db'.sale[s] = db.sale[s],
               db'.account["credit"] >= db.account["credit"]
        PROVE  \E q \in Sold(db') : Overdrew(q)'
    <2>1. s \in Req /\ s \in Sold(db')
      BY <1>8 DEF Sold
    <2>2. Overdrew(s)'
      BY <1>1, <1>8, <2>1, OverdrewKept
    <2> QED
      BY <2>1, <2>2
  <1>9. db'.account["credit"] < 0 => \E s \in Sold(db') : Overdrew(s)'
    <2> SUFFICES ASSUME db'.account["credit"] < 0 PROVE \E s \in Sold(db') : Overdrew(s)'
      OBVIOUS
    <2>1. CASE a.op = "checkout"
      <3> DEFINE rows == a.tender.credit
      <3>1. /\ db'.account["credit"] = db.account["credit"] - Whole(rows)
            /\ \A s \in Req \ {r} : db'.sale[s] = db.sale[s]
            /\ db'.sale[r].number = db.counter /\ db'.sale[r].credit = rows
        BY <2>1 DEF Lands, Sells
      <3>2. rows \in Seq(Nat \ {0})
        BY DEF Ask, Money
      <3>3. Whole(rows) \in Nat /\ (rows = <<>> => Whole(rows) = 0)
        BY <3>2, WholeType
      <3> HIDE DEF rows
      <3>4. CASE rows = <<>>
        <4>1. db'.account["credit"] >= db.account["credit"] /\ db.account["credit"] < 0
          BY <1>5, <3>1, <3>3, <3>4
        <4>2. PICK s \in Sold(db) : Overdrew(s)
          BY <4>1 DEF NothingOversold
        <4>3. db'.sale[s] = db.sale[s]
          BY <1>7, <3>1 DEF Sold
        <4> QED
          BY <1>8, <4>1, <4>2, <4>3
      <3>5. CASE rows # <<>>
        <4>1. r \in Sold(db')
          <5>1. db.counter \in Nat \ {0}
            BY Columns DEF Counters
          <5> QED
            BY <3>1, <5>1 DEF Sold
        <4>2. ASSUME NEW n \in DOMAIN rows
              PROVE  db'.account["credit"] + (Whole(rows) - rows[n]) >= 0
          <5>1. rows[n] <= db.account["credit"]
            BY <2>1 DEF Checked, Sellable, rows
          <5>2. rows[n] \in Int
            BY <3>2
          <5>3. \A c, w, x \in Int : x <= c => (c - w) + (w - x) >= 0
            OBVIOUS
          <5> QED
            BY <1>5, <3>1, <3>3, <5>1, <5>2, <5>3
        <4>3. Overdrew(r)'
          BY <3>1, <3>5, <4>2 DEF Overdrew, Beside
        <4> QED
          BY <4>1, <4>3
      <3> QED
        BY <3>4, <3>5
    <2>2. CASE a.op # "checkout"
      <3>1. db'.account["credit"] >= db.account["credit"] /\ db'.sale = db.sale
        BY <2>2 DEF Lands, SellsNothing
      <3>2. db.account["credit"] < 0
        BY <1>5, <3>1
      <3>3. PICK s \in Sold(db) : Overdrew(s)
        BY <3>2 DEF NothingOversold
      <3> QED
        BY <1>8, <3>1, <3>3
    <2> QED
      BY <2>1, <2>2
  <1> QED
    BY <1>4, <1>6, <1>9 DEF NothingOversold

\* Where a step sells nothing and leaves the accounts but for the balance alone.
LEMMA OversoldKept ==
  ASSUME NothingOversold, db'.sale = db.sale,
         db'.account["credit"] = db.account["credit"],
         db'.account["points"] = db.account["points"],
         \A p \in Managed : db'.stock[p] >= 0
  PROVE  NothingOversold'
  <1>1. Sold(db') = Sold(db) /\ \A s, n : Beside(s, n)' = Beside(s, n)
    BY DEF Sold, Beside
  <1>2. \A s : Overdrew(s)' = Overdrew(s)
    BY <1>1 DEF Overdrew
  <1> QED
    BY <1>1, <1>2 DEF NothingOversold

\* A list of movements tells a stock, and so does one movement more.
Tells(m, stock, opening) ==
  /\ \A n \in DOMAIN m : m[n].before = IF n = 1 THEN opening ELSE m[n - 1].after
  /\ stock = IF m = <<>> THEN opening ELSE m[Len(m)].after

LEMMA TellsOn ==
  ASSUME NEW m \in Seq(Movement), NEW stock, NEW opening, Tells(m, stock, opening),
         NEW x \in Movement, x.before = stock
  PROVE  Tells(Append(m, x), x.after, opening)
  <1> DEFINE k == Append(m, x)
             y == Len(m) + 1
  <1>1. /\ Len(m) \in Nat /\ DOMAIN m = 1..Len(m) /\ DOMAIN k = 1..y /\ Len(k) = y
        /\ \A n \in 1..Len(m) : k[n] = m[n]
        /\ k[y] = x /\ k # <<>>
    BY LenProperties, AppendProperties
  <1>2. m = <<>> <=> Len(m) = 0
    BY EmptySeq
  <1>3. /\ \A n \in 1..Len(m) : m[n].before = IF n = 1 THEN opening ELSE m[n - 1].after
        /\ stock = IF m = <<>> THEN opening ELSE m[Len(m)].after
    BY <1>1 DEF Tells
  <1> HIDE DEF k
  <1>4. ASSUME NEW n \in 1..y PROVE k[n].before = IF n = 1 THEN opening ELSE k[n - 1].after
    <2>1. CASE n \in 1..Len(m)
      <3>1. n = 1 \/ n - 1 \in 1..Len(m)
        BY <1>1, <2>1
      <3> QED
        BY <1>1, <1>3, <2>1, <3>1
    <2>2. CASE n = y
      <3>1. CASE Len(m) = 0
        BY <1>1, <1>2, <1>3, <2>2, <3>1
      <3>2. CASE Len(m) # 0
        <4>1. n # 1 /\ n - 1 = Len(m) /\ Len(m) \in 1..Len(m)
          BY <1>1, <2>2, <3>2
        <4> QED
          BY <1>1, <1>2, <1>3, <2>2, <3>2, <4>1
      <3> QED
        BY <3>1, <3>2
    <2>3. n \in 1..Len(m) \/ n = y
      BY <1>1
    <2> QED
      BY <2>1, <2>2, <2>3
  <1>5. x.after = IF k = <<>> THEN opening ELSE k[Len(k)].after
    BY <1>1
  <1> QED
    BY <1>1, <1>4, <1>5 DEF Tells, k

LEMMA CommitTells ==
  ASSUME db \in Database, MovementsTellStock, NEW a, NEW r \in Req, NEW docs,
         Lands(a, db, db', r, docs), recounted' = recounted
  PROVE  MovementsTellStock'
  <1>1. PICK change \in [Product -> Int] : Stocked(db, db', change)
    BY DEF Lands
  <1>2. ASSUME NEW p \in Product \ recounted PROVE Tells(db'.moves[p], db'.stock[p], Opening[p])
    <2> DEFINE x == [quantity |-> change[p], before |-> db.stock[p],
                     after |-> db.stock[p] + change[p]]
    <2>1. Tells(db.moves[p], db.stock[p], Opening[p])
      BY DEF MovementsTellStock, Tells
    <2>2. /\ db.stock[p] \in Int /\ db.moves[p] \in Seq(Movement) /\ change[p] \in Int
          /\ db'.stock[p] = db.stock[p] + change[p] /\ db'.moves[p] = MovedTo(db, change, p)
      BY <1>1, Columns DEF Stocked, Stocks, Moves
    <2>3. CASE change[p] = 0
      BY <2>1, <2>2, <2>3 DEF MovedTo
    <2>4. CASE change[p] # 0
      <3>1. x \in Movement /\ x.before = db.stock[p] /\ x.after = db'.stock[p]
        BY <2>2 DEF Movement
      <3>2. db'.moves[p] = Append(db.moves[p], x)
        BY <2>2, <2>4 DEF MovedTo
      <3> HIDE DEF x
      <3>3. Tells(Append(db.moves[p], x), x.after, Opening[p])
        BY <2>1, <2>2, <3>1, TellsOn
      <3> QED
        BY <3>1, <3>2, <3>3
    <2> QED
      BY <2>3, <2>4
  <1> QED
    BY <1>2 DEF MovementsTellStock, Tells

\* A balance that follows its journal stays told by it.
LEMMA BookedTells ==
  ASSUME db \in Database, db' \in Database, elsewhere \in Int, elsewhere' = elsewhere,
         JournalsTellBalances, \A b \in Account : Booked(db, db', b)
  PROVE  JournalsTellBalances'
  <1> SUFFICES ASSUME NEW b \in Account
               PROVE  db'.account[b] = Funds[b] + (IF b = "balance" THEN elsewhere ELSE 0)
                                         + Entered(db'.book[b])
    BY DEF JournalsTellBalances
  <1>1. db.book[b] \in Seq(Entry) /\ db'.book[b] \in Seq(Entry)
    BY Columns DEF Books
  <1>2. Entered(db.book[b]) \in Int /\ Entered(db'.book[b]) \in Int
    BY <1>1, EnteredType
  <1>3. db.account[b] \in Int /\ db'.account[b] \in Int /\ Funds[b] \in Int
    BY StoreAssumption, Columns DEF Accounts, Account
  <1>4. db'.account[b] - Entered(db'.book[b]) = db.account[b] - Entered(db.book[b])
    BY DEF Booked
  <1>5. db.account[b] = Funds[b] + (IF b = "balance" THEN elsewhere ELSE 0) + Entered(db.book[b])
    BY DEF JournalsTellBalances
  <1> QED
    BY <1>2, <1>3, <1>4, <1>5

\* The sales a commit leaves.
LEMMA CommitSells ==
  ASSUME db \in Database, SoldOnce, NumberedInARow, NEW a, NEW r \in Req, NEW docs,
         Lands(a, db, db', r, docs), Checked(a, db, docs), r \notin Sold(db)
  PROVE  /\ SoldOnce' /\ NumberedInARow'
         /\ Sold(db') = IF a.op = "checkout" THEN Sold(db) \cup {r} ELSE Sold(db)
         /\ \A s \in Sold(db) : db'.sale[s] = db.sale[s]
  <1>1. db.counter \in Nat \ {0} /\ db' \in Database
    BY Columns DEF Counters, Lands
  <1>2. CASE a.op = "checkout"
    <2>1. /\ db'.counter = db.counter + 1
          /\ db'.sale[r].number = db.counter /\ db'.sale[r].key = a.key
          /\ \A s \in Req \ {r} : db'.sale[s] = db.sale[s]
      BY <1>2 DEF Lands, Sells
    <2>2. Sold(db') = Sold(db) \cup {r} /\ \A s \in Sold(db) : db'.sale[s] = db.sale[s]
      BY <1>1, <2>1 DEF Sold
    <2>3. SoldOnce'
      <3> SUFFICES ASSUME NEW s \in Sold(db'), NEW t \in Sold(db'),
                          db'.sale[s].key = db'.sale[t].key, db'.sale[s].key # NoKey
                   PROVE  s = t
        BY DEF SoldOnce
      <3>1. ~KeySold(db, a.key)
        BY <1>2 DEF Checked
      <3>2. CASE s \in Sold(db) /\ t \in Sold(db)
        BY <2>2, <3>2 DEF SoldOnce
      <3>3. CASE s = r /\ t # r
        BY <2>1, <2>2, <3>1, <3>3 DEF KeySold
      <3>4. CASE t = r /\ s # r
        BY <2>1, <2>2, <3>1, <3>4 DEF KeySold
      <3> QED
        BY <2>2, <3>2, <3>3, <3>4
    <2>4. NumberedInARow'
      <3>1. {db.sale[s].number : s \in Sold(db)} = 1..(db.counter - 1)
        BY DEF NumberedInARow
      <3>2. {db'.sale[s].number : s \in Sold(db')} = 1..(db.counter - 1) \cup {db.counter}
        <4>1. {db'.sale[s].number : s \in Sold(db')}
                = {db'.sale[s].number : s \in Sold(db)} \cup {db'.sale[r].number}
          BY <2>2
        <4>2. {db'.sale[s].number : s \in Sold(db)} = {db.sale[s].number : s \in Sold(db)}
          BY <2>2
        <4> QED
          BY <2>1, <3>1, <4>1, <4>2
      <3>3. 1..(db'.counter - 1) = 1..(db.counter - 1) \cup {db.counter}
        BY <1>1, <2>1
      <3> QED
        BY <3>2, <3>3 DEF NumberedInARow
    <2> QED
      BY <1>2, <2>2, <2>3, <2>4
  <1>3. CASE a.op # "checkout"
    <2>1. db'.counter = db.counter /\ db'.sale = db.sale
      BY <1>3 DEF Lands, SellsNothing
    <2>2. Sold(db') = Sold(db)
      BY <2>1 DEF Sold
    <2> QED
      BY <1>3, <2>1, <2>2 DEF SoldOnce, NumberedInARow
  <1> QED
    BY <1>2, <1>3

\* A sum of larger numbers is larger.
LEMMA TotalLess ==
  ASSUME NEW S, IsFiniteSet(S), NEW f \in [S -> Nat], NEW g \in [S -> Nat],
         \A x \in S : f[x] <= g[x]
  PROVE  SumFunction(f) <= SumFunction(g)
  <1> DEFINE h == [x \in S |-> g[x] - f[x]]
  <1>1. h \in [S -> Nat] /\ \A x \in S : g[x] = f[x] + h[x]
    OBVIOUS
  <1> HIDE DEF h
  <1>2. f \in [S -> Int] /\ g \in [S -> Int] /\ h \in [S -> Int]
    BY <1>1
  <1>3. SumFunction(g) = SumFunction(f) + SumFunction(h)
    BY <1>1, <1>2, TotalPlus
  <1>4. SumFunction(f) \in Nat /\ SumFunction(h) \in Nat
    BY <1>1, TotalNat
  <1> QED
    BY <1>3, <1>4

\* What the returns of product p of sale s add up to, term by term.
Back(d, s, p) == [r \in Req |-> IF d.return[r].of = {s} THEN d.return[r].items[p] ELSE 0]

LEMMA BackType ==
  ASSUME NEW d \in Database, NEW s, NEW p \in Product
  PROVE  Back(d, s, p) \in [Req -> Nat] /\ Returned(d, s, p) = SumFunction(Back(d, s, p))
  BY Columns DEF Back, Returned, Returns, ReturnRow

\* Product p of sale s meets: its returns all write a document in common.
MeetsAll(d, s, p) ==
  \/ p \in Managed /\ \A r \in Req :
       d.return[r].of = {s} /\ d.return[r].items[p] > 0 => d.return[r].restock
  \/ \A r \in Req :
       d.return[r].of = {s} /\ d.return[r].items[p] > 0 => d.return[r].method # "cash"
Within(d, s, p) == MeetsAll(d, s, p) => Returned(d, s, p) <= d.sale[s].items[p]

LEMMA WithinIs == ReturnedWithinSold <=> \A s \in Sold(db), p \in Product : Within(db, s, p)
  BY DEF ReturnedWithinSold, Within, MeetsAll, ReturnsOf

LEMMA WithinNext ==
  ReturnedWithinSold' <=> \A s \in Sold(db'), p \in Product : Within(db', s, p)
  BY DEF ReturnedWithinSold, Within, MeetsAll, ReturnsOf

\* What an open return may take back leaves room for all the returns that it
\* meets: it read every one of them.
LEMMA ReturnFits ==
  ASSUME Typed, NEW r \in Req, Own(r), Open(r), Snapshot(r), Asked(r),
         NEW docs, docs \cap touched[r] = {}, Lands(ask[r], db, db', r, docs),
         ask[r].op = "return", NEW s, ask[r].of = {s}, NEW p \in Product, MeetsAll(db', s, p),
         ask[r].cart[p] > 0
  PROVE  Returned(db', s, p) <= db'.sale[s].items[p]
  <1> DEFINE a == ask[r]
             v == view[r]
             f == Back(db, s, p)
             g == Back(db', s, p)
             h == Back(v, s, p)
  <1>1. db \in Database /\ v \in Database /\ db' \in Database /\ a \in Ask /\ InRange(a)
    BY DEF Typed, Asked, Lands
  <1>2. a.cart \in [Product -> Nat]
    BY <1>1, StoreAssumption DEF InRange
  <1>3. s \in Sold(v) /\ Returnable(v, s, a) /\ s \in Req
    BY DEF Asked, Sold
  <1>4. a.cart[p] + Returned(v, s, p) <= v.sale[s].items[p]
    BY <1>3 DEF Returnable
  <1>5. v.sale[s] = db.sale[s] /\ db'.sale = db.sale
    BY <1>3 DEF Snapshot, SnapshotSales, Lands, SellsNothing
  <1>6. /\ db'.return[r].of = {s} /\ db'.return[r].items[p] = a.cart[p]
        /\ db'.return[r].restock = a.restock /\ db'.return[r].method = a.method
        /\ \A q \in Req \ {r} : db'.return[q] = db.return[q]
        /\ db.return[r].of = {}
    BY DEF Lands, Own, Open, NoReturn
  <1>7. MeetsAll(db, s, p)
    BY <1>6 DEF MeetsAll
  <1>8. \/ p \in Managed /\ a.restock
        \/ a.method # "cash"
    BY <1>6 DEF MeetsAll
  <1>9. \/ /\ p \in Managed /\ p \in docs
           /\ \A q \in Req : db'.return[q].of = {s} /\ db'.return[q].items[p] > 0
                               => db'.return[q].restock
        \/ /\ "customer" \in docs
           /\ \A q \in Req : db'.return[q].of = {s} /\ db'.return[q].items[p] > 0
                               => db'.return[q].method # "cash"
    <2>1. CASE p \in Managed /\ \A q \in Req : db'.return[q].of = {s} /\ db'.return[q].items[p] > 0
                                                 => db'.return[q].restock
      <3>1. a.restock
        BY <1>6, <2>1
      <3>2. PICK change \in [Product -> Int] :
              Changes(a, change) /\ \A x \in Product : change[x] # 0 => x \in docs
        BY DEF Lands
      <3>3. change[p] = a.cart[p]
        BY <2>1, <3>1, <3>2 DEF Changes, Restocks
      <3> QED
        BY <1>2, <2>1, <3>2, <3>3
    <2>2. CASE \A q \in Req : db'.return[q].of = {s} /\ db'.return[q].items[p] > 0
                                => db'.return[q].method # "cash"
      <3>1. a.method # "cash"
        BY <1>6, <2>2
      <3>2. Worth(a.cart) \in Nat /\ a.cart[p] <= Worth(a.cart)
        BY <1>2, WorthType
      <3>3. Worth(a.cart) > 0
        BY <1>2, <3>2
      <3> QED
        BY <2>2, <3>1, <3>3 DEF Lands
    <2> QED
      BY <2>1, <2>2 DEF MeetsAll
  <1>10. ASSUME NEW q \in Req, db.return[q].of = {s}, db.return[q].items[p] > 0
         PROVE  v.return[q] = db.return[q]
    <2>1. q # r
      BY <1>6, <1>10
    <2>2. db'.return[q] = db.return[q]
      BY <1>6, <2>1
    <2>3. Meets(db.return[q], p, touched[r])
      BY <1>9, <1>10, <2>2 DEF Meets
    <2> QED
      BY <1>10, <2>3 DEF Snapshot, SnapshotReturns
  <1>11. /\ f \in [Req -> Nat] /\ Returned(db, s, p) = SumFunction(f)
         /\ g \in [Req -> Nat] /\ Returned(db', s, p) = SumFunction(g)
         /\ h \in [Req -> Nat] /\ Returned(v, s, p) = SumFunction(h)
    BY <1>1, BackType
  <1>12. /\ \A q \in Req \ {r} : f[q] = g[q]
         /\ g[r] = a.cart[p] /\ f[r] = 0
    BY <1>6 DEF Back
  <1>13. \A q \in Req : f[q] <= h[q]
    <2> SUFFICES ASSUME NEW q \in Req PROVE f[q] <= h[q]
      OBVIOUS
    <2>1. f[q] \in Nat /\ h[q] \in Nat
      BY <1>11
    <2>2. f[q] = IF db.return[q].of = {s} THEN db.return[q].items[p] ELSE 0
      BY DEF Back
    <2>3. h[q] = IF v.return[q].of = {s} THEN v.return[q].items[p] ELSE 0
      BY DEF Back
    <2> HIDE DEF f, h
    <2>4. CASE f[q] = 0
      BY <2>1, <2>4
    <2>5. CASE f[q] # 0
      BY <1>10, <2>1, <2>2, <2>3, <2>5
    <2> QED
      BY <2>4, <2>5
  <1> HIDE DEF f, g, h
  <1>14. SumFunction(f) <= SumFunction(h)
    <2>1. IsFiniteSet(Req)
      BY StoreAssumption
    <2> QED
      BY <1>11, <1>13, <2>1, TotalLess
  <1>15. SumFunction(g) = SumFunction(f) + (g[r] - f[r])
    <2>1. f \in [Req -> Int] /\ g \in [Req -> Int]
      BY <1>11
    <2>2. IsFiniteSet(Req)
      BY StoreAssumption
    <2> QED
      BY <1>12, <2>1, <2>2, TotalChange
  <1>16. /\ SumFunction(f) \in Nat /\ SumFunction(g) \in Nat /\ SumFunction(h) \in Nat
         /\ a.cart[p] \in Nat /\ v.sale[s].items[p] \in Nat
    <2>0. IsFiniteSet(Req)
      BY StoreAssumption
    <2>1. SumFunction(f) \in Nat /\ SumFunction(g) \in Nat /\ SumFunction(h) \in Nat
      BY <1>11, <2>0, TotalNat
    <2>2. v.sale[s].items[p] \in Nat
      <3>1. v.sale[s] \in SaleRow
        BY <1>1, <1>3, Columns DEF Sales
      <3>2. v.sale[s].items \in [Product -> Nat]
        BY <3>1 DEF SaleRow
      <3> QED
        BY <3>2
    <2> QED
      BY <1>2, <2>1, <2>2
  <1>17. SumFunction(g) = SumFunction(f) + a.cart[p]
    BY <1>12, <1>15, <1>16
  <1>18. SumFunction(g) <= v.sale[s].items[p]
    BY <1>4, <1>11, <1>14, <1>16, <1>17
  <1> QED
    BY <1>5, <1>11, <1>18

\* The returns a commit leaves.
LEMMA CommitReturns ==
  ASSUME Typed, ReturnedWithinSold, ReturnsOfSold,
         NEW r \in Req, Own(r), Open(r), Snapshot(r), Asked(r),
         NEW docs, docs \cap touched[r] = {}, Lands(ask[r], db, db', r, docs),
         Sold(db') = IF ask[r].op = "checkout" THEN Sold(db) \cup {r} ELSE Sold(db),
         \A s \in Sold(db) : db'.sale[s] = db.sale[s]
  PROVE  ReturnedWithinSold' /\ ReturnsOfSold'
  <1> DEFINE a == ask[r]
  <1>1. db \in Database /\ db' \in Database
    BY DEF Typed, Lands
  <1>2. /\ \A q \in Req \ {r} : db'.return[q] = db.return[q]
        /\ db.return[r] = NoReturn /\ db.sale[r] = NoSale
    BY DEF Lands, Own, Open
  <1>3. r \notin Sold(db)
    BY <1>2 DEF Sold, NoSale
  <1>4. CASE a.op = "return"
    <2>1. /\ db'.return[r].of = a.of /\ db'.return[r].items = a.cart
          /\ Sold(db') = Sold(db)
      BY <1>4 DEF Lands
    <2>2. PICK t \in Sold(view[r]) : a.of = {t}
      BY <1>4 DEF Asked
    <2>3. t \in Sold(db)
      BY <2>2 DEF Snapshot, SnapshotSales, Sold
    <2>4. ReturnsOfSold'
      <3> SUFFICES ASSUME NEW q \in Req, NEW s \in Req, db'.return[q].of = {s}
                   PROVE  s \in Sold(db')
        BY DEF ReturnsOfSold
      <3>1. CASE q = r
        BY <2>1, <2>2, <2>3, <3>1
      <3>2. CASE q # r
        BY <1>2, <2>1, <3>2 DEF ReturnsOfSold
      <3> QED
        BY <3>1, <3>2
    <2>5. ASSUME NEW s \in Sold(db'), NEW p \in Product PROVE Within(db', s, p)
      <3>1. s \in Sold(db) /\ s \in Req /\ db'.sale[s] = db.sale[s] /\ Within(db, s, p)
        BY <2>1, WithinIs DEF Sold
      <3>2. CASE s = t /\ a.cart[p] > 0
        <4>1. MeetsAll(db', s, p) => Returned(db', s, p) <= db'.sale[s].items[p]
          BY <1>4, <2>2, <3>2, ReturnFits
        <4> QED
          BY <4>1 DEF Within
      <3>3. CASE ~(s = t /\ a.cart[p] > 0)
        <4>1. a.cart[p] \in Nat /\ db.return[r].of = {}
          BY <1>1, <1>2, <2>1, Columns DEF Returns, ReturnRow, NoReturn
        <4>2. ~(db'.return[r].of = {s} /\ db'.return[r].items[p] > 0)
          BY <2>1, <2>2, <3>3
        <4>3. MeetsAll(db', s, p) => MeetsAll(db, s, p)
          BY <1>2, <4>1 DEF MeetsAll
        <4>4. Back(db', s, p) = Back(db, s, p)
          <5>1. ASSUME NEW q \in Req
                PROVE  (IF db'.return[q].of = {s} THEN db'.return[q].items[p] ELSE 0)
                         = (IF db.return[q].of = {s} THEN db.return[q].items[p] ELSE 0)
            <6>1. CASE q # r
              BY <1>2, <6>1
            <6>2. CASE q = r
              BY <2>1, <4>1, <4>2, <6>2
            <6> QED
              BY <6>1, <6>2
          <5> QED
            BY <5>1 DEF Back
        <4>5. Returned(db', s, p) = Returned(db, s, p)
          BY <1>1, <4>4, BackType
        <4> QED
          BY <3>1, <4>3, <4>5 DEF Within
      <3> QED
        BY <3>2, <3>3
    <2> QED
      BY <2>4, <2>5, WithinNext
  <1>5. CASE a.op # "return"
    <2>1. db'.return = db.return /\ \A s \in Sold(db) : s \in Sold(db')
      BY <1>5 DEF Lands
    <2>2. ReturnsOfSold'
      BY <2>1 DEF ReturnsOfSold
    <2>3. ASSUME NEW s \in Sold(db'), NEW p \in Product PROVE Within(db', s, p)
      <3>1. /\ MeetsAll(db', s, p) = MeetsAll(db, s, p)
            /\ Returned(db', s, p) = Returned(db, s, p)
        BY <2>1 DEF MeetsAll, Returned
      <3>2. CASE s \in Sold(db)
        <4>1. Within(db, s, p) /\ db'.sale[s] = db.sale[s]
          BY <3>2, WithinIs
        <4> QED
          BY <3>1, <4>1 DEF Within
      <3>3. CASE s \notin Sold(db)
        <4>1. s \in Req
          BY DEF Sold
        <4>2. \A q \in Req : db.return[q].of # {s}
          BY <3>3, <4>1 DEF ReturnsOfSold
        <4> DEFINE f == Back(db, s, p)
        <4>3. f \in [Req -> Nat] /\ Returned(db, s, p) = SumFunction(f) /\ \A q \in Req : f[q] = 0
          <5>1. f \in [Req -> Nat] /\ Returned(db, s, p) = SumFunction(f)
            BY <1>1, BackType
          <5>2. \A q \in Req : f[q] = 0
            BY <4>2 DEF Back
          <5> QED
            BY <5>1, <5>2
        <4> HIDE DEF f
        <4>4. f \in [Req -> Int]
          BY <4>3
        <4>5. Returned(db, s, p) = 0
          BY <4>3, <4>4, StoreAssumption, TotalNothing
        <4>6. db'.sale[s].items[p] \in Nat
          BY <1>1, <4>1, Columns DEF Sales, SaleRow
        <4> QED
          BY <3>1, <4>5, <4>6 DEF Within
      <3> QED
        BY <3>2, <3>3
    <2> QED
      BY <2>2, <2>3, WithinNext
  <1> QED
    BY <1>4, <1>5
-----------------------------------------------------------------------------
(* What other transactions still see *)

\* A step writes docs and leaves everything else as it was.
Kept(docs) ==
  /\ \A p \in Product \ docs : db'.stock[p] = db.stock[p] /\ db'.moves[p] = db.moves[p]
  /\ "counter" \notin docs => db'.counter = db.counter /\ db'.sale = db.sale
  /\ "customer" \notin docs => db'.account = db.account /\ db'.book = db.book
  /\ \A s \in Sold(db) : db'.sale[s] = db.sale[s]
  /\ \A q \in Req, p \in Product :
       db'.return[q].items[p] > 0 /\ Meets(db'.return[q], p, docs) => db'.return[q] = db.return[q]

LEMMA SnapshotKept ==
  ASSUME NEW q \in Req, Snapshot(q), view'[q] = view[q],
         NEW docs, touched'[q] = touched[q] \cup docs, Kept(docs),
         db \in Database, view[q] \in Database
  PROVE  Snapshot(q)'
  <1>1. SnapshotStock(q)'
    BY DEF Snapshot, SnapshotStock, Kept
  <1>2. SnapshotCounter(q)'
    BY DEF Snapshot, SnapshotCounter, Kept
  <1>3. SnapshotCustomer(q)'
    BY DEF Snapshot, SnapshotCustomer, Kept
  <1>4. SnapshotSales(q)'
    <2> SUFFICES ASSUME NEW s \in Sold(view[q]) PROVE db'.sale[s] = view[q].sale[s]
      BY DEF SnapshotSales
    <2>1. db.sale[s] = view[q].sale[s]
      BY DEF Snapshot, SnapshotSales
    <2>2. s \in Sold(db)
      BY <2>1 DEF Sold
    <2> QED
      BY <2>1, <2>2 DEF Kept
  <1>5. SnapshotReturns(q)'
    <2> SUFFICES ASSUME NEW t \in Req, NEW p \in Product, db'.return[t].items[p] > 0,
                        Meets(db'.return[t], p, touched'[q])
                 PROVE  view[q].return[t] = db'.return[t]
      BY DEF SnapshotReturns
    <2>1. Meets(db'.return[t], p, docs) /\ Meets(db'.return[t], p, touched[q])
      BY DEF Meets
    <2>2. db'.return[t] = db.return[t]
      BY <2>1 DEF Kept
    <2> QED
      BY <2>1, <2>2 DEF Snapshot, SnapshotReturns
  <1> QED
    BY <1>1, <1>2, <1>3, <1>4, <1>5 DEF Snapshot

LEMMA CommitKept ==
  ASSUME Typed, NEW r \in Req, Own(r), Open(r), Asked(r),
         NEW docs, Lands(ask[r], db, db', r, docs)
  PROVE  Kept(docs)
  <1> DEFINE a == ask[r]
  <1>1. db \in Database /\ db' \in Database /\ a \in Ask /\ InRange(a)
    BY DEF Typed, Lands, Asked
  <1>2. PICK change \in [Product -> Int] :
          /\ Stocked(db, db', change) /\ Changes(a, change)
          /\ \A p \in Product : change[p] # 0 => p \in docs
    BY DEF Lands
  <1>3. \A p \in Product \ docs : db'.stock[p] = db.stock[p] /\ db'.moves[p] = db.moves[p]
    <2> SUFFICES ASSUME NEW p \in Product \ docs
                 PROVE  db'.stock[p] = db.stock[p] /\ db'.moves[p] = db.moves[p]
      OBVIOUS
    <2>1. change[p] = 0 /\ db.stock[p] \in Int
      BY <1>1, <1>2, Columns DEF Stocks
    <2>2. db'.stock[p] = db.stock[p] + change[p] /\ db'.moves[p] = MovedTo(db, change, p)
      BY <1>2 DEF Stocked
    <2>3. MovedTo(db, change, p) = db.moves[p]
      BY <2>1 DEF MovedTo
    <2> QED
      BY <2>1, <2>2, <2>3
  <1>4. "counter" \notin docs => db'.counter = db.counter /\ db'.sale = db.sale
    BY DEF Lands, SellsNothing
  <1>5. \A s \in Sold(db) : db'.sale[s] = db.sale[s]
    <2>1. db.sale[r] = NoSale
      BY DEF Own, Open
    <2>2. r \notin Sold(db)
      BY <2>1 DEF Sold, NoSale
    <2>3. \A s \in Sold(db) : s \in Req \ {r}
      BY <2>2 DEF Sold
    <2>4. CASE a.op = "checkout"
      <3>1. Sells(a, db, db', r)
        BY <2>4 DEF Lands
      <3> QED
        BY <2>3, <3>1 DEF Sells
    <2>5. CASE a.op # "checkout"
      BY <2>5 DEF Lands, SellsNothing
    <2> QED
      BY <2>4, <2>5
  <1>6. ASSUME NEW q \in Req, NEW p \in Product, db'.return[q].items[p] > 0,
               Meets(db'.return[q], p, docs)
        PROVE  db'.return[q] = db.return[q]
    <2>1. CASE q # r \/ a.op # "return"
      BY <2>1 DEF Lands
    <2>2. CASE q = r /\ a.op = "return"
      <3>1. /\ db'.return[r].items[p] = a.cart[p] /\ db'.return[r].restock = a.restock
            /\ db'.return[r].method = a.method
        BY <2>2 DEF Lands
      <3>2. a.cart \in [Product -> Nat] /\ a.cart[p] > 0
        BY <1>1, <1>6, <2>2, <3>1, StoreAssumption DEF InRange
      <3>3. p \in Managed /\ a.restock => p \in docs
        BY <1>2, <2>2, <3>2 DEF Changes, Restocks
      <3>4. a.method # "cash" => "customer" \in docs
        <4>1. Worth(a.cart) \in Nat /\ a.cart[p] <= Worth(a.cart)
          BY <3>2, WorthType
        <4>2. Worth(a.cart) > 0
          BY <3>2, <4>1
        <4> QED
          BY <2>2, <4>2 DEF Lands
      <3>5. FALSE
        BY <1>6, <2>2, <3>1, <3>3, <3>4 DEF Meets
      <3> QED
        BY <3>5
    <2> QED
      BY <2>1, <2>2
  <1>7. "customer" \notin docs => db'.account = db.account /\ db'.book = db.book
    BY DEF Lands
  <1> QED
    BY <1>3, <1>4, <1>5, <1>6, <1>7 DEF Kept
-----------------------------------------------------------------------------
(* The invariant holds *)

\* A commit that is not refused.
Done(r) == LET e == Outcome(view[r], r) IN
  /\ Writes(view[r], e) \cap touched[r] = {}
  /\ db' = Merged(view[r], e)

LEMMA CommitSteps ==
  ASSUME IInv, NEW r \in Req, Open(r), Done(r)
  PROVE  \E docs : /\ docs = Writes(view[r], Outcome(view[r], r))
                   /\ docs \cap touched[r] = {} /\ Lands(ask[r], db, db', r, docs)
                   /\ Checked(ask[r], db, docs)
  <1>1. Typed /\ Own(r) /\ Snapshot(r) /\ Asked(r) /\ NothingOversold
    BY DEF IInv
  <1> DEFINE docs == Writes(view[r], Outcome(view[r], r))
  <1>2. docs \cap touched[r] = {} /\ Lands(ask[r], db, db', r, docs)
    BY <1>1, CommitLands DEF Done
  <1> HIDE DEF docs
  <1>3. Checked(ask[r], db, docs)
    BY <1>1, <1>2, CommitChecks
  <1> QED
    BY <1>2, <1>3 DEF docs

LEMMA NoAskType == NoAsk \in Ask
  <1>1. Nothing \in [Product -> Int]
    BY DEF Nothing
  <1>2. [credit |-> <<>>, points |-> 0, due |-> 0] \in Money
    <2>1. <<>> \in Seq(Nat \ {0})
      OBVIOUS
    <2> QED
      BY <2>1 DEF Money
  <1> QED
    BY <1>1, <1>2 DEF NoAsk, Ask

\* Parts of the invariant that speak of the database alone.
Sound ==
  /\ NothingOversold /\ MovementsTellStock /\ JournalsTellBalances
  /\ SoldOnce /\ NumberedInARow /\ ReturnedWithinSold /\ ReturnsOfSold

LEMMA SoundKept ==
  ASSUME Sound, db' = db, recounted' = recounted, elsewhere' = elsewhere
  PROVE  Sound'
  <1>1. NothingOversold' /\ MovementsTellStock'
    <2>1. NothingOversold'
      BY OversoldKept DEF Sound, NothingOversold
    <2> QED
      BY <2>1 DEF Sound, MovementsTellStock
  <1>2. JournalsTellBalances'
    BY DEF Sound, JournalsTellBalances
  <1>3. SoldOnce' /\ NumberedInARow' /\ ReturnsOfSold'
    BY DEF Sound, SoldOnce, NumberedInARow, ReturnsOfSold
  <1>4. ReturnedWithinSold'
    BY DEF Sound, ReturnedWithinSold, ReturnsOf
  <1> QED
    BY <1>1, <1>2, <1>3, <1>4 DEF Sound

\* The parts that speak of the sales and the returns, when these stay as they are.
Apart == SoldOnce /\ NumberedInARow /\ ReturnedWithinSold /\ ReturnsOfSold

LEMMA ApartKept ==
  ASSUME Apart, db'.sale = db.sale, db'.return = db.return, db'.counter = db.counter
  PROVE  Apart'
  <1>1. Sold(db') = Sold(db)
    BY DEF Sold
  <1>2. \A s \in Req, p \in Product : Returned(db', s, p) = Returned(db, s, p)
    BY DEF Returned
  <1>3. SoldOnce' /\ NumberedInARow' /\ ReturnsOfSold'
    BY <1>1 DEF Apart, SoldOnce, NumberedInARow, ReturnsOfSold
  <1>4. ReturnedWithinSold'
    BY <1>1 DEF Apart, ReturnedWithinSold, ReturnsOf, Returned
  <1> QED
    BY <1>3, <1>4 DEF Apart

\* What an open request sees of its own, when it is not its step.
LEMMA OthersOwn ==
  ASSUME NEW q \in Req, Own(q), pc'[q] = pc[q], view'[q] = view[q],
         db'.sale[q] = db.sale[q], db'.return[q] = db.return[q]
  PROVE  Own(q)'
  BY DEF Own, Open

LEMMA OthersAsked ==
  ASSUME NEW q \in Req, Asked(q), view'[q] = view[q], ask'[q] = ask[q]
  PROVE  Asked(q)'
  BY DEF Asked

LEMMA SoundIs ==
  /\ Sound => Apart /\ NothingOversold /\ MovementsTellStock /\ JournalsTellBalances
  /\ Apart /\ NothingOversold /\ MovementsTellStock /\ JournalsTellBalances => Sound
  BY DEF Sound, Apart

LEMMA SoundNext ==
  Apart' /\ NothingOversold' /\ MovementsTellStock' /\ JournalsTellBalances' => Sound'
  BY DEF Sound, Apart

\* A request and what it does beside the database.
LEMMA BeginKeeps ==
  ASSUME IInv, NEW r \in Req, pc[r] = "idle", NEW a \in Ask, Begin(r, a), InRange(a),
         a.op = "checkout" => Sellable(db, a) /\ ~KeySold(db, a.key),
         a.op = "adjust" => Adjustable(db, a),
         a.op = "return" => \E s \in Sold(db) : a.of = {s} /\ Returnable(db, s, a)
  PROVE  IInv'
  <1>1. Typed /\ Sound /\ \A q \in Req : Own(q) /\ (Open(q) => Snapshot(q) /\ Asked(q))
    BY DEF IInv, Sound
  <1>2. /\ ask' = [ask EXCEPT ![r] = a] /\ pc' = [pc EXCEPT ![r] = "open"]
        /\ view' = [view EXCEPT ![r] = db] /\ db' = db /\ touched' = touched
        /\ recounted' = recounted /\ elsewhere' = elsewhere
    BY DEF Begin
  <1>3. Typed'
    BY <1>1, <1>2 DEF Typed
  <1>4. Sound'
    BY <1>1, <1>2, SoundKept
  <1>5. /\ view'[r] = db /\ ask'[r] = a /\ pc'[r] = "open"
        /\ \A q \in Req \ {r} : view'[q] = view[q] /\ ask'[q] = ask[q] /\ pc'[q] = pc[q]
    BY <1>1, <1>2 DEF Typed
  <1>6. ASSUME NEW q \in Req PROVE Own(q)' /\ (Open(q)' => Snapshot(q)' /\ Asked(q)')
    <2>1. CASE q = r
      <3>1. db.sale[r] = NoSale /\ db.return[r] = NoReturn
        BY <1>1 DEF Own
      <3>2. Own(r)'
        BY <1>2, <1>5, <3>1 DEF Own
      <3>3. Snapshot(r)'
        BY <1>2, <1>5 DEF Snapshot, SnapshotStock, SnapshotCounter, SnapshotCustomer,
                          SnapshotSales, SnapshotReturns
      <3>4. Asked(r)'
        BY <1>5 DEF Asked
      <3> QED
        BY <2>1, <3>2, <3>3, <3>4
    <2>2. CASE q # r
      <3>1. Own(q)'
        BY <1>1, <1>2, <1>5, <2>2, OthersOwn
      <3>2. ASSUME Open(q)' PROVE Snapshot(q)' /\ Asked(q)'
        <4>1. Open(q)
          BY <1>5, <2>2, <3>2 DEF Open
        <4>2. Asked(q)'
          BY <1>1, <1>5, <2>2, <4>1, OthersAsked
        <4>3. Kept({})
          BY <1>2 DEF Kept
        <4>4. touched'[q] = touched[q] \cup {} /\ db \in Database /\ view[q] \in Database
          BY <1>1, <1>2 DEF Typed
        <4>5. Snapshot(q)'
          BY <1>1, <1>5, <2>2, <4>1, <4>3, <4>4, SnapshotKept
        <4> QED
          BY <4>2, <4>5
      <3> QED
        BY <3>1, <3>2
    <2> QED
      BY <2>1, <2>2
  <1> QED
    BY <1>3, <1>4, <1>6 DEF IInv, Sound

\* A step of r that ends it, and leaves the sales and returns of the others.
LEMMA EndKeeps ==
  ASSUME IInv, NEW r \in Req, NEW docs \in SUBSET Doc, Kept(docs),
         Typed', Sound', pc'[r] = "ok",
         \A q \in Req \ {r} : /\ view'[q] = view[q] /\ ask'[q] = ask[q] /\ pc'[q] = pc[q]
                              /\ Open(q) => touched'[q] = touched[q] \cup docs
                              /\ db'.sale[q] = db.sale[q] /\ db'.return[q] = db.return[q]
  PROVE  IInv'
  <1>1. Typed /\ \A q \in Req : Own(q) /\ (Open(q) => Snapshot(q) /\ Asked(q))
    BY DEF IInv
  <1>2. ASSUME NEW q \in Req PROVE Own(q)' /\ (Open(q)' => Snapshot(q)' /\ Asked(q)')
    <2>1. CASE q = r
      BY <2>1 DEF Own, Open
    <2>2. CASE q # r
      <3>1. Own(q)'
        BY <1>1, <2>2, OthersOwn
      <3>2. ASSUME Open(q)' PROVE Snapshot(q)' /\ Asked(q)'
        <4>1. Open(q)
          BY <2>2, <3>2 DEF Open
        <4>2. Asked(q)'
          BY <1>1, <2>2, <4>1, OthersAsked
        <4>3. touched'[q] = touched[q] \cup docs /\ db \in Database /\ view[q] \in Database
          BY <1>1, <2>2, <4>1 DEF Typed
        <4>4. Snapshot(q)'
          BY <1>1, <2>2, <4>1, <4>3, SnapshotKept
        <4> QED
          BY <4>2, <4>4
      <3> QED
        BY <3>1, <3>2
    <2> QED
      BY <2>1, <2>2
  <1> QED
    BY <1>2 DEF IInv, Sound

LEMMA WritesType ==
  ASSUME NEW d, NEW e
  PROVE  Writes(d, e) \in SUBSET Doc
  BY DEF Writes, Doc

LEMMA CommitKeeps ==
  ASSUME IInv, NEW r \in Req, Commit(r)
  PROVE  IInv'
  <1>1. Typed /\ Sound /\ \A q \in Req : Own(q) /\ (Open(q) => Snapshot(q) /\ Asked(q))
    BY DEF IInv, Sound
  <1> DEFINE e == Outcome(view[r], r)
             docs == Writes(view[r], e)
  <1>2. Open(r) /\ recounted' = recounted /\ elsewhere' = elsewhere
    BY DEF Commit
  <1>3. docs \in SUBSET Doc
    BY WritesType
  <1>4. CASE docs \cap touched[r] = {}
    <2>1. /\ db' = Merged(view[r], e) /\ touched' = [Touch(docs) EXCEPT ![r] = {}]
          /\ Finish(r, "ok")
      BY <1>4 DEF Commit
    <2>2. Done(r)
      BY <1>4, <2>1 DEF Done
    <2>3. docs \cap touched[r] = {} /\ Lands(ask[r], db, db', r, docs) /\ Checked(ask[r], db, docs)
      BY <1>2, <2>2, CommitSteps
    <2> HIDE DEF docs, e
    <2>4. /\ pc' = [pc EXCEPT ![r] = "ok"] /\ view' = [view EXCEPT ![r] = EmptyDb]
          /\ ask' = [ask EXCEPT ![r] = NoAsk]
      BY <2>1 DEF Finish
    <2>5. db' \in Database
      BY <2>3 DEF Lands
    <2>6. Typed'
      <3>1. Touch(docs) \in [Req -> SUBSET Doc]
        BY <1>1, <1>3 DEF Touch, Typed
      <3>2. touched' \in [Req -> SUBSET Doc]
        BY <2>1, <3>1
      <3> QED
        BY <1>1, <1>2, <2>4, <2>5, <3>2, EmptyDbType, NoAskType DEF Typed
    <2>7. /\ db.sale[r] = NoSale /\ db.return[r] = NoReturn /\ r \notin Sold(db)
          /\ Own(r) /\ Snapshot(r) /\ Asked(r)
      <3>1. Own(r) /\ Snapshot(r) /\ Asked(r)
        BY <1>1, <1>2
      <3>2. db.sale[r] = NoSale /\ db.return[r] = NoReturn
        BY <1>2, <3>1 DEF Own, Open
      <3>3. r \notin Sold(db)
        BY <3>2 DEF Sold, NoSale
      <3> QED
        BY <3>1, <3>2, <3>3
    <2>8. /\ SoldOnce' /\ NumberedInARow'
          /\ Sold(db') = IF ask[r].op = "checkout" THEN Sold(db) \cup {r} ELSE Sold(db)
          /\ \A s \in Sold(db) : db'.sale[s] = db.sale[s]
      BY <1>1, <2>3, <2>7, CommitSells DEF Typed, Sound
    <2>9. ReturnedWithinSold' /\ ReturnsOfSold'
      BY <1>1, <1>2, <2>3, <2>7, <2>8, CommitReturns DEF Sound
    <2>10. NothingOversold' /\ MovementsTellStock'
      <3>1. NothingOversold'
        BY <1>1, <2>3, <2>7, CommitOversells DEF Typed, Sound, Asked
      <3>2. MovementsTellStock'
        BY <1>1, <1>2, <2>3, CommitTells DEF Typed, Sound
      <3> QED
        BY <3>1, <3>2
    <2>11. JournalsTellBalances'
      <3>1. \A b \in Account : Booked(db, db', b)
        BY <2>3 DEF Lands
      <3> QED
        BY <1>1, <1>2, <2>5, <3>1, BookedTells DEF Typed, Sound
    <2>12. Sound'
      BY <2>8, <2>9, <2>10, <2>11, SoundNext DEF Apart
    <2>13. Kept(docs)
      BY <1>1, <1>2, <2>3, <2>7, CommitKept
    <2>14. pc'[r] = "ok"
      BY <1>1, <2>4 DEF Typed
    <2>15. ASSUME NEW q \in Req \ {r}
           PROVE  /\ view'[q] = view[q] /\ ask'[q] = ask[q] /\ pc'[q] = pc[q]
                  /\ Open(q) => touched'[q] = touched[q] \cup docs
                  /\ db'.sale[q] = db.sale[q] /\ db'.return[q] = db.return[q]
      <3>1. view'[q] = view[q] /\ ask'[q] = ask[q] /\ pc'[q] = pc[q]
        BY <1>1, <2>4 DEF Typed
      <3>2. Open(q) => touched'[q] = touched[q] \cup docs
        BY <2>1 DEF Touch
      <3>3. db'.return[q] = db.return[q]
        BY <2>3 DEF Lands
      <3>4. db'.sale[q] = db.sale[q]
        <4>1. CASE ask[r].op = "checkout"
          BY <2>3, <4>1 DEF Lands, Sells
        <4>2. CASE ask[r].op # "checkout"
          BY <2>3, <4>2 DEF Lands, SellsNothing
        <4> QED
          BY <4>1, <4>2
      <3> QED
        BY <3>1, <3>2, <3>3, <3>4
    <2> QED
      BY <1>3, <2>6, <2>12, <2>13, <2>14, <2>15, EndKeeps
  <1>5. CASE docs \cap touched[r] # {}
    <2>1. /\ db' = db /\ touched' = [touched EXCEPT ![r] = {}] /\ Finish(r, "conflict")
      BY <1>5 DEF Commit
    <2> HIDE DEF docs, e
    <2>2. /\ pc' = [pc EXCEPT ![r] = "conflict"] /\ view' = [view EXCEPT ![r] = EmptyDb]
          /\ ask' = [ask EXCEPT ![r] = NoAsk]
      BY <2>1 DEF Finish
    <2>3. Typed'
      BY <1>1, <1>2, <2>1, <2>2, EmptyDbType, NoAskType DEF Typed
    <2>4. Sound'
      BY <1>1, <1>2, <2>1, SoundKept
    <2>5. /\ pc'[r] = "conflict"
          /\ \A q \in Req \ {r} : /\ view'[q] = view[q] /\ ask'[q] = ask[q] /\ pc'[q] = pc[q]
                                  /\ touched'[q] = touched[q]
      BY <1>1, <2>1, <2>2 DEF Typed
    <2>6. ASSUME NEW q \in Req PROVE Own(q)' /\ (Open(q)' => Snapshot(q)' /\ Asked(q)')
      <3>1. CASE q = r
        <4>1. db.sale[r] = NoSale /\ db.return[r] = NoReturn
          BY <1>1, <1>2 DEF Own, Open
        <4> QED
          BY <2>1, <2>5, <3>1, <4>1 DEF Own, Open
      <3>2. CASE q # r
        <4>1. Own(q)'
          BY <1>1, <2>1, <2>5, <3>2, OthersOwn
        <4>2. ASSUME Open(q)' PROVE Snapshot(q)' /\ Asked(q)'
          <5>1. Open(q)
            BY <2>5, <3>2, <4>2 DEF Open
          <5>2. Asked(q)'
            BY <1>1, <2>5, <3>2, <5>1, OthersAsked
          <5>3. Kept({})
            BY <2>1 DEF Kept
          <5>4. touched'[q] = touched[q] \cup {} /\ db \in Database /\ view[q] \in Database
            BY <1>1, <2>5, <3>2 DEF Typed
          <5>5. Snapshot(q)'
            BY <1>1, <2>5, <3>2, <5>1, <5>3, <5>4, SnapshotKept
          <5> QED
            BY <5>2, <5>5
        <4> QED
          BY <4>1, <4>2
      <3> QED
        BY <3>1, <3>2
    <2> QED
      BY <2>3, <2>4, <2>6 DEF IInv, Sound
  <1> QED
    BY <1>4, <1>5

\* A writer without a transaction, which sells and returns nothing.
LEMMA WriterKeeps ==
  ASSUME IInv, NEW r \in Req, NEW docs \in SUBSET Doc, touched' = Touch(docs),
         pc' = [pc EXCEPT ![r] = "ok"], view' = view, ask' = ask,
         db' \in Database, db'.sale = db.sale, db'.return = db.return, db'.counter = db.counter,
         Kept(docs), recounted' \subseteq Product, elsewhere' \in Int,
         NothingOversold', MovementsTellStock', JournalsTellBalances'
  PROVE  IInv'
  <1>1. Typed /\ Apart
    BY DEF IInv, Apart
  <1>2. Apart'
    BY <1>1, ApartKept
  <1>3. Sound'
    BY <1>2, SoundNext
  <1>4. Touch(docs) \in [Req -> SUBSET Doc]
    BY <1>1 DEF Touch, Typed
  <1>5. Typed'
    BY <1>1, <1>4 DEF Typed
  <1>6. pc'[r] = "ok"
    BY <1>1 DEF Typed
  <1>7. ASSUME NEW q \in Req \ {r}
        PROVE  /\ view'[q] = view[q] /\ ask'[q] = ask[q] /\ pc'[q] = pc[q]
               /\ Open(q) => touched'[q] = touched[q] \cup docs
               /\ db'.sale[q] = db.sale[q] /\ db'.return[q] = db.return[q]
    <2>1. pc'[q] = pc[q]
      BY <1>1 DEF Typed
    <2>2. Open(q) => touched'[q] = touched[q] \cup docs
      BY DEF Touch
    <2> QED
      BY <2>1, <2>2
  <1> QED
    BY <1>3, <1>5, <1>6, <1>7, EndKeeps

LEMMA UpdateProductKeeps ==
  ASSUME IInv, NEW r \in Req, NEW p \in Product, NEW n \in Recount, UpdateProduct(r, p, n)
  PROVE  IInv'
  <1> DEFINE st == [db.stock EXCEPT ![p] = n]
             d == [db EXCEPT !.stock = st]
  <1>1. Typed /\ NothingOversold /\ MovementsTellStock /\ JournalsTellBalances /\ db \in Database
    BY DEF IInv, Typed
  <1>2. n \in Nat /\ db.stock \in Stocks
    BY <1>1, StoreAssumption, Columns
  <1>3. st \in Stocks /\ st[p] = n /\ \A x \in Product \ {p} : st[x] = db.stock[x]
    BY <1>2 DEF Stocks
  <1>4. db' = d
    BY <1>1, Columns DEF UpdateProduct
  <1> HIDE DEF st
  <1>5. /\ d \in Database /\ d.stock = st /\ d.moves = db.moves /\ d.account = db.account
        /\ d.book = db.book /\ d.counter = db.counter /\ d.sale = db.sale /\ d.return = db.return
    BY <1>1, <1>3, Columns
  <1> HIDE DEF d
  <1>6. /\ touched' = Touch({p}) /\ recounted' = recounted \cup {p} /\ elsewhere' = elsewhere
        /\ pc' = [pc EXCEPT ![r] = "ok"] /\ view' = view /\ ask' = ask
    BY DEF UpdateProduct
  <1>7. NothingOversold'
    <2>1. \A x \in Managed : st[x] >= 0
      BY <1>1, <1>2, <1>3, StoreAssumption DEF NothingOversold
    <2>2. db'.stock = st /\ db'.sale = db.sale /\ db'.account = db.account
      BY <1>4, <1>5
    <2> QED
      BY <1>1, <2>1, <2>2, OversoldKept
  <1>8. MovementsTellStock'
    <2>1. \A x \in Product \ recounted : Tells(db.moves[x], db.stock[x], Opening[x])
      BY <1>1 DEF MovementsTellStock, Tells
    <2>2. \A x \in Product \ recounted' : Tells(db'.moves[x], db'.stock[x], Opening[x])
      BY <1>3, <1>4, <1>5, <1>6, <2>1
    <2> QED
      BY <2>2 DEF MovementsTellStock, Tells
  <1>9. JournalsTellBalances'
    BY <1>1, <1>4, <1>5, <1>6 DEF JournalsTellBalances
  <1>10. Kept({p})
    BY <1>3, <1>4, <1>5 DEF Kept
  <1>11. /\ {p} \in SUBSET Doc /\ recounted' \subseteq Product /\ elsewhere' \in Int
    BY <1>1, <1>6 DEF Doc, Typed
  <1> QED
    BY <1>4, <1>5, <1>6, <1>7, <1>8, <1>9, <1>10, <1>11, WriterKeeps

LEMMA AccountPaymentKeeps ==
  ASSUME IInv, NEW r \in Req, NEW n \in Int, AccountPayment(r, n)
  PROVE  IInv'
  <1>1. Typed /\ NothingOversold /\ MovementsTellStock /\ JournalsTellBalances /\ db \in Database
    BY DEF IInv, Typed
  <1>2. /\ touched' = Touch({"customer"}) /\ recounted' = recounted /\ elsewhere' = elsewhere
        /\ pc' = [pc EXCEPT ![r] = "ok"] /\ view' = view /\ ask' = ask
        /\ db' = Post(db, "balance", -n)
    BY DEF AccountPayment
  <1>3. "balance" \in Account /\ "credit" \in Account \ {"balance"}
        /\ "points" \in Account \ {"balance"} /\ -n \in Int
    BY DEF Account
  <1>4. db' \in Database /\ Posted(db, db', "balance", -n)
    BY <1>1, <1>2, <1>3, PostFields
  <1>5. /\ db'.stock = db.stock /\ db'.moves = db.moves /\ db'.counter = db.counter
        /\ db'.sale = db.sale /\ db'.return = db.return
        /\ db'.account["credit"] = db.account["credit"]
        /\ db'.account["points"] = db.account["points"]
        /\ \A b \in Account : Booked(db, db', b)
    BY <1>3, <1>4 DEF Posted
  <1>6. NothingOversold'
    <2>1. \A p \in Managed : db'.stock[p] >= 0
      BY <1>1, <1>5 DEF NothingOversold
    <2> QED
      BY <1>1, <1>5, <2>1, OversoldKept
  <1>7. MovementsTellStock'
    BY <1>1, <1>2, <1>5 DEF MovementsTellStock
  <1>8. JournalsTellBalances'
    BY <1>1, <1>2, <1>4, <1>5, BookedTells DEF Typed
  <1>9. Kept({"customer"})
    BY <1>5 DEF Kept
  <1>10. {"customer"} \in SUBSET Doc /\ recounted' \subseteq Product /\ elsewhere' \in Int
    BY <1>1, <1>2 DEF Doc, Typed
  <1> QED
    BY <1>2, <1>4, <1>5, <1>6, <1>7, <1>8, <1>9, <1>10, WriterKeeps

LEMMA InvoicePaymentKeeps ==
  ASSUME IInv, NEW r \in Req, NEW n \in Int, InvoicePayment(r, n)
  PROVE  IInv'
  <1> DEFINE ac == [db.account EXCEPT !["balance"] = db.account["balance"] - n]
             d == [db EXCEPT !.account = ac]
  <1>1. Typed /\ NothingOversold /\ MovementsTellStock /\ JournalsTellBalances /\ db \in Database
    BY DEF IInv, Typed
  <1>2. /\ "balance" \in Account /\ "credit" \in Account \ {"balance"}
        /\ "points" \in Account \ {"balance"}
    BY DEF Account
  <1>3. db.account \in Accounts /\ db.book \in Books
    BY <1>1, Columns
  <1>4. /\ ac \in Accounts /\ ac["balance"] = db.account["balance"] - n
        /\ \A b \in Account \ {"balance"} : ac[b] = db.account[b]
    BY <1>2, <1>3 DEF Accounts
  <1>5. db' = d
    BY <1>1, Columns DEF InvoicePayment
  <1> HIDE DEF ac
  <1>6. /\ d \in Database /\ d.account = ac /\ d.stock = db.stock /\ d.moves = db.moves
        /\ d.book = db.book /\ d.counter = db.counter /\ d.sale = db.sale /\ d.return = db.return
    BY <1>1, <1>4, Columns
  <1> HIDE DEF d
  <1>7. /\ touched' = Touch({"customer"}) /\ recounted' = recounted
        /\ elsewhere' = elsewhere - n
        /\ pc' = [pc EXCEPT ![r] = "ok"] /\ view' = view /\ ask' = ask
    BY DEF InvoicePayment
  <1>8. NothingOversold'
    <2>1. \A p \in Managed : db'.stock[p] >= 0
      BY <1>1, <1>5, <1>6 DEF NothingOversold
    <2>2. /\ db'.sale = db.sale /\ db'.account["credit"] = db.account["credit"]
          /\ db'.account["points"] = db.account["points"]
      BY <1>2, <1>4, <1>5, <1>6
    <2> QED
      BY <1>1, <2>1, <2>2, OversoldKept
  <1>9. MovementsTellStock'
    BY <1>1, <1>5, <1>6, <1>7 DEF MovementsTellStock
  <1>10. JournalsTellBalances'
    <2> SUFFICES ASSUME NEW b \in Account
                 PROVE  ac[b] = Funds[b] + (IF b = "balance" THEN elsewhere' ELSE 0)
                                  + Entered(db.book[b])
      BY <1>5, <1>6 DEF JournalsTellBalances
    <2>1. Entered(db.book[b]) \in Int /\ Funds[b] \in Int /\ db.account[b] \in Int
          /\ elsewhere \in Int
      <3>1. db.book[b] \in Seq(Entry)
        BY <1>3 DEF Books
      <3>2. Entered(db.book[b]) \in Int
        BY <3>1, EnteredType
      <3> QED
        BY <1>1, <1>3, <3>2, StoreAssumption DEF Accounts, Account, Typed
    <2>2. db.account[b] = Funds[b] + (IF b = "balance" THEN elsewhere ELSE 0)
                            + Entered(db.book[b])
      BY <1>1 DEF JournalsTellBalances
    <2>3. CASE b = "balance"
      BY <1>4, <1>7, <2>1, <2>2, <2>3
    <2>4. CASE b # "balance"
      BY <1>4, <2>2, <2>4
    <2> QED
      BY <2>3, <2>4
  <1>11. Kept({"customer"})
    BY <1>5, <1>6 DEF Kept
  <1>12. {"customer"} \in SUBSET Doc /\ recounted' \subseteq Product /\ elsewhere' \in Int
    BY <1>1, <1>7 DEF Doc, Typed
  <1> QED
    BY <1>5, <1>6, <1>7, <1>8, <1>9, <1>10, <1>11, <1>12, WriterKeeps

\* The four transactions that may begin.
LEMMA ArriveKeeps ==
  ASSUME IInv, NEW r \in Req, Arrive(r)
  PROVE  IInv'
  <1>1. pc[r] = "idle" /\ Cart \subseteq [Product -> Nat] /\ NoAsk \in Ask
        /\ Tender \subseteq Money /\ db \in Database
    BY StoreAssumption, NoAskType DEF Arrive, Money, IInv, Typed
  <1>2. NoAsk.op = "none" /\ Ask = [op : {"none", "checkout", "return", "purchase", "adjust"},
          cart : [Product -> Int], customer : BOOLEAN, key : Key \cup {NoKey}, tender : Money,
          of : SUBSET Req, restock : BOOLEAN, method : Method \cup {"none"}]
    BY DEF NoAsk, Ask
  <1>3. ASSUME NEW cart \in Cart, NEW customer \in BOOLEAN, NEW tender \in Tender,
               NEW k \in Key \cup {NoKey}, BeginCheckout(r, cart, customer, tender, k)
        PROVE  IInv'
    <2> DEFINE a == [NoAsk EXCEPT !.op = "checkout", !.cart = cart, !.customer = customer,
                                  !.tender = tender, !.key = k]
    <2>1. a \in Ask /\ a.op = "checkout" /\ a.cart = cart /\ a.tender = tender
      <3> DEFINE b == [NoAsk EXCEPT !.op = "checkout", !.cart = cart]
                 c == [b EXCEPT !.customer = customer, !.tender = tender]
      <3>1. cart \in [Product -> Int] /\ tender \in Money
        BY <1>1
      <3>2. b \in Ask /\ b.op = "checkout" /\ b.cart = cart
        BY <1>1, <1>2, <3>1
      <3>3. a = [c EXCEPT !.key = k]
        OBVIOUS
      <3> HIDE DEF a, b
      <3>4. c \in Ask /\ c.op = "checkout" /\ c.cart = cart /\ c.tender = tender
        BY <1>2, <3>1, <3>2
      <3> HIDE DEF c
      <3> QED
        BY <1>2, <3>3, <3>4
    <2>2. ~KeySold(db, a.key) /\ Sellable(db, a) /\ Begin(r, a)
      BY <1>3 DEF BeginCheckout, NoAsk
    <2> HIDE DEF a
    <2>3. tender.points <= Worth(cart)
      BY <2>1, <2>2 DEF Sellable
    <2>4. InRange(a)
      BY <2>1, <2>3 DEF InRange, Priced
    <2> QED
      BY <1>1, <2>1, <2>2, <2>4, BeginKeeps
  <1>4. ASSUME NEW s \in Sold(db), NEW cart \in Cart, NEW restock \in BOOLEAN,
               NEW method \in Method, BeginReturn(r, s, cart, restock, method)
        PROVE  IInv'
    <2> DEFINE a == [NoAsk EXCEPT !.op = "return", !.cart = cart, !.of = {s},
                                  !.restock = restock, !.method = method]
    <2>1. a \in Ask /\ a.op = "return" /\ a.cart = cart /\ a.of = {s} /\ a.method = method
      <3> DEFINE b == [NoAsk EXCEPT !.op = "return", !.cart = cart]
                 c == [b EXCEPT !.of = {s}, !.restock = restock]
      <3>1. cart \in [Product -> Int] /\ {s} \in SUBSET Req
        BY <1>1 DEF Sold
      <3>2. b \in Ask /\ b.op = "return" /\ b.cart = cart
        BY <1>1, <1>2, <3>1
      <3>3. a = [c EXCEPT !.method = method]
        OBVIOUS
      <3> HIDE DEF a, b
      <3>4. c \in Ask /\ c.op = "return" /\ c.cart = cart /\ c.of = {s}
        BY <1>2, <3>1, <3>2
      <3> HIDE DEF c
      <3> QED
        BY <1>2, <3>3, <3>4
    <2>2. Returnable(db, s, a) /\ Begin(r, a)
      BY <1>4 DEF BeginReturn
    <2> HIDE DEF a
    <2>3. InRange(a)
      BY <2>1 DEF InRange
    <2> QED
      BY <1>1, <2>1, <2>2, <2>3, BeginKeeps
  <1>5. ASSUME NEW cart \in Cart, BeginPurchase(r, cart)
        PROVE  IInv'
    <2> DEFINE a == [NoAsk EXCEPT !.op = "purchase", !.cart = cart]
    <2>1. a \in Ask /\ a.op = "purchase" /\ a.cart = cart
      <3>1. cart \in [Product -> Int]
        BY <1>1
      <3> QED
        BY <1>1, <1>2, <3>1
    <2>2. Begin(r, a)
      BY <1>5 DEF BeginPurchase
    <2> HIDE DEF a
    <2>3. InRange(a)
      BY <2>1 DEF InRange
    <2> QED
      BY <1>1, <2>1, <2>2, <2>3, BeginKeeps
  <1>6. ASSUME NEW cart \in Cart, NEW sign \in {1, -1}, BeginAdjust(r, cart, sign)
        PROVE  IInv'
    <2> DEFINE moved == [p \in Product |-> sign * cart[p]]
               a == [NoAsk EXCEPT !.op = "adjust", !.cart = moved]
    <2>1. moved \in [Product -> Int]
      BY <1>1
    <2>2. Adjustable(db, a) /\ Begin(r, a)
      BY <1>6 DEF BeginAdjust
    <2> HIDE DEF moved
    <2>3. a \in Ask /\ a.op = "adjust"
      BY <1>1, <1>2, <2>1
    <2> HIDE DEF a
    <2>4. InRange(a)
      BY <2>3 DEF InRange
    <2> QED
      BY <1>1, <2>2, <2>3, <2>4, BeginKeeps
  <1>7. \A n \in 1..Funds["balance"] : n \in Int
    BY StoreAssumption
  <1> QED
    BY <1>3, <1>4, <1>5, <1>6, <1>7, UpdateProductKeeps, AccountPaymentKeeps,
       InvoicePaymentKeeps DEF Arrive

LEMMA InitHolds == Init => IInv
  <1> SUFFICES ASSUME Init PROVE IInv
    OBVIOUS
  <1>1. /\ db = EmptyDb /\ view = [r \in Req |-> EmptyDb] /\ touched = [r \in Req |-> {}]
        /\ pc = [r \in Req |-> "idle"] /\ ask = [r \in Req |-> NoAsk]
        /\ recounted = {} /\ elsewhere = 0
    BY DEF Init
  <1>2. Typed
    BY <1>1, EmptyDbType, NoAskType DEF Typed
  <1>3. /\ db.stock = Opening /\ db.account = Funds /\ db.counter = 1
        /\ db.sale = [r \in Req |-> NoSale] /\ db.return = [r \in Req |-> NoReturn]
        /\ \A p \in Product : db.moves[p] = <<>>
        /\ \A b \in Account : db.book[b] = <<>>
    BY <1>1 DEF EmptyDb
  <1>4. NothingOversold /\ MovementsTellStock
    <2>1. NothingOversold
      BY <1>3, StoreAssumption DEF NothingOversold
    <2>2. MovementsTellStock
      <3>1. DOMAIN <<>> = {}
        BY EmptySeq
      <3> QED
        BY <1>3, <3>1 DEF MovementsTellStock
    <2> QED
      BY <2>1, <2>2
  <1>5. JournalsTellBalances
    <2> DEFINE f == [n \in DOMAIN <<>> |-> <<>>[n].amount]
    <2>1. f \in [{} -> Int] /\ Entered(<<>>) = SumFunction(f)
      BY EmptySeq DEF Entered
    <2>2. IsFiniteSet({})
      BY FS_EmptySet
    <2> HIDE DEF f
    <2>3. Entered(<<>>) = 0
      BY <2>1, <2>2, TotalNothing
    <2>4. \A b \in Account : Funds[b] \in Int
      BY StoreAssumption DEF Account
    <2> QED
      BY <1>1, <1>3, <2>3, <2>4 DEF JournalsTellBalances
  <1>6. Sold(db) = {}
    BY <1>3 DEF Sold, NoSale
  <1>7. SoldOnce /\ ReturnedWithinSold
    BY <1>6 DEF SoldOnce, ReturnedWithinSold
  <1>8. NumberedInARow
    <2>1. 1..(db.counter - 1) = {}
      BY <1>3
    <2> QED
      BY <1>6, <2>1 DEF NumberedInARow
  <1>9. ReturnsOfSold
    <2>1. NoReturn.of = {}
      BY DEF NoReturn
    <2>2. \A q \in Req : db.return[q].of = {}
      BY <1>3, <2>1
    <2> QED
      BY <2>2 DEF ReturnsOfSold
  <1>10. ASSUME NEW r \in Req PROVE Own(r) /\ ~Open(r)
    BY <1>1, <1>3 DEF Own, Open
  <1> QED
    BY <1>2, <1>4, <1>5, <1>7, <1>8, <1>9, <1>10 DEF IInv

LEMMA StepKeeps == IInv /\ [Next]_vars => IInv'
  <1> SUFFICES ASSUME IInv, [Next]_vars PROVE IInv'
    OBVIOUS
  <1>1. ASSUME NEW r \in Req, Arrive(r) PROVE IInv'
    BY <1>1, ArriveKeeps
  <1>2. ASSUME NEW r \in Req, Commit(r) PROVE IInv'
    BY <1>2, CommitKeeps
  <1>3. CASE UNCHANGED vars
    <2>1. /\ db' = db /\ view' = view /\ touched' = touched /\ pc' = pc /\ ask' = ask
          /\ recounted' = recounted /\ elsewhere' = elsewhere
      BY <1>3 DEF vars
    <2>2. Typed' /\ Sound'
      BY <2>1, SoundKept DEF IInv, Sound, Typed
    <2>3. ASSUME NEW q \in Req PROVE Own(q)' /\ (Open(q)' => Snapshot(q)' /\ Asked(q)')
      <3>1. Own(q) /\ (Open(q) => Snapshot(q) /\ Asked(q))
        BY DEF IInv
      <3>2. Own(q)'
        BY <2>1, <3>1 DEF Own, Open
      <3>3. Open(q)' => Asked(q)'
        BY <2>1, <3>1 DEF Asked, Open
      <3>4. Open(q)' => Snapshot(q)'
        BY <2>1, <3>1 DEF Open, Snapshot, SnapshotStock, SnapshotCounter, SnapshotCustomer,
                          SnapshotSales, SnapshotReturns
      <3> QED
        BY <3>2, <3>3, <3>4
    <2> QED
      BY <2>2, <2>3 DEF IInv, Sound
  <1> QED
    BY <1>1, <1>2, <1>3 DEF Next

\* The invariant holds in every reachable state.
THEOREM Invariance == Spec => []IInv
  BY InitHolds, StepKeeps, PTL DEF Spec

\* Concurrent sales, returns, receipts and adjustments take no more off the
\* shelf, a store credit or points than was there, every product's movements
\* tell its stock, and every journal its balance: no update is lost.
THEOREM StockAndBalancesAlwaysTold == Spec => []StockAndBalancesTold
  <1>1. IInv => StockAndBalancesTold
    BY DEF IInv, StockAndBalancesTold, Typed, TypeOK
  <1> QED
    BY <1>1, Invariance, PTL

\* A clientTransactionId sells once, the numbers of the sales leave no gap, and
\* the returns of a sale that meet on a document take back no more than it sold.
THEOREM SalesStayApart == Spec => []SalesAreApart
  <1>1. IInv => SalesAreApart
    BY DEF IInv, SalesAreApart
  <1> QED
    BY <1>1, Invariance, PTL

\* Nothing but a commit sells.
LEMMA ArriveSellsNothing ==
  ASSUME Typed, NEW r \in Req, Arrive(r)
  PROVE  db'.sale = db.sale
  <1>1. db \in Database /\ "balance" \in Account
    BY DEF Typed, Account
  <1>2. ASSUME NEW a, Begin(r, a) PROVE db'.sale = db.sale
    BY <1>2 DEF Begin
  <1>3. ASSUME NEW p, NEW n, UpdateProduct(r, p, n) PROVE db'.sale = db.sale
    BY <1>1, <1>3, Columns DEF UpdateProduct
  <1>4. ASSUME NEW n \in 1..Funds["balance"], AccountPayment(r, n) PROVE db'.sale = db.sale
    <2>1. -n \in Int
      BY StoreAssumption
    <2> QED
      BY <1>1, <1>4, <2>1, PostFields DEF AccountPayment, Posted
  <1>5. ASSUME NEW n, InvoicePayment(r, n) PROVE db'.sale = db.sale
    BY <1>1, <1>5, Columns DEF InvoicePayment
  <1> QED
    BY <1>2, <1>3, <1>4, <1>5 DEF Arrive, BeginCheckout, BeginReturn, BeginPurchase, BeginAdjust

\* What a sale checked on the snapshot it read still holds of the database it
\* commits to: enough stock, store credit and points, and no sale with its
\* clientTransactionId.
THEOREM SalesStaySerial == Spec => SalesAreSerial
  <1> DEFINE Serial == \A r \in Sold(db') \ Sold(db) :
                         Sellable(db, ask[r]) /\ ~KeySold(db, ask[r].key)
  <1>1. ASSUME IInv, [Next]_vars PROVE [Serial]_vars
    <2>1. Typed
      BY <1>1 DEF IInv
    <2>2. ASSUME NEW r \in Req, Commit(r) PROVE Serial
      <3>1. Open(r)
        BY <2>2 DEF Commit
      <3>2. CASE Done(r)
        <4>1. PICK docs : Lands(ask[r], db, db', r, docs) /\ Checked(ask[r], db, docs)
          BY <1>1, <3>1, <3>2, CommitSteps
        <4>2. db.sale[r] = NoSale
          BY <1>1, <3>1 DEF IInv, Own, Open
        <4>3. r \notin Sold(db)
          BY <4>2 DEF Sold, NoSale
        <4>4. Sold(db') = IF ask[r].op = "checkout" THEN Sold(db) \cup {r} ELSE Sold(db)
          BY <1>1, <2>1, <4>1, <4>3, CommitSells DEF IInv, Typed
        <4>5. CASE ask[r].op = "checkout"
          BY <4>1, <4>4, <4>5 DEF Checked
        <4>6. CASE ask[r].op # "checkout"
          BY <4>4, <4>6
        <4> QED
          BY <4>5, <4>6
      <3>3. CASE ~Done(r)
        <4>1. db' = db
          BY <2>2, <3>3 DEF Commit, Done
        <4> QED
          BY <4>1
      <3> QED
        BY <3>2, <3>3
    <2>3. ASSUME NEW r \in Req, Arrive(r) PROVE Serial
      <3>1. db'.sale = db.sale
        BY <2>1, <2>3, ArriveSellsNothing
      <3>2. Sold(db') = Sold(db)
        BY <3>1 DEF Sold
      <3> QED
        BY <3>2
    <2> HIDE DEF Serial
    <2> QED
      BY <1>1, <2>2, <2>3 DEF Next
  <1>2. IInv /\ [Next]_vars => [Serial]_vars
    BY <1>1
  <1>3. Spec => [][Serial]_vars
    <2> HIDE DEF Serial
    <2> QED
      BY <1>2, Invariance, PTL DEF Spec
  <1> QED
    BY <1>3 DEF SalesAreSerial
=============================================================================
