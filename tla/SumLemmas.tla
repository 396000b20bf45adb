------------------------------ MODULE SumLemmas ------------------------------
(***************************************************************************)
(* Sums of functions over finite sets, as Functions!SumFunctionOnSet folds *)
(* them: what one more element, one changed value or one less adds and     *)
(* takes away, whatever the order the fold takes the elements in.          *)
(***************************************************************************)
EXTENDS Integers, FiniteSets, Functions, FiniteSetTheorems, WellFoundedInduction, TLAPS

\* A set of subsets of a finite set has a member that contains no other member.
LEMMA Smallest ==
  ASSUME NEW S, IsFiniteSet(S), NEW T \in SUBSET (SUBSET S), T # {}
  PROVE  \E m \in T : \A s \in T : s \subseteq m => s = m
<1>1. IsWellFoundedOn(StrictSubsetOrdering(S), SUBSET S)
  BY FS_StrictSubsetOrderingWellFounded, FS_FiniteSubsetsOfFinite
<1>2. PICK m \in T : \A s \in T : ~ (<<s, m>> \in StrictSubsetOrdering(S))
  BY <1>1, WFMin
<1>3. QED
  BY <1>2 DEF StrictSubsetOrdering

\* What SumFunctionOnSet folds: it takes the elements in a fixed order.
Some(s) == CHOOSE x \in s : TRUE
Sums(f, S, it) ==
  it = [s \in SUBSET S |-> IF s = {} THEN 0 ELSE f[Some(s)] + it[s \ {Some(s)}]]

LEMMA SomeIn == \A s : s # {} => Some(s) \in s
BY DEF Some

LEMMA Expand ==
  ASSUME NEW f, NEW S
  PROVE  SumFunctionOnSet(f, S) = (CHOOSE it : Sums(f, S, it))[S]
BY DEF SumFunctionOnSet, FoldFunctionOnSet, MapThenFoldSet, Sums, Some

LEMMA SumsStep ==
  ASSUME NEW f, NEW S, NEW it, Sums(f, S, it)
  PROVE  /\ it[{}] = 0
         /\ \A s \in SUBSET S : s # {} => it[s] = f[Some(s)] + it[s \ {Some(s)}]
BY DEF Sums

\* The fold of a set and of a larger one agree.
LEMMA SumsUnique ==
  ASSUME NEW f, NEW S, IsFiniteSet(S), NEW a, Sums(f, S, a),
         NEW U \in SUBSET S, NEW b, Sums(f, U, b)
  PROVE  a[U] = b[U]
<1> DEFINE T == {s \in SUBSET U : a[s] # b[s]}
<1> SUFFICES ASSUME T # {} PROVE FALSE
  OBVIOUS
<1>1. IsFiniteSet(U)
  BY FS_Subset
<1>2. PICK m \in T : \A s \in T : s \subseteq m => s = m
  <2>1. T \in SUBSET (SUBSET U)
    OBVIOUS
  <2> HIDE DEF T
  <2>2. QED
    BY <1>1, <2>1, Smallest
<1>3. m # {}
  BY SumsStep
<1> DEFINE rest == m \ {Some(m)}
<1>4. rest \in SUBSET U /\ rest \subseteq m /\ rest # m
  BY <1>3, SomeIn
<1>5. a[rest] = b[rest]
  BY <1>2, <1>4
<1>6. a[m] = f[Some(m)] + a[rest] /\ b[m] = f[Some(m)] + b[rest]
  BY <1>3, SumsStep
<1>7. QED
  BY <1>5, <1>6

\* Every finite set can be folded.
LEMMA SumsExist ==
  ASSUME NEW f, NEW S, IsFiniteSet(S)
  PROVE  \E it : Sums(f, S, it)
<1> DEFINE T == {s \in SUBSET S : ~ \E it : Sums(f, s, it)}
<1> SUFFICES ASSUME T # {} PROVE FALSE
  OBVIOUS
<1>1. PICK m \in T : \A s \in T : s \subseteq m => s = m
  <2>1. T \in SUBSET (SUBSET S)
    OBVIOUS
  <2> HIDE DEF T
  <2>2. QED
    BY <2>1, Smallest
<1> DEFINE V(s) == (CHOOSE it : Sums(f, s, it))[s]
           x == Some(m)
           it == [s \in SUBSET m |-> IF s = m THEN IF m = {} THEN 0 ELSE f[x] + V(m \ {x})
                                     ELSE V(s)]
<1>2. \A s \in SUBSET m : s # m => \E i : Sums(f, s, i)
  BY <1>1
<1>3. \A s \in SUBSET m : s # m => Sums(f, s, CHOOSE i : Sums(f, s, i))
  BY <1>2
<1>4. \A s \in SUBSET m : IsFiniteSet(s)
  BY FS_Subset
<1>5. ASSUME NEW s \in SUBSET m, s # m, s # {}
      PROVE  V(s) = f[Some(s)] + V(s \ {Some(s)})
  <2> DEFINE i == CHOOSE j : Sums(f, s, j)
             t == s \ {Some(s)}
             k == CHOOSE j : Sums(f, t, j)
  <2>1. Sums(f, s, i) /\ Sums(f, t, k)
    BY <1>3, <1>5
  <2>2. i[s] = f[Some(s)] + i[t]
    BY <2>1, <1>5, SumsStep
  <2>3. i[t] = k[t]
    BY <2>1, <1>4, SumsUnique
  <2>4. QED
    BY <2>2, <2>3
<1>6. {} # m => V({}) = 0
  <2> DEFINE i == CHOOSE j : Sums(f, {}, j)
  <2>1. CASE {} # m
    <3>1. Sums(f, {}, i)
      BY <2>1, <1>3
    <3>2. QED
      BY <3>1, SumsStep
  <2>2. QED
    BY <2>1
<1> HIDE DEF V
<1>7. \A s \in SUBSET m : it[s] = IF s = {} THEN 0 ELSE f[Some(s)] + it[s \ {Some(s)}]
  BY <1>5, <1>6, SomeIn
<1>8. Sums(f, m, it)
  BY <1>7 DEF Sums
<1>9. QED
  BY <1>8, <1>1
-----------------------------------------------------------------------------
(* What a sum over a finite set is. *)

LEMMA SumEmpty ==
  ASSUME NEW f
  PROVE  SumFunctionOnSet(f, {}) = 0
<1>1. \E it : Sums(f, {}, it)
  BY SumsExist, FS_EmptySet
<1>2. Sums(f, {}, CHOOSE it : Sums(f, {}, it))
  BY <1>1
<1>3. QED
  BY <1>2, SumsStep, Expand

LEMMA SumStep ==
  ASSUME NEW f, NEW S, IsFiniteSet(S), S # {}
  PROVE  SumFunctionOnSet(f, S) = f[Some(S)] + SumFunctionOnSet(f, S \ {Some(S)})
<1> DEFINE U == S \ {Some(S)}
           a == CHOOSE it : Sums(f, S, it)
           b == CHOOSE it : Sums(f, U, it)
<1>1. IsFiniteSet(U) /\ U \in SUBSET S
  BY FS_Subset
<1>2. Sums(f, S, a)
  BY SumsExist
<1>3. Sums(f, U, b)
  BY <1>1, SumsExist
<1>4. a[S] = f[Some(S)] + a[U]
  BY <1>2, SumsStep
<1>5. a[U] = b[U]
  BY <1>1, <1>2, <1>3, SumsUnique
<1>6. SumFunctionOnSet(f, S) = a[S] /\ SumFunctionOnSet(f, U) = b[U]
  BY Expand
<1>7. QED
  BY <1>4, <1>5, <1>6

\* The sums of two functions that agree on the set are equal.
LEMMA SumEqual ==
  ASSUME NEW S, IsFiniteSet(S), NEW f, NEW g, \A x \in S : f[x] = g[x]
  PROVE  SumFunctionOnSet(f, S) = SumFunctionOnSet(g, S)
<1> DEFINE T == {s \in SUBSET S : SumFunctionOnSet(f, s) # SumFunctionOnSet(g, s)}
<1> SUFFICES ASSUME T # {} PROVE FALSE
  OBVIOUS
<1>1. PICK m \in T : \A s \in T : s \subseteq m => s = m
  <2>1. T \in SUBSET (SUBSET S)
    OBVIOUS
  <2> HIDE DEF T
  <2>2. QED
    BY <2>1, Smallest
<1>2. IsFiniteSet(m)
  BY FS_Subset
<1>3. m # {}
  BY SumEmpty
<1> DEFINE rest == m \ {Some(m)}
<1>4. Some(m) \in m
  BY <1>3, SomeIn
<1>5. SumFunctionOnSet(f, rest) = SumFunctionOnSet(g, rest)
  BY <1>1, <1>4
<1>6. f[Some(m)] = g[Some(m)]
  BY <1>4
<1>7. /\ SumFunctionOnSet(f, m) = f[Some(m)] + SumFunctionOnSet(f, rest)
      /\ SumFunctionOnSet(g, m) = g[Some(m)] + SumFunctionOnSet(g, rest)
  BY <1>2, <1>3, SumStep
<1>8. QED
  BY <1>5, <1>6, <1>7

\* A sum of integers is an integer.
LEMMA SumInt ==
  ASSUME NEW S, IsFiniteSet(S), NEW f, \A x \in S : f[x] \in Int
  PROVE  SumFunctionOnSet(f, S) \in Int
<1> DEFINE T == {s \in SUBSET S : SumFunctionOnSet(f, s) \notin Int}
<1> SUFFICES ASSUME T # {} PROVE FALSE
  OBVIOUS
<1>1. PICK m \in T : \A s \in T : s \subseteq m => s = m
  <2>1. T \in SUBSET (SUBSET S)
    OBVIOUS
  <2> HIDE DEF T
  <2>2. QED
    BY <2>1, Smallest
<1>2. IsFiniteSet(m)
  BY FS_Subset
<1>3. m # {}
  BY SumEmpty
<1> DEFINE rest == m \ {Some(m)}
<1>4. Some(m) \in m
  BY <1>3, SomeIn
<1>5. SumFunctionOnSet(f, rest) \in Int
  BY <1>1, <1>4
<1>6. f[Some(m)] \in Int
  BY <1>4
<1>7. SumFunctionOnSet(f, m) = f[Some(m)] + SumFunctionOnSet(f, rest)
  BY <1>2, <1>3, SumStep
<1>8. SumFunctionOnSet(f, m) \in Int
  BY <1>5, <1>6, <1>7
<1>9. QED
  BY <1>8

\* Any element may be taken out of a sum.
LEMMA SumSplit ==
  ASSUME NEW S, IsFiniteSet(S), NEW f, \A x \in S : f[x] \in Int
  PROVE  \A y \in S : SumFunctionOnSet(f, S) = f[y] + SumFunctionOnSet(f, S \ {y})
<1> DEFINE Of(s) == SumFunctionOnSet(f, s)
           T == {s \in SUBSET S : \E y \in s : Of(s) # f[y] + Of(s \ {y})}
<1> SUFFICES ASSUME T # {} PROVE FALSE
  OBVIOUS
<1>1. PICK m \in T : \A s \in T : s \subseteq m => s = m
  <2>1. T \in SUBSET (SUBSET S)
    OBVIOUS
  <2> HIDE DEF T
  <2>2. QED
    BY <2>1, Smallest
<1>2. \A s \in SUBSET S : IsFiniteSet(s) /\ Of(s) \in Int
  <2> TAKE s \in SUBSET S
  <2>1. IsFiniteSet(s)
    BY FS_Subset
  <2>2. QED
    BY <2>1, SumInt
<1>3. PICK y \in m : Of(m) # f[y] + Of(m \ {y})
  OBVIOUS
<1> DEFINE x == Some(m)
           rest == m \ {x}
           other == m \ {y}
           both == rest \ {y}
<1>4. x \in m /\ m \in SUBSET S
  BY <1>3, SomeIn
<1>5. Of(m) = f[x] + Of(rest)
  BY <1>2, <1>3, SumStep
<1>6. x # y
  BY <1>3, <1>5
<1>7. \A s \in SUBSET m : s # m => \A z \in s : Of(s) = f[z] + Of(s \ {z})
  BY <1>1
<1>8. Of(rest) = f[y] + Of(both)
  BY <1>3, <1>4, <1>6, <1>7
<1>9. Of(other) = f[x] + Of(both)
  <2>1. Of(other) = f[x] + Of(other \ {x})
    BY <1>3, <1>4, <1>6, <1>7
  <2>2. other \ {x} = both
    OBVIOUS
  <2>3. QED
    BY <2>1, <2>2
<1>10. f[x] \in Int /\ f[y] \in Int /\ Of(both) \in Int
  BY <1>2, <1>3, <1>4
<1> HIDE DEF Of
<1>11. QED
  BY <1>3, <1>5, <1>8, <1>9, <1>10

\* When one element changes, the sum changes by the difference.
LEMMA SumChange ==
  ASSUME NEW S, IsFiniteSet(S), NEW f, NEW g, NEW y \in S,
         \A x \in S : f[x] \in Int /\ g[x] \in Int,
         \A x \in S \ {y} : f[x] = g[x]
  PROVE  SumFunctionOnSet(g, S) = SumFunctionOnSet(f, S) + (g[y] - f[y])
<1> DEFINE rest == S \ {y}
<1>1. IsFiniteSet(rest)
  BY FS_Subset
<1>2. SumFunctionOnSet(f, rest) = SumFunctionOnSet(g, rest)
  BY <1>1, SumEqual
<1>3. SumFunctionOnSet(f, rest) \in Int
  BY <1>1, SumInt
<1>4. SumFunctionOnSet(f, S) = f[y] + SumFunctionOnSet(f, rest)
  BY SumSplit
<1>5. SumFunctionOnSet(g, S) = g[y] + SumFunctionOnSet(g, rest)
  BY SumSplit
<1>6. QED
  BY <1>2, <1>3, <1>4, <1>5

\* An element may be added to a sum.
LEMMA SumAdd ==
  ASSUME NEW S, IsFiniteSet(S), NEW f, NEW y, y \notin S,
         \A x \in S \cup {y} : f[x] \in Int
  PROVE  SumFunctionOnSet(f, S \cup {y}) = f[y] + SumFunctionOnSet(f, S)
<1> DEFINE all == S \cup {y}
<1>1. IsFiniteSet(all)
  BY FS_AddElement
<1>2. all \ {y} = S
  OBVIOUS
<1>3. SumFunctionOnSet(f, all) = f[y] + SumFunctionOnSet(f, all \ {y})
  BY <1>1, SumSplit
<1>4. QED
  BY <1>2, <1>3

\* A sum of natural numbers is one, and each of them is at most the sum.
LEMMA SumNat ==
  ASSUME NEW S, IsFiniteSet(S), NEW f, \A x \in S : f[x] \in Nat
  PROVE  /\ SumFunctionOnSet(f, S) \in Nat
         /\ \A x \in S : f[x] <= SumFunctionOnSet(f, S)
<1> DEFINE T == {s \in SUBSET S : SumFunctionOnSet(f, s) \notin Nat}
<1>1. ASSUME T # {} PROVE FALSE
  <2>1. PICK m \in T : \A s \in T : s \subseteq m => s = m
    <3>1. T \in SUBSET (SUBSET S)
      OBVIOUS
    <3> HIDE DEF T
    <3>2. QED
      BY <1>1, <3>1, Smallest
  <2>2. IsFiniteSet(m)
    BY FS_Subset
  <2>3. m # {}
    BY SumEmpty
  <2> DEFINE rest == m \ {Some(m)}
  <2>4. Some(m) \in m
    BY <2>3, SomeIn
  <2>5. SumFunctionOnSet(f, rest) \in Nat
    BY <2>1, <2>4
  <2>6. SumFunctionOnSet(f, m) = f[Some(m)] + SumFunctionOnSet(f, rest)
    BY <2>2, <2>3, SumStep
  <2>7. SumFunctionOnSet(f, m) \in Nat
    BY <2>4, <2>5, <2>6
  <2>8. QED
    BY <2>7
<1>2. \A s \in SUBSET S : SumFunctionOnSet(f, s) \in Nat
  BY <1>1
<1>3. \A x \in S : SumFunctionOnSet(f, S) = f[x] + SumFunctionOnSet(f, S \ {x})
  BY SumSplit
<1>4. \A x \in S : f[x] <= SumFunctionOnSet(f, S)
  <2> TAKE x \in S
  <2> DEFINE rest == SumFunctionOnSet(f, S \ {x})
  <2>1. rest \in Nat
    BY <1>2
  <2>2. SumFunctionOnSet(f, S) = f[x] + rest
    BY <1>3
  <2> HIDE DEF rest
  <2>3. QED
    BY <2>1, <2>2
<1>5. QED
  BY <1>2, <1>4

\* The sum of the sums of two functions is the sum of their values.
LEMMA SumPlus ==
  ASSUME NEW S, IsFiniteSet(S), NEW f, NEW g, NEW h,
         \A x \in S : f[x] \in Int /\ g[x] \in Int /\ h[x] = f[x] + g[x]
  PROVE  SumFunctionOnSet(h, S) = SumFunctionOnSet(f, S) + SumFunctionOnSet(g, S)
<1> DEFINE F(s) == SumFunctionOnSet(f, s)
           G(s) == SumFunctionOnSet(g, s)
           H(s) == SumFunctionOnSet(h, s)
           T == {s \in SUBSET S : H(s) # F(s) + G(s)}
<1> SUFFICES ASSUME T # {} PROVE FALSE
  OBVIOUS
<1>1. PICK m \in T : \A s \in T : s \subseteq m => s = m
  <2>1. T \in SUBSET (SUBSET S)
    OBVIOUS
  <2> HIDE DEF T
  <2>2. QED
    BY <2>1, Smallest
<1>2. IsFiniteSet(m)
  BY FS_Subset
<1>3. m # {}
  <2>1. F({}) = 0 /\ G({}) = 0 /\ H({}) = 0
    BY SumEmpty
  <2>2. H({}) = F({}) + G({})
    BY <2>1
  <2>3. QED
    BY <2>2
<1> DEFINE x == Some(m)
           rest == m \ {x}
<1>4. x \in m
  BY <1>3, SomeIn
<1>5. H(rest) = F(rest) + G(rest)
  BY <1>1, <1>4
<1>6. f[x] \in Int /\ g[x] \in Int /\ h[x] = f[x] + g[x]
  BY <1>4
<1>7. F(rest) \in Int /\ G(rest) \in Int
  <2>1. IsFiniteSet(rest)
    BY <1>2, FS_Subset
  <2>2. QED
    BY <2>1, SumInt
<1>8. F(m) = f[x] + F(rest) /\ G(m) = g[x] + G(rest) /\ H(m) = h[x] + H(rest)
  BY <1>2, <1>3, SumStep
<1>9. H(m) = F(m) + G(m)
  <2> HIDE DEF F, G, H, T, x, rest
  <2>1. QED
    BY <1>5, <1>6, <1>7, <1>8
<1>10. QED
  BY <1>9
-----------------------------------------------------------------------------
(* The same for the sum of all values of a function. *)

LEMMA TotalInt ==
  ASSUME NEW S, IsFiniteSet(S), NEW f \in [S -> Int]
  PROVE  SumFunction(f) \in Int
BY SumInt DEF SumFunction

LEMMA TotalChange ==
  ASSUME NEW S, IsFiniteSet(S), NEW f \in [S -> Int], NEW g \in [S -> Int],
         NEW y \in S, \A x \in S \ {y} : f[x] = g[x]
  PROVE  SumFunction(g) = SumFunction(f) + (g[y] - f[y])
<1>1. DOMAIN f = S /\ DOMAIN g = S
  OBVIOUS
<1>2. SumFunctionOnSet(g, S) = SumFunctionOnSet(f, S) + (g[y] - f[y])
  BY SumChange
<1>3. QED
  BY <1>1, <1>2 DEF SumFunction

LEMMA TotalPlus ==
  ASSUME NEW S, IsFiniteSet(S), NEW f \in [S -> Int], NEW g \in [S -> Int],
         NEW h \in [S -> Int], \A x \in S : h[x] = f[x] + g[x]
  PROVE  SumFunction(h) = SumFunction(f) + SumFunction(g)
<1>1. DOMAIN f = S /\ DOMAIN g = S /\ DOMAIN h = S
  OBVIOUS
<1>2. SumFunctionOnSet(h, S) = SumFunctionOnSet(f, S) + SumFunctionOnSet(g, S)
  BY SumPlus
<1>3. QED
  BY <1>1, <1>2 DEF SumFunction

LEMMA TotalNothing ==
  ASSUME NEW S, IsFiniteSet(S), NEW f \in [S -> Int], \A x \in S : f[x] = 0
  PROVE  SumFunction(f) = 0
<1> DEFINE sum == SumFunction(f)
<1>1. sum \in Int
  BY TotalInt
<1>2. sum = sum + sum
  BY TotalPlus
<1> HIDE DEF sum
<1>3. sum = 0
  BY <1>1, <1>2
<1>4. QED
  BY <1>3 DEF sum

LEMMA TotalNat ==
  ASSUME NEW S, IsFiniteSet(S), NEW f \in [S -> Nat]
  PROVE  SumFunction(f) \in Nat /\ \A x \in S : f[x] <= SumFunction(f)
<1>1. DOMAIN f = S
  OBVIOUS
<1>2. /\ SumFunctionOnSet(f, S) \in Nat
      /\ \A x \in S : f[x] <= SumFunctionOnSet(f, S)
  BY SumNat
<1>3. QED
  BY <1>1, <1>2 DEF SumFunction

\* No value is greater, and neither is the sum.
LEMMA TotalLeq ==
  ASSUME NEW S, IsFiniteSet(S), NEW f \in [S -> Int], NEW g \in [S -> Int],
         \A x \in S : f[x] <= g[x]
  PROVE  SumFunction(f) <= SumFunction(g)
<1> DEFINE h == [x \in S |-> g[x] - f[x]]
<1>1. h \in [S -> Nat] /\ h \in [S -> Int] /\ \A x \in S : g[x] = f[x] + h[x]
  OBVIOUS
<1> HIDE DEF h
<1>2. SumFunction(g) = SumFunction(f) + SumFunction(h)
  BY <1>1, TotalPlus
<1>3. SumFunction(h) \in Nat /\ SumFunction(f) \in Int
  BY <1>1, TotalNat, TotalInt
<1>4. QED
  BY <1>2, <1>3

\* One more value adds itself.
LEMMA TotalMore ==
  ASSUME NEW S, IsFiniteSet(S), NEW y, y \notin S, NEW f \in [S -> Int],
         NEW T, T = S \cup {y}, NEW g \in [T -> Int], \A x \in S : g[x] = f[x]
  PROVE  SumFunction(g) = SumFunction(f) + g[y]
<1>1. DOMAIN f = S /\ DOMAIN g = T /\ \A x \in S \cup {y} : g[x] \in Int
  OBVIOUS
<1>2. SumFunctionOnSet(g, S \cup {y}) = g[y] + SumFunctionOnSet(g, S)
  BY <1>1, SumAdd
<1>3. SumFunctionOnSet(g, S) = SumFunctionOnSet(f, S)
  BY SumEqual
<1>4. SumFunction(f) \in Int /\ g[y] \in Int
  BY <1>1, TotalInt
<1>5. SumFunction(g) = g[y] + SumFunction(f)
  BY <1>1, <1>2, <1>3 DEF SumFunction
<1>6. QED
  BY <1>4, <1>5

\* The same for lists.
LEMMA TotalAppended ==
  ASSUME NEW n \in Nat, NEW f \in [1..n -> Int], NEW g \in [1..(n + 1) -> Int],
         \A x \in 1..n : g[x] = f[x]
  PROVE  SumFunction(g) = SumFunction(f) + g[n + 1]
<1> DEFINE S == 1..n
           y == n + 1
<1>1. /\ IsFiniteSet(S) /\ DOMAIN f = S /\ DOMAIN g = 1..(n + 1)
      /\ y \notin S /\ 1..(n + 1) = S \cup {y}
      /\ \A x \in S : f[x] \in Int /\ g[x] = f[x]
      /\ g[y] \in Int
  <2>1. IsFiniteSet(1..n)
    BY FS_Interval
  <2>2. QED
    BY <2>1
<1> HIDE DEF S, y
<1>2. SumFunctionOnSet(g, S \cup {y}) = g[y] + SumFunctionOnSet(g, S)
  <2>1. \A x \in S \cup {y} : g[x] \in Int
    BY <1>1
  <2>2. QED
    BY <1>1, <2>1, SumAdd
<1>3. SumFunctionOnSet(g, S) = SumFunctionOnSet(f, S)
  BY <1>1, SumEqual
<1>4. SumFunctionOnSet(f, S) \in Int
  BY <1>1, SumInt
<1>5. SumFunction(g) = g[y] + SumFunction(f)
  BY <1>1, <1>2, <1>3 DEF SumFunction
<1>6. SumFunction(g) = SumFunction(f) + g[y]
  BY <1>1, <1>4, <1>5 DEF SumFunction
<1>7. QED
  BY <1>6 DEF y

\* The sum of some values is that of all, those left out counted as nothing.
LEMMA TotalWithin ==
  ASSUME NEW S, IsFiniteSet(S), NEW U \in SUBSET S, NEW f \in [U -> Int]
  PROVE  SumFunction(f) = SumFunction([x \in S |-> IF x \in U THEN f[x] ELSE 0])
<1> DEFINE In(s) == [x \in S |-> IF x \in s THEN f[x] ELSE 0]
           T == {s \in SUBSET U : SumFunctionOnSet(f, s) # SumFunction(In(s))}
<1>0. IsFiniteSet(U) /\ DOMAIN f = U
  BY FS_Subset
<1>1. ASSUME T # {} PROVE FALSE
  <2>1. PICK m \in T : \A s \in T : s \subseteq m => s = m
    <3>1. T \in SUBSET (SUBSET U)
      OBVIOUS
    <3> HIDE DEF T
    <3>2. QED
      BY <1>0, <1>1, <3>1, Smallest
  <2>2. \A s \in SUBSET U : In(s) \in [S -> Int]
    OBVIOUS
  <2>3. m # {}
    <3>1. SumFunction(In({})) = 0
      <4>1. In({}) \in [S -> Int] /\ \A x \in S : In({})[x] = 0
        OBVIOUS
      <4> HIDE DEF In
      <4>2. QED
        BY <4>1, TotalNothing
    <3>2. SumFunctionOnSet(f, {}) = 0
      BY SumEmpty
    <3>3. QED
      BY <3>1, <3>2
  <2>4. PICK y : y \in m
    BY <2>3
  <2> DEFINE rest == m \ {y}
  <2>5. rest \in SUBSET U /\ rest \subseteq m /\ rest # m /\ m \in SUBSET U /\ y \in S /\ y \in U
    BY <2>4
  <2>6. SumFunctionOnSet(f, rest) = SumFunction(In(rest))
    BY <2>1, <2>5
  <2>7. SumFunctionOnSet(f, m) = f[y] + SumFunctionOnSet(f, rest)
    <3>1. IsFiniteSet(m) /\ \A x \in m : f[x] \in Int
      BY <1>0, <2>5, FS_Subset
    <3>2. QED
      BY <2>4, <3>1, SumSplit
  <2>8. SumFunction(In(m)) = SumFunction(In(rest)) + f[y]
    <3>1. /\ In(m) \in [S -> Int] /\ In(rest) \in [S -> Int]
          /\ In(m)[y] = f[y] /\ In(rest)[y] = 0 /\ f[y] \in Int
          /\ \A x \in S \ {y} : In(rest)[x] = In(m)[x]
      BY <2>2, <2>4, <2>5
    <3> HIDE DEF In, rest
    <3>2. SumFunction(In(m)) = SumFunction(In(rest)) + (In(m)[y] - In(rest)[y])
      BY <2>5, <3>1, TotalChange
    <3>3. QED
      BY <3>1, <3>2
  <2>9. SumFunction(In(rest)) \in Int /\ f[y] \in Int
    <3>1. In(rest) \in [S -> Int] /\ f[y] \in Int
      BY <2>2, <2>5
    <3> HIDE DEF In
    <3>2. QED
      BY <3>1, TotalInt
  <2> HIDE DEF In, rest
  <2>10. SumFunctionOnSet(f, m) = SumFunction(In(m))
    BY <2>6, <2>7, <2>8, <2>9
  <2>11. QED
    BY <2>10
<1>2. SumFunctionOnSet(f, U) = SumFunction(In(U))
  BY <1>1
<1>3. QED
  BY <1>0, <1>2 DEF SumFunction

\* What is summed one by one may be summed place by place.
LEMMA TotalExchange ==
  ASSUME NEW S, IsFiniteSet(S), NEW N, IsFiniteSet(N), NEW at \in [N -> S], NEW f \in [N -> Int]
  PROVE  SumFunction(f) =
           SumFunction([s \in S |-> SumFunction([n \in N |-> IF at[n] = s THEN f[n] ELSE 0])])
<1> DEFINE At(s) == [n \in N |-> IF at[n] = s THEN f[n] ELSE 0]
           In(U) == [n \in N |-> IF at[n] \in U THEN f[n] ELSE 0]
           g == [s \in S |-> SumFunction(At(s))]
           T == {U \in SUBSET S : SumFunction(In(U)) # SumFunctionOnSet(g, U)}
<1>1. /\ \A s \in S : At(s) \in [N -> Int]
      /\ \A U \in SUBSET S : In(U) \in [N -> Int]
  OBVIOUS
<1>2. \A s \in S : SumFunction(At(s)) \in Int
  <2> HIDE DEF At
  <2>1. QED
    BY <1>1, TotalInt
<1>3. \A s \in S : g[s] = SumFunction(At(s)) /\ g[s] \in Int
  BY <1>2
<1>4. \A U \in SUBSET S, y \in S : y \in U =>
        \A n \in N : In(U)[n] = In(U \ {y})[n] + At(y)[n]
  OBVIOUS
<1>5. \A n \in N : In({})[n] = 0
  OBVIOUS
<1>6. In(S) = f
  OBVIOUS
<1>7. DOMAIN g = S
  OBVIOUS
<1>8. ASSUME T # {} PROVE FALSE
  <2>1. PICK m \in T : \A s \in T : s \subseteq m => s = m
    <3>1. T \in SUBSET (SUBSET S)
      OBVIOUS
    <3> HIDE DEF T
    <3>2. QED
      BY <1>8, <3>1, Smallest
  <2> HIDE DEF In, At, g
  <2>2. m # {}
    <3>1. SumFunction(In({})) = 0
      BY <1>1, <1>5, TotalNothing
    <3>2. SumFunctionOnSet(g, {}) = 0
      BY SumEmpty
    <3>3. QED
      BY <3>1, <3>2
  <2>3. PICK y : y \in m
    BY <2>2
  <2> DEFINE rest == m \ {y}
  <2>4. rest \in SUBSET S /\ rest \subseteq m /\ rest # m /\ m \in SUBSET S /\ y \in S
    BY <2>3
  <2>5. SumFunction(In(rest)) = SumFunctionOnSet(g, rest)
    BY <2>1, <2>4
  <2>6. SumFunctionOnSet(g, m) = g[y] + SumFunctionOnSet(g, rest)
    <3>1. IsFiniteSet(m) /\ \A x \in m : g[x] \in Int
      BY <1>3, <2>4, FS_Subset
    <3>2. QED
      BY <2>3, <3>1, SumSplit
  <2>7. SumFunction(In(m)) = SumFunction(In(rest)) + SumFunction(At(y))
    <3>1. /\ In(m) \in [N -> Int] /\ In(rest) \in [N -> Int] /\ At(y) \in [N -> Int]
          /\ \A n \in N : In(m)[n] = In(rest)[n] + At(y)[n]
      BY <1>1, <1>4, <2>3, <2>4
    <3> HIDE DEF rest
    <3>2. QED
      BY <3>1, TotalPlus
  <2>8. SumFunction(In(rest)) \in Int
    BY <1>1, <2>4, TotalInt
  <2> HIDE DEF rest
  <2>9. SumFunction(In(m)) = SumFunctionOnSet(g, m)
    BY <1>3, <2>4, <2>5, <2>6, <2>7, <2>8
  <2>10. QED
    BY <2>9
<1>9. SumFunction(In(S)) = SumFunctionOnSet(g, S)
  BY <1>8
<1>10. SumFunction(f) = SumFunction(g)
  BY <1>6, <1>7, <1>9 DEF SumFunction
<1>11. QED
  BY <1>10

\* A value taken so many times, and one that is between so many times two others.
Times(a, v) == a * v
Bounded(k, lo, v, hi) == k * lo <= v /\ v <= k * hi

\* The sum of values each taken a times is a times the sum.
LEMMA TotalTimes ==
  ASSUME NEW S, IsFiniteSet(S), NEW f \in [S -> Int], NEW h \in [S -> Int],
         NEW a \in Int, \A x \in S : h[x] = Times(a, f[x])
  PROVE  SumFunction(h) = Times(a, SumFunction(f))
<1> DEFINE F(s) == SumFunctionOnSet(f, s)
           H(s) == SumFunctionOnSet(h, s)
           T == {s \in SUBSET S : H(s) # a * F(s)}
<1>1. ASSUME T # {} PROVE FALSE
  <2>1. PICK m \in T : \A s \in T : s \subseteq m => s = m
    <3>1. T \in SUBSET (SUBSET S)
      OBVIOUS
    <3> HIDE DEF T
    <3>2. QED
      BY <1>1, <3>1, Smallest
  <2>2. IsFiniteSet(m) /\ m \in SUBSET S
    BY FS_Subset
  <2>3. m # {}
    <3>1. F({}) = 0 /\ H({}) = 0
      BY SumEmpty
    <3>2. H({}) = a * F({})
      BY <3>1
    <3>3. QED
      BY <3>2
  <2> DEFINE x == Some(m)
             rest == m \ {x}
  <2>4. x \in m
    BY <2>3, SomeIn
  <2>5. H(rest) = a * F(rest)
    BY <2>1, <2>4
  <2>6. f[x] \in Int /\ h[x] = a * f[x]
    BY <2>2, <2>4 DEF Times
  <2>7. F(rest) \in Int
    <3>1. IsFiniteSet(rest) /\ \A y \in rest : f[y] \in Int
      BY <2>2, FS_Subset
    <3>2. QED
      BY <3>1, SumInt
  <2>8. F(m) = f[x] + F(rest) /\ H(m) = h[x] + H(rest)
    BY <2>2, <2>3, SumStep
  <2>9. H(m) = a * F(m)
    <3> HIDE DEF F, H, T, x, rest
    <3>1. a * (f[x] + F(rest)) = a * f[x] + a * F(rest)
      BY <2>6, <2>7
    <3>2. QED
      BY <2>5, <2>6, <2>7, <2>8, <3>1
  <2>10. QED
    BY <2>9
<1>2. H(S) = a * F(S)
  BY <1>1
<1>3. DOMAIN f = S /\ DOMAIN h = S
  OBVIOUS
<1>4. QED
  BY <1>2, <1>3 DEF SumFunction, Times

\* A sum of values that are each at least lo and at most hi.
LEMMA TotalBounds ==
  ASSUME NEW S, IsFiniteSet(S), NEW f \in [S -> Int], NEW lo \in Int, NEW hi \in Int,
         \A x \in S : Bounded(1, lo, f[x], hi)
  PROVE  Bounded(Cardinality(S), lo, SumFunction(f), hi)
<1> DEFINE F(s) == SumFunctionOnSet(f, s)
           C(s) == Cardinality(s)
           T == {s \in SUBSET S : ~(C(s) * lo <= F(s) /\ F(s) <= C(s) * hi)}
<1>1. ASSUME T # {} PROVE FALSE
  <2>1. PICK m \in T : \A s \in T : s \subseteq m => s = m
    <3>1. T \in SUBSET (SUBSET S)
      OBVIOUS
    <3> HIDE DEF T
    <3>2. QED
      BY <1>1, <3>1, Smallest
  <2>2. IsFiniteSet(m) /\ m \in SUBSET S
    BY FS_Subset
  <2>3. m # {}
    <3>1. F({}) = 0 /\ C({}) = 0
      BY SumEmpty, FS_EmptySet
    <3>2. C({}) * lo <= F({}) /\ F({}) <= C({}) * hi
      BY <3>1
    <3>3. QED
      BY <3>2
  <2> DEFINE x == Some(m)
             rest == m \ {x}
  <2>4. x \in m
    BY <2>3, SomeIn
  <2>5. C(rest) * lo <= F(rest) /\ F(rest) <= C(rest) * hi
    BY <2>1, <2>4
  <2>6. f[x] \in Int /\ lo <= f[x] /\ f[x] <= hi
    BY <2>2, <2>4 DEF Bounded
  <2>7. F(rest) \in Int
    <3>1. IsFiniteSet(rest) /\ \A y \in rest : f[y] \in Int
      BY <2>2, FS_Subset
    <3>2. QED
      BY <3>1, SumInt
  <2>8. F(m) = f[x] + F(rest)
    BY <2>2, <2>3, SumStep
  <2>9. C(m) = C(rest) + 1 /\ C(rest) \in Nat
    <3>1. C(rest) = C(m) - 1 /\ C(m) \in Nat
      BY <2>2, <2>4, FS_RemoveElement, FS_CardinalityType
    <3>2. IsFiniteSet(rest)
      BY <2>2, FS_Subset
    <3>3. C(rest) \in Nat
      BY <3>2, FS_CardinalityType
    <3>4. QED
      BY <3>1, <3>3
  <2>10. C(m) * lo <= F(m) /\ F(m) <= C(m) * hi
    <3> HIDE DEF F, C, T, x, rest
    <3> DEFINE k == C(rest)
               p == k * lo
               q == k * hi
    <3>1. /\ (k + 1) * lo = p + lo /\ p \in Int
          /\ (k + 1) * hi = q + hi /\ q \in Int
      <4>1. k \in Nat
        BY <2>9
      <4> HIDE DEF k
      <4>2. QED
        BY <4>1
    <3>2. C(m) = k + 1 /\ p <= F(rest) /\ F(rest) <= q
      BY <2>5, <2>9
    <3>3. C(m) * lo = p + lo /\ C(m) * hi = q + hi
      BY <3>1, <3>2
    <3> HIDE DEF p, q, k
    <3>4. QED
      BY <2>6, <2>7, <2>8, <3>1, <3>2, <3>3
  <2>11. QED
    BY <2>10
<1>2. C(S) * lo <= F(S) /\ F(S) <= C(S) * hi
  BY <1>1
<1>3. DOMAIN f = S
  OBVIOUS
<1>4. QED
  BY <1>2, <1>3 DEF SumFunction, Bounded

\* All but one of the values are at least nothing: the sum is at least that one.
LEMMA TotalBut ==
  ASSUME NEW S, IsFiniteSet(S), NEW f \in [S -> Int], NEW y \in S, \A x \in S \ {y} : f[x] >= 0
  PROVE  SumFunction(f) >= f[y]
<1> DEFINE z == [x \in S |-> 0]
           g == [x \in S |-> IF x = y THEN f[y] ELSE 0]
<1>1. /\ z \in [S -> Int] /\ g \in [S -> Int] /\ g[y] = f[y] /\ z[y] = 0
      /\ \A x \in S \ {y} : z[x] = g[x]
      /\ \A x \in S : z[x] = 0 /\ g[x] <= f[x]
  OBVIOUS
<1> HIDE DEF z, g
<1>2. SumFunction(z) = 0
  BY <1>1, TotalNothing
<1>3. SumFunction(g) = SumFunction(z) + (g[y] - z[y])
  BY <1>1, TotalChange
<1>4. SumFunction(g) <= SumFunction(f)
  BY <1>1, TotalLeq
<1>5. SumFunction(f) \in Int
  BY TotalInt
<1>6. f[y] \in Int
  OBVIOUS
<1>7. QED
  BY <1>1, <1>2, <1>3, <1>4, <1>5, <1>6

\* A finite set of integers that is not empty has a greatest member.
LEMMA Highest ==
  ASSUME NEW S, IsFiniteSet(S), S # {}, \A x \in S : x \in Int
  PROVE  \E x \in S : \A y \in S : x >= y
<1>0. ASSUME NEW T \in SUBSET (SUBSET S), T # {}
      PROVE  \E m \in T : \A s \in T : s \subseteq m => s = m
  BY <1>0, Smallest
<1> DEFINE Above(x) == {y \in S : y > x}
           T == {Above(x) : x \in S}
<1>1. PICK m \in T : \A s \in T : s \subseteq m => s = m
  <2>1. T \in SUBSET (SUBSET S) /\ T # {}
    OBVIOUS
  <2> HIDE DEF T
  <2>2. QED
    BY <1>0, <2>1
<1>2. PICK x \in S : m = Above(x)
  OBVIOUS
<1>3. SUFFICES ASSUME NEW y \in S, ~(x >= y) PROVE FALSE
  OBVIOUS
<1>4. Above(y) \subseteq m /\ y \in m /\ y \notin Above(y) /\ Above(y) \in T
  <2>1. x \in Int /\ y \in Int /\ \A z \in S : z \in Int
    OBVIOUS
  <2>2. y > x /\ ~(y > y) /\ \A z \in Int : z > y => z > x
    BY <1>3, <2>1
  <2>3. \A z \in S : z > y => z > x
    BY <2>1, <2>2
  <2>4. QED
    BY <1>2, <2>2, <2>3
<1>5. QED
  BY <1>1, <1>2, <1>4

\* The values on some places, one more, and nothing anywhere else.
LEMMA TotalBeside ==
  ASSUME NEW S, IsFiniteSet(S), NEW U \in SUBSET S, NEW f \in [U -> Int], NEW g \in [S -> Int],
         NEW y \in S, y \notin U, \A x \in S \ {y} : g[x] = IF x \in U THEN f[x] ELSE 0
  PROVE  SumFunction(g) = SumFunction(f) + g[y]
<1> DEFINE all == [x \in S |-> IF x \in U THEN f[x] ELSE 0]
<1>1. SumFunction(f) = SumFunction(all)
  BY TotalWithin
<1>2. all \in [S -> Int] /\ all[y] = 0 /\ \A x \in S \ {y} : all[x] = g[x]
  OBVIOUS
<1> HIDE DEF all
<1>3. SumFunction(g) = SumFunction(all) + (g[y] - all[y])
  BY <1>2, TotalChange
<1>4. SumFunction(all) \in Int /\ g[y] \in Int
  BY <1>2, TotalInt
<1>5. QED
  BY <1>1, <1>2, <1>3, <1>4
=============================================================================
