---------------------------- MODULE LayoutProofs ----------------------------
(* Facts about the slab's arithmetic, for every address and alignment, and *)
(* about counting modulo a word.                                           *)
EXTENDS Layout, WellFoundedInduction, TLAPS

\* Division with remainder, in the form the other lemmas use.
LEMMA Euclid ==
  ASSUME NEW x \in Int, NEW a \in Nat \ {0}
  PROVE  /\ x \div a \in Int
         /\ x % a \in 0 .. a - 1
         /\ x = a * (x \div a) + (x % a)
  OBVIOUS

\* A quotient and a remainder are the only ones.
LEMMA EuclidUnique ==
  ASSUME NEW a \in Nat \ {0}, NEW k \in Int, NEW r \in 0 .. a - 1
  PROVE  (a * k + r) % a = r
<1> DEFINE x == a * k + r
           d == k - (x \div a)
<1>1. a * k \in Int /\ x \in Int
  OBVIOUS
<1>2. x \div a \in Int /\ x % a \in 0 .. a - 1 /\ x = a * (x \div a) + (x % a)
  BY <1>1, Euclid
<1>3. d \in Int /\ a * d = (x % a) - r
  BY <1>1, <1>2
<1>4. d < 1
  <2>1. d >= 1 => a * d >= a
    BY <1>3
  <2> QED BY <2>1, <1>2, <1>3
<1>5. d > -1
  <2>1. d <= -1 => a * d <= -a
    BY <1>3
  <2> QED BY <2>1, <1>2, <1>3
<1>6. d = 0 /\ a * d = 0
  BY <1>3, <1>4, <1>5
<1> QED
  BY <1>2, <1>3, <1>6

\* A multiple leaves no remainder; a number and its remainder differ by one.
LEMMA MultipleRemains ==
  ASSUME NEW m \in Nat \ {0}, NEW k \in Int, NEW y, y = m * k
  PROVE  y % m = 0
<1>1. 0 \in 0 .. m - 1 /\ m * k + 0 = y
  OBVIOUS
<1> QED
  BY <1>1, EuclidUnique

LEMMA RemainderCongruent ==
  ASSUME NEW m \in Nat \ {0}, NEW x \in Int
  PROVE  /\ x % m \in Int
         /\ \E k \in Int : (x % m) - x = m * k
         /\ ((x % m) - x) % m = 0
<1>1. PICK d \in Int, r \in 0 .. m - 1 : r = x % m /\ x = m * d + r
  BY Euclid
<1>2. -d \in Int /\ r - x = m * (-d)
  BY <1>1
<1>3. (r - x) % m = 0
  BY <1>2, MultipleRemains
<1> QED
  BY <1>1, <1>2, <1>3

\* next_multiple_of: the result is a multiple, not below x, less than x + a.
LEMMA AlignUpFacts ==
  ASSUME NEW x \in Nat, NEW a \in Nat \ {0}
  PROVE  /\ AlignUp(x, a) \in Nat
         /\ x <= AlignUp(x, a)
         /\ AlignUp(x, a) < x + a
         /\ AlignUp(x, a) % a = 0
<1> DEFINE q == (x + a - 1) \div a
           r == (x + a - 1) % a
<1>0. x + a - 1 \in Int
  OBVIOUS
<1>1. q \in Int /\ r \in 0 .. a - 1 /\ x + a - 1 = a * q + r
  BY <1>0, Euclid
<1>2. AlignUp(x, a) = q * a /\ q * a = a * q /\ a * q \in Int
  BY <1>1 DEF AlignUp
<1>3. x <= a * q /\ a * q < x + a
  BY <1>1, <1>2
<1>4. (a * q) % a = 0
  <2>1. 0 \in 0 .. a - 1
    OBVIOUS
  <2>2. (a * q + 0) % a = 0
    BY <1>1, <2>1, EuclidUnique
  <2>3. a * q + 0 = a * q
    BY <1>2
  <2> QED BY <2>2, <2>3
<1> QED
  BY <1>1, <1>2, <1>3, <1>4

\* Adding to a wrapped counter is wrapping the sum.
LEMMA WrapAdd ==
  ASSUME NEW w \in Nat \ {0}, NEW x \in Int, NEW n \in Int
  PROVE  ((x % w) + n) % w = (x + n) % w
<1> DEFINE y == (x % w) + n
<1>1. x % w \in Int /\ x \div w \in Int /\ x = w * (x \div w) + (x % w)
  BY Euclid
<1>2. y \in Int
  BY <1>1
<1>3. y \div w \in Int /\ y % w \in 0 .. w - 1 /\ y = w * (y \div w) + (y % w)
  BY <1>2, Euclid
<1>4. x + n = w * ((x \div w) + (y \div w)) + (y % w)
  BY <1>1, <1>3
<1>5. (x \div w) + (y \div w) \in Int
  BY <1>1, <1>3
<1>6. (w * ((x \div w) + (y \div w)) + (y % w)) % w = y % w
  BY <1>3, <1>5, EuclidUnique
<1> QED
  BY <1>4, <1>6

-----------------------------------------------------------------------------
(* Induction.  The set of the numbers for which something holds is all of   *)
(* them; what a recursive function computes follows by that.                *)

LEMMA LeastNatural ==
  ASSUME NEW S \in SUBSET Nat, S # {}
  PROVE  \E x \in S : \A y \in S : x <= y
<1>1. \E x \in S : \A y \in S : <<y, x>> \notin OpToRel(<, Nat)
  BY NatLessThanWellFounded, WFMin
<1>2. PICK x \in S : \A y \in S : <<y, x>> \notin OpToRel(<, Nat)
  BY <1>1
<1>3. \A y \in S : ~(y < x)
  BY <1>2 DEF OpToRel
<1>4. \A y \in S : x <= y
  BY <1>3
<1> QED
  BY <1>4

\* What holds of 0 and passes from every number below n to the next.
LEMMA InductionUpTo ==
  ASSUME NEW n \in Nat, NEW S, 0 \in S, \A i \in 0 .. n - 1 : i \in S => i + 1 \in S
  PROVE  \A i \in 0 .. n : i \in S
<1> SUFFICES ASSUME NEW k \in 0 .. n, k \notin S PROVE FALSE
  OBVIOUS
<1> DEFINE T == {i \in 0 .. n : i \notin S}
<1>1. T \in SUBSET Nat /\ T # {}
  OBVIOUS
<1>2. PICK m \in T : \A y \in T : m <= y
  BY <1>1, LeastNatural
<1>3. m \in 0 .. n /\ m # 0
  BY <1>2
<1>4. m - 1 \in 0 .. n - 1 /\ m - 1 \in 0 .. n
  BY <1>3
<1>5. m - 1 \in S
  BY <1>2, <1>4
<1>6. (m - 1) + 1 \in S /\ (m - 1) + 1 = m
  BY <1>4, <1>5, <1>3
<1> QED
  BY <1>2, <1>6

\* Steps from each value to the next, and the values up to the nth that they
\* make of a first one.
Steps(n, D) == [(1 .. n) \X D -> D]

Recurs(f, n, D, a, T) ==
  /\ f \in [0 .. n -> D]
  /\ f[0] = a
  /\ \A i \in 1 .. n : f[i] = T[<<i, f[i - 1]>>]

LEMMA Recursion ==
  ASSUME NEW n \in Nat, NEW D, NEW a \in D, NEW T \in Steps(n, D)
  PROVE  \E f : Recurs(f, n, D, a, T)
<1>0. T \in [(1 .. n) \X D -> D]
  BY DEF Steps
<1> DEFINE P(k, f) == /\ f \in [0 .. k -> D] /\ f[0] = a
                      /\ \A i \in 1 .. k : f[i] = T[<<i, f[i - 1]>>]
           S == {k \in 0 .. n : \E f : P(k, f)}
<1>1. 0 \in S
  <2> DEFINE f == [i \in 0 .. 0 |-> a]
  <2>1. P(0, f) /\ 0 \in 0 .. n
    OBVIOUS
  <2> HIDE DEF f, P
  <2> QED
    BY <2>1
<1>2. ASSUME NEW k \in 0 .. n - 1, k \in S
      PROVE  k + 1 \in S
  <2>1. PICK f : P(k, f)
    BY <1>2
  <2> DEFINE e == T[<<k + 1, f[k]>>]
             h == [i \in 0 .. k + 1 |-> IF i = k + 1 THEN e ELSE f[i]]
  <2>2. e \in D
    <3>1. f[k] \in D /\ k + 1 \in 1 .. n
      BY <2>1
    <3> QED
      BY <1>0, <3>1
  <2> HIDE DEF e
  <2>3. h \in [0 .. k + 1 -> D] /\ h[0] = a /\ h[k + 1] = e /\ \A i \in 0 .. k : h[i] = f[i]
    BY <2>1, <2>2
  <2> HIDE DEF h
  <2>4. ASSUME NEW i \in 1 .. k + 1
        PROVE  h[i] = T[<<i, h[i - 1]>>]
    <3>1. CASE i = k + 1
      <4>1. i - 1 = k /\ h[i - 1] = f[k] /\ h[i] = e
        BY <3>1, <2>3
      <4> QED
        BY <3>1, <4>1 DEF e
    <3>2. CASE i \in 1 .. k
      BY <3>2, <2>1, <2>3
    <3> QED
      BY <3>1, <3>2
  <2>5. P(k + 1, h)
    BY <2>3, <2>4
  <2> QED
    BY <2>5
<1> HIDE DEF S
<1>3. n \in S
  <2>1. \A i \in 0 .. n : i \in S
    BY <1>1, <1>2, InductionUpTo
  <2> QED
    BY <2>1
<1>4. PICK f : P(n, f)
  BY <1>3 DEF S
<1> QED
  BY <1>4 DEF Recurs

-----------------------------------------------------------------------------
(* Laying items out.  Lays(f, x, items, n): f is where each of the first n  *)
(* items ends, from address x on; Sums(g, items, n): g adds up their sizes  *)
(* and paddings.                                                            *)

Item == [size : Nat, align : Nat \ {0}]

Lays(f, x, items, n) ==
  /\ f \in [0 .. n -> Nat]
  /\ f[0] = x
  /\ \A i \in 1 .. n : f[i] = AlignUp(f[i - 1], items[i].align) + items[i].size

Sums(g, items, n) ==
  /\ g \in [0 .. n -> Nat]
  /\ g[0] = 0
  /\ \A i \in 1 .. n : g[i] = g[i - 1] + items[i].size + (items[i].align - 1)

LEMMA LaysExists ==
  ASSUME NEW x \in Nat, NEW items \in Seq(Item)
  PROVE  \E f : Lays(f, x, items, Len(items))
<1> DEFINE n == Len(items)
           T == [p \in (1 .. n) \X Nat |-> AlignUp(p[2], items[p[1]].align) + items[p[1]].size]
<1>1. n \in Nat /\ \A i \in 1 .. n : items[i] \in Item
  OBVIOUS
<1>2. ASSUME NEW p \in (1 .. n) \X Nat
      PROVE  AlignUp(p[2], items[p[1]].align) + items[p[1]].size \in Nat
  <2>1. items[p[1]].align \in Nat \ {0} /\ items[p[1]].size \in Nat /\ p[2] \in Nat
    BY <1>1 DEF Item
  <2>2. AlignUp(p[2], items[p[1]].align) \in Nat
    BY <2>1, AlignUpFacts
  <2> QED
    BY <2>1, <2>2
<1>3. T \in [(1 .. n) \X Nat -> Nat]
  BY <1>2
<1>4. \A i \in 1 .. n, y \in Nat : T[<<i, y>>] = AlignUp(y, items[i].align) + items[i].size
  OBVIOUS
<1> HIDE DEF T, n
<1>5. PICK f : Recurs(f, n, Nat, x, T)
  BY <1>1, <1>3, Recursion DEF Steps
<1>6. \A i \in 1 .. n : f[i - 1] \in Nat
  BY <1>1, <1>5 DEF Recurs
<1>7. \A i \in 1 .. n : f[i] = AlignUp(f[i - 1], items[i].align) + items[i].size
  BY <1>4, <1>5, <1>6 DEF Recurs
<1> QED
  BY <1>5, <1>7 DEF Lays, Recurs, n

\* The recursive function in LayoutEnd is one that lays the items out.
LEMMA LayoutEndIs ==
  ASSUME NEW x \in Nat, NEW items \in Seq(Item)
  PROVE  \E f : Lays(f, x, items, Len(items)) /\ LayoutEnd(x, items) = f[Len(items)]
<1> DEFINE n == Len(items)
           G(f) == [i \in 0 .. n |->
                      IF i = 0 THEN x ELSE AlignUp(f[i - 1], items[i].align) + items[i].size]
<1>0. n \in Nat
  OBVIOUS
<1>1. PICK f : Lays(f, x, items, n)
  BY LaysExists
<1>2. f = G(f)
  BY <1>1 DEF Lays
<1> DEFINE c == CHOOSE h : h = G(h)
<1>3. c = G(c)
  BY <1>2
<1>4. LayoutEnd(x, items) = c[n]
  BY Zenon DEF LayoutEnd
<1> HIDE DEF c
<1> DEFINE S == {i \in 0 .. n : c[i] = f[i]}
<1>5. 0 \in S
  BY <1>0, <1>1, <1>3 DEF Lays
<1>6. ASSUME NEW i \in 0 .. n - 1, i \in S
      PROVE  i + 1 \in S
  <2>1. i + 1 \in 1 .. n /\ (i + 1) - 1 = i /\ i + 1 \in 0 .. n /\ i + 1 # 0
    BY <1>0
  <2>2. c[i + 1] = AlignUp(c[i], items[i + 1].align) + items[i + 1].size
    BY <1>3, <2>1
  <2>3. f[i + 1] = AlignUp(f[i], items[i + 1].align) + items[i + 1].size
    BY <1>1, <2>1 DEF Lays
  <2> QED
    BY <1>6, <2>1, <2>2, <2>3
<1>7. n \in S
  <2> HIDE DEF S
  <2>1. \A i \in 0 .. n : i \in S
    BY <1>0, <1>5, <1>6, InductionUpTo
  <2> QED
    BY <2>1, <1>0
<1> QED
  BY <1>1, <1>4, <1>7

\* The end of a layout is a natural number and not below its start.
LEMMA LayoutAbove ==
  ASSUME NEW x \in Nat, NEW items \in Seq(Item)
  PROVE  LayoutEnd(x, items) \in Nat /\ x <= LayoutEnd(x, items)
<1> DEFINE n == Len(items)
<1>1. PICK f : Lays(f, x, items, n) /\ LayoutEnd(x, items) = f[n]
  BY LayoutEndIs
<1>2. n \in Nat /\ n \in 0 .. n /\ f \in [0 .. n -> Nat] /\ f[0] = x
  BY <1>1 DEF Lays
<1> DEFINE S == {i \in 0 .. n : x <= f[i]}
<1>3. 0 \in S
  BY <1>2
<1>4. ASSUME NEW i \in 0 .. n - 1, i \in S
      PROVE  i + 1 \in S
  <2>1. i + 1 \in 1 .. n /\ (i + 1) - 1 = i /\ i + 1 \in 0 .. n /\ i \in 0 .. n
    BY <1>2
  <2>2. items[i + 1] \in Item
    BY <2>1
  <2>3. items[i + 1].align \in Nat \ {0} /\ items[i + 1].size \in Nat /\ f[i] \in Nat
    BY <1>2, <2>1, <2>2 DEF Item
  <2>4. AlignUp(f[i], items[i + 1].align) \in Nat /\ f[i] <= AlignUp(f[i], items[i + 1].align)
    BY <2>3, AlignUpFacts
  <2>5. f[i + 1] = AlignUp(f[i], items[i + 1].align) + items[i + 1].size
    BY <1>1, <2>1 DEF Lays
  <2>6. x <= f[i]
    BY <1>4
  <2> QED
    BY <2>1, <2>3, <2>4, <2>5, <2>6
<1> HIDE DEF S
<1>5. n \in S
  <2>1. \A i \in 0 .. n : i \in S
    BY <1>2, <1>3, <1>4, InductionUpTo
  <2> QED
    BY <2>1, <1>2
<1> QED
  BY <1>1, <1>2, <1>5 DEF S

LEMMA LayoutOfNone ==
  ASSUME NEW x \in Nat
  PROVE  LayoutEnd(x, <<>>) = x
<1>1. <<>> \in Seq(Item) /\ Len(<<>>) = 0
  OBVIOUS
<1>2. PICK f : Lays(f, x, <<>>, Len(<<>>)) /\ LayoutEnd(x, <<>>) = f[Len(<<>>)]
  BY <1>1, LayoutEndIs
<1> QED
  BY <1>1, <1>2 DEF Lays

\* Laying the first item out and then the others is laying them all out.
LEMMA LayoutOfTail ==
  ASSUME NEW x \in Nat, NEW items \in Seq(Item), items # <<>>
  PROVE  LET next == AlignUp(x, Head(items).align) + Head(items).size
         IN  next \in Nat /\ LayoutEnd(x, items) = LayoutEnd(next, Tail(items))
<1> DEFINE n == Len(items)
           next == AlignUp(x, Head(items).align) + Head(items).size
           rest == Tail(items)
<1>1. n \in Nat \ {0} /\ rest \in Seq(Item) /\ Len(rest) = n - 1 /\ Head(items) = items[1]
      /\ \A i \in 1 .. n - 1 : rest[i] = items[i + 1]
  OBVIOUS
<1>2. next \in Nat
  <2>1. items[1] \in Item
    BY <1>1
  <2>2. items[1].align \in Nat \ {0} /\ items[1].size \in Nat
    BY <2>1 DEF Item
  <2>3. AlignUp(x, items[1].align) \in Nat
    BY <2>2, AlignUpFacts
  <2> QED
    BY <1>1, <2>2, <2>3
<1>3. PICK f : Lays(f, x, items, n) /\ LayoutEnd(x, items) = f[n]
  BY LayoutEndIs
<1> HIDE DEF next, rest
<1>4. PICK h : Lays(h, next, rest, n - 1) /\ LayoutEnd(next, rest) = h[n - 1]
  BY <1>1, <1>2, LayoutEndIs
<1> DEFINE S == {i \in 0 .. n - 1 : h[i] = f[i + 1]}
<1>5. 0 \in S
  <2>1. f[1] = AlignUp(f[0], items[1].align) + items[1].size
    <3>1. 1 \in 1 .. n /\ 1 - 1 = 0
      BY <1>1
    <3> QED
      BY <1>3, <3>1 DEF Lays
  <2>2. f[0] = x /\ h[0] = next
    BY <1>3, <1>4 DEF Lays
  <2>3. 0 \in 0 .. n - 1 /\ 0 + 1 = 1
    BY <1>1
  <2> QED
    BY <1>1, <2>1, <2>2, <2>3 DEF next
<1>6. ASSUME NEW i \in 0 .. (n - 1) - 1, i \in S
      PROVE  i + 1 \in S
  <2>1. /\ i + 1 \in 1 .. n - 1 /\ (i + 1) - 1 = i /\ i + 1 \in 0 .. n - 1
        /\ (i + 1) + 1 \in 1 .. n /\ ((i + 1) + 1) - 1 = i + 1
    BY <1>1
  <2>2. h[i + 1] = AlignUp(h[i], rest[i + 1].align) + rest[i + 1].size
    BY <1>4, <2>1 DEF Lays
  <2>3. f[(i + 1) + 1] = AlignUp(f[i + 1], items[(i + 1) + 1].align) + items[(i + 1) + 1].size
    BY <1>3, <2>1 DEF Lays
  <2>4. rest[i + 1] = items[(i + 1) + 1]
    BY <1>1, <2>1
  <2> QED
    BY <1>6, <2>1, <2>2, <2>3, <2>4
<1> HIDE DEF S
<1>7. n - 1 \in S
  <2>1. n - 1 \in Nat /\ n - 1 \in 0 .. n - 1
    BY <1>1
  <2>2. \A i \in 0 .. n - 1 : i \in S
    BY <1>5, <1>6, <2>1, InductionUpTo
  <2> QED
    BY <2>1, <2>2
<1>8. h[n - 1] = f[n]
  <2>1. (n - 1) + 1 = n
    BY <1>1
  <2> QED
    BY <1>7, <2>1 DEF S
<1>9. next \in Nat /\ LayoutEnd(x, items) = LayoutEnd(next, rest)
  BY <1>2, <1>3, <1>4, <1>8
<1> QED
  BY <1>9 DEF next, rest

LEMMA SumsExists ==
  ASSUME NEW items \in Seq(Item)
  PROVE  \E g : Sums(g, items, Len(items))
<1> DEFINE n == Len(items)
           T == [p \in (1 .. n) \X Nat |-> p[2] + items[p[1]].size + (items[p[1]].align - 1)]
<1>1. n \in Nat /\ \A i \in 1 .. n : items[i] \in Item
  OBVIOUS
<1>2. T \in [(1 .. n) \X Nat -> Nat]
  BY <1>1 DEF Item
<1>3. \A i \in 1 .. n, y \in Nat : T[<<i, y>>] = y + items[i].size + (items[i].align - 1)
  OBVIOUS
<1> HIDE DEF T
<1>4. PICK g : Recurs(g, n, Nat, 0, T)
  <2>1. 0 \in Nat
    OBVIOUS
  <2> QED
    BY <1>1, <1>2, <2>1, Recursion DEF Steps
<1>5. \A i \in 1 .. n : g[i - 1] \in Nat
  BY <1>1, <1>4 DEF Recurs
<1>6. g \in [0 .. n -> Nat] /\ g[0] = 0
  BY <1>4 DEF Recurs
<1>7. \A i \in 1 .. n : g[i] = g[i - 1] + items[i].size + (items[i].align - 1)
  BY <1>3, <1>4, <1>5 DEF Recurs
<1> QED
  BY <1>6, <1>7, Zenon DEF Sums

LEMMA WorstCaseIs ==
  ASSUME NEW items \in Seq(Item)
  PROVE  \E g : Sums(g, items, Len(items)) /\ WorstCase(items) = g[Len(items)]
<1> DEFINE n == Len(items)
           G(g) == [i \in 0 .. n |->
                      IF i = 0 THEN 0 ELSE g[i - 1] + items[i].size + (items[i].align - 1)]
<1>0. n \in Nat
  OBVIOUS
<1>1. PICK g : Sums(g, items, n)
  BY SumsExists
<1>2. g = G(g)
  BY <1>1 DEF Sums
<1> DEFINE c == CHOOSE h : h = G(h)
<1>3. c = G(c)
  BY <1>2
<1>4. WorstCase(items) = c[n]
  BY Zenon DEF WorstCase
<1> HIDE DEF c
<1> DEFINE S == {i \in 0 .. n : c[i] = g[i]}
<1>5. 0 \in S
  BY <1>0, <1>1, <1>3 DEF Sums
<1>6. ASSUME NEW i \in 0 .. n - 1, i \in S
      PROVE  i + 1 \in S
  <2>1. i + 1 \in 1 .. n /\ (i + 1) - 1 = i /\ i + 1 \in 0 .. n /\ i + 1 # 0
    BY <1>0
  <2>2. c[i + 1] = c[i] + items[i + 1].size + (items[i + 1].align - 1)
    BY <1>3, <2>1
  <2>3. g[i + 1] = g[i] + items[i + 1].size + (items[i + 1].align - 1)
    BY <1>1, <2>1 DEF Sums
  <2> QED
    BY <1>6, <2>1, <2>2, <2>3
<1>7. n \in S
  <2> HIDE DEF S
  <2>1. \A i \in 0 .. n : i \in S
    BY <1>0, <1>5, <1>6, InductionUpTo
  <2> QED
    BY <2>1, <1>0
<1> QED
  BY <1>1, <1>4, <1>7

\* Wherever a layout begins, it takes no more than the worst case.
LEMMA LayoutWithinWorstCase ==
  ASSUME NEW x \in Nat, NEW items \in Seq(Item)
  PROVE  WorstCase(items) \in Nat /\ LayoutEnd(x, items) <= x + WorstCase(items)
<1> DEFINE n == Len(items)
<1>1. PICK f : Lays(f, x, items, n) /\ LayoutEnd(x, items) = f[n]
  BY LayoutEndIs
<1>2. PICK g : Sums(g, items, n) /\ WorstCase(items) = g[n]
  BY WorstCaseIs
<1>3. /\ n \in Nat /\ n \in 0 .. n
      /\ f \in [0 .. n -> Nat] /\ f[0] = x
      /\ g \in [0 .. n -> Nat] /\ g[0] = 0
  BY <1>1, <1>2 DEF Lays, Sums
<1> DEFINE S == {i \in 0 .. n : f[i] <= x + g[i]}
<1>4. 0 \in S
  BY <1>3
<1>5. ASSUME NEW i \in 0 .. n - 1, i \in S
      PROVE  i + 1 \in S
  <2> DEFINE a == items[i + 1].align
             s == items[i + 1].size
             up == AlignUp(f[i], a)
  <2>1. i + 1 \in 1 .. n /\ (i + 1) - 1 = i /\ i + 1 \in 0 .. n /\ i \in 0 .. n
    BY <1>3
  <2>2. items[i + 1] \in Item
    BY <2>1
  <2>3. a \in Nat \ {0} /\ s \in Nat /\ f[i] \in Nat /\ g[i] \in Nat
    BY <1>3, <2>1, <2>2 DEF Item
  <2>4. f[i + 1] = up + s
    BY <1>1, <2>1 DEF Lays
  <2>5. g[i + 1] = g[i] + s + (a - 1)
    BY <1>2, <2>1 DEF Sums
  <2>6. up \in Nat /\ up < f[i] + a
    BY <2>3, AlignUpFacts
  <2>7. f[i] <= x + g[i]
    BY <1>5
  <2> HIDE DEF a, s, up
  <2>8. up + s <= x + (g[i] + s + (a - 1))
    <3>1. \A u, v, w, b, r \in Nat : u < v + b /\ v <= x + w => u + r <= x + (w + r + (b - 1))
      OBVIOUS
    <3> QED
      BY <2>3, <2>6, <2>7, <3>1, Zenon
  <2>9. f[i + 1] <= x + g[i + 1]
    BY <2>4, <2>5, <2>8, Zenon
  <2> QED
    BY <2>1, <2>9
<1> HIDE DEF S
<1>6. n \in S
  <2>1. \A i \in 0 .. n : i \in S
    BY <1>3, <1>4, <1>5, InductionUpTo
  <2> QED
    BY <2>1, <1>3
<1> QED
  BY <1>1, <1>2, <1>3, <1>6 DEF S

-----------------------------------------------------------------------------
\* A multiple of a is a times some number.
LEMMA IsMultiple ==
  ASSUME NEW a \in Nat \ {0}, NEW x \in Nat, x % a = 0
  PROVE  \E q \in Int : x = a * q
<1>1. PICK q \in Int, r \in Int : q = x \div a /\ r = x % a /\ x = a * q + r
  BY Euclid
<1>2. x = a * q
  BY <1>1
<1> QED
  BY <1>2

\* What lies at or above x and is a multiple of a is not below x aligned.
LEMMA AlignUpLeast ==
  ASSUME NEW a \in Nat \ {0}, NEW x \in Nat, NEW y \in Nat, x <= y, y % a = 0
  PROVE  AlignUp(x, a) <= y
<1>1. PICK u \in Nat : u = AlignUp(x, a) /\ u < x + a /\ u % a = 0
  BY AlignUpFacts
<1>2. PICK p \in Int : u = a * p
  BY <1>1, IsMultiple
<1>3. PICK q \in Int : y = a * q
  BY IsMultiple
<1>4. ~(p >= q + 1)
  <2> SUFFICES ASSUME p >= q + 1 PROVE FALSE
    OBVIOUS
  <2>1. a * p >= a * q + a
    BY <1>2, <1>3
  <2> QED
    BY <1>1, <1>2, <1>3, <2>1
<1>5. p <= q
  BY <1>2, <1>3, <1>4
<1>6. a * p <= a * q
  BY <1>2, <1>3, <1>5
<1> QED
  BY <1>1, <1>2, <1>3, <1>6

\* A multiple of a multiple of a is one.
LEMMA MultipleOfMultiple ==
  ASSUME NEW a \in Nat \ {0}, NEW b \in Nat \ {0}, b % a = 0, NEW y \in Nat, y % b = 0
  PROVE  y % a = 0
<1>1. PICK p \in Int : b = a * p
  BY IsMultiple
<1>2. PICK q \in Int : y = b * q
  BY IsMultiple
<1>3. p * q \in Int /\ y = a * (p * q) + 0
  BY <1>1, <1>2
<1>4. 0 \in 0 .. a - 1
  OBVIOUS
<1> QED
  BY <1>3, <1>4, EuclidUnique

LEMMA AlignUpMonotone ==
  ASSUME NEW a \in Nat \ {0}, NEW x \in Nat, NEW y \in Nat, x <= y
  PROVE  AlignUp(x, a) <= AlignUp(y, a)
<1>1. PICK u \in Nat : u = AlignUp(y, a) /\ y <= u /\ u % a = 0
  BY AlignUpFacts
<1>2. x <= u
  BY <1>1
<1> QED
  BY <1>1, <1>2, AlignUpLeast

\* A layout is the only one.
LEMMA LaysOnce ==
  ASSUME NEW x \in Nat, NEW items \in Seq(Item), NEW f, Lays(f, x, items, Len(items))
  PROVE  LayoutEnd(x, items) = f[Len(items)]
<1> DEFINE n == Len(items)
<1>1. PICK h : Lays(h, x, items, n) /\ LayoutEnd(x, items) = h[n]
  BY LayoutEndIs
<1>2. n \in Nat
  OBVIOUS
<1> DEFINE S == {i \in 0 .. n : h[i] = f[i]}
<1>3. 0 \in S
  BY <1>1, <1>2 DEF Lays
<1>4. ASSUME NEW i \in 0 .. n - 1, i \in S
      PROVE  i + 1 \in S
  <2>1. i + 1 \in 1 .. n /\ (i + 1) - 1 = i /\ i + 1 \in 0 .. n
    BY <1>2
  <2>2. h[i + 1] = AlignUp(h[i], items[i + 1].align) + items[i + 1].size
    BY <1>1, <2>1 DEF Lays
  <2>3. f[i + 1] = AlignUp(f[i], items[i + 1].align) + items[i + 1].size
    BY <2>1 DEF Lays
  <2> QED
    BY <1>4, <2>1, <2>2, <2>3
<1> HIDE DEF S
<1>5. \A i \in 0 .. n : i \in S
  BY <1>2, <1>3, <1>4, InductionUpTo
<1>6. h[n] = f[n]
  BY <1>2, <1>5 DEF S
<1> QED
  BY <1>1, <1>6

\* Laying s out and then t is laying out s and t.
LEMMA LayoutOfConcat ==
  ASSUME NEW x \in Nat, NEW s \in Seq(Item), NEW t \in Seq(Item)
  PROVE  LayoutEnd(x, s \o t) = LayoutEnd(LayoutEnd(x, s), t)
<1> DEFINE m == Len(s)
           n == Len(t)
           st == s \o t
<1>1. /\ m \in Nat /\ n \in Nat /\ st \in Seq(Item) /\ Len(st) = m + n
      /\ \A i \in 1 .. m : st[i] = s[i]
      /\ \A i \in 1 .. n : st[m + i] = t[i]
  OBVIOUS
<1>2. PICK f : Lays(f, x, s, m) /\ LayoutEnd(x, s) = f[m]
  BY LayoutEndIs
<1>3. f \in [0 .. m -> Nat] /\ f[m] \in Nat /\ f[0] = x
  BY <1>1, <1>2 DEF Lays
<1>4. PICK h : Lays(h, f[m], t, n) /\ LayoutEnd(f[m], t) = h[n]
  BY <1>3, LayoutEndIs
<1>5. h \in [0 .. n -> Nat] /\ h[0] = f[m]
  BY <1>4 DEF Lays
<1> HIDE DEF st
<1> DEFINE g == [i \in 0 .. m + n |-> IF i <= m THEN f[i] ELSE h[i - m]]
<1>6. g \in [0 .. m + n -> Nat]
  <2>1. ASSUME NEW i \in 0 .. m + n
        PROVE  (IF i <= m THEN f[i] ELSE h[i - m]) \in Nat
    <3>1. CASE i <= m
      BY <1>3, <3>1
    <3>2. CASE ~(i <= m)
      <4>1. i - m \in 0 .. n
        BY <1>1, <3>2
      <4> QED
        BY <1>5, <3>2, <4>1
    <3> QED
      BY <3>1, <3>2
  <2> QED
    BY <2>1
<1>7. /\ \A i \in 0 .. m : g[i] = f[i]
      /\ \A i \in 0 .. n : g[m + i] = h[i]
  <2>1. \A i \in 0 .. m : g[i] = f[i]
    BY <1>1
  <2>2. ASSUME NEW i \in 0 .. n
        PROVE  g[m + i] = h[i]
    <3>1. m + i \in 0 .. m + n /\ (m + i) - m = i
      BY <1>1
    <3>2. CASE i = 0
      BY <1>1, <1>5, <3>1, <3>2
    <3>3. CASE i # 0
      <4>1. ~(m + i <= m)
        BY <1>1, <3>3
      <4> QED
        BY <3>1, <4>1
    <3> QED
      BY <3>2, <3>3
  <2> QED
    BY <2>1, <2>2
<1> HIDE DEF g
<1>8. ASSUME NEW i \in 1 .. m + n
      PROVE  g[i] = AlignUp(g[i - 1], st[i].align) + st[i].size
  <2>1. CASE i <= m
    <3>1. i \in 1 .. m /\ i \in 0 .. m /\ i - 1 \in 0 .. m
      BY <1>1, <2>1
    <3> QED
      BY <1>1, <1>2, <1>7, <3>1 DEF Lays
  <2>2. CASE i > m
    <3>1. PICK k \in 1 .. n : i = m + k
      <4>1. i - m \in 1 .. n /\ i = m + (i - m)
        BY <1>1, <2>2
      <4> QED
        BY <4>1
    <3>2. k \in 0 .. n /\ k - 1 \in 0 .. n /\ i - 1 = m + (k - 1)
      BY <1>1, <3>1
    <3>3. g[i] = h[k] /\ g[i - 1] = h[k - 1] /\ st[i] = t[k]
      BY <1>1, <1>7, <3>1, <3>2
    <3> QED
      BY <1>4, <3>1, <3>3 DEF Lays
  <2> QED
    BY <1>1, <2>1, <2>2
<1>9. Lays(g, x, st, Len(st))
  <2>1. g[0] = x
    BY <1>1, <1>3, <1>7
  <2> QED
    BY <1>1, <1>6, <1>8, <2>1, Zenon DEF Lays
<1> HIDE DEF g, st, m, n
<1>10. LayoutEnd(x, st) = g[m + n]
  <2>1. LayoutEnd(x, st) = g[Len(st)]
    BY <1>1, <1>9, LaysOnce
  <2> QED
    BY <1>1, <2>1, Zenon
<1>11. g[m + n] = h[n]
  BY <1>1, <1>7
<1> QED
  BY <1>2, <1>4, <1>10, <1>11 DEF st

\* n equal items, at least one, each at least a bytes long and aligned to a
\* multiple of a, take n * a bytes from the next multiple of a on.
LEMMA LayoutOfEqual ==
  ASSUME NEW a \in Nat \ {0}, NEW item \in Item, item.align % a = 0, item.size >= a,
         NEW n \in Nat \ {0}, NEW x \in Nat
  PROVE  AlignUp(x, a) + a * n <= LayoutEnd(x, [k \in 1 .. n |-> item])
<1> DEFINE items == [k \in 1 .. n |-> item]
<1>1. items \in Seq(Item) /\ Len(items) = n /\ \A i \in 1 .. n : items[i] = item
  OBVIOUS
<1> HIDE DEF items
<1>2. PICK f : Lays(f, x, items, n) /\ LayoutEnd(x, items) = f[n]
  BY <1>1, LayoutEndIs
<1>i. item.align \in Nat \ {0} /\ item.size \in Nat
  BY DEF Item
<1>3. PICK lo \in Nat : lo = AlignUp(x, a) /\ x <= lo
  BY AlignUpFacts
<1>4. /\ f \in [0 .. n -> Nat] /\ f[0] = x
      /\ \A i \in 1 .. n : f[i] = AlignUp(f[i - 1], item.align) + item.size
  BY <1>1, <1>2 DEF Lays
<1> DEFINE S == {i \in 0 .. n : i = 0 \/ lo + a * i <= f[i]}
<1>5. 0 \in S
  OBVIOUS
<1>6. ASSUME NEW i \in 0 .. n - 1, i \in S
      PROVE  i + 1 \in S
  <2>1. i + 1 \in 1 .. n /\ (i + 1) - 1 = i /\ i + 1 \in 0 .. n /\ i \in 0 .. n
    OBVIOUS
  <2>2. f[i] \in Nat /\ f[i + 1] = AlignUp(f[i], item.align) + item.size
    BY <1>4, <2>1
  <2>3. PICK y \in Nat, u \in Nat : y = f[i] /\ u = AlignUp(y, item.align) /\ y <= u /\ u % item.align = 0
    BY <1>i, <2>2, AlignUpFacts
  <2>4. lo + a * i <= u
    <3>1. CASE i = 0
      <4>1. u % a = 0
        BY <1>i, <2>3, MultipleOfMultiple
      <4>2. x <= u
        BY <1>4, <2>3, <3>1
      <4>3. AlignUp(x, a) <= u
        BY <4>1, <4>2, AlignUpLeast
      <4> QED
        BY <1>3, <3>1, <4>3
    <3>2. CASE i # 0
      <4>1. lo + a * i <= y
        BY <1>6, <2>3, <3>2
      <4> QED
        BY <2>3, <4>1
    <3> QED
      BY <3>1, <3>2
  <2>5. lo + a * (i + 1) <= f[i + 1]
    <3>1. a * (i + 1) = a * i + a
      OBVIOUS
    <3>2. PICK z \in Int, s \in Nat : z = a * i /\ s = item.size
      BY <1>i
    <3> QED
      BY <2>2, <2>3, <2>4, <3>1, <3>2
  <2> QED
    BY <2>1, <2>5
<1> HIDE DEF S
<1>7. \A i \in 0 .. n : i \in S
  BY <1>5, <1>6, InductionUpTo
<1>8. lo + a * n <= f[n]
  BY <1>7 DEF S
<1> QED
  BY <1>2, <1>3, <1>8 DEF items
=============================================================================
