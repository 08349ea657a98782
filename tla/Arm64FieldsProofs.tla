------------------------- MODULE Arm64FieldsProofs -------------------------
(***************************************************************************)
(* That arm64's relocator reads and patches the fields of an instruction   *)
(* as the processor reads them, for every word, every number and every     *)
(* width: a set of bits is a number by induction over its bits, and the    *)
(* lowest bits of a number are its remainder.                              *)
(***************************************************************************)
EXTENDS Arm64Fields, LayoutProofs, FiniteSetTheorems

-----------------------------------------------------------------------------
(* Powers of two are the numbers of subsets: the provers know no exponents.  *)

LEMMA PowerIs ==
  ASSUME NEW n \in Nat
  PROVE  2 ^ n \in Nat /\ 2 ^ n = Cardinality(SUBSET (1 .. n)) /\ IsFiniteSet(SUBSET (1 .. n))
<1>1. IsFiniteSet(1 .. n) /\ Cardinality(1 .. n) = n
  BY FS_Interval
<1>2. IsFiniteSet(SUBSET (1 .. n)) /\ Cardinality(SUBSET (1 .. n)) = 2 ^ n
  <2>1. Cardinality(SUBSET (1 .. n)) = 2 ^ Cardinality(1 .. n)
    BY <1>1, FS_SUBSET, Zenon
  <2>2. IsFiniteSet(SUBSET (1 .. n))
    BY <1>1, FS_SUBSET, Zenon
  <2> QED
    BY <1>1, <2>1, <2>2, Zenon
<1>3. Cardinality(SUBSET (1 .. n)) \in Nat
  BY <1>2, FS_CardinalityType
<1> QED
  BY <1>2, <1>3, Zenon

LEMMA PowerNext ==
  ASSUME NEW n \in Nat
  PROVE  2 ^ (n + 1) = 2 * 2 ^ n
<1> DEFINE A == SUBSET (1 .. n)
           B == {s \cup {n + 1} : s \in A}
<1>0. n + 1 \in Nat /\ n + 1 \notin 1 .. n
  OBVIOUS
<1>1. /\ 2 ^ n \in Nat /\ 2 ^ n = Cardinality(A) /\ IsFiniteSet(A)
      /\ 2 ^ (n + 1) = Cardinality(SUBSET (1 .. n + 1))
  BY <1>0, PowerIs
<1>2. SUBSET (1 .. n + 1) = A \cup B
  <2>0. 1 .. n + 1 = (1 .. n) \cup {n + 1}
    OBVIOUS
  <2>1. ASSUME NEW s \in SUBSET (1 .. n + 1)
        PROVE  s \in A \cup B
    <3>1. CASE n + 1 \in s
      <4>1. s \ {n + 1} \in A /\ s = (s \ {n + 1}) \cup {n + 1}
        BY <2>0, <3>1
      <4> QED
        BY <4>1
    <3>2. CASE n + 1 \notin s
      BY <2>0, <3>2
    <3> QED
      BY <3>1, <3>2
  <2>2. ASSUME NEW s \in A
        PROVE  s \in SUBSET (1 .. n + 1) /\ s \cup {n + 1} \in SUBSET (1 .. n + 1)
    BY <2>0
  <2>3. A \cup B \subseteq SUBSET (1 .. n + 1)
    <3>1. A \subseteq SUBSET (1 .. n + 1)
      BY <2>2, Zenon
    <3>2. ASSUME NEW t \in B
          PROVE  t \in SUBSET (1 .. n + 1)
      <4>1. PICK s \in A : t = s \cup {n + 1}
        OBVIOUS
      <4> QED
        BY <2>2, <4>1, Zenon
    <3> QED
      BY <3>1, <3>2, Zenon
  <2>4. SUBSET (1 .. n + 1) \subseteq A \cup B
    BY <2>1, Zenon
  <2> QED
    BY <2>3, <2>4, Zenon
<1>3. A \cap B = {}
  BY <1>0
<1>4. IsFiniteSet(B) /\ Cardinality(B) = Cardinality(A)
  <2> DEFINE f == [s \in A |-> s \cup {n + 1}]
  <2>1. f \in [A -> B] /\ \A t \in B : \E s \in A : f[s] = t
    OBVIOUS
  <2>2. \A s, t \in A : f[s] = f[t] => s = t
    BY <1>0
  <2>3. f \in Bijection(A, B)
    BY <2>1, <2>2 DEF Bijection, Injection, Surjection, IsInjective
  <2>4. ExistsBijection(A, B)
    BY <2>3 DEF ExistsBijection
  <2> QED
    BY <1>1, <2>4, FS_Bijection
<1> HIDE DEF A, B
<1>5. Cardinality(A \cup B) = Cardinality(A) + Cardinality(B) - Cardinality(A \cap B)
  BY <1>1, <1>4, FS_Union
<1>6. Cardinality(A \cap B) = 0
  BY <1>3, FS_EmptySet
<1> DEFINE c == Cardinality(A)
           p == 2 ^ n
           q == 2 ^ (n + 1)
<1>7. c \in Nat /\ q = c + c - 0 /\ p = c
  BY <1>1, <1>2, <1>4, <1>5, <1>6, Zenon
<1> HIDE DEF c, p, q
<1>8. q = 2 * p
  BY <1>7
<1> QED
  BY <1>8 DEF p, q

\* The powers as a function, for the provers.
Pow == [n \in Nat |-> 2 ^ n]

LEMMA PowFacts ==
  /\ Pow \in [Nat -> Nat \ {0}]
  /\ Pow[0] = 1
  /\ \A n \in Nat : Pow[n + 1] = 2 * Pow[n]
  /\ \A n \in Nat : Pow[n] = 2 ^ n
<1>1. \A n \in Nat : Pow[n] = 2 ^ n
  BY DEF Pow
<1>2. Pow[0] = 1
  <2>1. 2 ^ 0 = 1
    OBVIOUS
  <2> QED
    BY <1>1, <2>1
<1>3. ASSUME NEW n \in Nat
      PROVE  Pow[n] \in Nat /\ Pow[n + 1] = 2 * Pow[n]
  <2>1. n + 1 \in Nat
    OBVIOUS
  <2> QED
    BY <1>1, <2>1, PowerIs, PowerNext, Zenon
<1>4. ASSUME NEW n \in Nat
      PROVE  Pow[n] # 0
  <2> DEFINE S == {i \in 0 .. n : Pow[i] # 0}
  <2>1. 0 \in S
    BY <1>2
  <2>2. ASSUME NEW i \in 0 .. n - 1, i \in S
        PROVE  i + 1 \in S
    <3>1. i \in Nat /\ i + 1 \in 0 .. n /\ Pow[i] \in Nat
      BY <1>3
    <3>2. Pow[i + 1] = 2 * Pow[i] /\ Pow[i] # 0
      BY <1>3, <2>2, <3>1
    <3> QED
      BY <3>1, <3>2
  <2> HIDE DEF S
  <2>3. n \in S
    BY <2>1, <2>2, InductionUpTo
  <2> QED
    BY <2>3 DEF S
<1>5. Pow \in [Nat -> Nat \ {0}]
  <2>1. DOMAIN Pow = Nat /\ Pow = [n \in Nat |-> Pow[n]]
    BY DEF Pow
  <2>2. \A n \in Nat : Pow[n] \in Nat \ {0}
    BY <1>3, <1>4
  <2> QED
    BY <2>1, <2>2, Zenon
<1> QED
  BY <1>1, <1>2, <1>3, <1>5

-----------------------------------------------------------------------------
(* A set of bits as a number: f[i] is that of the lowest i bits of s.        *)

Digits(f, s, n) ==
  /\ f \in [0 .. n -> Nat]
  /\ f[0] = 0
  /\ \A i \in 1 .. n : f[i] = f[i - 1] + (IF i - 1 \in s THEN Pow[i - 1] ELSE 0)

LEMMA DigitsExist ==
  ASSUME NEW s, NEW n \in Nat
  PROVE  \E f : Digits(f, s, n)
<1> DEFINE T == [p \in (1 .. n) \X Nat |-> p[2] + (IF p[1] - 1 \in s THEN Pow[p[1] - 1] ELSE 0)]
<1>1. \A i \in 1 .. n : i - 1 \in Nat /\ Pow[i - 1] \in Nat
  BY PowFacts
<1>2. T \in [(1 .. n) \X Nat -> Nat]
  BY <1>1
<1>3. \A i \in 1 .. n, y \in Nat :
        T[<<i, y>>] = y + (IF i - 1 \in s THEN Pow[i - 1] ELSE 0)
  OBVIOUS
<1> HIDE DEF T
<1>4. PICK f : Recurs(f, n, Nat, 0, T)
  <2>1. 0 \in Nat
    OBVIOUS
  <2> QED
    BY <1>2, <2>1, Recursion DEF Steps
<1>5. f \in [0 .. n -> Nat] /\ f[0] = 0
  BY <1>4 DEF Recurs
<1>6. \A i \in 1 .. n : f[i - 1] \in Nat
  BY <1>5
<1>7. \A i \in 1 .. n : f[i] = f[i - 1] + (IF i - 1 \in s THEN Pow[i - 1] ELSE 0)
  BY <1>3, <1>4, <1>6 DEF Recurs
<1> QED
  BY <1>5, <1>7, Zenon DEF Digits

\* k bits are a number below 2^k.
LEMMA DigitsBelow ==
  ASSUME NEW s, NEW n \in Nat, NEW f, Digits(f, s, n)
  PROVE  \A k \in 0 .. n : f[k] \in 0 .. Pow[k] - 1
<1> DEFINE S == {k \in 0 .. n : f[k] < Pow[k]}
<1>0. f \in [0 .. n -> Nat] /\ f[0] = 0
  BY DEF Digits
<1>1. 0 \in S
  BY <1>0, PowFacts
<1>2. ASSUME NEW i \in 0 .. n - 1, i \in S
      PROVE  i + 1 \in S
  <2>1. i + 1 \in 1 .. n /\ (i + 1) - 1 = i /\ i + 1 \in 0 .. n /\ i \in Nat
    OBVIOUS
  <2>2. f[i + 1] = f[i] + (IF i \in s THEN Pow[i] ELSE 0)
    BY <2>1 DEF Digits
  <2>3. Pow[i + 1] = 2 * Pow[i] /\ Pow[i] \in Nat /\ f[i] \in Nat /\ f[i] < Pow[i]
    BY <1>0, <1>2, <2>1, PowFacts
  <2>4. f[i + 1] < Pow[i + 1]
    BY <2>2, <2>3
  <2> QED
    BY <2>1, <2>4
<1> HIDE DEF S
<1>3. \A k \in 0 .. n : k \in S
  BY <1>1, <1>2, InductionUpTo
<1>4. ASSUME NEW k \in 0 .. n
      PROVE  f[k] \in 0 .. Pow[k] - 1
  <2>1. k \in Nat /\ f[k] \in Nat /\ f[k] < Pow[k]
    BY <1>0, <1>3 DEF S
  <2>2. Pow[k] \in Nat
    BY <2>1, PowFacts
  <2> QED
    BY <2>1, <2>2
<1> QED
  BY <1>4

\* The lowest bits of x are the remainder.
LEMMA DigitsOfLow ==
  ASSUME NEW x \in Int, NEW n \in Nat, NEW f, Digits(f, LowBits(x, n), n)
  PROVE  f[n] = x % Pow[n]
<1> DEFINE S == {k \in 0 .. n : f[k] = x % Pow[k]}
<1>0. f \in [0 .. n -> Nat] /\ f[0] = 0
  BY DEF Digits
<1>1. 0 \in S
  <2>1. x % 1 = 0
    OBVIOUS
  <2> QED
    BY <1>0, <2>1, PowFacts
<1>2. ASSUME NEW i \in 0 .. n - 1, i \in S
      PROVE  i + 1 \in S
  <2>1. i + 1 \in 1 .. n /\ (i + 1) - 1 = i /\ i + 1 \in 0 .. n /\ i \in Nat
    OBVIOUS
  <2> DEFINE p == Pow[i]
             q == x \div p
             b == q % 2
             d == q \div 2
  <2>2. p \in Nat \ {0} /\ Pow[i + 1] = 2 * p
    BY <2>1, PowFacts
  <2>3. i \in LowBits(x, n) <=> b = 1
    BY <2>1, PowFacts DEF LowBits
  <2>4. f[i + 1] = f[i] + (IF b = 1 THEN p ELSE 0) /\ f[i] = x % p
    BY <1>2, <2>1, <2>3 DEF Digits
  <2> HIDE DEF p
  <2>5. q \in Int /\ x % p \in 0 .. p - 1 /\ x = p * q + (x % p)
    BY <2>2, Euclid
  <2> HIDE DEF q
  <2>6. d \in Int /\ b \in 0 .. 1 /\ q = 2 * d + b
    BY <2>5, Euclid
  <2> HIDE DEF b, d
  <2> DEFINE r == f[i] + (IF b = 1 THEN p ELSE 0)
             m == 2 * p
  <2>7. r = p * b + (x % p)
    <3>1. CASE b = 0
      BY <2>2, <2>4, <2>5, <3>1
    <3>2. CASE b = 1
      BY <2>2, <2>4, <2>5, <3>2
    <3> QED
      BY <2>6, <3>1, <3>2
  <2>8. r \in 0 .. m - 1
    BY <2>2, <2>4, <2>5
  <2>9. x = m * d + r
    <3>1. x = p * (2 * d + b) + (x % p)
      BY <2>5, <2>6
    <3>2. p * (2 * d + b) = m * d + p * b
      BY <2>2, <2>6
    <3> QED
      BY <2>2, <2>5, <2>6, <2>7, <3>1, <3>2
  <2>10. m \in Nat \ {0}
    BY <2>2
  <2> HIDE DEF m, r
  <2>11. x % m = r
    BY <2>6, <2>8, <2>9, <2>10, EuclidUnique
  <2> QED
    BY <2>1, <2>2, <2>4, <2>11 DEF m, r
<1> HIDE DEF S
<1>3. n \in S
  BY <1>1, <1>2, InductionUpTo
<1> QED
  BY <1>3 DEF S

LEMMA DigitsOfNone ==
  ASSUME NEW n \in Nat, NEW f, Digits(f, {}, n)
  PROVE  f[n] = 0
<1> DEFINE S == {k \in 0 .. n : f[k] = 0}
<1>1. 0 \in S
  BY DEF Digits
<1>2. ASSUME NEW i \in 0 .. n - 1, i \in S
      PROVE  i + 1 \in S
  <2>1. i + 1 \in 1 .. n /\ (i + 1) - 1 = i /\ i + 1 \in 0 .. n
    OBVIOUS
  <2>2. f[i + 1] = f[i] + 0
    BY <2>1 DEF Digits
  <2> QED
    BY <1>2, <2>1, <2>2
<1> HIDE DEF S
<1>3. n \in S
  BY <1>1, <1>2, InductionUpTo
<1> QED
  BY <1>3 DEF S

\* One bit less is its power less.
LEMMA DigitsWithout ==
  ASSUME NEW n \in Nat, NEW s, NEW x \in s, x \in 0 .. n - 1,
         NEW f, Digits(f, s, n), NEW g, Digits(g, s \ {x}, n)
  PROVE  f[n] = Pow[x] + g[n]
<1> DEFINE S == {k \in 0 .. n : f[k] = (IF x < k THEN Pow[x] ELSE 0) + g[k]}
<1>0. /\ f \in [0 .. n -> Nat] /\ f[0] = 0 /\ g \in [0 .. n -> Nat] /\ g[0] = 0
      /\ x \in Nat /\ Pow[x] \in Nat
  <2>1. x \in Nat
    OBVIOUS
  <2>2. Pow[x] \in Nat
    BY <2>1, PowFacts
  <2> QED
    BY <2>1, <2>2 DEF Digits
<1>1. 0 \in S
  BY <1>0
<1>2. ASSUME NEW i \in 0 .. n - 1, i \in S
      PROVE  i + 1 \in S
  <2>1. i + 1 \in 1 .. n /\ (i + 1) - 1 = i /\ i + 1 \in 0 .. n /\ i \in 0 .. n /\ i \in Nat
    OBVIOUS
  <2>2. /\ f[i + 1] = f[i] + (IF i \in s THEN Pow[i] ELSE 0)
        /\ g[i + 1] = g[i] + (IF i \in s \ {x} THEN Pow[i] ELSE 0)
    BY <2>1 DEF Digits
  <2>3. f[i] = (IF x < i THEN Pow[x] ELSE 0) + g[i]
    BY <1>2
  <2>6. f[i] \in Nat /\ g[i] \in Nat /\ Pow[i] \in Nat
    BY <1>0, <2>1, PowFacts
  <2>4. CASE i = x
    BY <1>0, <2>1, <2>2, <2>3, <2>4, <2>6
  <2>5. CASE i # x
    <3>1. x < i + 1 <=> x < i
      BY <2>5
    <3>2. i \in s \ {x} <=> i \in s
      BY <2>5
    <3>3. /\ f[i + 1] = f[i] + (IF i \in s THEN Pow[i] ELSE 0)
          /\ g[i + 1] = g[i] + (IF i \in s THEN Pow[i] ELSE 0)
          /\ f[i] = (IF x < i + 1 THEN Pow[x] ELSE 0) + g[i]
      BY <2>2, <2>3, <3>1, <3>2, Zenon
    <3>4. f[i + 1] = (IF x < i + 1 THEN Pow[x] ELSE 0) + g[i + 1]
      <4> DEFINE d == IF i \in s THEN Pow[i] ELSE 0
                 e == IF x < i + 1 THEN Pow[x] ELSE 0
      <4>1. d \in Nat /\ e \in Nat
        BY <1>0, <2>6
      <4>2. f[i + 1] = f[i] + d /\ g[i + 1] = g[i] + d /\ f[i] = e + g[i]
        BY <3>3, Zenon
      <4> HIDE DEF d, e
      <4>3. f[i + 1] = e + g[i + 1]
        BY <2>6, <4>1, <4>2
      <4> QED
        BY <4>3, Zenon DEF e
    <3> QED
      BY <2>1, <3>4
  <2> QED
    BY <2>4, <2>5
<1> HIDE DEF S
<1>3. n \in S
  BY <1>1, <1>2, InductionUpTo
<1> QED
  BY <1>3 DEF S

LEMMA DigitsOnce ==
  ASSUME NEW s, NEW n \in Nat, NEW f, Digits(f, s, n), NEW g, Digits(g, s, n)
  PROVE  f[n] = g[n]
<1> DEFINE S == {k \in 0 .. n : f[k] = g[k]}
<1>1. 0 \in S
  BY DEF Digits
<1>2. ASSUME NEW i \in 0 .. n - 1, i \in S
      PROVE  i + 1 \in S
  <2>1. i + 1 \in 1 .. n /\ (i + 1) - 1 = i /\ i + 1 \in 0 .. n
    OBVIOUS
  <2>2. /\ f[i + 1] = f[i] + (IF i \in s THEN Pow[i] ELSE 0)
        /\ g[i + 1] = g[i] + (IF i \in s THEN Pow[i] ELSE 0)
    BY <2>1 DEF Digits
  <2> QED
    BY <1>2, <2>1, <2>2
<1> HIDE DEF S
<1>3. n \in S
  BY <1>1, <1>2, InductionUpTo
<1> QED
  BY <1>3 DEF S

\* The library's sum over a set is that number, whatever the order it takes.
LEMMA NumberIs ==
  ASSUME NEW n \in Nat, NEW bits \in SUBSET (0 .. n - 1), NEW f, Digits(f, bits, n)
  PROVE  Number(bits) = f[n]
<1> DEFINE V(s) == (CHOOSE g : Digits(g, s, n))[n]
           G(h) == [s \in SUBSET bits |->
                      IF s = {} THEN 0
                      ELSE LET x == CHOOSE x \in s : TRUE IN 2 ^ x + h[s \ {x}]]
           c == CHOOSE h : h = G(h)
           e == [s \in SUBSET bits |-> V(s)]
<1>1. Number(bits) = c[bits]
  BY Zenon DEF Number, MapThenSumSet, MapThenFoldSet
<1>2. \A s : Digits(CHOOSE g : Digits(g, s, n), s, n)
  BY DigitsExist, Zenon
<1>3. \A s, g : Digits(g, s, n) => V(s) = g[n]
  BY <1>2, DigitsOnce, Zenon
<1>4. V({}) = 0
  BY <1>2, DigitsOfNone, Zenon
<1>5. \A s \in SUBSET bits : \A x \in s : V(s) = 2 ^ x + V(s \ {x})
  <2> SUFFICES ASSUME NEW s \in SUBSET bits, NEW x \in s
               PROVE  V(s) = 2 ^ x + V(s \ {x})
    OBVIOUS
  <2>1. x \in 0 .. n - 1 /\ x \in Nat
    OBVIOUS
  <2>2. Pow[x] = 2 ^ x
    BY <2>1, PowFacts, Zenon
  <2>3. PICK g : Digits(g, s, n)
    BY DigitsExist
  <2>4. PICK h : Digits(h, s \ {x}, n)
    BY DigitsExist
  <2>5. g[n] = Pow[x] + h[n]
    BY <2>1, <2>3, <2>4, DigitsWithout
  <2> QED
    BY <1>3, <2>2, <2>3, <2>4, <2>5, Zenon
<1> HIDE DEF V
<1>6. e = G(e)
  <2>1. ASSUME NEW s \in SUBSET bits, s # {}
        PROVE  LET x == CHOOSE x \in s : TRUE IN V(s) = 2 ^ x + e[s \ {x}]
    <3> DEFINE x == CHOOSE x \in s : TRUE
    <3>1. x \in s /\ s \ {x} \in SUBSET bits
      BY <2>1
    <3>2. e[s \ {x}] = V(s \ {x})
      BY <3>1
    <3> QED
      BY <1>5, <3>1, <3>2, Zenon
  <2> HIDE DEF e
  <2>2. \A s \in SUBSET bits :
          V(s) = IF s = {} THEN 0 ELSE LET x == CHOOSE x \in s : TRUE IN 2 ^ x + e[s \ {x}]
    BY <1>4, <2>1, Zenon
  <2> QED
    BY <2>2, Zenon DEF e
<1>7. c = G(c)
  <2> HIDE DEF e
  <2> QED
    BY <1>6, Zenon
<1>8. \A s \in SUBSET bits : c[s] = G(c)[s]
  <2> HIDE DEF c, G
  <2> QED
    BY <1>7, Zenon
<1>9. IsFiniteSet(bits)
  <2>1. IsFiniteSet(0 .. n - 1)
    BY FS_Interval
  <2> QED
    BY <2>1, FS_Subset
<1> DEFINE m == Cardinality(bits)
           S == {k \in 0 .. m : \A s \in SUBSET bits : Cardinality(s) = k => c[s] = V(s)}
<1>10. m \in Nat
  BY <1>9, FS_CardinalityType
<1> HIDE DEF c
<1>11. \A s \in SUBSET bits : IsFiniteSet(s)
  BY <1>9, FS_Subset
<1>12. 0 \in S
  <2>1. ASSUME NEW s \in SUBSET bits, Cardinality(s) = 0
        PROVE  c[s] = V(s)
    <3>1. s = {}
      BY <1>11, <2>1, FS_EmptySet
    <3>2. c[s] = 0
      BY <1>7, <3>1
    <3> QED
      BY <1>4, <3>1, <3>2, Zenon
  <2> QED
    BY <1>10, <2>1
<1>13. ASSUME NEW i \in 0 .. m - 1, i \in S
       PROVE  i + 1 \in S
  <2>1. ASSUME NEW s \in SUBSET bits, Cardinality(s) = i + 1
        PROVE  c[s] = V(s)
    <3> DEFINE x == CHOOSE x \in s : TRUE
    <3>1. IsFiniteSet(s) /\ s # {}
      <4>1. IsFiniteSet(s) /\ i + 1 # 0
        BY <1>10, <1>11
      <4> QED
        BY <2>1, <4>1, FS_EmptySet
    <3>2. x \in s /\ s \ {x} \in SUBSET bits
      BY <3>1
    <3>3. c[s] = 2 ^ x + c[s \ {x}]
      <4>1. c[s] = G(c)[s]
        BY <1>8
      <4> QED
        BY <3>1, <4>1
    <3> HIDE DEF x
    <3>4. Cardinality(s \ {x}) = i
      <4>1. Cardinality(s \ {x}) = Cardinality(s) - 1
        BY <3>1, <3>2, FS_RemoveElement
      <4>2. i \in Nat
        BY <1>10
      <4> QED
        BY <2>1, <4>1, <4>2
    <3>5. c[s \ {x}] = V(s \ {x})
      BY <1>13, <3>2, <3>4
    <3> QED
      BY <1>5, <3>2, <3>3, <3>5, Zenon
  <2> QED
    BY <1>10, <2>1
<1> HIDE DEF S
<1>14. m \in S
  BY <1>10, <1>12, <1>13, InductionUpTo
<1>15. c[bits] = V(bits)
  BY <1>14 DEF S
<1> QED
  BY <1>1, <1>3, <1>15, Zenon

-----------------------------------------------------------------------------
(* The fields. *)

\* Where the ith bit of the immediate is.
Pos(typ, i) ==
  IF typ \in {"adr", "adrp"} THEN (IF i < 2 THEN 29 + i ELSE i + 3) ELSE Offset(typ) + i

LEMMA WidthFacts ==
  ASSUME NEW typ \in InstrTypes
  PROVE  /\ Width(typ) \in 1 .. 26
         /\ Offset(typ) \in {0, 5, 10}
         /\ typ \in {"adr", "adrp"} => Width(typ) = AdrBits /\ AdrBits \in 3 .. 21
         /\ typ \in {"pageoff", "pageoffl"} =>
              Width(typ) = PageBits /\ PageBits \in 1 .. 12 /\ Offset(typ) = 10
BY Arm64Assumption DEF InstrTypes, Width, Offset

LEMMA ImmediateIs ==
  ASSUME NEW typ \in InstrTypes
  PROVE  /\ Len(Immediate(typ)) = Width(typ)
         /\ \A i \in 0 .. Width(typ) - 1 : Immediate(typ)[i + 1] = Pos(typ, i)
         /\ Range(Immediate(typ)) = {Pos(typ, i) : i \in 0 .. Width(typ) - 1}
<1> DEFINE n == Width(typ)
           f == Immediate(typ)
<1>1. n \in 1 .. 26
  BY WidthFacts
<1>2. /\ DOMAIN f = 1 .. n /\ Len(f) = n
      /\ \A i \in 1 .. n : f[i] = Pos(typ, i - 1)
  <2>1. CASE typ \in {"adr", "adrp"}
    <3> DEFINE g == [i \in 1 .. AdrBits - 2 |-> i + 4]
               h == <<29, 30>>
    <3>1. f = h \o g /\ n = AdrBits /\ AdrBits \in 3 .. 21
      BY <2>1, Arm64Assumption DEF Immediate, Width
    <3>2. g \in Seq(Int) /\ Len(g) = n - 2 /\ h \in Seq(Int) /\ Len(h) = 2
      BY <3>1
    <3>3. Len(f) = n /\ DOMAIN f = 1 .. n
      BY <3>1, <3>2
    <3>4. ASSUME NEW i \in 1 .. n
          PROVE  f[i] = Pos(typ, i - 1)
      <4>1. CASE i <= 2
        <5>1. i = 1 \/ i = 2
          BY <4>1, <1>1
        <5>2. f[i] = h[i]
          BY <3>1, <3>2, <5>1
        <5> QED
          BY <2>1, <5>1, <5>2 DEF Pos
      <4>2. CASE i > 2
        <5>1. f[i] = g[i - 2] /\ i - 2 \in 1 .. AdrBits - 2
          BY <3>1, <3>2, <4>2
        <5>2. f[i] = (i - 2) + 4
          BY <5>1
        <5> QED
          BY <1>1, <2>1, <4>2, <5>2 DEF Pos
      <4> QED
        BY <1>1, <4>1, <4>2
    <3> QED
      BY <3>3, <3>4
  <2>2. CASE typ \notin {"adr", "adrp"}
    <3>1. f = [i \in 1 .. n |-> Offset(typ) + (i - 1)]
      <4>1. CASE typ = "branch"
        BY <4>1 DEF Immediate, Width, Offset
      <4>2. CASE typ = "cond"
        BY <4>2 DEF Immediate, Width, Offset
      <4>3. CASE typ = "test"
        BY <4>3 DEF Immediate, Width, Offset
      <4>4. CASE typ \in {"pageoff", "pageoffl"}
        <5>1. f = [i \in 1 .. PageBits |-> i + 9] /\ n = PageBits /\ Offset(typ) = 10
          BY <4>4 DEF Immediate, Width, Offset
        <5>2. \A i \in 1 .. PageBits : i + 9 = 10 + (i - 1)
          BY Arm64Assumption
        <5> QED
          BY <5>1, <5>2
      <4> QED
        BY <2>2, <4>1, <4>2, <4>3, <4>4 DEF InstrTypes
    <3>2. Len(f) = n
      <4>1. DOMAIN f = 1 .. n
        BY <3>1, Zenon
      <4>2. n \in Nat
        BY <1>1
      <4> HIDE DEF f, n
      <4> QED
        BY <4>1, <4>2
    <3> QED
      BY <2>2, <3>1, <3>2 DEF Pos
  <2> QED
    BY <2>1, <2>2
<1> HIDE DEF f, n
<1>3. ASSUME NEW i \in 0 .. n - 1
      PROVE  f[i + 1] = Pos(typ, i)
  <2>1. i + 1 \in 1 .. n /\ (i + 1) - 1 = i
    BY <1>1
  <2> QED
    BY <1>2, <2>1
<1>4. Range(f) = {Pos(typ, i) : i \in 0 .. n - 1}
  <2>1. Range(f) = {f[j] : j \in 1 .. n}
    BY <1>2 DEF Range
  <2>2. \A j \in 1 .. n : j - 1 \in 0 .. n - 1 /\ f[j] = Pos(typ, j - 1)
    BY <1>1, <1>2
  <2>3. \A i \in 0 .. n - 1 : i + 1 \in 1 .. n /\ f[i + 1] = Pos(typ, i)
    BY <1>1, <1>3
  <2> QED
    BY <2>1, <2>2, <2>3
<1> QED
  BY <1>2, <1>3, <1>4 DEF f, n

LEMMA PosInjective ==
  ASSUME NEW typ \in InstrTypes, NEW i \in 0 .. Width(typ) - 1, NEW j \in 0 .. Width(typ) - 1,
         Pos(typ, i) = Pos(typ, j)
  PROVE  i = j
<1>1. Width(typ) \in 1 .. 26 /\ Offset(typ) \in Int
      /\ (typ \in {"adr", "adrp"} => Width(typ) \in 3 .. 21)
  BY WidthFacts
<1>2. CASE typ \in {"adr", "adrp"}
  BY <1>1, <1>2 DEF Pos
<1>3. CASE typ \notin {"adr", "adrp"}
  BY <1>1, <1>3 DEF Pos
<1> QED
  BY <1>2, <1>3

\* Patching replaces the immediate's bits by those of x, and no others.
LEMMA InstructionIs ==
  ASSUME NEW typ \in InstrTypes, NEW word \in SUBSET Int, NEW x
  PROVE  Instruction(typ, word, x) =
           (word \ {Pos(typ, i) : i \in 0 .. Width(typ) - 1})
             \cup {Pos(typ, i) : i \in LowBits(x, Width(typ))}
<1> DEFINE n == Width(typ)
           L == LowBits(x, n)
<1>0. n \in 1 .. 26 /\ L \in SUBSET (0 .. n - 1)
  BY WidthFacts DEF LowBits
<1>1. CASE typ \in {"adr", "adrp"}
  <2>1. n = AdrBits /\ AdrBits \in 3 .. 21
    BY <1>1, WidthFacts
  <2>2. Instruction(typ, word, x) =
          (word \ (Mask(29, 2) \cup Mask(5, n - 2)))
            \cup Shl(L \cap Mask(0, 2), 29) \cup Shl(Shr(L, 2), 5)
    BY <1>1, <2>1 DEF Instruction, CompactAdr
  <2> HIDE DEF L
  <2>3. \A i \in 0 .. n - 1 : Pos(typ, i) = IF i < 2 THEN 29 + i ELSE i + 3
    BY <1>1 DEF Pos
  <2>4. {Pos(typ, i) : i \in 0 .. n - 1} = Mask(29, 2) \cup Mask(5, n - 2)
    <3>1. \A i \in 0 .. n - 1 : Pos(typ, i) \in Mask(29, 2) \cup Mask(5, n - 2)
      BY <2>1, <2>3 DEF Mask
    <3>2. ASSUME NEW y \in Mask(29, 2) \cup Mask(5, n - 2)
          PROVE  \E i \in 0 .. n - 1 : y = Pos(typ, i)
      <4>1. CASE y \in Mask(29, 2)
        <5>1. y - 29 \in 0 .. n - 1 /\ y = Pos(typ, y - 29)
          BY <2>1, <2>3, <4>1 DEF Mask
        <5> QED
          BY <5>1
      <4>2. CASE y \in Mask(5, n - 2)
        <5>1. y - 3 \in 0 .. n - 1 /\ y = Pos(typ, y - 3)
          BY <2>1, <2>3, <4>2 DEF Mask
        <5> QED
          BY <5>1
      <4> QED
        BY <4>1, <4>2
    <3> QED
      BY <3>1, <3>2
  <2>5. Shl(L \cap Mask(0, 2), 29) \cup Shl(Shr(L, 2), 5) = {Pos(typ, i) : i \in L}
    <3>1. ASSUME NEW i \in L
          PROVE  Pos(typ, i) \in Shl(L \cap Mask(0, 2), 29) \cup Shl(Shr(L, 2), 5)
      <4>1. i \in 0 .. n - 1
        BY <1>0
      <4>2. CASE i < 2
        <5>1. i \in Mask(0, 2) /\ Pos(typ, i) = i + 29
          BY <2>3, <4>1, <4>2 DEF Mask
        <5> QED
          BY <5>1 DEF Shl
      <4>3. CASE i >= 2
        <5>1. i - 2 \in Shr(L, 2) /\ Pos(typ, i) = (i - 2) + 5
          BY <2>3, <4>1, <4>3 DEF Shr
        <5> QED
          BY <5>1 DEF Shl
      <4> QED
        BY <4>1, <4>2, <4>3
    <3>2. ASSUME NEW y \in Shl(L \cap Mask(0, 2), 29) \cup Shl(Shr(L, 2), 5)
          PROVE  \E i \in L : y = Pos(typ, i)
      <4>1. CASE y \in Shl(L \cap Mask(0, 2), 29)
        <5>1. PICK i \in L : i \in Mask(0, 2) /\ y = i + 29
          BY <4>1 DEF Shl
        <5>2. y = Pos(typ, i)
          BY <1>0, <2>3, <5>1 DEF Mask
        <5> QED
          BY <5>2
      <4>2. CASE y \in Shl(Shr(L, 2), 5)
        <5>1. PICK i \in L : i >= 2 /\ y = (i - 2) + 5
          BY <4>2 DEF Shl, Shr
        <5>2. y = Pos(typ, i)
          BY <1>0, <2>3, <5>1
        <5> QED
          BY <5>2
      <4> QED
        BY <3>2, <4>1, <4>2
    <3> QED
      BY <3>1, <3>2
  <2>6. Instruction(typ, word, x) =
          (word \ (Mask(29, 2) \cup Mask(5, n - 2)))
            \cup (Shl(L \cap Mask(0, 2), 29) \cup Shl(Shr(L, 2), 5))
    BY <2>2, Zenon
  <2> QED
    BY <2>4, <2>5, <2>6 DEF L
<1>2. CASE typ \notin {"adr", "adrp"}
  <2> DEFINE o == Offset(typ)
  <2>1. o \in Int
    BY WidthFacts
  <2>2. Instruction(typ, word, x) = (word \ Mask(o, n)) \cup Shl(L, o)
    BY <1>2 DEF Instruction, Compact
  <2>3. \A i : Pos(typ, i) = o + i
    BY <1>2 DEF Pos
  <2> HIDE DEF L, o, n
  <2>4. {Pos(typ, i) : i \in 0 .. n - 1} = Mask(o, n)
    <3>1. \A i \in 0 .. n - 1 : Pos(typ, i) \in Mask(o, n)
      BY <1>0, <2>1, <2>3 DEF Mask
    <3>2. \A y \in Mask(o, n) : y - o \in 0 .. n - 1 /\ y = Pos(typ, y - o)
      BY <1>0, <2>1, <2>3 DEF Mask
    <3> QED
      BY <3>1, <3>2
  <2>5. Shl(L, o) = {Pos(typ, i) : i \in L}
    <3>1. \A i \in L : i + o = Pos(typ, i)
      BY <1>0, <2>1, <2>3
    <3> QED
      BY <3>1 DEF Shl
  <2> QED
    BY <2>2, <2>4, <2>5 DEF L, n
<1> QED
  BY <1>1, <1>2

\* The immediate's bits in a word.
Field(typ, word) == {i \in 0 .. Width(typ) - 1 : Pos(typ, i) \in word}

LEMMA RawIs ==
  ASSUME NEW typ \in InstrTypes, NEW word
  PROVE  Raw(typ, word) = Number(Field(typ, word))
<1>1. {i \in 0 .. Len(Immediate(typ)) - 1 : Immediate(typ)[i + 1] \in word} = Field(typ, word)
  BY ImmediateIs DEF Field
<1> QED
  BY <1>1, Zenon DEF Raw

LEMMA FieldFacts ==
  ASSUME NEW typ \in InstrTypes, NEW word
  PROVE  Field(typ, word) \in SUBSET (0 .. Width(typ) - 1)
BY DEF Field

\* The field is a number below 2^n, at least half of that exactly if the top
\* bit is there.
LEMMA NumberFacts ==
  ASSUME NEW n \in Nat \ {0}, NEW s \in SUBSET (0 .. n - 1)
  PROVE  /\ Number(s) \in 0 .. Pow[n] - 1
         /\ n - 1 \in s <=> Number(s) >= Pow[n - 1]
<1>1. PICK f : Digits(f, s, n)
  BY DigitsExist
<1>2. Number(s) = f[n]
  BY <1>1, NumberIs
<1>3. n \in 0 .. n /\ n - 1 \in 0 .. n /\ n \in 1 .. n /\ n - 1 \in Nat
  OBVIOUS
<1>4. f[n] \in 0 .. Pow[n] - 1 /\ f[n - 1] \in 0 .. Pow[n - 1] - 1
  BY <1>1, <1>3, DigitsBelow
<1>5. f[n] = f[n - 1] + (IF n - 1 \in s THEN Pow[n - 1] ELSE 0)
  BY <1>1, <1>3 DEF Digits
<1>6. Pow[n - 1] \in Nat
  BY <1>3, PowFacts
<1> QED
  BY <1>2, <1>4, <1>5, <1>6

LEMMA NumberOfLow ==
  ASSUME NEW n \in Nat, NEW x \in Int
  PROVE  Number(LowBits(x, n)) = x % Pow[n]
<1>1. PICK f : Digits(f, LowBits(x, n), n)
  BY DigitsExist
<1>2. LowBits(x, n) \in SUBSET (0 .. n - 1)
  BY DEF LowBits
<1> QED
  BY <1>1, <1>2, NumberIs, DigitsOfLow

LEMMA PatchedField ==
  ASSUME NEW typ \in InstrTypes, NEW word \in SUBSET Int, NEW x \in Int
  PROVE  /\ Field(typ, Instruction(typ, word, x)) = LowBits(x, Width(typ))
         /\ Opcode(typ, Instruction(typ, word, x)) = Opcode(typ, word)
<1> DEFINE n == Width(typ)
           L == LowBits(x, n)
           w == Instruction(typ, word, x)
           P == {Pos(typ, i) : i \in 0 .. n - 1}
           Q == {Pos(typ, i) : i \in L}
<1>1. w = (word \ P) \cup Q
  BY InstructionIs, Zenon
<1>2. L \in SUBSET (0 .. n - 1)
  BY DEF LowBits
<1> HIDE DEF w, L, n
<1>3. Q \subseteq P
  BY <1>2
<1>4. Opcode(typ, w) = Opcode(typ, word)
  <2>1. Range(Immediate(typ)) = P
    BY ImmediateIs DEF n
  <2> HIDE DEF P, Q
  <2> QED
    BY <1>1, <1>3, <2>1 DEF Opcode
<1>5. \A i \in 0 .. n - 1 : Pos(typ, i) \in w <=> i \in L
  <2> SUFFICES ASSUME NEW i \in 0 .. n - 1
               PROVE  Pos(typ, i) \in w <=> i \in L
    OBVIOUS
  <2>1. Pos(typ, i) \in P
    OBVIOUS
  <2>2. i \in L => Pos(typ, i) \in Q
    OBVIOUS
  <2>3. ASSUME Pos(typ, i) \in Q
        PROVE  i \in L
    <3>1. PICK j \in L : Pos(typ, i) = Pos(typ, j)
      BY <2>3
    <3>2. j \in 0 .. n - 1
      BY <1>2
    <3>3. i = j
      BY <3>1, <3>2, PosInjective DEF n
    <3> QED
      BY <3>3
  <2> HIDE DEF P, Q
  <2> QED
    BY <1>1, <2>1, <2>2, <2>3
<1>6. Field(typ, w) = L
  <2>1. Field(typ, w) = {i \in 0 .. n - 1 : Pos(typ, i) \in w}
    BY DEF Field, n
  <2> QED
    BY <1>2, <1>5, <2>1
<1> QED
  BY <1>4, <1>6 DEF w, L, n

\* The processor's sign extension.
Extended(x, n) == IF x >= Pow[n - 1] THEN x - Pow[n] ELSE x

LEMMA ExtendedIs ==
  ASSUME NEW n \in Nat \ {0}, NEW x \in -Pow[n - 1] .. Pow[n - 1] - 1
  PROVE  Extended(x % Pow[n], n) = x
<1> DEFINE h == Pow[n - 1]
           m == Pow[n]
<1>1. n - 1 \in Nat /\ (n - 1) + 1 = n
  OBVIOUS
<1>2. h \in Nat \ {0} /\ m = 2 * h
  BY <1>1, PowFacts
<1> HIDE DEF h
<1>3. m \in Nat \ {0}
  BY <1>2
<1>6. Extended(x % m, n) = IF x % m >= h THEN (x % m) - m ELSE x % m
  BY DEF Extended, h
<1> HIDE DEF m
<1>7. x \in Int /\ -h <= x /\ x < h
  BY <1>2 DEF h
<1>8. Extended(x % m, n) = x
  <2>1. CASE x >= 0
    <3>1. x \in 0 .. m - 1 /\ m * 0 + x = x
      BY <1>2, <1>7, <2>1
    <3>2. x % m = x
      BY <1>3, <3>1, EuclidUnique
    <3>3. ~(x >= h)
      BY <1>2, <1>7
    <3> QED
      BY <1>6, <3>2, <3>3, Zenon
  <2>2. CASE x < 0
    <3>1. x + m \in 0 .. m - 1 /\ m * (-1) + (x + m) = x
      BY <1>2, <1>7, <2>2
    <3>2. x % m = x + m
      BY <1>3, <3>1, EuclidUnique
    <3>3. x + m >= h /\ (x + m) - m = x
      BY <1>2, <1>3, <1>7
    <3> QED
      BY <1>2, <1>7, <1>6, <3>2, <3>3
  <2> QED
    BY <1>7, <2>1, <2>2
<1> QED
  BY <1>8 DEF m

-----------------------------------------------------------------------------
(* What the processor makes of an instruction. *)

LEMMA ScaleIs ==
  ASSUME NEW word \in SUBSET (0 .. 31), WellSized(word)
  PROVE  Scale(word) = AccessSize(word) /\ Scale(word) \in 0 .. 4
<1> DEFINE s == Shr(word, 30)
<1>1. s \in SUBSET (0 .. 2 - 1) /\ (0 \in s <=> 30 \in word) /\ (1 \in s <=> 31 \in word)
  BY DEF Shr
<1> HIDE DEF s
<1>2. PICK f : Digits(f, s, 2)
  BY DigitsExist
<1>3. Number(s) = f[2]
  BY <1>1, <1>2, NumberIs
<1>4. Pow[0] = 1 /\ Pow[1] = 2
  BY PowFacts
<1>5. f[0] = 0 /\ \A i \in 1 .. 2 : f[i] = f[i - 1] + (IF i - 1 \in s THEN Pow[i - 1] ELSE 0)
  BY <1>2 DEF Digits
<1>6. f[1] = IF 0 \in s THEN 1 ELSE 0
  BY <1>4, <1>5
<1>7. f[2] = f[1] + (IF 1 \in s THEN 2 ELSE 0)
  BY <1>4, <1>5
<1>8. Number(s) = (IF 30 \in word THEN 1 ELSE 0) + (IF 31 \in word THEN 2 ELSE 0)
  BY <1>1, <1>3, <1>6, <1>7
<1>9. Scale(word) = Number(s) + (IF {23, 26} \subseteq word THEN 4 ELSE 0)
  BY DEF Scale, s
<1>10. CASE {23, 26} \subseteq word
  <2>1. 30 \notin word /\ 31 \notin word
    BY <1>10 DEF WellSized
  <2>2. AccessSize(word) = 4
    BY <1>10 DEF AccessSize
  <2>3. Scale(word) = 4
    BY <1>8, <1>9, <1>10, <2>1
  <2> QED
    BY <2>2, <2>3
<1>11. CASE ~({23, 26} \subseteq word)
  <2>1. Scale(word) = (IF 30 \in word THEN 1 ELSE 0) + (IF 31 \in word THEN 2 ELSE 0)
    BY <1>8, <1>9, <1>11
  <2>2. AccessSize(word) = IF 31 \in word THEN (IF 30 \in word THEN 3 ELSE 2)
                                          ELSE (IF 30 \in word THEN 1 ELSE 0)
    <3>1. word \cap {30, 31} = {30, 31} <=> 30 \in word /\ 31 \in word
      OBVIOUS
    <3>2. word \cap {30, 31} = {31} <=> 30 \notin word /\ 31 \in word
      OBVIOUS
    <3>3. word \cap {30, 31} = {30} <=> 30 \in word /\ 31 \notin word
      OBVIOUS
    <3> QED
      BY <1>11, <3>1, <3>2, <3>3 DEF AccessSize
  <2> QED
    BY <2>1, <2>2
<1> QED
  BY <1>10, <1>11

LEMMA MeaningIs ==
  ASSUME NEW typ \in InstrTypes, NEW word, NEW p
  PROVE  LET x == Number(Field(typ, word))
             s == Extended(x, Width(typ))
         IN  Meaning(typ, word, p) =
               CASE typ \in {"branch", "cond", "test"} -> p + 4 * s
                 [] typ = "adr"     -> p + s
                 [] typ = "adrp"    -> (p - (p % Page)) + Page * s
                 [] typ = "pageoff" -> x
                 [] OTHER           -> x * 2 ^ AccessSize(word)
<1>1. Len(Immediate(typ)) = Width(typ) /\ Raw(typ, word) = Number(Field(typ, word))
  BY ImmediateIs, RawIs
<1>2. Width(typ) \in Nat /\ Width(typ) - 1 \in Nat
  BY WidthFacts
<1>3. Pow[Width(typ)] = 2 ^ Width(typ) /\ Pow[Width(typ) - 1] = 2 ^ (Width(typ) - 1)
  BY <1>2, PowFacts, Zenon
<1> QED
  BY <1>1, <1>3, Zenon DEF Meaning, Extended

\* Patching keeps the size of an access.
LEMMA PatchedSize ==
  ASSUME NEW typ \in {"pageoff", "pageoffl"}, NEW word \in SUBSET (0 .. 31), NEW x \in Int
  PROVE  LET w == Instruction(typ, word, x)
         IN  /\ w \in SUBSET (0 .. 31)
             /\ AccessSize(w) = AccessSize(word)
             /\ WellSized(w) <=> WellSized(word)
<1> DEFINE n == Width(typ)
           w == Instruction(typ, word, x)
           L == LowBits(x, n)
<1>0. typ \in InstrTypes
  BY DEF InstrTypes
<1>1. n \in 1 .. 12 /\ Offset(typ) = 10
  BY <1>0, WidthFacts
<1>2. w = (word \ Mask(10, n)) \cup Shl(L, 10)
  BY <1>1 DEF Instruction, Compact
<1>3. L \in SUBSET (0 .. n - 1)
  BY DEF LowBits
<1> HIDE DEF w, L, n
<1>4. Mask(10, n) \subseteq 10 .. 21 /\ Shl(L, 10) \subseteq 10 .. 21
  BY <1>1, <1>3 DEF Mask, Shl
<1>5. w \in SUBSET (0 .. 31) /\ \A i \in {23, 26, 30, 31} : i \in w <=> i \in word
  <2>1. ASSUME NEW i
        PROVE  i \in w <=> (i \in word /\ i \notin Mask(10, n)) \/ i \in Shl(L, 10)
    BY <1>2
  <2>2. \A i \in {23, 26, 30, 31} : i \notin 10 .. 21
    OBVIOUS
  <2>3. 10 .. 21 \subseteq 0 .. 31
    OBVIOUS
  <2> QED
    BY <1>4, <2>1, <2>2, <2>3, Zenon
<1>6. AccessSize(w) = AccessSize(word) /\ (WellSized(w) <=> WellSized(word))
  <2>1. {23, 26} \subseteq w <=> {23, 26} \subseteq word
    BY <1>5
  <2>2. w \cap {30, 31} = word \cap {30, 31}
    BY <1>5
  <2> QED
    BY <2>1, <2>2 DEF AccessSize, WellSized
<1> QED
  BY <1>5, <1>6 DEF w

\* What the relocator takes the addend of an instruction to be (extract,
\* extract_adr21 and scale) is what the processor would make of its immediate
\* at address 0, for every word: no bit is missed, misplaced or taken for
\* another, and the sign is that of the field.
THEOREM AddendIsImmediate ==
  ASSUME NEW typ \in InstrTypes, NEW word \in SUBSET (0 .. 31),
         typ = "pageoffl" => WellSized(word)
  PROVE  Addend(typ, word) = Meaning(typ, word, 0)
<1> DEFINE n == Width(typ)
           o == Offset(typ)
           F == Field(typ, word)
           x == Number(F)
           s == Extended(x, n)
<1>1. n \in Nat \ {0} /\ o \in Nat /\ F \in SUBSET (0 .. n - 1)
  BY WidthFacts, FieldFacts
<1>2. x \in Nat /\ SignExtended(F, n) = s
  <2>1. x \in 0 .. Pow[n] - 1 /\ (n - 1 \in F <=> x >= Pow[n - 1])
    BY <1>1, NumberFacts
  <2>2. Pow[n] = 2 ^ n /\ Pow[n] \in Nat
    BY <1>1, PowFacts
  <2> HIDE DEF F, n
  <2>3. SignExtended(F, n) = x - (IF n - 1 \in F THEN Pow[n] ELSE 0)
    BY <2>2, Zenon DEF SignExtended
  <2> QED
    BY <2>1, <2>2, <2>3 DEF Extended
<1>3. CASE typ \in {"adr", "adrp"}
  <2>1. n = AdrBits /\ AdrBits \in 3 .. 21
    BY <1>3, WidthFacts
  <2> DEFINE G == Shl(Shr(word, 5) \cap Mask(0, AdrBits - 2), 2) \cup (Shr(word, 29) \cap Mask(0, 2))
  <2>2. G = F
    <3>1. ASSUME NEW i
          PROVE  i \in Shr(word, 29) \cap Mask(0, 2) <=> i \in F /\ i < 2
      <4>1. i \in Shr(word, 29) \cap Mask(0, 2) <=> i \in 0 .. 1 /\ i + 29 \in word
        BY DEF Shr, Mask
      <4>2. i \in F /\ i < 2 <=> i \in 0 .. 1 /\ i + 29 \in word
        BY <1>3, <2>1 DEF Field, Pos
      <4> QED
        BY <4>1, <4>2
    <3>2. ASSUME NEW i
          PROVE  i \in Shl(Shr(word, 5) \cap Mask(0, AdrBits - 2), 2) <=> i \in F /\ i >= 2
      <4>1. i \in Shl(Shr(word, 5) \cap Mask(0, AdrBits - 2), 2)
              <=> i \in 2 .. AdrBits - 1 /\ i + 3 \in word
        <5>1. ASSUME i \in Shl(Shr(word, 5) \cap Mask(0, AdrBits - 2), 2)
              PROVE  i \in 2 .. AdrBits - 1 /\ i + 3 \in word
          <6>1. PICK k \in Shr(word, 5) \cap Mask(0, AdrBits - 2) : i = k + 2
            BY <5>1 DEF Shl
          <6>2. PICK m \in word : m >= 5 /\ k = m - 5
            BY DEF Shr
          <6> QED
            BY <2>1, <6>1, <6>2 DEF Mask
        <5>2. ASSUME i \in 2 .. AdrBits - 1, i + 3 \in word
              PROVE  i \in Shl(Shr(word, 5) \cap Mask(0, AdrBits - 2), 2)
          <6>1. (i + 3) - 5 \in Shr(word, 5) /\ (i + 3) - 5 = i - 2
            BY <2>1, <5>2 DEF Shr
          <6>2. i - 2 \in Mask(0, AdrBits - 2) /\ i = (i - 2) + 2
            BY <2>1, <5>2 DEF Mask
          <6> QED
            BY <6>1, <6>2 DEF Shl
        <5> QED
          BY <5>1, <5>2
      <4>2. i \in F /\ i >= 2 <=> i \in 2 .. AdrBits - 1 /\ i + 3 \in word
        BY <1>3, <2>1 DEF Field, Pos
      <4> QED
        BY <4>1, <4>2
    <3>3. \A i \in F : i < 2 \/ i >= 2
      BY <1>1
    <3> HIDE DEF F
    <3> QED
      BY <3>1, <3>2, <3>3
  <2>3. ExtractAdr(word) = s
    BY <1>2, <2>1, <2>2, Zenon DEF ExtractAdr
  <2>4. Meaning(typ, word, 0) = IF typ = "adr" THEN 0 + s ELSE (0 - (0 % Page)) + Page * s
    BY <1>3, MeaningIs
  <2>5. Addend(typ, word) = IF typ = "adr" THEN s ELSE Page * s
    BY <1>3, <2>3 DEF Addend
  <2> QED
    <3>1. PageBits \in Nat
      BY Arm64Assumption
    <3>2. Page \in Nat \ {0}
      BY <3>1, PowFacts DEF Page
    <3>3. 0 % Page = 0
      BY <3>2
    <3>4. s \in Int
      BY <1>1, <1>2, PowFacts DEF Extended
    <3> HIDE DEF s
    <3> QED
      BY <2>4, <2>5, <3>2, <3>3, <3>4
<1>4. CASE typ \notin {"adr", "adrp"}
  <2>1. Shr(word, o) \cap Mask(0, n) = F
    <3>1. ASSUME NEW i
          PROVE  i \in Shr(word, o) \cap Mask(0, n) <=> i \in F
      <4>1. i \in Shr(word, o) \cap Mask(0, n) <=> i \in 0 .. n - 1 /\ i + o \in word
        <5>1. i \in Shr(word, o) /\ i \in 0 .. n - 1 => i + o \in word
          BY <1>1 DEF Shr
        <5>2. i \in 0 .. n - 1 /\ i + o \in word => i \in Shr(word, o)
          <6> SUFFICES ASSUME i \in 0 .. n - 1, i + o \in word
                       PROVE  i \in Shr(word, o)
            OBVIOUS
          <6>1. i + o >= o /\ (i + o) - o = i
            BY <1>1
          <6> QED
            BY <6>1 DEF Shr
        <5>3. Mask(0, n) = 0 .. n - 1
          BY <1>1 DEF Mask
        <5> QED
          BY <5>1, <5>2, <5>3
      <4>2. i \in 0 .. n - 1 => Pos(typ, i) = i + o
        BY <1>1, <1>4 DEF Pos
      <4> QED
        BY <4>1, <4>2 DEF Field
    <3> QED
      BY <3>1
  <2>2. Extract(word, o, n, TRUE) = s /\ Extract(word, o, n, FALSE) = x
    BY <1>2, <2>1, Zenon DEF Extract
  <2>3. CASE typ \in {"branch", "cond", "test"}
    <3>1. Meaning(typ, word, 0) = 0 + 4 * s
      BY <2>3, MeaningIs
    <3>2. Addend(typ, word) = 4 * s
      BY <2>2, <2>3 DEF Addend
    <3>3. s \in Int
      BY <1>1, <1>2, PowFacts DEF Extended
    <3> HIDE DEF s
    <3> QED
      BY <3>1, <3>2, <3>3
  <2>4. CASE typ \in {"pageoff", "pageoffl"}
    <3>1. Meaning(typ, word, 0) = IF typ = "pageoff" THEN x ELSE x * 2 ^ AccessSize(word)
      BY <2>4, MeaningIs
    <3>2. n = PageBits
      BY <2>4, WidthFacts DEF InstrTypes
    <3>3. Addend(typ, word) = IF typ = "pageoff" THEN x ELSE x * 2 ^ Scale(word)
      BY <2>2, <2>4, <3>2 DEF Addend
    <3>4. typ = "pageoffl" => Scale(word) = AccessSize(word)
      BY ScaleIs
    <3> DEFINE m == 2 ^ AccessSize(word)
    <3>5. typ = "pageoffl" => 2 ^ Scale(word) = m
      BY <3>4, Zenon
    <3>6. Addend(typ, word) = IF typ = "pageoff" THEN x ELSE x * m
      BY <2>4, <3>3, <3>5, Zenon
    <3> HIDE DEF m, x, F, n
    <3>7. Addend(typ, word) = Meaning(typ, word, 0)
      BY <3>1, <3>6 DEF m
    <3> QED
      BY <3>7
  <2> QED
    BY <1>4, <2>3, <2>4 DEF InstrTypes
<1> QED
  BY <1>3, <1>4

\* An instruction patched for a target computes that target: its address, the
\* page of it for adrp, the offset in the page for the 12-bit forms; and all
\* its other bits are kept.  The targets of branches are multiples of 4 away.
THEOREM PatchedInstruction ==
  ASSUME NEW typ \in InstrTypes, NEW word \in SUBSET (0 .. 31),
         typ = "pageoffl" => WellSized(word), NEW target \in Int,
         NEW p \in Int, Encodable(typ, word, target, p),
         typ \in {"branch", "cond", "test"} => (target - p) % 4 = 0
  PROVE  LET w == Instruction(typ, word, Encoded(typ, word, target, p))
         IN  /\ Opcode(typ, w) = Opcode(typ, word)
             /\ Meaning(typ, w, p) =
                  CASE typ = "adrp" -> target - (target % Page)
                    [] typ \in {"pageoff", "pageoffl"} -> target % Page
                    [] OTHER -> target
<1> DEFINE n == Width(typ)
           v == Encoded(typ, word, target, p)
           w == Instruction(typ, word, v)
           x == Number(Field(typ, w))
           s == Extended(x, n)
<1>1. n \in Nat \ {0} /\ n - 1 \in Nat /\ word \in SUBSET Int
  BY WidthFacts
<1>2. Page \in Nat \ {0}
  <2>1. PageBits \in Nat
    BY Arm64Assumption
  <2> QED
    BY <2>1, PowFacts DEF Page
<1>3. WithinBits(~Fits12(typ), n, v)
  BY DEF Encodable
<1>4. Pow[n] = 2 ^ n /\ Pow[n - 1] = 2 ^ (n - 1) /\ Pow[n] \in Nat \ {0} /\ Pow[n - 1] \in Nat
  BY <1>1, PowFacts
<1>5. IF Fits12(typ) THEN v \in 0 .. Pow[n] - 1 ELSE v \in -Pow[n - 1] .. Pow[n - 1] - 1
  BY <1>3, <1>4, Zenon DEF WithinBits
<1>6. v \in Int
  BY <1>4, <1>5
<1>7. Opcode(typ, w) = Opcode(typ, word) /\ Field(typ, w) = LowBits(v, n)
  BY <1>1, <1>6, PatchedField
<1>8. x = v % Pow[n]
  BY <1>1, <1>6, <1>7, NumberOfLow
<1>9. /\ Fits12(typ) => x = v
      /\ ~Fits12(typ) => s = v
  <2>1. ASSUME Fits12(typ)
        PROVE  x = v
    <3> DEFINE m == Pow[n]
    <3>1. m \in Nat \ {0} /\ v \in 0 .. m - 1 /\ x = v % m
      BY <1>4, <1>5, <1>8, <2>1
    <3> HIDE DEF m, x, v
    <3>2. m * 0 + v = v
      BY <3>1
    <3>3. (m * 0 + v) % m = v
      BY <3>1, EuclidUnique
    <3> QED
      BY <3>1, <3>2, <3>3
  <2>2. ASSUME ~Fits12(typ)
        PROVE  s = v
    <3>1. Extended(v % Pow[n], n) = v
      BY <1>1, <1>5, <2>2, ExtendedIs
    <3> QED
      BY <1>8, <3>1, Zenon
  <2> QED
    BY <2>1, <2>2
<1> HIDE DEF x, s, w, v, n
<1>10. Meaning(typ, w, p) =
         CASE typ \in {"branch", "cond", "test"} -> p + 4 * s
           [] typ = "adr"     -> p + s
           [] typ = "adrp"    -> (p - (p % Page)) + Page * s
           [] typ = "pageoff" -> x
           [] OTHER           -> x * 2 ^ AccessSize(w)
  BY MeaningIs, Zenon DEF x, s, n
<1>11. CASE typ \in {"branch", "cond", "test"}
  <2>1. v = (target - p) \div 4 /\ ~Fits12(typ)
    BY <1>11 DEF v, Encoded, Fits12
  <2>2. Meaning(typ, w, p) = p + 4 * v
    BY <1>9, <1>10, <1>11, <2>1
  <2>3. p + 4 * ((target - p) \div 4) = target
    BY <1>11
  <2> QED
    BY <1>7, <1>11, <2>1, <2>2, <2>3 DEF w, v
<1>12. CASE typ = "adr"
  <2>1. v = target - p /\ ~Fits12(typ)
    BY <1>12 DEF v, Encoded, Fits12
  <2>2. Meaning(typ, w, p) = p + v
    BY <1>9, <1>10, <1>12, <2>1
  <2>3. Meaning(typ, w, p) = target
    BY <2>1, <2>2
  <2> QED
    BY <1>7, <1>12, <2>3 DEF w, v
<1>13. CASE typ = "adrp"
  <2>1. v = target \div Page - p \div Page /\ ~Fits12(typ)
    BY <1>13 DEF v, Encoded, Fits12
  <2>2. Meaning(typ, w, p) = (p - (p % Page)) + Page * v
    BY <1>9, <1>10, <1>13, <2>1
  <2>3. Meaning(typ, w, p) = target - (target % Page)
    <3> DEFINE P == Page
               a == target \div P
               b == p \div P
    <3>1. a \in Int /\ b \in Int /\ p % P \in Int /\ target % P \in Int
      BY <1>2, Euclid
    <3>2. target = P * a + (target % P) /\ p = P * b + (p % P)
      BY <1>2, Euclid
    <3>3. P * (a - b) = P * a - P * b
      BY <1>2, <3>1
    <3> HIDE DEF a, b, P
    <3>4. Meaning(typ, w, p) = (p - (p % P)) + P * (a - b)
      BY <2>1, <2>2 DEF a, b, P
    <3>5. P * a \in Int /\ P * b \in Int
      BY <1>2, <3>1 DEF P
    <3>6. Meaning(typ, w, p) = target - (target % P)
      BY <3>1, <3>2, <3>3, <3>4, <3>5
    <3> QED
      BY <3>6 DEF P
  <2> QED
    BY <1>7, <1>13, <2>3 DEF w, v
<1>14. CASE typ = "pageoff"
  <2>1. v = target % Page /\ Fits12(typ)
    BY <1>14 DEF v, Encoded, Fits12
  <2>2. Meaning(typ, w, p) = x
    BY <1>10, <1>14
  <2> QED
    BY <1>7, <1>9, <1>14, <2>1, <2>2 DEF w, v
<1>15. CASE typ = "pageoffl"
  <2>1. v = (target % Page) \div 2 ^ Scale(word) /\ Fits12(typ) /\ (target % Page) % 2 ^ Scale(word) = 0
    BY <1>15 DEF v, Encoded, Fits12, Encodable, Misaligned
  <2>2. Meaning(typ, w, p) = x * 2 ^ AccessSize(w)
    BY <1>10, <1>15
  <2>3. AccessSize(w) = AccessSize(word)
    BY <1>6, <1>15, PatchedSize DEF w
  <2>4. Scale(word) = AccessSize(word) /\ Scale(word) \in Nat
    BY <1>15, ScaleIs
  <2> DEFINE m == Pow[Scale(word)]
             y == target % Page
  <2>5. m = 2 ^ Scale(word) /\ m \in Nat \ {0}
    BY <2>4, PowFacts
  <2>6. Meaning(typ, w, p) = v * m
    BY <1>9, <2>1, <2>2, <2>3, <2>4, <2>5, Zenon
  <2>7. v = y \div m /\ y % m = 0
    BY <2>1, <2>5, Zenon
  <2>8. y \in Int
    BY <1>2, Euclid
  <2> HIDE DEF m, y
  <2>9. y = m * (y \div m) + (y % m) /\ y \div m \in Int
    BY <2>5, <2>8, Euclid
  <2>10. v * m = y
    BY <2>5, <2>7, <2>9
  <2>11. Meaning(typ, w, p) = target % Page
    BY <2>6, <2>10 DEF y
  <2> QED
    BY <1>7, <1>15, <2>11 DEF w, v
<1> QED
  BY <1>11, <1>12, <1>13, <1>14, <1>15 DEF InstrTypes

\* The addend is a number, that of a branch one of whole words.
LEMMA AddendFacts ==
  ASSUME NEW typ \in InstrTypes, NEW word \in SUBSET (0 .. 31),
         typ = "pageoffl" => WellSized(word)
  PROVE  /\ Addend(typ, word) \in Int
         /\ typ \in {"branch", "cond", "test"} => Addend(typ, word) % 4 = 0
<1> DEFINE n == Width(typ)
           F == Field(typ, word)
           x == Number(F)
           s == Extended(x, n)
<1>1. n \in Nat \ {0} /\ F \in SUBSET (0 .. n - 1)
  BY WidthFacts, FieldFacts
<1>2. Pow[n] \in Nat /\ 2 ^ AccessSize(word) \in Nat
  <2>1. AccessSize(word) \in Nat
    BY DEF AccessSize
  <2> QED
    BY <1>1, <2>1, PowFacts
<1> HIDE DEF F, n
<1>3. x \in Nat
  BY <1>1, <1>2, NumberFacts
<1>4. s \in Int
  BY <1>2, <1>3 DEF Extended
<1>5. Page \in Nat /\ 0 % Page \in Int
  <2>1. PageBits \in Nat
    BY Arm64Assumption
  <2>2. Page \in Nat \ {0}
    BY <2>1, PowFacts DEF Page
  <2> QED
    BY <2>2
<1>6. Addend(typ, word) =
        CASE typ \in {"branch", "cond", "test"} -> 0 + 4 * s
          [] typ = "adr"     -> 0 + s
          [] typ = "adrp"    -> (0 - (0 % Page)) + Page * s
          [] typ = "pageoff" -> x
          [] OTHER           -> x * 2 ^ AccessSize(word)
  <2>1. Addend(typ, word) = Meaning(typ, word, 0)
    BY AddendIsImmediate
  <2> QED
    BY <2>1, MeaningIs, Zenon DEF x, s, F, n
<1> HIDE DEF x, s
<1>7. CASE typ \in {"branch", "cond", "test"}
  <2>1. Addend(typ, word) = 4 * s
    BY <1>4, <1>6, <1>7
  <2>2. (4 * s) % 4 = 0
    BY <1>4
  <2> QED
    BY <1>4, <2>1, <2>2
<1>8. CASE typ = "adrp"
  <2>1. Page * s \in Int
    BY <1>4, <1>5
  <2> QED
    BY <1>5, <1>6, <1>8, <2>1
<1>9. CASE typ \in {"adr", "pageoff"}
  BY <1>3, <1>4, <1>6, <1>9
<1>10. CASE typ = "pageoffl"
  BY <1>2, <1>3, <1>6, <1>10
<1> QED
  BY <1>7, <1>8, <1>9, <1>10 DEF InstrTypes
=============================================================================
