---------------------------- MODULE CoffrProofs ----------------------------
(***************************************************************************)
(* What holds of the COFF linker and of the cache it borrows, for all      *)
(* object files, resolvers, architectures and users of the slab.           *)
(*                                                                         *)
(* Every step of the linker is a step of the slab or leaves it alone, so   *)
(* that what SlabProofs shows of the slab holds here as well.  The cache   *)
(* is sorted because the linker walks the sections upwards: each number it *)
(* inserts is above those that are there.                                  *)
(***************************************************************************)
EXTENDS Coffr, SlabProofs

-----------------------------------------------------------------------------
(* The capacities of the linker's cache, for every size of link, threshold *)
(* and first allocation: what `reserve' leaves the two vectors with, and   *)
(* that pushing to them keeps it.                                          *)

Caps == [ids : Nat, views : Nat]

\* Both vectors have the same capacity.
Level(c) == c \in Caps /\ c.ids = c.views

\* What a link of n sections may find, at most.
CapBound(n) == Max({n + ShrinkThreshold - 1, SmallCap, Headroom(n)})

CapsOK ==
  /\ Level(caps)
  /\ Len(idmap) <= caps.ids
  /\ reserved \in Nat
  /\ reserved <= caps.ids
  /\ (reserved > 0 /\ idmap = <<>>) => caps.ids <= CapBound(reserved)

LEMMA MaxFacts ==
  ASSUME NEW a \in Int, NEW b \in Int, NEW c \in Int
  PROVE  /\ Max({a, b, c}) \in {a, b, c}
         /\ a <= Max({a, b, c}) /\ b <= Max({a, b, c}) /\ c <= Max({a, b, c})
<1> DEFINE S == {a, b, c}
<1>1. \E x \in S : \A y \in S : x >= y
  <2>1. CASE a >= b /\ a >= c
    BY <2>1
  <2>2. CASE b >= a /\ b >= c
    BY <2>2
  <2>3. CASE c >= a /\ c >= b
    BY <2>3
  <2> QED
    BY <2>1, <2>2, <2>3
<1>2. Max(S) \in S /\ \A y \in S : Max(S) >= y
  BY <1>1 DEF Max
<1> QED
  BY <1>2

LEMMA MaxOfTwo ==
  ASSUME NEW a \in Int, NEW b \in Int
  PROVE  Max({a, b}) \in {a, b} /\ a <= Max({a, b}) /\ b <= Max({a, b})
<1>1. {a, b} = {a, b, b}
  OBVIOUS
<1> QED
  BY <1>1, MaxFacts

LEMMA HeadroomFacts ==
  ASSUME NEW n \in Nat
  PROVE  Headroom(n) \in Nat /\ n <= Headroom(n)
BY DEF Headroom

\* reserve leaves an empty vector with a capacity that is enough, and not
\* more than the bound.
LEMMA ReservedFacts ==
  ASSUME NEW cap \in Nat, NEW n \in Nat
  PROVE  /\ Reserved(cap, cap, 0, n) \in Nat
         /\ n <= Reserved(cap, cap, 0, n)
         /\ Reserved(cap, cap, 0, n) <= CapBound(n)
<1>r. PICK R : R = Reserved(cap, cap, 0, n)
  OBVIOUS
<1>h. PICK H \in Nat : H = Headroom(n) /\ n <= H
  BY HeadroomFacts
<1>1. /\ ShrinkThreshold \in Nat /\ SmallCap \in Nat /\ MinCap \in Nat
      /\ MinCap <= SmallCap /\ SmallCap <= ShrinkThreshold
  BY CacheAssumption
<1>2. PICK k \in Int : k = n + ShrinkThreshold - 1
  BY <1>1
<1>3. PICK B \in Nat : B = CapBound(n) /\ k <= B /\ SmallCap <= B /\ H <= B
  <2>1. CapBound(n) = Max({k, SmallCap, H})
    BY <1>2, <1>h DEF CapBound
  <2>2. /\ Max({k, SmallCap, H}) \in {k, SmallCap, H} /\ k <= Max({k, SmallCap, H})
        /\ SmallCap <= Max({k, SmallCap, H}) /\ H <= Max({k, SmallCap, H})
    <3>1. k \in Int /\ SmallCap \in Int /\ H \in Int
      BY <1>1
    <3> QED
      BY <3>1, MaxFacts, Zenon
  <2>3. Max({k, SmallCap, H}) \in Nat
    BY <1>1, <2>2
  <2> QED
    BY <2>1, <2>2, <2>3
<1> SUFFICES R \in Nat /\ n <= R /\ R <= B
  BY <1>r, <1>3
<1>4. CASE cap > n /\ cap - n >= ShrinkThreshold
  <2>1. PICK to \in Nat : to = (IF n < SmallCap THEN SmallCap ELSE H) /\ n <= to /\ to <= B
    BY <1>1, <1>h, <1>3
  <2>2. R = VecShrinkTo(cap, 0, to)
    BY <1>4, <1>r, <1>h, <2>1 DEF Reserved
  <2>3. Max({0, to}) = to
    BY <2>1, MaxOfTwo
  <2>4. R = (IF cap > to THEN to ELSE cap)
    BY <2>2, <2>3 DEF VecShrinkTo
  <2> QED
    BY <1>4, <2>1, <2>4
<1>5. CASE ~(cap > n /\ cap - n >= ShrinkThreshold) /\ cap >= n
  <2>1. R = cap
    BY <1>5, <1>r DEF Reserved
  <2>2. cap = n \/ cap <= k
    BY <1>1, <1>2, <1>5
  <2> QED
    BY <1>h, <1>2, <1>3, <1>5, <2>1, <2>2
<1>6. CASE cap < n /\ n < SmallCap
  <2>1. R = Max({2 * cap, n, MinCap})
    BY <1>6, <1>r DEF Reserved, VecReserve
  <2>2. R \in {2 * cap, n, MinCap} /\ n <= R
    <3>1. 2 * cap \in Int /\ n \in Int /\ MinCap \in Int
      BY <1>1
    <3> QED
      BY <2>1, <3>1, MaxFacts
  <2>3. 2 * cap <= k /\ n <= k
    BY <1>1, <1>2, <1>6
  <2> QED
    BY <1>1, <1>3, <1>6, <2>2, <2>3
<1>7. CASE cap < n /\ ~(n < SmallCap)
  <2>1. ~(cap >= n) /\ ~(cap > n) /\ H - 0 = H /\ ~(cap - 0 >= H) /\ 0 + H = H
    BY <1>h, <1>7
  <2>2. R = H
    BY <1>7, <1>r, <1>h, <2>1 DEF Reserved, VecReserveExact
  <2> QED
    BY <1>h, <1>3, <2>2
<1> QED
  BY <1>4, <1>5, <1>6, <1>7

\* reserve does the same to both vectors.
LEMMA ReserveFacts ==
  ASSUME NEW c, Level(c), NEW n \in Nat
  PROVE  Level(Reserve(c, n)) /\ n <= Reserve(c, n).ids /\ Reserve(c, n).ids <= CapBound(n)
<1>1. c.ids \in Nat /\ c.views = c.ids
  BY DEF Level, Caps
<1>2. Reserve(c, n) = [ids   |-> Reserved(c.ids, c.ids, 0, n),
                       views |-> Reserved(c.ids, c.ids, 0, n)]
  BY <1>1 DEF Reserve
<1> QED
  BY <1>1, <1>2, ReservedFacts DEF Level, Caps

LEMMA ReserveAllFacts ==
  ASSUME NEW c, Level(c), NEW calls \in Seq(Nat)
  PROVE  /\ Level(ReserveAll(c, calls))
         /\ calls # <<>> =>
              /\ Last(calls) \in Nat /\ Last(calls) <= ReserveAll(c, calls).ids
              /\ ReserveAll(c, calls).ids <= CapBound(Last(calls))
<1> DEFINE n == Len(calls)
           D == {d \in Caps : Level(d)}
           T == [p \in (1 .. n) \X D |-> Reserve(p[2], calls[p[1]])]
           G(f) == [i \in 0 .. n |-> IF i = 0 THEN c ELSE Reserve(f[i - 1], calls[i])]
<1>1. n \in Nat /\ \A i \in 1 .. n : calls[i] \in Nat
  OBVIOUS
<1>2. c \in D /\ \A d \in D, m \in Nat : Reserve(d, m) \in D
  BY ReserveFacts DEF Level
<1>3. T \in Steps(n, D)
  BY <1>1, <1>2 DEF Steps
<1>4. \A i \in 1 .. n, d \in D : T[<<i, d>>] = Reserve(d, calls[i])
  OBVIOUS
<1> HIDE DEF T, D, n
<1>5. PICK f : Recurs(f, n, D, c, T)
  BY <1>1, <1>2, <1>3, Recursion
<1>6. f = G(f)
  <2>1. \A i \in 1 .. n : f[i] = Reserve(f[i - 1], calls[i])
    <3> SUFFICES ASSUME NEW i \in 1 .. n PROVE f[i] = Reserve(f[i - 1], calls[i])
      OBVIOUS
    <3>1. i - 1 \in 0 .. n
      BY <1>1
    <3>2. f[i - 1] \in D /\ f[i] = T[<<i, f[i - 1]>>]
      BY <1>5, <3>1 DEF Recurs
    <3> QED
      BY <1>4, <3>2
  <2> QED
    BY <1>5, <2>1 DEF Recurs
<1> DEFINE a == CHOOSE h : h = G(h)
<1>7. a = G(a)
  BY <1>6
<1>8. ReserveAll(c, calls) = a[n]
  BY Zenon DEF ReserveAll, n
<1> HIDE DEF a
<1>9. a[0] = c /\ \A i \in 1 .. n : a[i] = Reserve(a[i - 1], calls[i])
  BY <1>1, <1>7
<1> DEFINE S == {i \in 0 .. n : a[i] \in D}
<1>10. 0 \in S
  BY <1>1, <1>2, <1>9
<1>11. ASSUME NEW i \in 0 .. n - 1, i \in S
       PROVE  i + 1 \in S
  <2>1. i + 1 \in 1 .. n /\ i + 1 \in 0 .. n /\ (i + 1) - 1 = i
    BY <1>1
  <2>2. a[i + 1] = Reserve(a[i], calls[i + 1]) /\ calls[i + 1] \in Nat
    BY <1>1, <1>9, <2>1
  <2> QED
    BY <1>2, <1>11, <2>1, <2>2
<1> HIDE DEF S
<1>12. \A i \in 0 .. n : i \in S
  BY <1>1, <1>10, <1>11, InductionUpTo
<1>13. \A i \in 0 .. n : Level(a[i])
  BY <1>12 DEF S, D
<1>14. ASSUME calls # <<>>
       PROVE  /\ Last(calls) \in Nat /\ Last(calls) <= a[n].ids
              /\ a[n].ids <= CapBound(Last(calls))
  <2>1. n \in 1 .. n /\ n - 1 \in 0 .. n /\ Last(calls) = calls[n]
    BY <1>1, <1>14 DEF n, Last
  <2>2. a[n] = Reserve(a[n - 1], calls[n]) /\ Level(a[n - 1]) /\ calls[n] \in Nat
    BY <1>1, <1>9, <1>13, <2>1
  <2> QED
    BY <2>1, <2>2, ReserveFacts
<1> QED
  BY <1>1, <1>8, <1>13, <1>14

-----------------------------------------------------------------------------
(* The operations of the cache. *)

LEMMA CapsInit == CacheInit => CapsOK
BY DEF CacheInit, CapsOK, Level, Caps

LEMMA CapsCreate ==
  ASSUME CapsOK, NEW calls \in Reserves, Create(calls)
  PROVE  CapsOK'
<1>1. calls \in Seq(Nat) /\ Level(caps)
  BY CacheAssumption DEF CapsOK
<1>2. caps' = ReserveAll(caps, calls) /\ idmap' = <<>>
  BY DEF Create, Emptied
<1>3. Level(caps') /\ caps'.ids \in Nat /\ Len(idmap') = 0
  BY <1>1, <1>2, ReserveAllFacts DEF Level, Caps
<1>4. CASE calls = <<>>
  BY <1>3, <1>4 DEF Create, CapsOK
<1>5. CASE calls # <<>>
  <2>1. reserved' = Last(calls)
    BY <1>5 DEF Create
  <2> QED
    BY <1>1, <1>2, <1>3, <1>5, <2>1, ReserveAllFacts DEF CapsOK
<1> QED
  BY <1>4, <1>5

\* A push finds room or makes it.
LEMMA CapsInsert ==
  ASSUME CapsOK, idmap \in Seq(Nat), Len(views) = Len(idmap),
         NEW key, key \in Nat, NEW view, Insert(key, view)
  PROVE  CapsOK'
<1> DEFINE cap == VecReserve(caps.ids, Len(idmap), 1)
<1>1. caps.ids \in Nat /\ caps.views = caps.ids /\ Len(idmap) \in Nat /\ Len(idmap) <= caps.ids
  BY DEF CapsOK, Level, Caps
<1>2. caps' = [ids |-> cap, views |-> cap]
  BY <1>1 DEF Insert
<1>3. cap \in Nat /\ caps.ids <= cap /\ Len(idmap) + 1 <= cap
  <2>1. CASE caps.ids - Len(idmap) >= 1
    BY <1>1, <2>1 DEF VecReserve
  <2>2. CASE ~(caps.ids - Len(idmap) >= 1)
    <3>1. cap = Max({2 * caps.ids, Len(idmap) + 1, MinCap})
      BY <2>2 DEF VecReserve
    <3>2. MinCap \in Nat
      BY CacheAssumption
    <3> HIDE DEF cap
    <3>3. PICK x \in Nat, y \in Nat : x = 2 * caps.ids /\ y = Len(idmap) + 1
      BY <1>1
    <3>4. cap \in {x, y, MinCap} /\ x <= cap /\ y <= cap
      <4>1. cap = Max({x, y, MinCap})
        BY <3>1, <3>3
      <4>2. x \in Int /\ y \in Int /\ MinCap \in Int
        BY <3>2
      <4> QED
        BY <4>1, <4>2, MaxFacts, Zenon
    <3> QED
      BY <1>1, <3>2, <3>3, <3>4
  <2> QED
    BY <2>1, <2>2
<1> HIDE DEF cap
<1>4. Len(idmap') = Len(idmap) + 1 /\ idmap' # <<>> /\ reserved' = reserved
  BY DEF Insert
<1> QED
  BY <1>1, <1>2, <1>3, <1>4 DEF CapsOK, Level, Caps

LEMMA CapsClose ==
  ASSUME CapsOK, Close
  PROVE  CapsOK'
<1>1. caps' = caps /\ idmap' = <<>> /\ reserved' = 0 /\ Len(idmap') = 0
  BY DEF Close, Emptied
<1> QED
  BY <1>1 DEF CapsOK, Level, Caps

LEMMA CapsStay == CapsOK /\ UNCHANGED cacheVars => CapsOK'
BY DEF CapsOK, cacheVars

\* What the invariant says of reserve.
LEMMA CapsSuffice == CapsOK => ReserveHolds
BY DEF CapsOK, ReserveHolds, Level, CapBound

-----------------------------------------------------------------------------
(* The link and its place in the slab. *)

SlabInv == CountInv /\ Watermarks /\ LiveCodeIntact

LinkFields == {"phase", "obj", "sec", "at", "todo", "used", "base", "fits"}

Phases == {"panic", "track", "count", "relocate"}

SectionView == [cursor : Nat, pool : Nat, count : Nat]

\* The link's own record.
LinkOK ==
  ~NotLinking =>
    /\ DOMAIN link = LinkFields
    /\ link.phase \in Phases
    /\ link.obj \in Objects
    /\ link.sec \in Nat \ {0}
    /\ link.at \in Nat
    /\ In("count") => InSections

\* The cache is borrowed exactly while a link or its iterator exists, and the
\* linker has only been at sections below the one it is at.
CacheInv ==
  /\ borrowed <=> ~In("idle")
  /\ idmap \in Seq(Nat)
  /\ views \in Seq(SectionView)
  /\ CacheSorted
  /\ (In("track") \/ In("count")) => \A k \in Keys : k < link.sec

\* Of the blocks, program p has one of len bytes at lo.
Lies(blocks, p, lo, len) == \E b \in blocks : b.prog = p /\ b.lo = lo /\ b.hi = b.lo + len

\* Every tracked section below the one the link is at has a view, which says
\* where in the link's transaction its block is.
Placed(blocks) ==
  /\ \A i \in Tracked(link.obj) : i < link.sec => i \in Keys
  /\ \A k \in Keys : /\ k \in DOMAIN link.obj.sections
                     /\ Lies(blocks, Top.id, Get(k).cursor, link.obj.sections[k].len)

\* The link owns the innermost transaction.
LayoutOK ==
  ~NotLinking =>
    /\ InTx /\ Top.total = link.obj.total
    /\ Placed(code)
    /\ In("count") => Lies(code, Top.id, link.at, Section.len)
    /\ In("relocate") => ~InSections

\* While the iterator is there, the views still say it, of a program whose
\* transaction is closed.
SymbolsOK ==
  In("symbols") =>
    /\ link.obj \in Objects
    /\ link.prog \in 1 .. progs
    /\ \A i \in DOMAIN txs : txs[i].id # link.prog
    /\ Tracked(link.obj) \subseteq Keys
    /\ \A k \in Keys :
         /\ k \in DOMAIN link.obj.sections
         /\ Mapped(link.prog) => Lies(code, link.prog, Get(k).cursor, link.obj.sections[k].len)

\* The walk over the relocations is at one of a tracked section.
WalkOK ==
  Relocating => /\ link.todo[1] \in Tracked(link.obj)
                /\ link.todo[2] \in DOMAIN Relocs

CoffrInv == SlabInv /\ LinkOK /\ CacheInv /\ LayoutOK /\ SymbolsOK /\ WalkOK

-----------------------------------------------------------------------------
(* The order of the sections. *)

\* A set of naturals that is not empty has a least element.
LEMMA MinIsLeast ==
  ASSUME NEW S \in SUBSET Nat, S # {}
  PROVE  Min(S) \in S /\ \A y \in S : Min(S) <= y
BY LeastNatural DEF Min

\* The section iterator moves up.
LEMMA NextTrackedUp ==
  ASSUME NEW obj \in Objects, NEW i \in Nat, i <= Len(obj.sections)
  PROVE  /\ NextTracked(obj, i) \in Nat /\ NextTracked(obj, i) > i
         /\ NextTracked(obj, i) <= Len(obj.sections) + 1
         /\ \A j \in Tracked(obj) : j > i => NextTracked(obj, i) <= j
<1> DEFINE n == Len(obj.sections)
           S == {j \in Tracked(obj) : j > i} \cup {n + 1}
<1>1. n \in Nat /\ DOMAIN obj.sections = 1 .. n
  <2>1. obj.sections \in Seq(Range(obj.sections))
    BY CoffrAssumption
  <2> QED
    BY <2>1
<1>2. S \in SUBSET Nat /\ S # {} /\ n + 1 \in S /\ \A j \in S : j > i
  BY <1>1 DEF Tracked
<1>3. NextTracked(obj, i) = Min(S)
  BY DEF NextTracked
<1> HIDE DEF S
<1>4. Min(S) \in S /\ \A y \in S : Min(S) <= y
  BY <1>2, MinIsLeast
<1>5. Min(S) \in Nat /\ Min(S) > i /\ Min(S) <= n + 1
  BY <1>1, <1>2, <1>4
<1>6. \A j \in Tracked(obj) : j > i => j \in S
  BY DEF S
<1> QED
  BY <1>3, <1>4, <1>5, <1>6

\* The words of a field lie in it.
LEMMA WordFacts ==
  ASSUME NEW at \in Nat, NEW r
  PROVE  /\ at \in WordsAt(at, r) /\ FieldLen(r) \in {4, 8}
         /\ \A o \in WordsAt(at, r) : o \in Nat /\ at <= o /\ o + 4 <= at + FieldLen(r)
BY DEF WordsAt, FieldLen

\* The relocations of a section: their fields lie inside it, and apart.
LEMMA RelocFacts ==
  ASSUME NEW obj \in Objects, NEW i \in DOMAIN obj.sections
  PROVE  LET relocs == obj.sections[i].relocs
         IN  /\ obj.sections[i].len \in Nat
             /\ Len(relocs) \in Nat /\ DOMAIN relocs = 1 .. Len(relocs)
             /\ \A r \in Range(relocs) :
                  /\ r.offset \in Nat /\ r.offset + 4 <= obj.sections[i].len
                  /\ FieldLen(r) \in {4, 8} /\ r.offset + FieldLen(r) <= obj.sections[i].len
                  /\ r.tail \in Nat /\ r.tail <= 5 /\ (r.typ # "near" => r.tail = 0)
                  /\ r.addend \in Int
                  /\ r.symbol.kind \in {"section", "absolute"}
                  /\ IF r.symbol.kind = "section"
                       THEN r.symbol.idx \in DOMAIN obj.sections /\ r.symbol.offset \in Nat
                       ELSE r.symbol.address \in Nat
             /\ \A k, l \in DOMAIN relocs :
                  /\ relocs[k] \in Range(relocs) /\ relocs[l] \in Range(relocs)
                  /\ k # l => FieldsApart(relocs, k, l)
                  /\ k # l => \/ relocs[k].offset + 4 <= relocs[l].offset
                              \/ relocs[l].offset + 4 <= relocs[k].offset
<1>1. PICK relocs, len : relocs = obj.sections[i].relocs /\ len = obj.sections[i].len
  OBVIOUS
<1>2. /\ len \in Nat /\ relocs \in Seq(Range(relocs))
      /\ \A r \in Range(relocs) :
           /\ r.offset \in Nat /\ r.offset + FieldLen(r) <= len
           /\ r.tail \in (IF obj.arch = "x64" /\ r.typ = "near" THEN 1 .. 5 ELSE {0})
           /\ r.addend \in Int /\ r.symbol.kind \in {"section", "absolute"}
           /\ IF r.symbol.kind = "section"
                THEN r.symbol.idx \in DOMAIN obj.sections /\ r.symbol.offset \in Nat
                ELSE r.symbol.address \in Nat
      /\ \A k, l \in DOMAIN relocs : k # l => FieldsApart(relocs, k, l)
  BY <1>1, CoffrAssumption
<1>3. Len(relocs) \in Nat /\ DOMAIN relocs = 1 .. Len(relocs)
  BY <1>2
<1>4. \A k \in DOMAIN relocs : relocs[k] \in Range(relocs)
  BY DEF Range
<1>5. \A r : FieldLen(r) \in {4, 8}
  BY DEF FieldLen
<1>6. ASSUME NEW r \in Range(relocs)
      PROVE  /\ r.offset \in Nat /\ r.offset + 4 <= len
             /\ r.tail \in Nat /\ r.tail <= 5 /\ (r.typ # "near" => r.tail = 0)
  <2>1. /\ r.offset \in Nat /\ r.offset + FieldLen(r) <= len
        /\ r.tail \in (IF obj.arch = "x64" /\ r.typ = "near" THEN 1 .. 5 ELSE {0})
    BY <1>2
  <2>2. r.tail \in Nat /\ r.tail <= 5 /\ (r.typ # "near" => r.tail = 0)
    BY <2>1
  <2> QED
    BY <1>2, <1>5, <2>1, <2>2
<1>7. ASSUME NEW k \in DOMAIN relocs, NEW l \in DOMAIN relocs, k # l
      PROVE  \/ relocs[k].offset + 4 <= relocs[l].offset
             \/ relocs[l].offset + 4 <= relocs[k].offset
  <2>1. FieldsApart(relocs, k, l)
    BY <1>2, <1>7
  <2>2. PICK a \in Nat, b \in Nat : a = relocs[k].offset /\ b = relocs[l].offset
    BY <1>4, <1>6
  <2>3. PICK f \in {4, 8}, g \in {4, 8} : f = FieldLen(relocs[k]) /\ g = FieldLen(relocs[l])
    BY <1>5
  <2>4. a + f <= b \/ b + g <= a
    BY <2>1, <2>2, <2>3 DEF FieldsApart
  <2> QED
    BY <2>2, <2>4
<1>8. \A r \in Range(relocs) :
           /\ r.addend \in Int /\ r.symbol.kind \in {"section", "absolute"}
           /\ IF r.symbol.kind = "section"
                THEN r.symbol.idx \in DOMAIN obj.sections /\ r.symbol.offset \in Nat
                ELSE r.symbol.address \in Nat
  BY <1>2
<1> QED
  BY <1>1, <1>2, <1>3, <1>4, <1>5, <1>6, <1>7, <1>8

\* The linker's record of the section it is at.
LEMMA SectionFacts ==
  ASSUME LinkOK, ~NotLinking, InSections
  PROVE  /\ link.sec \in DOMAIN link.obj.sections /\ link.obj \in Objects
         /\ Section.align \in Nat \ {0} /\ Section.len \in Nat
         /\ Section.relocs \in Seq(Range(Section.relocs))
<1>1. link.obj \in Objects /\ link.sec \in Nat \ {0}
  BY DEF LinkOK
<1>2. /\ link.obj.sections \in Seq(Range(link.obj.sections))
      /\ \A i \in DOMAIN link.obj.sections :
           /\ link.obj.sections[i].align \in Nat \ {0} /\ link.obj.sections[i].len \in Nat
           /\ link.obj.sections[i].relocs \in Seq(Range(link.obj.sections[i].relocs))
  BY <1>1, CoffrAssumption
<1>3. link.sec \in DOMAIN link.obj.sections
  BY <1>1, <1>2 DEF InSections
<1> QED
  BY <1>1, <1>2, <1>3 DEF Section

\* What the linker asks of the slab is well formed.
LEMMA DataRequest ==
  ASSUME LinkOK, ~NotLinking, InSections
  PROVE  Request(DataCall)
BY SectionFacts DEF DataCall, Request

LEMMA PoolRequest ==
  ASSUME LinkOK, ~NotLinking, InSections
  PROVE  Count(Section) \in Nat /\ Request(PoolCall)
<1>1. Len(Section.relocs) \in Nat /\ DOMAIN Section.relocs = 1 .. Len(Section.relocs)
  BY SectionFacts
<1>2. IsFiniteSet(DOMAIN Section.relocs)
  BY <1>1, FS_Interval
<1>3. {k \in DOMAIN Section.relocs : NeedsStub(Section.relocs[k])} \subseteq DOMAIN Section.relocs
  OBVIOUS
<1>4. IsFiniteSet({k \in DOMAIN Section.relocs : NeedsStub(Section.relocs[k])})
  BY <1>2, <1>3, FS_Subset
<1>5. Count(Section) \in Nat
  BY <1>4, FS_CardinalityType DEF Count
<1>6. StubLen * Count(Section) \in Nat /\ StubLen \in Nat \ {0}
  BY <1>5 DEF StubLen
<1>7. PoolCall = [align |-> StubLen, cap |-> StubLen * Count(Section),
                  len |-> StubLen * Count(Section)]
  BY DEF PoolCall
<1> HIDE DEF PoolCall
<1> QED
  BY <1>5, <1>6, <1>7 DEF Request

\* Every step of the linker is a step of the slab.
LEMMA CoffrIsSlab ==
  ASSUME LinkOK, [CoffrNext]_allVars
  PROVE  [AnyNext]_vars
<1>1. ASSUME NEW obj \in Objects, NEW calls \in Reserves, LinkStart(obj, calls)
      PROVE  AnyNext
  <2>1. obj.total \in Totals
    BY CoffrAssumption
  <2> QED
    BY <1>1, <2>1 DEF LinkStart, AnyNext
<1>2. CASE TrackData
  <2>1. Request(DataCall) /\ TxWrite(DataCall, TRUE) /\ TRUE \in BOOLEAN
    BY <1>2, DataRequest DEF TrackData, NotLinking, In
  <2> QED
    BY <2>1 DEF AnyNext
<1>3. CASE TrackPool
  <2>1. ~NotLinking /\ InSections
    BY <1>3 DEF TrackPool, NotLinking, In, LinkOK
  <2>2. Request(PoolCall) /\ TxWrite(PoolCall, TRUE) /\ TRUE \in BOOLEAN
    BY <1>3, <2>1, PoolRequest DEF TrackPool
  <2> QED
    BY <2>2 DEF AnyNext
<1>4. CASE RelocateDirect \/ RelocateViaStub
  <2>1. PICK offsets : Patch(BlocksAt(offsets))
    BY <1>4 DEF RelocateDirect, RelocateViaStub
  <2>2. BlocksAt(offsets) \in SUBSET code
    BY DEF BlocksAt
  <2> QED
    BY <2>1, <2>2 DEF AnyNext
<1>5. CASE LinkCommit \/ LinkFail
  BY <1>5 DEF LinkCommit, LinkFail, AnyNext
<1>6. ASSUME NEW c \in Calls, PlainWrite(c)
      PROVE  AnyNext
  BY <1>6, SlabAssumption DEF PlainWrite, AnyNext, Request
<1>7. CASE Outer \/ ReleaseAny
  BY <1>7 DEF Outer, ReleaseAny, AnyNext
<1>8. CASE TrackEnd \/ RelocateNone \/ SymbolsEnd
  BY <1>8 DEF TrackEnd, RelocateNone, SymbolsEnd
<1>9. CASE UNCHANGED allVars
  BY <1>9 DEF allVars
<1> QED
  BY <1>1, <1>2, <1>3, <1>4, <1>5, <1>6, <1>7, <1>8, <1>9 DEF CoffrNext

\* So what is proved of the slab holds of it in the linker's hands.
LEMMA SlabStep ==
  ASSUME SlabInv, LinkOK, [CoffrNext]_allVars
  PROVE  SlabInv'
<1>1. [AnyNext]_vars
  BY CoffrIsSlab
<1>2. TypeOK /\ CountInv /\ Watermarks /\ LiveCodeIntact
  BY DEF SlabInv, CountInv
<1> QED
  BY <1>1, <1>2, CountNext, MarkNext, IntactNext DEF SlabInv, MarkInv

-----------------------------------------------------------------------------
(* The link. *)

\* Whatever a relocation took, the link goes on with the next one.
LEMMA AdvanceKeeps ==
  ASSUME LinkOK, In("relocate"), NEW took, Advance(took)
  PROVE  LinkOK' /\ In("relocate")' /\ link'.obj = link.obj /\ link'.sec = link.sec
<1>1. /\ DOMAIN link = LinkFields /\ link.obj \in Objects
      /\ link.sec \in Nat \ {0} /\ link.at \in Nat
  BY DEF LinkOK, NotLinking, In
<1>2. /\ DOMAIN link' = LinkFields /\ link'.phase = "relocate" /\ link'.obj = link.obj
      /\ link'.sec = link.sec /\ link'.at = link.at
  BY <1>1 DEF Advance, LinkFields, In
<1> QED
  BY <1>1, <1>2 DEF LinkOK, Phases, In

LEMMA LinkNext ==
  ASSUME TypeOK, LinkOK, [CoffrNext]_allVars
  PROVE  LinkOK'
<1>1. ASSUME NEW obj \in Objects, NEW calls \in Reserves, LinkStart(obj, calls)
      PROVE  LinkOK'
  <2>1. NextTracked(obj, 0) \in Nat \ {0}
    <3>1. obj.sections \in Seq(Range(obj.sections))
      BY CoffrAssumption
    <3>2. 0 \in Nat /\ 0 <= Len(obj.sections)
      BY <3>1
    <3>3. NextTracked(obj, 0) \in Nat /\ NextTracked(obj, 0) > 0
      BY <3>2, NextTrackedUp
    <3> QED
      BY <3>3
  <2>2. /\ DOMAIN link' = LinkFields /\ link'.phase \in {"panic", "track"} /\ link'.obj = obj
        /\ link'.sec = NextTracked(obj, 0) /\ link'.at = 0
    BY <1>1 DEF LinkStart, LinkFields
  <2> QED
    BY <2>1, <2>2 DEF LinkOK, Phases, In
<1>2. CASE TrackData
  <2>1. ~NotLinking /\ InSections /\ DOMAIN link = LinkFields /\ link.obj \in Objects
        /\ link.sec \in Nat \ {0}
    BY <1>2 DEF TrackData, NotLinking, In, LinkOK
  <2> DEFINE lo == StartOffset(Base, cursor, Section.align)
  <2>2. lo \in Nat
    <3>1. Section.align \in Nat \ {0} /\ Base + cursor \in Nat /\ Base \in Nat
      BY <2>1, SectionFacts, SlabAssumption DEF TypeOK
    <3>2. /\ AlignUp(Base + cursor, Section.align) \in Nat
          /\ Base + cursor <= AlignUp(Base + cursor, Section.align)
      BY <3>1, AlignUpFacts
    <3>3. lo = AlignUp(Base + cursor, Section.align) - Base /\ cursor \in Nat
      BY DEF StartOffset, TypeOK
    <3> HIDE DEF lo
    <3> QED
      BY <3>1, <3>2, <3>3
  <2>3. /\ DOMAIN link' = LinkFields /\ link'.phase = "count" /\ link'.obj = link.obj
        /\ link'.sec = link.sec /\ link'.at = lo
    BY <1>2, <2>1 DEF TrackData, LinkFields
  <2> HIDE DEF lo
  <2> QED
    BY <2>1, <2>2, <2>3 DEF LinkOK, Phases, In, InSections
<1>3. CASE TrackPool
  <2>1. ~NotLinking /\ InSections /\ DOMAIN link = LinkFields /\ link.obj \in Objects
        /\ link.sec \in Nat \ {0} /\ link.at \in Nat
    BY <1>3 DEF TrackPool, NotLinking, In, LinkOK
  <2>2. NextTracked(link.obj, link.sec) \in Nat \ {0}
    BY <2>1, NextTrackedUp DEF InSections
  <2>3. /\ DOMAIN link' = LinkFields /\ link'.phase = "track" /\ link'.obj = link.obj
        /\ link'.sec = NextTracked(link.obj, link.sec) /\ link'.at = link.at
    BY <1>3, <2>1 DEF TrackPool, LinkFields
  <2> QED
    BY <2>1, <2>2, <2>3 DEF LinkOK, Phases, In
<1>4. CASE TrackEnd
  <2>1. /\ DOMAIN link = LinkFields /\ link.obj \in Objects
        /\ link.sec \in Nat \ {0} /\ link.at \in Nat
    BY <1>4 DEF TrackEnd, NotLinking, In, LinkOK
  <2>2. /\ DOMAIN link' = LinkFields /\ link'.phase = "relocate" /\ link'.obj = link.obj
        /\ link'.sec = link.sec /\ link'.at = link.at
    BY <1>4, <2>1 DEF TrackEnd, LinkFields
  <2> QED
    BY <2>1, <2>2 DEF LinkOK, Phases, In
<1>5. CASE RelocateNone \/ RelocateDirect \/ RelocateViaStub
  BY <1>5, AdvanceKeeps DEF RelocateNone, RelocateDirect, RelocateViaStub, Relocating
<1>6. CASE LinkCommit \/ SymbolsEnd \/ LinkFail
  BY <1>6 DEF LinkCommit, SymbolsEnd, LinkFail, LinkOK, NotLinking, In, Idle
<1>7. CASE (\E c \in Calls : PlainWrite(c)) \/ Outer \/ ReleaseAny \/ UNCHANGED allVars
  <2>1. link' = link
    BY <1>7 DEF PlainWrite, Outer, ReleaseAny, allVars, linkerVars
  <2> QED
    BY <2>1 DEF LinkOK, NotLinking, In, InSections
<1> QED
  BY <1>1, <1>2, <1>3, <1>4, <1>5, <1>6, <1>7 DEF CoffrNext

-----------------------------------------------------------------------------
(* The cache. *)

\* A number above all others goes to the end; what was found stays found.
LEMMA InsertKeeps ==
  ASSUME CacheSorted, idmap \in Seq(Nat), views \in Seq(SectionView),
         NEW key \in Nat, NEW view \in SectionView, \A k \in Keys : k < key,
         Insert(key, view)
  PROVE  /\ idmap' \in Seq(Nat) /\ views' \in Seq(SectionView) /\ CacheSorted'
         /\ Keys' = Keys \cup {key} /\ key \notin Keys
         /\ Get(key)' = view /\ \A k \in Keys : Get(k)' = Get(k)
<1> DEFINE n == Len(idmap)
<1>1. /\ n \in Nat /\ Len(views) = n
      /\ DOMAIN idmap = 1 .. n /\ DOMAIN views = 1 .. n
      /\ \A i \in 1 .. n : idmap[i] \in Nat
  BY DEF CacheSorted
<1>2. /\ idmap' = Append(idmap, key) /\ views' = Append(views, view)
  BY DEF Insert
<1>3. /\ idmap' \in Seq(Nat) /\ DOMAIN idmap' = 1 .. n + 1 /\ Len(idmap') = n + 1
      /\ idmap'[n + 1] = key /\ \A i \in 1 .. n : idmap'[i] = idmap[i]
  BY <1>1, <1>2
<1>4. /\ views' \in Seq(SectionView) /\ Len(views') = n + 1
      /\ \A i \in 1 .. n : views'[i] = views[i]
  BY <1>1, <1>2
<1>5. \A i \in 1 .. n : idmap[i] \in Keys /\ idmap[i] < key
  BY <1>1 DEF Keys, Range
<1>6. \A i \in 1 .. n : \A j \in 1 .. n : i < j => idmap[i] < idmap[j]
  BY <1>1 DEF CacheSorted
<1> HIDE DEF n
<1>7. CacheSorted'
  <2>1. ASSUME NEW i \in 1 .. n + 1, NEW j \in 1 .. n + 1, i < j
        PROVE  idmap'[i] < idmap'[j]
    <3>1. i \in 1 .. n
      BY <1>1, <2>1
    <3>2. CASE j = n + 1
      BY <1>3, <1>5, <3>1, <3>2
    <3>3. CASE j # n + 1
      BY <1>1, <1>3, <1>6, <2>1, <3>1, <3>3
    <3> QED
      BY <3>2, <3>3
  <2> QED
    BY <1>3, <1>4, <2>1 DEF CacheSorted
<1>8. Keys' = Keys \cup {key}
  <2>1. 1 .. n + 1 = (1 .. n) \cup {n + 1}
    BY <1>1
  <2>2. \A x : x \in Keys' <=> \E i \in 1 .. n + 1 : x = idmap'[i]
    BY <1>3 DEF Keys, Range
  <2>3. \A x : x \in Keys <=> \E i \in 1 .. n : x = idmap[i]
    BY <1>1 DEF Keys, Range
  <2>4. \A x : x \in Keys' <=> x \in Keys \/ x = key
    BY <1>3, <2>1, <2>2, <2>3
  <2> QED
    BY <2>4
<1>9. key \notin Keys
  <2>1. ~(key < key)
    OBVIOUS
  <2> QED
    BY <2>1
<1>10. ASSUME NEW k \in Keys
       PROVE  Get(k)' = Get(k)
  <2>1. PICK p \in 1 .. n : idmap[p] = k
    BY <1>1 DEF Keys, Range
  <2>2. k \in Nat /\ k # key
    BY <1>1, <1>9, <2>1
  <2>3. \A i \in 1 .. n : i # p => idmap[i] # idmap[p]
    <3>1. ASSUME NEW i \in 1 .. n, i # p
          PROVE  idmap[i] # idmap[p]
      <4>1. i < p \/ p < i
        BY <1>1, <3>1
      <4>2. idmap[i] < idmap[p] \/ idmap[p] < idmap[i]
        BY <1>6, <4>1
      <4>3. idmap[i] \in Nat /\ idmap[p] \in Nat
        BY <1>1
      <4> QED
        BY <4>2, <4>3
    <3> QED
      BY <3>1
  <2>4. (CHOOSE i \in DOMAIN idmap : idmap[i] = k) = p
    BY <1>1, <2>1, <2>3
  <2>5. \A i \in 1 .. n + 1 : idmap'[i] = k => i = p
    <3>1. ASSUME NEW i \in 1 .. n + 1, idmap'[i] = k
          PROVE  i = p
      <4>1. i # n + 1
        BY <1>3, <2>2, <3>1
      <4>2. i \in 1 .. n
        BY <1>1, <4>1
      <4> QED
        BY <1>3, <2>1, <2>3, <3>1, <4>2
    <3> QED
      BY <3>1
  <2>6. p \in 1 .. n + 1 /\ idmap'[p] = k
    BY <1>1, <1>3, <2>1
  <2>7. (CHOOSE i \in DOMAIN idmap' : idmap'[i] = k) = p
    BY <1>3, <2>5, <2>6
  <2> QED
    BY <1>4, <2>4, <2>7 DEF Get
<1>11. Get(key)' = view
  <2>1. \A i \in 1 .. n : idmap'[i] # key
    BY <1>3, <1>5, <1>9
  <2>2. \A i \in 1 .. n + 1 : idmap'[i] = key => i = n + 1
    BY <1>1, <2>1
  <2>3. n + 1 \in 1 .. n + 1
    BY <1>1
  <2>4. (CHOOSE i \in DOMAIN idmap' : idmap'[i] = key) = n + 1
    BY <1>3, <2>2, <2>3
  <2>5. views'[n + 1] = view
    BY <1>1, <1>2
  <2> QED
    BY <2>4, <2>5 DEF Get
<1> QED
  BY <1>3, <1>4, <1>7, <1>8, <1>9, <1>10, <1>11

\* An empty cache.
LEMMA EmptyCache ==
  ASSUME Emptied
  PROVE  /\ idmap' \in Seq(Nat) /\ views' \in Seq(SectionView) /\ CacheSorted' /\ Keys' = {}
<1>1. idmap' = <<>> /\ views' = <<>>
  BY DEF Emptied
<1> QED
  BY <1>1 DEF CacheSorted, Keys, Range

\* The section's view goes in above those of the sections before it.
LEMMA PoolInserts ==
  ASSUME TypeOK, LinkOK, CacheInv, TrackPool
  PROVE  \E view \in SectionView : /\ Insert(link.sec, view) /\ view.cursor = link.at
                                   /\ link.sec \in Nat /\ \A k \in Keys : k < link.sec
<1>1. ~NotLinking /\ InSections /\ link.sec \in Nat /\ link.at \in Nat
  BY DEF TrackPool, NotLinking, In, LinkOK
<1>2. Count(Section) \in Nat
  BY <1>1, PoolRequest
<1>3. StartOffset(Base, cursor, StubLen) \in Nat
  <2>1. StubLen \in Nat \ {0} /\ Base + cursor \in Nat /\ Base \in Nat
    BY SlabAssumption DEF TypeOK, StubLen
  <2>2. /\ AlignUp(Base + cursor, StubLen) \in Nat
        /\ Base + cursor <= AlignUp(Base + cursor, StubLen)
    BY <2>1, AlignUpFacts
  <2> QED
    BY <2>1, <2>2 DEF StartOffset, TypeOK
<1>4. [cursor |-> link.at, pool |-> StartOffset(Base, cursor, StubLen),
       count |-> Count(Section)] \in SectionView
  BY <1>1, <1>2, <1>3 DEF SectionView
<1>5. Insert(link.sec, [cursor |-> link.at, pool |-> StartOffset(Base, cursor, StubLen),
                        count |-> Count(Section)])
  BY DEF TrackPool
<1>6. \A k \in Keys : k < link.sec
  BY DEF CacheInv, TrackPool
<1> QED
  BY <1>1, <1>4, <1>5, <1>6

LEMMA CacheNext ==
  ASSUME TypeOK, LinkOK, CacheInv, [CoffrNext]_allVars
  PROVE  CacheInv'
<1>1. ASSUME NEW obj \in Objects, NEW calls \in Reserves, LinkStart(obj, calls)
      PROVE  CacheInv'
  <2>1. Emptied /\ borrowed' /\ link'.phase # "idle"
    BY <1>1 DEF LinkStart, Create
  <2> QED
    BY <2>1, EmptyCache DEF CacheInv, In
<1>2. CASE TrackPool
  <2>1. PICK view \in SectionView : /\ Insert(link.sec, view)
                                    /\ link.sec \in Nat /\ \A k \in Keys : k < link.sec
    BY <1>2, PoolInserts
  <2>2. /\ idmap' \in Seq(Nat) /\ views' \in Seq(SectionView) /\ CacheSorted'
        /\ Keys' = Keys \cup {link.sec}
    BY <2>1, InsertKeeps DEF CacheInv
  <2>3. ~NotLinking /\ InSections /\ DOMAIN link = LinkFields /\ link.obj \in Objects
    BY <1>2 DEF TrackPool, NotLinking, In, LinkOK
  <2>4. link'.phase = "track" /\ link'.sec = NextTracked(link.obj, link.sec)
    BY <1>2, <2>3 DEF TrackPool, LinkFields
  <2>5. NextTracked(link.obj, link.sec) \in Nat /\ NextTracked(link.obj, link.sec) > link.sec
    BY <2>1, <2>3, NextTrackedUp DEF InSections
  <2>6. \A k \in Keys : k \in Nat
    BY DEF CacheInv, Keys, Range
  <2>7. \A k \in Keys' : k < link'.sec
    BY <2>1, <2>2, <2>4, <2>5, <2>6
  <2>8. borrowed' /\ ~In("idle")'
    BY <2>1, <2>4 DEF Insert, In
  <2> QED
    BY <2>2, <2>7, <2>8 DEF CacheInv
<1>3. CASE SymbolsEnd \/ LinkFail
  <2>1. Emptied /\ ~borrowed' /\ link'.phase = "idle"
    BY <1>3 DEF SymbolsEnd, LinkFail, Close, Idle
  <2> QED
    BY <2>1, EmptyCache DEF CacheInv, In
<1>4. ASSUME UNCHANGED cacheVars,
             In("idle")' <=> In("idle"),
             (In("track") \/ In("count"))' => (In("track") \/ In("count")) /\ link'.sec = link.sec
      PROVE  CacheInv'
  <2>1. /\ borrowed' = borrowed /\ idmap' = idmap /\ views' = views /\ Keys' = Keys
    BY <1>4 DEF cacheVars, Keys
  <2> QED
    BY <1>4, <2>1 DEF CacheInv, CacheSorted
<1>5. CASE TrackData
  <2>1. DOMAIN link = LinkFields
    BY <1>5 DEF TrackData, NotLinking, In, LinkOK
  <2>2. link'.phase = "count" /\ link'.sec = link.sec
    BY <1>5, <2>1 DEF TrackData, LinkFields
  <2> QED
    BY <1>4, <1>5, <2>2 DEF TrackData, In
<1>6. CASE TrackEnd
  <2>1. DOMAIN link = LinkFields
    BY <1>6 DEF TrackEnd, NotLinking, In, LinkOK
  <2>2. link'.phase = "relocate"
    BY <1>6, <2>1 DEF TrackEnd, LinkFields
  <2> QED
    BY <1>4, <1>6, <2>2 DEF TrackEnd, In
<1>7. CASE RelocateNone \/ RelocateDirect \/ RelocateViaStub
  <2>1. UNCHANGED cacheVars /\ In("relocate") /\ In("relocate")'
    BY <1>7, AdvanceKeeps DEF RelocateNone, RelocateDirect, RelocateViaStub, Relocating
  <2> QED
    BY <1>4, <2>1 DEF In
<1>8. CASE LinkCommit
  BY <1>4, <1>8 DEF LinkCommit, In
<1>9. CASE (\E c \in Calls : PlainWrite(c)) \/ Outer \/ ReleaseAny \/ UNCHANGED allVars
  <2>1. link' = link /\ UNCHANGED cacheVars
    BY <1>9 DEF PlainWrite, Outer, ReleaseAny, allVars, linkerVars
  <2> QED
    BY <1>4, <2>1 DEF In
<1> QED
  BY <1>1, <1>2, <1>3, <1>5, <1>6, <1>7, <1>8, <1>9 DEF CoffrNext

-----------------------------------------------------------------------------
(* The blocks. *)

\* A block that is written lies where StartOffset says.
LEMMA WriteLies ==
  ASSUME CountInv, NEW c, Request(c), TxWrite(c, TRUE)
  PROVE  Lies(code', Top.id, StartOffset(Base, cursor, c.align), c.len)
<1>1. TypeOK /\ Top.id \in 1 .. MaxProgs /\ Place(Top.id, c, TRUE)
  BY TopFacts DEF CountInv, TxWrite, Tx
<1> DEFINE lo == StartOffset(Base, cursor, c.align)
           b  == [prog |-> Top.id, lo |-> lo, hi |-> lo + c.len, align |-> c.align,
                  flushed |-> TRUE]
<1>2. b \in code'
  BY <1>1 DEF Place
<1>3. b.prog = Top.id /\ b.lo = lo /\ b.hi = lo + c.len
  OBVIOUS
<1> HIDE DEF b
<1> QED
  BY <1>2, <1>3 DEF Lies

\* While the link's transaction is open, its blocks stay.
LEMMA LinkBlocksStay ==
  ASSUME CountInv, LayoutOK, ~NotLinking,
         \/ \E c, write : Request(c) /\ write \in BOOLEAN /\ TxWrite(c, write)
         \/ \E blocks \in SUBSET code : Patch(blocks)
         \/ \E h \in handles : Release(h)
         \/ UNCHANGED vars
  PROVE  /\ InTx' /\ Top'.id = Top.id /\ Top'.total = Top.total /\ Top'.cursor = Top.cursor
         /\ \A lo, len : Lies(code, Top.id, lo, len) => Lies(code', Top.id, lo, len)
         /\ Placed(code')
<1>1. InTx /\ Placed(code)
  BY DEF LayoutOK
<1>2. /\ InTx' /\ Top'.id = Top.id /\ Top'.total = Top.total /\ Top'.cursor = Top.cursor
      /\ \A b \in code : b.prog = Top.id =>
           \E e \in code' : e.prog = b.prog /\ e.lo = b.lo /\ e.hi = b.hi
  BY <1>1, OpenStays
<1>3. \A lo, len : Lies(code, Top.id, lo, len) => Lies(code', Top.id, lo, len)
  BY <1>2 DEF Lies
<1> QED
  BY <1>1, <1>2, <1>3 DEF Placed

\* The cache as it is says the same after a step that leaves it.
LEMMA CacheKept ==
  ASSUME UNCHANGED cacheVars
  PROVE  Keys' = Keys /\ \A k \in Keys : Get(k)' = Get(k)
<1>1. idmap' = idmap /\ views' = views
  BY DEF cacheVars
<1> QED
  BY <1>1 DEF Keys, Get

\* What was placed is placed after a step that leaves the cache and stays at
\* the same section.
LEMMA PlacedKept ==
  ASSUME UNCHANGED cacheVars, Top'.id = Top.id, Placed(code'),
         link'.obj = link.obj, link'.sec = link.sec
  PROVE  /\ Placed(code)'
         /\ InSections' <=> InSections
         /\ Section' = Section
<1>1. Keys' = Keys /\ \A k \in Keys : Get(k)' = Get(k)
  BY CacheKept
<1>2. Tracked(link.obj)' = Tracked(link.obj)
  BY DEF Tracked
<1>3. InSections' <=> InSections
  BY DEF InSections
<1>4. Section' = Section
  BY DEF Section
<1>5. \A i \in Tracked(link.obj)' : i < link'.sec => i \in Keys'
  BY <1>1, <1>2 DEF Placed
<1>6. \A k \in Keys' : k \in DOMAIN link'.obj.sections
  BY <1>1 DEF Placed
<1>7. \A k \in Keys' : Lies(code', Top'.id, Get(k)'.cursor, link'.obj.sections[k].len)
  BY <1>1 DEF Placed
<1> QED
  BY <1>3, <1>4, <1>5, <1>6, <1>7 DEF Placed, Lies

LEMMA LayoutNext ==
  ASSUME CountInv, LinkOK, CacheInv, LayoutOK, [CoffrNext]_allVars
  PROVE  LayoutOK'
<1>t. TypeOK
  BY DEF CountInv
<1>1. ASSUME NEW obj \in Objects, NEW calls \in Reserves, LinkStart(obj, calls)
      PROVE  LayoutOK'
  <2>1. /\ link'.phase \in {"panic", "track"} /\ link'.obj = obj
        /\ link'.sec = NextTracked(obj, 0)
    BY <1>1 DEF LinkStart
  <2>2. Keys' = {}
    BY <1>1, EmptyCache DEF LinkStart, Create
  <2>3. InTx' /\ Top'.total = obj.total
    <3>1. txs \in Seq(Tx) /\ txs' = Append(txs, [id |-> progs + 1, cursor |-> cursor,
                                                  total |-> obj.total, writes |-> 0])
      BY <1>1, <1>t DEF LinkStart, Begin, TypeOK
    <3>2. /\ Len(txs') = Len(txs) + 1 /\ Len(txs) \in Nat
          /\ txs'[Len(txs) + 1].total = obj.total
      BY <3>1
    <3>3. txs' # <<>>
      BY <3>2
    <3> QED
      BY <3>2, <3>3 DEF InTx, Top
  <2>4. \A i \in Tracked(obj) : ~(i < NextTracked(obj, 0))
    <3>1. obj.sections \in Seq(Range(obj.sections))
      BY CoffrAssumption
    <3>2. /\ 0 \in Nat /\ 0 <= Len(obj.sections)
          /\ \A i \in Tracked(obj) : i \in Nat /\ i > 0
      BY <3>1 DEF Tracked
    <3>3. NextTracked(obj, 0) \in Nat /\ \A i \in Tracked(obj) : i > 0 => NextTracked(obj, 0) <= i
      BY <3>2, NextTrackedUp
    <3> QED
      BY <3>2, <3>3
  <2>5. Tracked(link.obj)' = Tracked(obj)
    BY <2>1 DEF Tracked
  <2>6. Placed(code)'
    BY <2>1, <2>2, <2>4, <2>5 DEF Placed
  <2> QED
    BY <2>1, <2>3, <2>6 DEF LayoutOK, In
<1>2. CASE TrackData
  <2>1. ~NotLinking /\ InSections /\ DOMAIN link = LinkFields
    BY <1>2 DEF TrackData, NotLinking, In, LinkOK
  <2>2. Request(DataCall) /\ TxWrite(DataCall, TRUE) /\ TRUE \in BOOLEAN
    BY <1>2, <2>1, DataRequest DEF TrackData
  <2>3. DataCall.align = Section.align /\ DataCall.len = Section.len
    BY DEF DataCall
  <2>4. Lies(code', Top.id, StartOffset(Base, cursor, Section.align), Section.len)
    BY <2>2, <2>3, WriteLies
  <2>5. /\ InTx' /\ Top'.id = Top.id /\ Top'.total = Top.total /\ Placed(code')
    BY <2>1, <2>2, LinkBlocksStay
  <2>6. /\ link'.phase = "count" /\ link'.obj = link.obj /\ link'.sec = link.sec
        /\ link'.at = StartOffset(Base, cursor, Section.align) /\ UNCHANGED cacheVars
    BY <1>2, <2>1 DEF TrackData, LinkFields
  <2>7. Placed(code)' /\ Section' = Section
    BY <2>5, <2>6, PlacedKept
  <2>8. Lies(code, Top.id, link.at, Section.len)'
    BY <2>4, <2>5, <2>6, <2>7 DEF Lies
  <2>9. Top'.total = link'.obj.total
    BY <2>1, <2>5, <2>6 DEF LayoutOK
  <2> QED
    BY <2>5, <2>6, <2>7, <2>8, <2>9 DEF LayoutOK, In
<1>3. CASE TrackPool
  <2>1. ~NotLinking /\ InSections /\ DOMAIN link = LinkFields /\ link.obj \in Objects /\ In("count")
    BY <1>3 DEF TrackPool, NotLinking, In, LinkOK
  <2>s. PICK sec \in Nat : sec = link.sec
    BY <2>1 DEF LinkOK
  <2>2. PICK view \in SectionView :
          /\ Insert(sec, view) /\ view.cursor = link.at
          /\ \A k \in Keys : k < sec
    BY <1>3, <1>t, <2>s, PoolInserts
  <2>3. /\ Keys' = Keys \cup {sec}
        /\ Get(sec)' = view /\ \A k \in Keys : Get(k)' = Get(k)
    BY <2>2, InsertKeeps DEF CacheInv
  <2>4. Request(PoolCall) /\ TxWrite(PoolCall, TRUE) /\ TRUE \in BOOLEAN
    BY <1>3, <2>1, PoolRequest DEF TrackPool
  <2>5. /\ InTx' /\ Top'.id = Top.id /\ Top'.total = Top.total /\ Placed(code')
        /\ \A lo, len : Lies(code, Top.id, lo, len) => Lies(code', Top.id, lo, len)
    BY <2>1, <2>4, LinkBlocksStay
  <2>6. Lies(code', Top.id, link.at, Section.len) /\ Top.total = link.obj.total
    BY <2>1, <2>5 DEF LayoutOK
  <2>7. /\ link'.phase = "track" /\ link'.obj = link.obj
        /\ link'.sec = NextTracked(link.obj, link.sec)
    BY <1>3, <2>1 DEF TrackPool, LinkFields
  <2>8. link.sec \in DOMAIN link.obj.sections
    BY <2>1, SectionFacts
  <2>9. \A i \in Tracked(link.obj) : i < link'.sec => i \in Keys'
    <3>1. /\ NextTracked(link.obj, link.sec) \in Nat
          /\ \A i \in Tracked(link.obj) : i > link.sec => NextTracked(link.obj, link.sec) <= i
      BY <2>1, <2>s, NextTrackedUp DEF InSections
    <3>2. \A i \in Tracked(link.obj) : i \in Nat
      <4>1. link.obj.sections \in Seq(Range(link.obj.sections))
        BY <2>1, CoffrAssumption
      <4> QED
        BY <4>1 DEF Tracked
    <3>3. \A i \in Tracked(link.obj) : i < link.sec => i \in Keys
      BY <2>5 DEF Placed
    <3> QED
      BY <2>s, <2>3, <2>7, <3>1, <3>2, <3>3
  <2>10. Tracked(link.obj)' = Tracked(link.obj)
    BY <2>7 DEF Tracked
  <2>11. \A k \in Keys' : /\ k \in DOMAIN link'.obj.sections
                          /\ Lies(code', Top'.id, Get(k)'.cursor, link'.obj.sections[k].len)
    <3>1. ASSUME NEW k \in Keys
          PROVE  /\ k \in DOMAIN link'.obj.sections
                 /\ Lies(code', Top'.id, Get(k)'.cursor, link'.obj.sections[k].len)
      BY <2>3, <2>5, <2>7, <3>1 DEF Placed
    <3>2. Lies(code', Top'.id, view.cursor, link'.obj.sections[sec].len)
      BY <2>s, <2>2, <2>5, <2>6, <2>7 DEF Section
    <3> QED
      BY <2>3, <2>s, <2>7, <2>8, <3>1, <3>2
  <2>12. Placed(code)'
    BY <2>9, <2>10, <2>11 DEF Placed, Lies
  <2> QED
    BY <2>5, <2>6, <2>7, <2>12 DEF LayoutOK, In
<1>4. CASE TrackEnd
  <2>1. ~NotLinking /\ DOMAIN link = LinkFields
    BY <1>4 DEF TrackEnd, NotLinking, In, LinkOK
  <2>2. UNCHANGED vars /\ UNCHANGED cacheVars /\ ~InSections
    BY <1>4 DEF TrackEnd
  <2>3. InTx' /\ Top'.id = Top.id /\ Top'.total = Top.total /\ Placed(code')
    BY <2>1, <2>2, LinkBlocksStay
  <2>4. link'.phase = "relocate" /\ link'.obj = link.obj /\ link'.sec = link.sec
    BY <1>4, <2>1 DEF TrackEnd, LinkFields
  <2>5. Placed(code)' /\ ~InSections'
    BY <2>2, <2>3, <2>4, PlacedKept
  <2>6. Top'.total = link'.obj.total
    BY <2>1, <2>3, <2>4 DEF LayoutOK
  <2> QED
    BY <2>3, <2>4, <2>5, <2>6 DEF LayoutOK, In
<1>5. CASE RelocateNone \/ RelocateDirect \/ RelocateViaStub
  <2>1. In("relocate") /\ UNCHANGED cacheVars
    BY <1>5 DEF RelocateNone, RelocateDirect, RelocateViaStub, Relocating
  <2>2. ~NotLinking
    BY <2>1 DEF NotLinking, In
  <2>3. In("relocate")' /\ link'.obj = link.obj /\ link'.sec = link.sec
    BY <1>5, <2>1, AdvanceKeeps DEF RelocateNone, RelocateDirect, RelocateViaStub
  <2>4. UNCHANGED vars \/ \E blocks \in SUBSET code : Patch(blocks)
    <3>1. CASE RelocateNone
      BY <3>1 DEF RelocateNone
    <3>2. CASE RelocateDirect \/ RelocateViaStub
      <4>1. PICK offsets : Patch(BlocksAt(offsets))
        BY <3>2 DEF RelocateDirect, RelocateViaStub
      <4>2. BlocksAt(offsets) \in SUBSET code
        BY DEF BlocksAt
      <4> QED
        BY <4>1, <4>2
    <3> QED
      BY <1>5, <3>1, <3>2
  <2>5. InTx' /\ Top'.id = Top.id /\ Top'.total = Top.total /\ Placed(code')
    BY <2>2, <2>4, LinkBlocksStay
  <2>6. Placed(code)' /\ ~InSections'
    BY <2>1, <2>2, <2>3, <2>5, PlacedKept DEF LayoutOK
  <2>7. Top'.total = link'.obj.total
    BY <2>2, <2>3, <2>5 DEF LayoutOK
  <2> QED
    BY <2>3, <2>5, <2>6, <2>7 DEF LayoutOK, In
<1>6. CASE LinkCommit \/ SymbolsEnd \/ LinkFail
  BY <1>6 DEF LinkCommit, SymbolsEnd, LinkFail, LayoutOK, NotLinking, In, Idle
<1>7. CASE (\E c \in Calls : PlainWrite(c)) \/ Outer
  <2>1. NotLinking /\ link' = link
    BY <1>7 DEF PlainWrite, Outer, linkerVars
  <2> QED
    BY <2>1 DEF LayoutOK, NotLinking, In
<1>8. CASE ReleaseAny \/ UNCHANGED allVars
  <2>1. link' = link /\ UNCHANGED cacheVars
    BY <1>8 DEF ReleaseAny, allVars, linkerVars
  <2>2. CASE ~NotLinking
    <3>1. UNCHANGED vars \/ \E h \in handles : Release(h)
      BY <1>8 DEF ReleaseAny, allVars
    <3>2. /\ InTx' /\ Top'.id = Top.id /\ Top'.total = Top.total /\ Placed(code')
          /\ \A lo, len : Lies(code, Top.id, lo, len) => Lies(code', Top.id, lo, len)
      BY <2>2, <3>1, LinkBlocksStay
    <3>3. Placed(code)' /\ Section' = Section /\ (InSections' <=> InSections)
      BY <2>1, <3>2, PlacedKept
    <3>4. Top'.total = link'.obj.total
      BY <2>1, <2>2, <3>2 DEF LayoutOK
    <3>5. In("count")' => Lies(code, Top.id, link.at, Section.len)'
      BY <2>1, <2>2, <3>2, <3>3 DEF LayoutOK, In
    <3>6. In("relocate")' => ~InSections'
      BY <2>1, <2>2, <3>3 DEF LayoutOK, In
    <3> QED
      BY <3>2, <3>3, <3>4, <3>5, <3>6 DEF LayoutOK
  <2>3. CASE NotLinking
    BY <2>1, <2>3 DEF LayoutOK, NotLinking, In
  <2> QED
    BY <2>2, <2>3
<1> QED
  BY <1>1, <1>2, <1>3, <1>4, <1>5, <1>6, <1>7, <1>8 DEF CoffrNext

\* When relocating starts, every tracked section has its view.
LEMMA AllPlaced ==
  ASSUME LinkOK, LayoutOK, ~NotLinking, ~InSections
  PROVE  Tracked(link.obj) \subseteq Keys
<1>1. Placed(code)
  BY DEF LayoutOK
<1>2. link.obj.sections \in Seq(Range(link.obj.sections)) /\ link.sec \in Nat
  BY CoffrAssumption DEF LinkOK
<1>3. \A i \in Tracked(link.obj) : i \in Nat /\ i <= Len(link.obj.sections)
  BY <1>2 DEF Tracked
<1>4. Len(link.obj.sections) \in Nat /\ Len(link.obj.sections) < link.sec
  BY <1>2 DEF InSections
<1>5. \A i \in Tracked(link.obj) : i < link.sec
  BY <1>2, <1>3, <1>4
<1> QED
  BY <1>1, <1>5 DEF Placed

LEMMA AllTracked ==
  ASSUME LinkOK, LayoutOK, In("relocate")
  PROVE  Tracked(link.obj) \subseteq Keys
<1>1. ~NotLinking /\ ~InSections
  BY DEF NotLinking, In, LayoutOK
<1> QED
  BY <1>1, AllPlaced

-----------------------------------------------------------------------------
(* The relocations. *)

\* The walk goes to the first relocation of a tracked section, or to the end.
LEMMA NextRelocFacts ==
  ASSUME NEW obj \in Objects, NEW i, NextReloc(obj, i)[1] <= Len(obj.sections)
  PROVE  /\ NextReloc(obj, i)[1] \in Tracked(obj)
         /\ NextReloc(obj, i)[2] \in DOMAIN obj.sections[NextReloc(obj, i)[1]].relocs
<1> DEFINE n == Len(obj.sections)
           S == {j \in Tracked(obj) : j > i /\ obj.sections[j].relocs # <<>>} \cup {n + 1}
<1>1. /\ n \in Nat /\ DOMAIN obj.sections = 1 .. n
      /\ \A j \in DOMAIN obj.sections :
           obj.sections[j].relocs \in Seq(Range(obj.sections[j].relocs))
  <2>1. obj.sections \in Seq(Range(obj.sections))
    BY CoffrAssumption
  <2> QED
    BY <2>1, CoffrAssumption
<1>2. S \in SUBSET Nat /\ S # {}
  BY <1>1 DEF Tracked
<1>3. NextReloc(obj, i) = <<Min(S), 1>>
  BY DEF NextReloc
<1>4. Min(S) \in S
  <2> HIDE DEF S
  <2> QED
    BY <1>2, MinIsLeast
<1>5. Min(S) <= n
  BY <1>3
<1>6. Min(S) \in Tracked(obj) /\ obj.sections[Min(S)].relocs # <<>>
  BY <1>1, <1>4, <1>5
<1>7. Min(S) \in DOMAIN obj.sections
  BY <1>6 DEF Tracked
<1>8. 1 \in DOMAIN obj.sections[Min(S)].relocs
  <2>1. PICK relocs : relocs = obj.sections[Min(S)].relocs
    OBVIOUS
  <2>2. relocs \in Seq(Range(relocs)) /\ relocs # <<>>
    BY <1>1, <1>6, <1>7, <2>1
  <2>3. 1 \in DOMAIN relocs
    BY <2>2
  <2> QED
    BY <2>1, <2>3
<1> QED
  BY <1>3, <1>6, <1>8

LEMMA WalkNext ==
  ASSUME LinkOK, WalkOK, [CoffrNext]_allVars
  PROVE  WalkOK'
<1>1. ASSUME NEW obj \in Objects, NEW calls \in Reserves, LinkStart(obj, calls)
      PROVE  WalkOK'
  BY <1>1 DEF LinkStart, WalkOK, Relocating, In
<1>2. CASE TrackData \/ TrackPool
  <2>1. DOMAIN link = LinkFields
    BY <1>2 DEF TrackData, TrackPool, NotLinking, In, LinkOK
  <2>2. link'.phase \in {"track", "count"}
    BY <1>2, <2>1 DEF TrackData, TrackPool, LinkFields
  <2> QED
    BY <2>2 DEF WalkOK, Relocating, In
<1>3. CASE TrackEnd
  <2>1. DOMAIN link = LinkFields /\ link.obj \in Objects
    BY <1>3 DEF TrackEnd, NotLinking, In, LinkOK
  <2>2. link'.obj = link.obj /\ link'.todo = NextReloc(link.obj, 0)
    BY <1>3, <2>1 DEF TrackEnd, LinkFields
  <2>3. PICK obj \in Objects : obj = link.obj
    BY <2>1
  <2>4. link'.obj = obj /\ link'.todo = NextReloc(obj, 0)
    BY <2>2, <2>3
  <2>5. Tracked(link.obj)' = Tracked(obj) /\ Relocs' = obj.sections[link'.todo[1]].relocs
    BY <2>4 DEF Tracked, Relocs
  <2> QED
    BY <2>4, <2>5, NextRelocFacts DEF WalkOK, Relocating
<1>4. CASE RelocateNone \/ RelocateDirect \/ RelocateViaStub
  <2>1. Relocating /\ \E took : Advance(took)
    BY <1>4 DEF RelocateNone, RelocateDirect, RelocateViaStub
  <2>2. DOMAIN link = LinkFields /\ link.obj \in Objects
    BY <2>1 DEF Relocating, NotLinking, In, LinkOK
  <2>3. PICK obj, i, k : obj \in Objects /\ obj = link.obj /\ i = link.todo[1] /\ k = link.todo[2]
    BY <2>2
  <2>4. i \in Tracked(obj) /\ k \in DOMAIN obj.sections[i].relocs /\ Relocs = obj.sections[i].relocs
    BY <2>1, <2>3 DEF WalkOK, Relocs
  <2>5. /\ link'.obj = obj
        /\ link'.todo = IF k = Len(obj.sections[i].relocs) THEN NextReloc(obj, i) ELSE <<i, k + 1>>
    BY <2>1, <2>2, <2>3, <2>4 DEF Advance, LinkFields
  <2>6. Tracked(link.obj)' = Tracked(obj) /\ Relocs' = obj.sections[link'.todo[1]].relocs
    BY <2>5 DEF Tracked, Relocs
  <2>7. CASE k = Len(obj.sections[i].relocs)
    BY <2>3, <2>5, <2>6, <2>7, NextRelocFacts DEF WalkOK, Relocating
  <2>8. CASE k # Len(obj.sections[i].relocs)
    <3>1. i \in DOMAIN obj.sections
      BY <2>4 DEF Tracked
    <3>2. obj.sections[i].relocs \in Seq(Range(obj.sections[i].relocs))
      BY <2>3, <3>1, CoffrAssumption
    <3>3. k + 1 \in DOMAIN obj.sections[i].relocs
      BY <2>4, <2>8, <3>2
    <3>4. link'.todo[1] = i /\ link'.todo[2] = k + 1
      BY <2>5, <2>8
    <3> QED
      BY <2>4, <2>6, <3>3, <3>4 DEF WalkOK
  <2> QED
    BY <2>7, <2>8
<1>5. CASE LinkCommit \/ SymbolsEnd \/ LinkFail
  BY <1>5 DEF LinkCommit, SymbolsEnd, LinkFail, Idle, WalkOK, Relocating, In
<1>6. CASE (\E c \in Calls : PlainWrite(c)) \/ Outer \/ ReleaseAny \/ UNCHANGED allVars
  <2>1. link' = link
    BY <1>6 DEF PlainWrite, Outer, ReleaseAny, allVars, linkerVars
  <2> QED
    BY <2>1 DEF WalkOK, Relocating, In, Relocs, Tracked
<1> QED
  BY <1>1, <1>2, <1>3, <1>4, <1>5, <1>6 DEF CoffrNext

-----------------------------------------------------------------------------
(* The symbols. *)

\* A commit keeps the blocks of its program, if it has users then.
LEMMA CommitKeepsOwn ==
  ASSUME CountInv, Commit, NEW p, p = Top.id, Mapped(p)'
  PROVE  \A lo, len : Lies(code, p, lo, len) => Lies(code', p, lo, len)
<1>1. InTx /\ TypeOK /\ Identities
  BY DEF Commit, CountInv
<1>2. handles' = handles \cup ({Top.id} \X (1 .. Top.total))
  BY DEF Commit, HandOut
<1>3. \A h \in handles : h[1] # p
  BY <1>1, TopFacts DEF Identities
<1>4. \E h \in handles' : h[1] = p
  BY DEF Mapped, Live
<1>5. PICK n : n \in 1 .. Top.total
  BY <1>2, <1>3, <1>4
<1>6. Top.total \in Nat
  BY <1>1, TopFacts, SlabAssumption DEF Tx
<1>7. Top.total > 0
  BY <1>5, <1>6
<1>8. ASSUME NEW b \in code, b.prog = p
      PROVE  \E e \in code' : e.prog = b.prog /\ e.lo = b.lo /\ e.hi = b.hi
  BY <1>1, <1>7, CommitBlocks
<1> QED
  BY <1>8 DEF Lies

\* A commit leaves what the link placed to the iterator.
LEMMA CommitHandsOver ==
  ASSUME CountInv, LinkOK, LayoutOK, LinkCommit
  PROVE  SymbolsOK'
<1>1. ~NotLinking /\ ~InSections /\ InTx /\ Commit /\ UNCHANGED cacheVars /\ TypeOK /\ Identities
  BY DEF LinkCommit, NotLinking, In, LayoutOK, CountInv
<1>p. PICK p \in 1 .. MaxProgs : p = Top.id
  BY <1>1, TopFacts DEF Tx
<1>2. link'.prog = p /\ link'.obj = link.obj /\ link.obj \in Objects
  BY <1>1, <1>p DEF LinkCommit, LinkOK
<1>3. Placed(code)
  BY <1>1 DEF LayoutOK
<1>4. Keys' = Keys /\ \A k \in Keys : Get(k)' = Get(k)
  BY <1>1, CacheKept
<1>5. p \in 1 .. progs' /\ \A i \in DOMAIN txs' : txs'[i].id # p
  <2>1. /\ Len(txs) \in DOMAIN txs /\ Top = txs[Len(txs)] /\ Len(txs) \in Nat
        /\ DOMAIN SubSeq(txs, 1, Len(txs) - 1) = 1 .. Len(txs) - 1
        /\ \A i \in 1 .. Len(txs) - 1 :
             i \in DOMAIN txs /\ SubSeq(txs, 1, Len(txs) - 1)[i] = txs[i]
    BY <1>1, TopFacts
  <2>2. txs' = SubSeq(txs, 1, Len(txs) - 1) /\ progs' = progs
    BY <1>1 DEF Commit
  <2>3. p <= progs /\ progs \in Nat
    BY <1>1, <1>p, <2>1, SlabAssumption DEF Identities, TypeOK
  <2>4. \A i \in 1 .. Len(txs) - 1 : txs[i].id # p
    BY <1>1, <1>p, <2>1 DEF Identities
  <2> QED
    BY <2>1, <2>2, <2>3, <2>4
<1>6. Tracked(link.obj) \subseteq Keys
  BY AllTracked DEF LinkCommit
<1>8. ASSUME Mapped(p)', NEW k \in Keys
      PROVE  Lies(code', p, Get(k)'.cursor, link.obj.sections[k].len)
  <2>1. Lies(code, p, Get(k).cursor, link.obj.sections[k].len)
    BY <1>3, <1>p DEF Placed
  <2>2. \A lo, len : Lies(code, p, lo, len) => Lies(code', p, lo, len)
    BY <1>1, <1>p, <1>8, CommitKeepsOwn
  <2> QED
    BY <1>4, <2>1, <2>2
<1>9. \A k \in Keys : k \in DOMAIN link.obj.sections
  BY <1>3 DEF Placed
<1>10. Tracked(link.obj)' = Tracked(link.obj)
  BY <1>2 DEF Tracked
<1> QED
  BY <1>2, <1>4, <1>5, <1>6, <1>8, <1>9, <1>10 DEF SymbolsOK, Lies, Mapped, Live

\* Whatever the slab's users do meanwhile, the views stay true.
LEMMA IteratorStays ==
  ASSUME CountInv, SymbolsOK, In("symbols"), link' = link, UNCHANGED cacheVars, [AnyNext]_vars
  PROVE  SymbolsOK'
<1>p. PICK p \in 1 .. progs : p = link.prog
  BY DEF SymbolsOK
<1>1. /\ p \in 1 .. progs'
      /\ \A i \in DOMAIN txs' : txs'[i].id # p
      /\ Mapped(p)' =>
           /\ Mapped(p)
           /\ \A b \in code : b.prog = p =>
                \E e \in code' : e.prog = b.prog /\ e.lo = b.lo /\ e.hi = b.hi
  BY <1>p, ProgramStays DEF SymbolsOK
<1>2. Keys' = Keys /\ \A k \in Keys : Get(k)' = Get(k)
  BY CacheKept
<1>3. Tracked(link.obj)' = Tracked(link.obj) /\ Tracked(link.obj) \subseteq Keys
  BY DEF Tracked, SymbolsOK
<1>4. ASSUME Mapped(p)', NEW k \in Keys
      PROVE  Lies(code', p, Get(k)'.cursor, link.obj.sections[k].len)
  <2>1. Lies(code, p, Get(k).cursor, link.obj.sections[k].len)
    BY <1>1, <1>4, <1>p DEF SymbolsOK
  <2>2. \A lo, len : Lies(code, p, lo, len) => Lies(code', p, lo, len)
    BY <1>1, <1>4 DEF Lies
  <2> QED
    BY <1>2, <2>1, <2>2
<1>5. link'.prog = p /\ link'.obj = link.obj /\ link.obj \in Objects
  BY <1>p DEF SymbolsOK
<1>6. \A k \in Keys : k \in DOMAIN link.obj.sections
  BY DEF SymbolsOK
<1> QED
  BY <1>1, <1>2, <1>3, <1>4, <1>5, <1>6 DEF SymbolsOK, Lies, Mapped, Live

LEMMA SymbolsNext ==
  ASSUME CountInv, LinkOK, LayoutOK, SymbolsOK, [CoffrNext]_allVars
  PROVE  SymbolsOK'
<1>1. ASSUME NEW obj \in Objects, NEW calls \in Reserves, LinkStart(obj, calls)
      PROVE  SymbolsOK'
  BY <1>1 DEF LinkStart, SymbolsOK, In
<1>2. CASE TrackData \/ TrackPool \/ TrackEnd
  <2>1. DOMAIN link = LinkFields
    BY <1>2 DEF TrackData, TrackPool, TrackEnd, NotLinking, In, LinkOK
  <2>2. link'.phase \in Phases
    BY <1>2, <2>1 DEF TrackData, TrackPool, TrackEnd, LinkFields, Phases
  <2> QED
    BY <2>2 DEF SymbolsOK, In, Phases
<1>3. CASE RelocateNone \/ RelocateDirect \/ RelocateViaStub
  <2>1. In("relocate")'
    BY <1>3, AdvanceKeeps DEF RelocateNone, RelocateDirect, RelocateViaStub, Relocating
  <2> QED
    BY <2>1 DEF SymbolsOK, In
<1>4. CASE LinkCommit
  BY <1>4, CommitHandsOver
<1>5. CASE SymbolsEnd \/ LinkFail
  BY <1>5 DEF SymbolsEnd, LinkFail, Idle, SymbolsOK, In
<1>6. CASE (\E c \in Calls : PlainWrite(c)) \/ Outer \/ ReleaseAny \/ UNCHANGED allVars
  <2>1. link' = link /\ UNCHANGED cacheVars
    BY <1>6 DEF PlainWrite, Outer, ReleaseAny, allVars, linkerVars
  <2>2. CASE In("symbols")
    BY <2>1, <2>2, IteratorStays, CoffrIsSlab
  <2>3. CASE ~In("symbols")
    BY <2>1, <2>3 DEF SymbolsOK, In
  <2> QED
    BY <2>2, <2>3
<1> QED
  BY <1>1, <1>2, <1>3, <1>4, <1>5, <1>6 DEF CoffrNext

-----------------------------------------------------------------------------
(* The theorems. *)

LEMMA CoffrInitial == CoffrInit => CoffrInv
<1> SUFFICES ASSUME CoffrInit PROVE CoffrInv
  OBVIOUS
<1>1. SlabInv
  BY CountInit DEF CoffrInit, Init, SlabInv, Watermarks, LiveCodeIntact
<1>2. In("idle") /\ ~In("track") /\ ~In("count") /\ NotLinking
  BY DEF CoffrInit, Idle, In, NotLinking
<1>3. ~borrowed /\ idmap = <<>> /\ views = <<>>
  BY DEF CoffrInit, CacheInit
<1>4. CacheSorted /\ idmap \in Seq(Nat) /\ views \in Seq(SectionView)
  BY <1>3 DEF CacheSorted
<1> QED
  BY <1>1, <1>2, <1>3, <1>4 DEF CoffrInv, LinkOK, CacheInv, LayoutOK, SymbolsOK, WalkOK, Relocating, In

LEMMA CoffrStep == CoffrInv /\ [CoffrNext]_allVars => CoffrInv'
<1> SUFFICES ASSUME CoffrInv, [CoffrNext]_allVars PROVE CoffrInv'
  OBVIOUS
<1>1. SlabInv /\ LinkOK /\ CacheInv /\ LayoutOK /\ SymbolsOK /\ WalkOK /\ CountInv /\ TypeOK
  BY DEF CoffrInv, SlabInv, CountInv
<1>2. SlabInv' /\ LinkOK' /\ CacheInv'
  BY <1>1, SlabStep, LinkNext, CacheNext
<1>3. LayoutOK' /\ SymbolsOK' /\ WalkOK'
  BY <1>1, LayoutNext, SymbolsNext, WalkNext
<1> QED
  BY <1>2, <1>3 DEF CoffrInv

THEOREM CoffrInvariant == CoffrSpec => []CoffrInv
BY CoffrInitial, CoffrStep, PTL DEF CoffrSpec

\* In the linker's hands the slab keeps its promises: its counter balances
\* with what was handed out, marks are below the cursor, and no byte belongs
\* to two functions in use.
THEOREM LinkerKeepsSlab == CoffrSpec => [](Ledger /\ FreeIsSafe /\ Watermarks /\ LiveCodeIntact)
<1>1. CoffrInv => Ledger /\ FreeIsSafe /\ Watermarks /\ LiveCodeIntact
  BY DEF CoffrInv, SlabInv, CountInv
<1> QED
  BY <1>1, CoffrInvariant, PTL

\* The numbers of the cache are strictly ascending, each with its view: what
\* insert_sorted asserts in debug builds only, and get's search relies on.
THEOREM CacheStaysSorted == CoffrSpec => []CacheSorted
<1>1. CoffrInv => CacheSorted
  BY DEF CoffrInv, CacheInv
<1> QED
  BY <1>1, CoffrInvariant, PTL

\* The sections a relocation is about have their views.
LEMMA ViewsThere == CoffrInv => ViewsComplete
<1> SUFFICES ASSUME CoffrInv, Relocating PROVE ViewsComplete
  BY DEF ViewsComplete
<1>1. /\ In("relocate") /\ link.obj \in Objects
      /\ Tracked(link.obj) \subseteq Keys
      /\ link.todo[1] \in Tracked(link.obj) /\ link.todo[2] \in DOMAIN Relocs
  BY AllTracked DEF CoffrInv, WalkOK, Relocating, LinkOK, NotLinking, In
<1>2. ASSUME Linkable, Reloc.symbol.kind = "section"
      PROVE  Reloc.symbol.idx \in Keys
  <2>1. link.todo[1] \in DOMAIN link.obj.sections
    BY <1>1 DEF Tracked
  <2>2. Reloc \in Range(link.obj.sections[link.todo[1]].relocs)
    BY <1>1 DEF Reloc, Relocs, Range
  <2>3. Reloc.symbol.idx \in DOMAIN link.obj.sections
    BY <1>1, <1>2, <2>1, <2>2, CoffrAssumption
  <2>4. Reloc.symbol.idx \in Tracked(link.obj)
    BY <1>2, <2>3 DEF Linkable, Unnameable, Tracked
  <2> QED
    BY <1>1, <2>4
<1> QED
  BY <1>1, <1>2 DEF ViewsComplete

\* get never fails while relocating: the section that is patched and the one
\* referred to have their views, those further down in the file too.
THEOREM ViewsAreThere == CoffrSpec => []ViewsComplete
BY ViewsThere, CoffrInvariant, PTL

\* The addresses the iterator over the symbols yields stay inside the
\* program's own sections for as long as the program is in use, however the
\* slab is written, rolled back and released meanwhile.
THEOREM IteratorStaysTrue == CoffrSpec => []SymbolsPointIntoProgram
<1>1. CoffrInv => SymbolsPointIntoProgram
  <2> SUFFICES ASSUME CoffrInv, In("symbols"), status = "mapped", Live(link.prog),
                      NEW i \in Tracked(link.obj),
                      NEW r \in Range(link.obj.sections[i].relocs),
                      r.symbol.kind = "section", ~Unnameable(link.obj, r.symbol)
               PROVE  \E b \in code :
                        /\ b.prog = link.prog
                        /\ b.hi - b.lo = link.obj.sections[r.symbol.idx].len
                        /\ SymbolAddress(r.symbol) = Base + b.lo + r.symbol.offset
    BY DEF SymbolsPointIntoProgram
  <2> DEFINE k == r.symbol.idx
  <2>1. SymbolsOK /\ TypeOK /\ link.obj \in Objects /\ Mapped(link.prog)
    BY DEF CoffrInv, SymbolsOK, SlabInv, CountInv, Mapped
  <2>2. i \in DOMAIN link.obj.sections
    BY DEF Tracked
  <2>3. k \in DOMAIN link.obj.sections
    BY <2>1, <2>2, CoffrAssumption
  <2>4. k \in Tracked(link.obj)
    BY <2>3 DEF Tracked, Unnameable
  <2>5. k \in Keys
    BY <2>1, <2>4 DEF SymbolsOK
  <2>6. PICK b \in code : /\ b.prog = link.prog /\ b.lo = Get(k).cursor
                          /\ b.hi = b.lo + link.obj.sections[k].len
    BY <2>1, <2>5 DEF SymbolsOK, Lies
  <2>7. b.lo \in Nat /\ link.obj.sections[k].len \in Nat
    BY <2>1, <2>3, CoffrAssumption DEF TypeOK, Block
  <2>8. b.hi - b.lo = link.obj.sections[k].len
    BY <2>6, <2>7
  <2>9. SymbolAddress(r.symbol) = Base + Get(k).cursor + r.symbol.offset
    BY <2>5 DEF SymbolAddress, Address, Views
  <2> QED
    BY <2>6, <2>8, <2>9
<1> QED
  BY <1>1, CoffrInvariant, PTL

\* What the steps of the map say of the cache.
LEMMA MapActions ==
  /\ Map!Open <=> ~borrowed /\ borrowed' = TRUE /\ Views' = <<>>
  /\ Map!Close <=> borrowed /\ borrowed' = FALSE /\ Views' = <<>>
  /\ Map!Insert <=>
       /\ borrowed /\ borrowed'
       /\ \E key \in DOMAIN Views' \ DOMAIN Views : DOMAIN Views' = DOMAIN Views \cup {key}
       /\ Views' = [k \in DOMAIN Views' |-> IF k \in DOMAIN Views THEN Views[k] ELSE Views'[k]]
<1>1. Map!Open <=> ~borrowed /\ borrowed' = TRUE /\ Views' = <<>>
  BY Zenon DEF Map!Open, Views
<1>2. Map!Close <=> borrowed /\ borrowed' = FALSE /\ Views' = <<>>
  BY Zenon DEF Map!Close, Views
<1>3. Map!Insert <=>
        /\ borrowed /\ borrowed'
        /\ \E key \in DOMAIN Views' \ DOMAIN Views : DOMAIN Views' = DOMAIN Views \cup {key}
        /\ Views' = [k \in DOMAIN Views' |-> IF k \in DOMAIN Views THEN Views[k] ELSE Views'[k]]
  BY Zenon DEF Map!Insert, Views
<1> QED
  BY <1>1, <1>2, <1>3

\* A step of the linker is a step of the map, or none.
LEMMA MapStep ==
  ASSUME TypeOK, LinkOK, CacheInv, [CoffrNext]_allVars
  PROVE  [Map!Next]_<<borrowed, Views>>
<1>1. ASSUME Emptied
      PROVE  Views' = <<>>
  <2>1. Keys' = {}
    BY <1>1, EmptyCache
  <2> QED
    BY <2>1 DEF Views
<1>2. ASSUME NEW obj \in Objects, NEW calls \in Reserves, LinkStart(obj, calls)
      PROVE  Map!Open
  <2>1. ~borrowed /\ borrowed' = TRUE /\ Emptied
    BY <1>2 DEF LinkStart, Create
  <2> QED
    BY <1>1, <2>1, MapActions
<1>3. CASE SymbolsEnd \/ LinkFail
  <2>1. borrowed /\ borrowed' = FALSE /\ Emptied
    BY <1>3 DEF SymbolsEnd, LinkFail, Close
  <2>2. Map!Close
    BY <1>1, <2>1, MapActions
  <2> QED
    BY <2>2 DEF Map!Next
<1>4. CASE TrackPool
  <2>1. PICK view \in SectionView : /\ Insert(link.sec, view)
                                    /\ link.sec \in Nat /\ \A k \in Keys : k < link.sec
    BY <1>4, PoolInserts
  <2>2. /\ Keys' = Keys \cup {link.sec} /\ link.sec \notin Keys
        /\ \A k \in Keys : Get(k)' = Get(k)
    BY <2>1, InsertKeeps DEF CacheInv
  <2>3. borrowed /\ borrowed'
    BY <2>1 DEF Insert
  <2>4. DOMAIN Views = Keys /\ DOMAIN Views' = Keys'
    BY DEF Views
  <2>5. \A k \in Keys : Views[k] = Get(k)
    BY DEF Views
  <2>6. Views' = [k \in Keys' |-> Get(k)']
    BY DEF Views
  <2>7. Views' = [k \in Keys' |-> IF k \in Keys THEN Views[k] ELSE Views'[k]]
    BY <2>2, <2>5, <2>6
  <2>8. Map!Insert
    BY <2>2, <2>3, <2>4, <2>7, MapActions
  <2> QED
    BY <2>8 DEF Map!Next
<1>5. ASSUME UNCHANGED cacheVars
      PROVE  UNCHANGED <<borrowed, Views>>
  <2>1. borrowed' = borrowed /\ idmap' = idmap /\ views' = views
    BY <1>5 DEF cacheVars
  <2> QED
    BY <2>1 DEF Views, Keys, Get
<1>6. CASE \/ TrackData \/ TrackEnd \/ RelocateNone \/ RelocateDirect \/ RelocateViaStub
           \/ LinkCommit \/ (\E c \in Calls : PlainWrite(c)) \/ Outer \/ ReleaseAny
           \/ UNCHANGED allVars
  BY <1>5, <1>6 DEF TrackData, TrackEnd, RelocateNone, RelocateDirect, RelocateViaStub,
                    LinkCommit, PlainWrite, Outer, ReleaseAny, allVars
<1> QED
  BY <1>2, <1>3, <1>4, <1>6 DEF CoffrNext, Map!Next

\* The cache implements the map a link relies on, although it is two vectors
\* searched by number, used again and again, and left behind by failed links.
THEOREM CacheIsSectionMap == CoffrSpec => ImplementsSectionMap
<1>1. CoffrInit => ~borrowed /\ Views = <<>>
  <2> SUFFICES ASSUME CoffrInit PROVE ~borrowed /\ Views = <<>>
    OBVIOUS
  <2>1. ~borrowed /\ idmap = <<>>
    BY DEF CoffrInit, CacheInit
  <2>2. Keys = {}
    BY <2>1 DEF Keys, Range
  <2> QED
    BY <2>1, <2>2 DEF Views
<1>2. CoffrInit => Map!Init
  BY <1>1 DEF Map!Init, Views
<1>3. CoffrInv /\ [CoffrNext]_allVars => [Map!Next]_<<borrowed, Views>>
  BY MapStep DEF CoffrInv, SlabInv, CountInv
<1>4. [Map!Next]_<<borrowed, Views>> = [Map!Next]_<<borrowed, [k \in Keys |-> Get(k)]>>
  BY DEF Views
<1> QED
  BY <1>2, <1>3, <1>4, CoffrInvariant, PTL DEF CoffrSpec, ImplementsSectionMap, Map!Spec, Views

-----------------------------------------------------------------------------
(* Types, and where the fields and trampolines may be. *)

CoffrTypes ==
  /\ machine \in Machines
  /\ In("idle") => link = Idle
  /\ ~NotLinking => /\ link.base \in Nat /\ link.used \in Nat
                    /\ InSections => link.sec \in Tracked(link.obj)
  /\ borrowed => Keys \subseteq Tracked(link.obj)
  /\ DOMAIN mem \subseteq 0 .. Size - 1
  /\ DOMAIN stubs \subseteq 0 .. Size - 1
  /\ DOMAIN loaded \subseteq 1 .. progs

LEMMA ImageBaseFacts ==
  ASSUME NEW addr \in Nat
  PROVE  ImageBase(addr) \in Nat
<1>1. Granule \in Nat \ {0}
  BY CoffrAssumption
<1>2. /\ addr \div Granule \in Int /\ addr % Granule \in 0 .. Granule - 1
      /\ addr = Granule * (addr \div Granule) + (addr % Granule)
  BY <1>1, Euclid
<1>3. addr % Granule <= addr
  <2>1. PICK d \in Int, r \in 0 .. Granule - 1 :
          d = addr \div Granule /\ r = addr % Granule /\ addr = Granule * d + r
    BY <1>2
  <2>2. d >= 0
    <3> SUFFICES ASSUME d <= -1 PROVE FALSE
      BY <2>1
    <3>1. Granule * d <= -Granule
      BY <1>1, <2>1
    <3> QED
      BY <1>1, <2>1, <3>1
  <2>3. Granule * d >= 0
    BY <1>1, <2>1, <2>2
  <2> QED
    BY <1>1, <2>1, <2>3
<1> QED
  BY <1>1, <1>2, <1>3 DEF ImageBase

\* The section the iterator goes on to is one it tracks, if there is one.
LEMMA NextIsTracked ==
  ASSUME NEW obj \in Objects, NEW i \in Nat, NextTracked(obj, i) <= Len(obj.sections)
  PROVE  NextTracked(obj, i) \in Tracked(obj)
<1> DEFINE n == Len(obj.sections)
           S == {j \in Tracked(obj) : j > i} \cup {n + 1}
<1>1. obj.sections \in Seq(Range(obj.sections))
  BY CoffrAssumption
<1>2. n \in Nat /\ DOMAIN obj.sections = 1 .. n
  BY <1>1
<1>3. S \in SUBSET Nat /\ S # {}
  BY <1>2 DEF Tracked
<1>4. Min(S) \in S
  BY <1>3, MinIsLeast
<1>5. NextTracked(obj, i) = Min(S)
  BY DEF NextTracked
<1> QED
  BY <1>2, <1>4, <1>5

\* A write that fits lies inside the slab.
LEMMA WriteInside ==
  ASSUME TypeOK, NEW c, Request(c), Room(c)
  PROVE  LET lo == StartOffset(Base, cursor, c.align)
         IN  lo \in Nat /\ lo + c.cap <= Size
<1>1. c.align \in Nat \ {0} /\ Base \in Nat /\ cursor \in Nat /\ Base + cursor \in Nat
  BY SlabAssumption DEF Request, TypeOK
<1>2. /\ AlignUp(Base + cursor, c.align) \in Nat
      /\ Base + cursor <= AlignUp(Base + cursor, c.align)
  BY <1>1, AlignUpFacts
<1> QED
  BY <1>1, <1>2 DEF StartOffset, Room, Fits

LEMMA OverDomain ==
  ASSUME NEW f, NEW g
  PROVE  DOMAIN Over(f, g) = DOMAIN f \cup DOMAIN g
BY DEF Over

LEMMA ClearDomain ==
  ASSUME NEW f, NEW w, NEW lo, NEW hi
  PROVE  DOMAIN Clear(f, w, lo, hi) \subseteq DOMAIN f
BY DEF Clear

LEMMA TypesTrackData ==
  ASSUME TypeOK, LinkOK, CoffrTypes, TrackData
  PROVE  CoffrTypes'
<1>1. ~NotLinking /\ InSections /\ DOMAIN link = LinkFields /\ link.obj \in Objects
  BY DEF TrackData, NotLinking, In, LinkOK
<1>2. PICK lo : lo = StartOffset(Base, cursor, Section.align)
  OBVIOUS
<1>3. /\ Section.align \in Nat \ {0} /\ Section.len \in Nat
      /\ Request(DataCall) /\ Room(DataCall)
  BY <1>1, SectionFacts, DataRequest DEF TrackData, TxWrite
<1>4. lo \in Nat /\ lo + Section.len <= Size
  BY <1>2, <1>3, WriteInside DEF DataCall
<1>5. \A r \in Range(Section.relocs) : r.offset \in Nat /\ r.offset + 4 <= Section.len
  BY <1>1, SectionFacts, RelocFacts DEF Section
<1>6. DOMAIN Fields(Section, lo) \subseteq 0 .. Size - 1
  <2>1. DOMAIN Fields(Section, lo) = UNION {WordsAt(lo + r.offset, r) : r \in Range(Section.relocs)}
    BY DEF Fields
  <2>2. ASSUME NEW r \in Range(Section.relocs), NEW o \in WordsAt(lo + r.offset, r)
        PROVE  o \in 0 .. Size - 1
    <3>1. r.offset \in Nat /\ r.offset + FieldLen(r) <= Section.len
      BY <1>1, SectionFacts, RelocFacts DEF Section
    <3>2. o \in Nat /\ o + 4 <= lo + r.offset + FieldLen(r) /\ FieldLen(r) \in {4, 8}
      BY <1>4, <3>1, WordFacts
    <3> QED
      BY <1>3, <1>4, <3>1, <3>2, SlabAssumption
  <2> QED
    BY <2>1, <2>2
<1>7. /\ mem' = Over(Fields(Section, lo), Clear(mem, 4, lo, lo + Section.len))
      /\ stubs' = Clear(stubs, StubLen, lo, lo + Section.len)
  BY <1>2 DEF TrackData
<1>8. DOMAIN mem' \subseteq 0 .. Size - 1 /\ DOMAIN stubs' \subseteq 0 .. Size - 1
  <2>1. PICK f, g : f = Fields(Section, lo) /\ g = Clear(mem, 4, lo, lo + Section.len)
    OBVIOUS
  <2>2. DOMAIN f \subseteq 0 .. Size - 1
    BY <1>6, <2>1
  <2>3. DOMAIN g \subseteq DOMAIN mem
    BY <2>1, ClearDomain
  <2>4. mem' = Over(f, g)
    BY <1>7, <2>1
  <2>5. DOMAIN mem' = DOMAIN f \cup DOMAIN g
    BY <2>4, OverDomain
  <2>6. DOMAIN stubs' \subseteq DOMAIN stubs
    BY <1>7, ClearDomain
  <2>7. DOMAIN mem \subseteq 0 .. Size - 1 /\ DOMAIN stubs \subseteq 0 .. Size - 1
    BY DEF CoffrTypes
  <2> QED
    BY <2>2, <2>3, <2>5, <2>6, <2>7
<1>9. /\ link'.phase = "count" /\ link'.obj = link.obj /\ link'.sec = link.sec
      /\ link'.base = link.base /\ link'.used = link.used
  BY <1>1 DEF TrackData, LinkFields
<1>10. UNCHANGED <<borrowed, idmap, machine, loaded, progs>> /\ Keys' = Keys
  BY DEF TrackData, TxWrite, cacheVars, Keys
<1>11. link.base \in Nat /\ link.used \in Nat /\ link.sec \in Tracked(link.obj)
  BY <1>1 DEF CoffrTypes
<1>12. ~In("idle")' /\ InSections'
  BY <1>1, <1>9 DEF In, InSections
<1> QED
  BY <1>1, <1>8, <1>9, <1>10, <1>11, <1>12 DEF CoffrTypes

LEMMA TypesTrackPool ==
  ASSUME TypeOK, LinkOK, CacheInv, CoffrTypes, TrackPool
  PROVE  CoffrTypes'
<1>1. /\ ~NotLinking /\ InSections /\ DOMAIN link = LinkFields /\ link.obj \in Objects
      /\ link.sec \in Nat
  BY DEF TrackPool, NotLinking, In, LinkOK
<1>2. PICK pool : pool = StartOffset(Base, cursor, StubLen)
  OBVIOUS
<1>3. PICK n \in Nat : n = Count(Section)
  BY <1>1, PoolRequest
<1>4. Request(PoolCall) /\ Room(PoolCall) /\ PoolCall.align = 16 /\ PoolCall.cap = 16 * n
  BY <1>1, <1>3, PoolRequest DEF TrackPool, TxWrite, PoolCall, StubLen
<1>5. pool \in Nat /\ pool + 16 * n <= Size
  <2>1. pool \in Nat /\ pool + PoolCall.cap <= Size
    BY <1>2, <1>4, WriteInside DEF StubLen
  <2> QED
    BY <1>4, <2>1
<1>6. PICK f : f = [o \in {pool + StubLen * k : k \in 0 .. n - 1} |-> 0]
  OBVIOUS
<1>7. DOMAIN f \subseteq 0 .. Size - 1
  <2>1. \A k \in 0 .. n - 1 : pool + 16 * k \in 0 .. Size - 1
    BY <1>5, SlabAssumption
  <2> QED
    BY <1>6, <2>1 DEF StubLen
<1>8. /\ mem' = Clear(mem, 4, pool, pool + StubLen * n)
      /\ stubs' = Over(f, Clear(stubs, StubLen, pool, pool + StubLen * n))
  BY <1>2, <1>3, <1>6 DEF TrackPool
<1>9. DOMAIN mem' \subseteq 0 .. Size - 1 /\ DOMAIN stubs' \subseteq 0 .. Size - 1
  <2>1. PICK g : g = Clear(stubs, StubLen, pool, pool + StubLen * n)
    OBVIOUS
  <2>2. DOMAIN g \subseteq DOMAIN stubs
    BY <2>1, ClearDomain
  <2>3. stubs' = Over(f, g)
    BY <1>8, <2>1
  <2>4. DOMAIN stubs' = DOMAIN f \cup DOMAIN g
    BY <2>3, OverDomain
  <2>5. DOMAIN mem' \subseteq DOMAIN mem
    BY <1>8, ClearDomain
  <2>6. DOMAIN mem \subseteq 0 .. Size - 1 /\ DOMAIN stubs \subseteq 0 .. Size - 1
    BY DEF CoffrTypes
  <2> QED
    BY <1>7, <2>2, <2>4, <2>5, <2>6
<1>10. /\ link'.phase = "track" /\ link'.obj = link.obj
       /\ link'.sec = NextTracked(link.obj, link.sec)
       /\ link'.base = link.base /\ link'.used = link.used
  BY <1>1 DEF TrackPool, LinkFields
<1>11. InSections' => link'.sec \in Tracked(link.obj)
  BY <1>1, <1>10, NextIsTracked DEF InSections
<1>12. link.base \in Nat /\ link.used \in Nat /\ link.sec \in Tracked(link.obj)
  BY <1>1 DEF CoffrTypes
<1>13. Keys' \subseteq Tracked(link.obj)
  <2>1. PICK view \in SectionView : /\ Insert(link.sec, view)
                                    /\ link.sec \in Nat /\ \A k \in Keys : k < link.sec
    BY PoolInserts
  <2>2. Keys' = Keys \cup {link.sec} /\ borrowed
    BY <2>1, InsertKeeps DEF CacheInv, Insert
  <2> QED
    BY <1>12, <2>2 DEF CoffrTypes
<1>14. UNCHANGED <<machine, loaded, progs>>
  BY DEF TrackPool, TxWrite
<1>15. ~In("idle")'
  BY <1>10 DEF In
<1> QED
  BY <1>9, <1>10, <1>11, <1>12, <1>13, <1>14, <1>15 DEF CoffrTypes

LEMMA TypesRelocate ==
  ASSUME LinkOK, CoffrTypes, RelocateNone \/ RelocateDirect \/ RelocateViaStub
  PROVE  CoffrTypes'
<1>1. /\ ~NotLinking /\ In("relocate") /\ DOMAIN link = LinkFields
  BY DEF RelocateNone, RelocateDirect, RelocateViaStub, Relocating, NotLinking, In, LinkOK
<1>2. PICK took : Advance(took)
  BY DEF RelocateNone, RelocateDirect, RelocateViaStub
<1>3. /\ link'.phase = "relocate" /\ link'.obj = link.obj /\ link'.sec = link.sec
      /\ link'.base = link.base /\ link'.used = NextUsed(took)
  BY <1>1, <1>2 DEF Advance, LinkFields, In
<1>4. link.base \in Nat /\ link.used \in Nat /\ (InSections => link.sec \in Tracked(link.obj))
  BY <1>1 DEF CoffrTypes
<1>5. link'.used \in Nat
  BY <1>3, <1>4 DEF NextUsed
<1>6. DOMAIN mem' = DOMAIN mem
  <2>1. CASE RelocateNone
    BY <2>1 DEF RelocateNone
  <2>2. CASE RelocateDirect
    BY <2>2 DEF RelocateDirect
  <2>3. CASE RelocateViaStub
    BY <2>3 DEF RelocateViaStub
  <2> QED
    BY <2>1, <2>2, <2>3
<1>7. DOMAIN stubs' = DOMAIN stubs
  BY DEF RelocateNone, RelocateDirect, RelocateViaStub
<1>8. UNCHANGED <<cacheVars, machine, loaded, progs>>
  BY DEF RelocateNone, RelocateDirect, RelocateViaStub, Patch, vars
<1>9. ~In("idle")' /\ (InSections' <=> InSections)
  BY <1>3 DEF In, InSections
<1>10. borrowed' = borrowed /\ Keys' = Keys
  BY <1>8 DEF cacheVars, Keys
<1> QED
  BY <1>3, <1>4, <1>5, <1>6, <1>7, <1>8, <1>9, <1>10 DEF CoffrTypes

LEMMA CoffrTypesNext ==
  ASSUME CountInv, LinkOK, CacheInv, LayoutOK, CoffrTypes, [CoffrNext]_allVars
  PROVE  CoffrTypes'
<1>0. TypeOK /\ progs \in Nat /\ progs' \in Nat /\ progs <= progs'
  <2>1. TypeOK /\ TypeOK' /\ [AnyNext]_vars
    BY CoffrIsSlab, TypeNext DEF CountInv
  <2>2. progs \in Nat /\ progs' \in Nat
    BY <2>1, SlabAssumption DEF TypeOK
  <2>3. progs' = progs \/ progs' = progs + 1
    BY <2>1 DEF AnyNext, WriteFn, Begin, TxWrite, Patch, Commit, Abort, Release, TryFree, Leak, vars
  <2> QED
    BY <2>1, <2>2, <2>3
<1>1. ASSUME NEW obj \in Objects, NEW calls \in Reserves, LinkStart(obj, calls)
      PROVE  CoffrTypes'
  <2>1. Base + cursor \in Nat
    BY <1>0, SlabAssumption DEF TypeOK
  <2>2. /\ link'.phase \in {"panic", "track"} /\ link'.obj = obj
        /\ link'.sec = NextTracked(obj, 0)
        /\ link'.base = ImageBase(Base + cursor) /\ link'.used = 0
    BY <1>1 DEF LinkStart
  <2>3. link'.base \in Nat
    BY <2>1, <2>2, ImageBaseFacts
  <2>4. InSections' => link'.sec \in Tracked(obj)
    BY <2>2, NextIsTracked, 0 \in Nat DEF InSections
  <2>5. Keys' = {}
    BY <1>1, EmptyCache DEF LinkStart, Create
  <2>6. ~In("idle")'
    BY <2>2 DEF In
  <2>7. UNCHANGED <<machine, mem, stubs, loaded>> /\ link'.used \in Nat
    BY <1>1, <2>2 DEF LinkStart
  <2>8. DOMAIN loaded' \subseteq 1 .. progs'
    BY <1>0, <2>7 DEF CoffrTypes
  <2>9. /\ machine' \in Machines
        /\ DOMAIN mem' \subseteq 0 .. Size - 1 /\ DOMAIN stubs' \subseteq 0 .. Size - 1
        /\ DOMAIN loaded' \subseteq 1 .. progs'
    BY <2>7, <2>8 DEF CoffrTypes
  <2>10. /\ In("idle")' => link' = Idle
         /\ Keys' \subseteq Tracked(link'.obj)
         /\ link'.base \in Nat /\ link'.used \in Nat
         /\ InSections' => link'.sec \in Tracked(link'.obj)
    BY <2>2, <2>3, <2>4, <2>5, <2>6, <2>7
  <2> QED
    BY <2>9, <2>10 DEF CoffrTypes
<1>2. CASE TrackData
  BY <1>0, <1>2, TypesTrackData
<1>3. CASE TrackPool
  BY <1>0, <1>3, TypesTrackPool
<1>4. CASE TrackEnd
  <2>1. ~NotLinking /\ DOMAIN link = LinkFields
    BY <1>4 DEF TrackEnd, NotLinking, In, LinkOK
  <2>2. /\ link'.phase = "relocate" /\ link'.obj = link.obj /\ link'.sec = link.sec
        /\ link'.base = link.base /\ link'.used = link.used
    BY <1>4, <2>1 DEF TrackEnd, LinkFields
  <2>3. UNCHANGED <<borrowed, idmap, machine, loaded, progs, mem, stubs>> /\ Keys' = Keys
    BY <1>4 DEF TrackEnd, vars, cacheVars, Keys
  <2>4. ~In("idle")' /\ (InSections' <=> InSections)
    BY <2>2 DEF In, InSections
  <2> QED
    BY <2>1, <2>2, <2>3, <2>4 DEF CoffrTypes
<1>5. CASE RelocateNone \/ RelocateDirect \/ RelocateViaStub
  BY <1>5, TypesRelocate
<1>6. CASE LinkCommit
  <2>1. ~NotLinking /\ InTx
    BY <1>6 DEF LinkCommit, NotLinking, In, LayoutOK
  <2>2. Top.id \in 1 .. progs
    BY <1>0, <2>1, TopFacts DEF CountInv, Identities, Tx
  <2>3. DOMAIN loaded' = {Top.id} \cup DOMAIN loaded
    <3>1. PICK f : f = [p \in {Top.id} |-> [obj |-> link.obj, views |-> Views,
                                           base |-> link.base]]
      OBVIOUS
    <3>2. loaded' = Over(f, loaded)
      BY <1>6, <3>1 DEF LinkCommit
    <3>3. DOMAIN loaded' = DOMAIN f \cup DOMAIN loaded
      BY <3>2, OverDomain
    <3> QED
      BY <3>1, <3>3
  <2>4. link'.phase = "symbols" /\ link'.obj = link.obj
    BY <1>6 DEF LinkCommit
  <2>5. UNCHANGED <<borrowed, idmap, machine, mem, stubs>> /\ progs' = progs /\ Keys' = Keys
    BY <1>6 DEF LinkCommit, Commit, cacheVars, Keys
  <2>6. NotLinking' /\ ~In("idle")'
    BY <2>4 DEF NotLinking, In
  <2> QED
    BY <2>2, <2>3, <2>4, <2>5, <2>6 DEF CoffrTypes
<1>7. CASE SymbolsEnd \/ LinkFail
  <2>1. link' = Idle /\ ~borrowed' /\ UNCHANGED <<machine, mem, stubs, loaded>>
    BY <1>7 DEF SymbolsEnd, LinkFail, Close
  <2>2. NotLinking'
    BY <2>1 DEF NotLinking, In, Idle
  <2>3. DOMAIN loaded' \subseteq 1 .. progs'
    BY <1>0, <2>1 DEF CoffrTypes
  <2>4. borrowed' = FALSE /\ (In("idle")' => link' = Idle)
    BY <2>1
  <2> QED
    BY <2>1, <2>2, <2>3, <2>4 DEF CoffrTypes
<1>8. CASE (\E c \in Calls : PlainWrite(c)) \/ Outer \/ ReleaseAny \/ UNCHANGED allVars
  <2>1. link' = link /\ UNCHANGED <<borrowed, idmap, machine, loaded>> /\ Keys' = Keys
    BY <1>8 DEF PlainWrite, Outer, ReleaseAny, allVars, linkerVars, cacheVars, Keys
  <2>2. DOMAIN mem' \subseteq DOMAIN mem /\ DOMAIN stubs' \subseteq DOMAIN stubs
    BY <1>8, ClearDomain DEF PlainWrite, Outer, ReleaseAny, allVars, linkerVars
  <2>3. (NotLinking' <=> NotLinking) /\ (In("idle")' <=> In("idle")) /\ (InSections' <=> InSections)
    BY <2>1 DEF NotLinking, In, InSections
  <2>4. DOMAIN loaded' \subseteq 1 .. progs'
    BY <1>0, <2>1 DEF CoffrTypes
  <2>5. machine' \in Machines /\ (In("idle")' => link' = Idle)
    BY <2>1, <2>3 DEF CoffrTypes
  <2>6. ~NotLinking' => /\ link'.base \in Nat /\ link'.used \in Nat
                        /\ InSections' => link'.sec \in Tracked(link'.obj)
    BY <2>1, <2>3 DEF CoffrTypes
  <2>7. borrowed' => Keys' \subseteq Tracked(link'.obj)
    BY <2>1 DEF CoffrTypes
  <2> QED
    BY <2>1, <2>2, <2>4, <2>5, <2>6, <2>7 DEF CoffrTypes
<1> QED
  BY <1>1, <1>2, <1>3, <1>4, <1>5, <1>6, <1>7, <1>8 DEF CoffrNext

LEMMA CoffrTypesInit == CoffrInit => CoffrTypes
<1> SUFFICES ASSUME CoffrInit PROVE CoffrTypes
  OBVIOUS
<1>1. link = Idle /\ machine \in Machines /\ ~borrowed
  BY DEF CoffrInit, CacheInit
<1>2. DOMAIN mem = {} /\ DOMAIN stubs = {} /\ DOMAIN loaded = {}
  BY DEF CoffrInit
<1>3. NotLinking
  BY <1>1 DEF NotLinking, In, Idle
<1> QED
  BY <1>1, <1>2, <1>3 DEF CoffrTypes

\* Types, and with them: the cache is borrowed exactly while a link or its
\* iterator exists, it holds tracked sections only, and no field or
\* trampoline lies outside the slab.
THEOREM CoffrTypesHold == CoffrSpec => []CoffrTypeOK
<1>1. CoffrInv /\ CoffrTypes /\ [CoffrNext]_allVars => CoffrTypes'
  BY CoffrTypesNext DEF CoffrInv, SlabInv
<1>2. CoffrInv /\ CoffrTypes => CoffrTypeOK
  <2> SUFFICES ASSUME CoffrInv, CoffrTypes PROVE CoffrTypeOK
    OBVIOUS
  <2>1. borrowed <=> link # Idle
    BY DEF CoffrInv, CacheInv, CoffrTypes, In, Idle
  <2>2. ~NotLinking => InTx
    BY DEF CoffrInv, LayoutOK
  <2> QED
    BY <2>1, <2>2 DEF CoffrInv, SlabInv, CountInv, CoffrTypes, CoffrTypeOK
<1> QED
  BY <1>1, <1>2, CoffrTypesInit, CoffrInvariant, PTL DEF CoffrSpec

-----------------------------------------------------------------------------
(* The cache's capacities. *)

LEMMA CapsNext ==
  ASSUME TypeOK, LinkOK, CacheInv, CapsOK, [CoffrNext]_allVars
  PROVE  CapsOK'
<1>1. ASSUME NEW obj \in Objects, NEW calls \in Reserves, LinkStart(obj, calls)
      PROVE  CapsOK'
  BY <1>1, CapsCreate DEF LinkStart
<1>2. CASE TrackPool
  <2>1. PICK view \in SectionView : Insert(link.sec, view) /\ link.sec \in Nat
    BY <1>2, PoolInserts
  <2> QED
    BY <2>1, CapsInsert DEF CacheInv, CacheSorted
<1>3. CASE SymbolsEnd \/ LinkFail
  BY <1>3, CapsClose DEF SymbolsEnd, LinkFail
<1>4. CASE \/ TrackData \/ TrackEnd \/ RelocateNone \/ RelocateDirect \/ RelocateViaStub
           \/ LinkCommit \/ (\E c \in Calls : PlainWrite(c)) \/ Outer \/ ReleaseAny
           \/ UNCHANGED allVars
  <2>1. UNCHANGED cacheVars
    BY <1>4 DEF TrackData, TrackEnd, RelocateNone, RelocateDirect, RelocateViaStub,
                LinkCommit, PlainWrite, Outer, ReleaseAny, allVars
  <2> QED
    BY <2>1, CapsStay
<1> QED
  BY <1>1, <1>2, <1>3, <1>4 DEF CoffrNext

\* reserve, whatever links came before: the sections announced go in without
\* another allocation, both vectors stay alike, and what an earlier, larger
\* link left is given back beyond the threshold.
THEOREM ReserveKept == CoffrSpec => []ReserveHolds
<1>1. CoffrInit => CapsOK
  BY CapsInit DEF CoffrInit
<1>2. CoffrInv /\ CapsOK /\ [CoffrNext]_allVars => CapsOK'
  BY CapsNext DEF CoffrInv, SlabInv, CountInv
<1> QED
  BY <1>1, <1>2, CapsSuffice, CoffrInvariant, PTL DEF CoffrSpec

-----------------------------------------------------------------------------
(* Flattening.  Flattens(f, gs, n): f[i] is the first i sequences of gs in  *)
(* one.                                                                     *)

Flattens(f, gs, n, D) ==
  /\ f \in [0 .. n -> Seq(D)]
  /\ f[0] = <<>>
  /\ \A i \in 1 .. n : f[i] = f[i - 1] \o gs[i]

LEMMA FlattensExists ==
  ASSUME NEW D, NEW gs \in Seq(Seq(D))
  PROVE  \E f : Flattens(f, gs, Len(gs), D)
<1> DEFINE n == Len(gs)
           T == [p \in (1 .. n) \X Seq(D) |-> p[2] \o gs[p[1]]]
<1>1. n \in Nat /\ \A i \in 1 .. n : gs[i] \in Seq(D)
  OBVIOUS
<1>2. \A p \in (1 .. n) \X Seq(D) : p[2] \o gs[p[1]] \in Seq(D)
  BY <1>1
<1>3. T \in [(1 .. n) \X Seq(D) -> Seq(D)]
  BY <1>2
<1>4. \A i \in 1 .. n, s \in Seq(D) : T[<<i, s>>] = s \o gs[i]
  OBVIOUS
<1>5. <<>> \in Seq(D)
  OBVIOUS
<1> HIDE DEF T, n
<1>6. PICK f : Recurs(f, n, Seq(D), <<>>, T)
  BY <1>1, <1>3, <1>5, Recursion DEF Steps
<1>7. \A i \in 1 .. n : f[i - 1] \in Seq(D)
  BY <1>1, <1>6 DEF Recurs
<1>8. \A i \in 1 .. n : f[i] = f[i - 1] \o gs[i]
  BY <1>4, <1>6, <1>7 DEF Recurs
<1> QED
  BY <1>6, <1>8 DEF Flattens, Recurs, n

\* The recursive function in FlattenSeq is the one.
LEMMA FlattenIs ==
  ASSUME NEW D, NEW gs \in Seq(Seq(D)), NEW f, Flattens(f, gs, Len(gs), D)
  PROVE  FlattenSeq(gs) = f[Len(gs)]
<1> DEFINE n == Len(gs)
           G(h) == [i \in 1 .. n |-> IF i = 1 THEN gs[i] ELSE h[i - 1] \o gs[i]]
           c == CHOOSE h : h = G(h)
<1>1. n \in Nat /\ \A i \in 1 .. n : gs[i] \in Seq(D)
  OBVIOUS
<1>2. CASE n = 0
  <2>1. gs = <<>>
    BY <1>2
  <2> QED
    BY <1>2, <2>1 DEF FlattenSeq, Flattens
<1>3. CASE n # 0
  <2>1. FlattenSeq(gs) = c[n]
    BY <1>3, Zenon DEF FlattenSeq
  <2>2. \A i \in 1 .. n : f[i] = IF i = 1 THEN gs[i] ELSE f[i - 1] \o gs[i]
    <3>1. ASSUME NEW i \in 1 .. n
          PROVE  f[i] = IF i = 1 THEN gs[i] ELSE f[i - 1] \o gs[i]
      <4>1. f[i] = f[i - 1] \o gs[i] /\ f[0] = <<>>
        BY DEF Flattens
      <4>2. gs[i] \in Seq(D)
        BY <1>1
      <4>3. <<>> \o gs[i] = gs[i]
        BY <4>2
      <4>4. CASE i = 1
        <5>1. i - 1 = 0
          BY <4>4
        <5> QED
          BY <4>1, <4>3, <4>4, <5>1
      <4>5. CASE i # 1
        BY <4>1, <4>5
      <4> QED
        BY <4>4, <4>5
    <3> QED
      BY <3>1
  <2> DEFINE e == [i \in 1 .. n |-> f[i]]
  <2>3. \A i \in 1 .. n : i # 1 => i - 1 \in 1 .. n
    BY <1>1
  <2>4. e = G(e)
    <3>1. \A i \in 1 .. n : i # 1 => e[i - 1] = f[i - 1]
      BY <2>3
    <3> HIDE DEF e
    <3>2. \A i \in 1 .. n : f[i] = IF i = 1 THEN gs[i] ELSE e[i - 1] \o gs[i]
      BY <2>2, <3>1
    <3> QED
      BY <3>2 DEF e
  <2>5. c = G(c)
    <3> HIDE DEF e
    <3> QED
      BY <2>4, Zenon
  <2> HIDE DEF c, e
  <2> DEFINE S == {i \in 0 .. n : i = 0 \/ c[i] = f[i]}
  <2>6. 0 \in S
    BY <1>1
  <2>7. ASSUME NEW i \in 0 .. n - 1, i \in S
        PROVE  i + 1 \in S
    <3>1. i + 1 \in 1 .. n /\ (i + 1) - 1 = i /\ i + 1 \in 0 .. n
      BY <1>1
    <3>2. c[i + 1] = IF i + 1 = 1 THEN gs[i + 1] ELSE c[i] \o gs[i + 1]
      BY <2>5, <3>1
    <3>3. f[i + 1] = IF i + 1 = 1 THEN gs[i + 1] ELSE f[i] \o gs[i + 1]
      BY <2>2, <3>1
    <3>4. i + 1 = 1 <=> i = 0
      OBVIOUS
    <3> QED
      BY <2>7, <3>1, <3>2, <3>3, <3>4
  <2> HIDE DEF S
  <2>8. \A i \in 0 .. n : i \in S
    BY <1>1, <2>6, <2>7, InductionUpTo
  <2>9. n \in S
    BY <1>1, <2>8
  <2> QED
    BY <1>3, <2>1, <2>9 DEF S
<1> QED
  BY <1>2, <1>3

\* Flattening one sequence more appends it.
LEMMA FlattenNext ==
  ASSUME NEW D, NEW gs \in Seq(Seq(D))
  PROVE  /\ FlattenSeq(SubSeq(gs, 1, 0)) = <<>>
         /\ SubSeq(gs, 1, Len(gs)) = gs
         /\ \A i \in 0 .. Len(gs) : FlattenSeq(SubSeq(gs, 1, i)) \in Seq(D)
         /\ \A i \in 1 .. Len(gs) :
              FlattenSeq(SubSeq(gs, 1, i)) = FlattenSeq(SubSeq(gs, 1, i - 1)) \o gs[i]
<1>1. PICK n \in Nat : n = Len(gs)
  OBVIOUS
<1>2. PICK f : Flattens(f, gs, n, D)
  BY <1>1, FlattensExists
<1>3. ASSUME NEW i \in 0 .. n
      PROVE  FlattenSeq(SubSeq(gs, 1, i)) = f[i]
  <2>1. PICK hs : hs = SubSeq(gs, 1, i)
    OBVIOUS
  <2>2. hs \in Seq(Seq(D)) /\ Len(hs) = i /\ \A k \in 1 .. i : hs[k] = gs[k]
    BY <1>1, <2>1
  <2> DEFINE h == [k \in 0 .. i |-> f[k]]
  <2>3. Flattens(h, hs, i, D)
    <3>1. h \in [0 .. i -> Seq(D)] /\ h[0] = <<>>
      BY <1>1, <1>2 DEF Flattens
    <3>2. ASSUME NEW k \in 1 .. i
          PROVE  h[k] = h[k - 1] \o hs[k]
      <4>1. k \in 1 .. n /\ k \in 0 .. i /\ k - 1 \in 0 .. i
        BY <1>1
      <4>2. f[k] = f[k - 1] \o gs[k]
        BY <1>2, <4>1 DEF Flattens
      <4> QED
        BY <2>2, <4>1, <4>2
    <3> HIDE DEF h
    <3> QED
      BY <3>1, <3>2 DEF Flattens
  <2>4. h[i] = f[i]
    BY <1>1
  <2> HIDE DEF h
  <2>5. FlattenSeq(hs) = h[i]
    BY <2>2, <2>3, FlattenIs
  <2> QED
    BY <2>1, <2>4, <2>5
<1>4. \A i \in 0 .. n : f[i] \in Seq(D)
  BY <1>2 DEF Flattens
<1>5. f[0] = <<>> /\ 0 \in 0 .. n
  BY <1>1, <1>2 DEF Flattens
<1>6. SubSeq(gs, 1, n) = gs
  BY <1>1
<1>7. ASSUME NEW i \in 1 .. n
      PROVE  FlattenSeq(SubSeq(gs, 1, i)) = FlattenSeq(SubSeq(gs, 1, i - 1)) \o gs[i]
  <2>1. i \in 0 .. n /\ i - 1 \in 0 .. n
    BY <1>1
  <2>2. f[i] = f[i - 1] \o gs[i]
    BY <1>2 DEF Flattens
  <2> QED
    BY <1>3, <2>1, <2>2
<1> QED
  BY <1>1, <1>3, <1>4, <1>5, <1>6, <1>7

-----------------------------------------------------------------------------
(* The estimate.  sizecalc has a group of items for each section, the       *)
(* section and then its stubs: where those of the first i sections end, and *)
(* where the section of the ith does, laid out from address x.              *)

EstAlign(sect) == Max({sect.align, StubSize.align})

Group(sect) ==
  <<[align |-> EstAlign(sect), size |-> sect.len]>>
    \o [k \in 1 .. Cardinality(Stubbed(sect)) |-> StubSize]

Groups(obj) == [i \in DOMAIN obj.sections |-> Group(obj.sections[i])]

GroupsEnd(x, obj, i) == LayoutEnd(x, FlattenSeq(SubSeq(Groups(obj), 1, i)))

DataEnd(x, sect) == AlignUp(x, EstAlign(sect)) + sect.len

\* The estimate aligns a section at least as strictly as the linker aligns it
\* and its pool.
LEMMA EstAlignFacts ==
  ASSUME EvenLayout, machine \in {"x64", "x86"},
         NEW obj \in Objects, NEW i \in DOMAIN obj.sections
  PROVE  LET a == EstAlign(obj.sections[i])
         IN  a \in Nat \ {0} /\ a % 16 = 0 /\ a % obj.sections[i].align = 0
<1>1. PICK b : b = obj.sections[i].align
  OBVIOUS
<1>2. b \in {1, 2, 4, 8, 16, 32, 64, 128, 256, 512, 1024, 2048, 4096, 8192}
  BY <1>1 DEF EvenLayout
<1>3. PICK s \in {16, 64} : s = StubSize.align
  BY DEF StubSize
<1>4. Max({b, s}) = IF b <= s THEN s ELSE b
  <2>1. b \in Int /\ s \in Int
    BY <1>2
  <2>2. PICK m : m = Max({b, s})
    OBVIOUS
  <2>3. m \in {b, s} /\ b <= m /\ s <= m
    BY <2>1, <2>2, MaxOfTwo
  <2> QED
    BY <2>1, <2>2, <2>3
<1>5. PICK a : a = IF b <= s THEN s ELSE b
  OBVIOUS
<1>6. a \in Nat \ {0} /\ a % 16 = 0 /\ a % b = 0
  BY <1>2, <1>5
<1> QED
  BY <1>1, <1>3, <1>4, <1>5, <1>6 DEF EstAlign

LEMMA StubbedFinite ==
  ASSUME NEW obj \in Objects, NEW i \in DOMAIN obj.sections
  PROVE  /\ IsFiniteSet(Stubbed(obj.sections[i]))
         /\ Cardinality(Stubbed(obj.sections[i])) \in Nat
<1>1. PICK sect : sect = obj.sections[i]
  OBVIOUS
<1>2. Len(sect.relocs) \in Nat /\ DOMAIN sect.relocs = 1 .. Len(sect.relocs)
  BY <1>1, RelocFacts
<1>3. IsFiniteSet(DOMAIN sect.relocs)
  BY <1>2, FS_Interval
<1>4. Stubbed(sect) \subseteq DOMAIN sect.relocs
  BY DEF Stubbed
<1> QED
  BY <1>1, <1>3, <1>4, FS_Subset, FS_CardinalityType

\* The items of one section.
LEMMA GroupFacts ==
  ASSUME EvenLayout, machine \in {"x64", "x86"},
         NEW obj \in Objects, NEW i \in DOMAIN obj.sections, NEW x \in Nat
  PROVE  LET sect == obj.sections[i]
             n    == Cardinality(Stubbed(sect))
             d    == DataEnd(x, sect)
         IN  /\ Group(sect) \in Seq(Item)
             /\ LayoutEnd(x, Group(sect)) \in Nat
             /\ d \in Nat /\ x <= d /\ d <= LayoutEnd(x, Group(sect))
             /\ n \in Nat
             /\ n > 0 => AlignUp(d, 16) + 16 * n <= LayoutEnd(x, Group(sect))
<1>1. PICK sect, a : sect = obj.sections[i] /\ a = EstAlign(sect)
  OBVIOUS
<1>2. PICK n \in Nat : n = Cardinality(Stubbed(sect))
  BY <1>1, StubbedFinite
<1>3. a \in Nat \ {0} /\ sect.len \in Nat
  BY <1>1, EstAlignFacts, RelocFacts
<1>4. PICK stub \in Item : stub = StubSize /\ stub.align % 16 = 0 /\ stub.size >= 16
  <2>1. CASE machine = "x64"
    <3>1. StubSize = [size |-> 32, align |-> 16]
      BY <2>1 DEF StubSize
    <3>2. PICK stub : stub = [size |-> 32, align |-> 16]
      OBVIOUS
    <3>3. stub \in Item /\ stub.align = 16 /\ stub.size = 32
      BY <3>2 DEF Item
    <3>4. stub.align % 16 = 0 /\ stub.size >= 16
      BY <3>3
    <3> QED
      BY <3>1, <3>2, <3>3, <3>4
  <2>2. CASE machine = "x86"
    <3>1. StubSize = [size |-> 64, align |-> 64]
      BY <2>2 DEF StubSize
    <3>2. PICK stub : stub = [size |-> 64, align |-> 64]
      OBVIOUS
    <3>3. stub \in Item /\ stub.align = 64 /\ stub.size = 64
      BY <3>2 DEF Item
    <3>4. stub.align % 16 = 0 /\ stub.size >= 16
      BY <3>3
    <3> QED
      BY <3>1, <3>2, <3>3, <3>4
  <2> QED
    BY <2>1, <2>2
<1>5. PICK data \in Item : data = [align |-> a, size |-> sect.len]
  BY <1>3 DEF Item
<1>6. PICK s, t : s = <<data>> /\ t = [k \in 1 .. n |-> stub]
  OBVIOUS
<1>7. s \in Seq(Item) /\ t \in Seq(Item) /\ Group(sect) = s \o t
  BY <1>1, <1>2, <1>4, <1>5, <1>6 DEF Group
<1>8. PICK d \in Nat : d = DataEnd(x, sect) /\ x <= d /\ d = LayoutEnd(x, s)
  <2>1. AlignUp(x, a) \in Nat /\ x <= AlignUp(x, a)
    BY <1>3, AlignUpFacts
  <2>2. /\ s # <<>> /\ Head(s) = data /\ Tail(s) = <<>>
        /\ data.align = a /\ data.size = sect.len
    BY <1>5, <1>6
  <2>3. DataEnd(x, sect) = AlignUp(x, a) + sect.len
    BY <1>1 DEF DataEnd
  <2>4. PICK d \in Nat : d = AlignUp(x, a) + sect.len /\ x <= d
    BY <1>3, <2>1
  <2>5. LET next == AlignUp(x, Head(s).align) + Head(s).size
        IN  next \in Nat /\ LayoutEnd(x, s) = LayoutEnd(next, Tail(s))
    BY <1>7, <2>2, LayoutOfTail
  <2>6. LayoutEnd(x, s) = LayoutEnd(d, <<>>)
    BY <2>2, <2>4, <2>5
  <2>7. LayoutEnd(x, s) = d
    BY <2>6, LayoutOfNone
  <2> QED
    BY <2>3, <2>4, <2>7
<1>9. LayoutEnd(x, Group(sect)) = LayoutEnd(d, t)
  BY <1>7, <1>8, LayoutOfConcat
<1>10. LayoutEnd(d, t) \in Nat /\ d <= LayoutEnd(d, t)
  BY <1>7, <1>8, LayoutAbove
<1>11. n > 0 => AlignUp(d, 16) + 16 * n <= LayoutEnd(d, t)
  <2> SUFFICES ASSUME n > 0 PROVE AlignUp(d, 16) + 16 * n <= LayoutEnd(d, t)
    OBVIOUS
  <2>1. n \in Nat \ {0} /\ 16 \in Nat \ {0}
    OBVIOUS
  <2> QED
    BY <1>4, <1>6, <1>8, <2>1, LayoutOfEqual
<1>12. Group(sect) \in Seq(Item)
  BY <1>7
<1> QED
  BY <1>1, <1>2, <1>8, <1>9, <1>10, <1>11, <1>12

\* One section after another.
LEMMA GroupsFacts ==
  ASSUME EvenLayout, machine \in {"x64", "x86"}, NEW obj \in Objects, NEW x \in Nat
  PROVE  LET n == Len(obj.sections)
         IN  /\ n \in Nat /\ DOMAIN obj.sections = 1 .. n
             /\ \A i \in 0 .. n : GroupsEnd(x, obj, i) \in Nat
             /\ GroupsEnd(x, obj, 0) = x
             /\ \A i \in 1 .. n : GroupsEnd(x, obj, i)
                                    = LayoutEnd(GroupsEnd(x, obj, i - 1), Group(obj.sections[i]))
             /\ GroupsEnd(x, obj, n) = LayoutEnd(x, Sizecalc(obj))
<1>1. PICK n \in Nat : n = Len(obj.sections) /\ DOMAIN obj.sections = 1 .. n
  <2>1. obj.sections \in Seq(Range(obj.sections))
    BY CoffrAssumption
  <2> QED
    BY <2>1
<1>2. PICK gs : gs = Groups(obj)
  OBVIOUS
<1>3. \A i \in 1 .. n : gs[i] = Group(obj.sections[i]) /\ gs[i] \in Seq(Item)
  <2>1. \A i \in 1 .. n : gs[i] = Group(obj.sections[i])
    BY <1>1, <1>2 DEF Groups
  <2>2. \A i \in 1 .. n : Group(obj.sections[i]) \in Seq(Item)
    <3>1. 0 \in Nat
      OBVIOUS
    <3> QED
      BY <1>1, <3>1, GroupFacts
  <2> QED
    BY <2>1, <2>2
<1>4. gs \in Seq(Seq(Item)) /\ Len(gs) = n
  <2>1. gs = [i \in 1 .. n |-> gs[i]]
    BY <1>1, <1>2 DEF Groups
  <2> QED
    BY <1>3, <2>1
<1>5. FlattenSeq(gs) = Sizecalc(obj)
  BY <1>2 DEF Sizecalc, Groups, Group, EstAlign
<1>6. \A i : GroupsEnd(x, obj, i) = LayoutEnd(x, FlattenSeq(SubSeq(gs, 1, i)))
  BY <1>2 DEF GroupsEnd
<1>7. /\ FlattenSeq(SubSeq(gs, 1, 0)) = <<>>
      /\ SubSeq(gs, 1, n) = gs
      /\ \A i \in 0 .. n : FlattenSeq(SubSeq(gs, 1, i)) \in Seq(Item)
      /\ \A i \in 1 .. n :
           FlattenSeq(SubSeq(gs, 1, i)) = FlattenSeq(SubSeq(gs, 1, i - 1)) \o gs[i]
  BY <1>4, FlattenNext
<1>8. \A i \in 0 .. n : GroupsEnd(x, obj, i) \in Nat
  BY <1>6, <1>7, LayoutAbove
<1>9. ASSUME NEW i \in 1 .. n
      PROVE  GroupsEnd(x, obj, i) = LayoutEnd(GroupsEnd(x, obj, i - 1), Group(obj.sections[i]))
  <2>1. i - 1 \in 0 .. n
    BY <1>1
  <2>2. PICK s \in Seq(Item) : s = FlattenSeq(SubSeq(gs, 1, i - 1))
    BY <1>7, <2>1
  <2>3. FlattenSeq(SubSeq(gs, 1, i)) = s \o gs[i]
    BY <1>7, <2>2
  <2>4. LayoutEnd(x, s \o gs[i]) = LayoutEnd(LayoutEnd(x, s), gs[i])
    BY <1>3, LayoutOfConcat
  <2> QED
    BY <1>3, <1>6, <2>2, <2>3, <2>4
<1>10. GroupsEnd(x, obj, 0) = x
  BY <1>6, <1>7, LayoutOfNone
<1>11. GroupsEnd(x, obj, n) = LayoutEnd(x, Sizecalc(obj))
  BY <1>5, <1>6, <1>7
<1> QED
  BY <1>1, <1>8, <1>9, <1>10, <1>11

\* Later sections do not end earlier.
LEMMA GroupsUp ==
  ASSUME EvenLayout, machine \in {"x64", "x86"}, NEW obj \in Objects, NEW x \in Nat,
         NEW i \in 0 .. Len(obj.sections), NEW j \in 0 .. Len(obj.sections), i <= j
  PROVE  GroupsEnd(x, obj, i) <= GroupsEnd(x, obj, j)
<1>1. PICK n \in Nat, m \in Nat : n = Len(obj.sections) /\ m = j - i
  BY GroupsFacts
<1> DEFINE S == {k \in 0 .. m : GroupsEnd(x, obj, i) <= GroupsEnd(x, obj, i + k)}
<1>2. \A k \in 0 .. n : GroupsEnd(x, obj, k) \in Nat
  BY <1>1, GroupsFacts
<1>3. 0 \in S
  <2>1. i + 0 = i
    BY <1>1
  <2> QED
    BY <1>1, <1>2, <2>1
<1>4. ASSUME NEW k \in 0 .. m - 1, k \in S
      PROVE  k + 1 \in S
  <2> DEFINE l == i + k + 1
  <2>0. i \in Nat /\ j \in Nat /\ k \in Nat /\ k <= m - 1 /\ j <= n
    BY <1>1
  <2>1. l \in 1 .. n /\ l - 1 = i + k /\ l - 1 \in 0 .. n /\ l \in 0 .. n /\ l = i + (k + 1)
    BY <1>1, <2>0
  <2> HIDE DEF l
  <2>2. k + 1 \in 0 .. m /\ l \in DOMAIN obj.sections
    BY <1>1, <2>0, <2>1, GroupsFacts
  <2>3. PICK y \in Nat : y = GroupsEnd(x, obj, l - 1)
    BY <1>2, <2>1
  <2>4. /\ GroupsEnd(x, obj, l) = LayoutEnd(y, Group(obj.sections[l]))
        /\ Group(obj.sections[l]) \in Seq(Item)
    BY <1>1, <2>1, <2>2, <2>3, GroupsFacts, GroupFacts
  <2>5. y <= GroupsEnd(x, obj, l)
    BY <2>4, LayoutAbove
  <2>6. GroupsEnd(x, obj, i) <= y
    BY <1>4, <2>1, <2>2, <2>3
  <2>7. PICK v \in Nat : v = GroupsEnd(x, obj, i)
    BY <1>1, <1>2
  <2>8. PICK w \in Nat : w = GroupsEnd(x, obj, l)
    BY <1>2, <2>1
  <2>9. v <= w
    BY <2>5, <2>6, <2>7, <2>8
  <2> QED
    BY <2>1, <2>2, <2>7, <2>8, <2>9
<1> HIDE DEF S
<1>5. \A k \in 0 .. m : k \in S
  BY <1>3, <1>4, InductionUpTo
<1>6. m \in S /\ i + m = j
  BY <1>1, <1>5
<1> QED
  BY <1>6 DEF S

\* Where the linker puts a section that starts no later than the estimate's
\* aligned to 16 it ends no later either.
LEMMA DataFits ==
  ASSUME EvenLayout, machine \in {"x64", "x86"},
         NEW obj \in Objects, NEW i \in DOMAIN obj.sections,
         NEW e \in Nat, NEW c \in Nat, c <= AlignUp(e, 16)
  PROVE  AlignUp(c, obj.sections[i].align) + obj.sections[i].len
           <= DataEnd(e, obj.sections[i])
<1>1. PICK sect : sect = obj.sections[i]
  OBVIOUS
<1>2. PICK a : a = EstAlign(sect)
  OBVIOUS
<1>3. a \in Nat \ {0} /\ a % 16 = 0 /\ a % sect.align = 0
  BY <1>1, <1>2, EstAlignFacts
<1>4. PICK b \in Nat \ {0} : b = sect.align
  BY <1>1, CoffrAssumption
<1>5. PICK len \in Nat : len = sect.len
  BY <1>1, RelocFacts
<1>6. PICK y \in Nat : y = AlignUp(e, a) /\ e <= y /\ y % a = 0
  BY <1>3, AlignUpFacts
<1>7. y % 16 = 0 /\ y % b = 0
  BY <1>3, <1>4, <1>6, MultipleOfMultiple
<1>8. AlignUp(e, 16) <= y
  BY <1>6, <1>7, AlignUpLeast
<1>9. c <= y
  <2>1. AlignUp(e, 16) \in Nat
    BY AlignUpFacts
  <2> QED
    BY <1>8, <2>1
<1>10. AlignUp(c, b) \in Nat /\ AlignUp(c, b) <= y
  BY <1>4, <1>6, <1>7, <1>9, AlignUpLeast, AlignUpFacts
<1>11. DataEnd(e, sect) = y + len
  BY <1>2, <1>5, <1>6 DEF DataEnd
<1>12. AlignUp(c, b) + len <= y + len
  BY <1>5, <1>6, <1>10
<1> QED
  BY <1>1, <1>4, <1>5, <1>11, <1>12

\* ... and so does its pool, if there are trampolines in it.
LEMMA PoolFits ==
  ASSUME EvenLayout, machine \in {"x64", "x86"},
         NEW obj \in Objects, NEW i \in DOMAIN obj.sections,
         NEW e \in Nat, NEW c \in Nat, c <= DataEnd(e, obj.sections[i]),
         NEW n \in Nat, n <= Cardinality(Stubbed(obj.sections[i])),
         NEW u \in Nat, u = LayoutEnd(e, Group(obj.sections[i]))
  PROVE  /\ AlignUp(c, 16) \in Nat /\ c <= u
         /\ n > 0 => AlignUp(c, 16) + 16 * n <= u
<1>1. PICK m \in Nat : m = Cardinality(Stubbed(obj.sections[i]))
  BY StubbedFinite
<1>2. PICK d \in Nat : d = DataEnd(e, obj.sections[i]) /\ d <= u
  BY GroupFacts
<1>3. m > 0 => AlignUp(d, 16) + 16 * m <= u
  BY <1>1, <1>2, GroupFacts
<1>4. c <= d
  BY <1>2
<1>5. /\ AlignUp(c, 16) \in Nat /\ AlignUp(d, 16) \in Nat
      /\ AlignUp(c, 16) <= AlignUp(d, 16)
  BY <1>4, AlignUpFacts, AlignUpMonotone
<1>6. n > 0 => AlignUp(c, 16) + 16 * n <= u
  BY <1>1, <1>3, <1>5
<1> QED
  BY <1>2, <1>4, <1>5, <1>6

\* count_trampolines counts relocations that sizecalc has counted.
LEMMA CountedAreStubbed ==
  ASSUME LinkOK, ~NotLinking, InSections
  PROVE  Count(Section) \in Nat /\ Count(Section) <= Cardinality(Stubbed(Section))
<1> DEFINE S == {k \in DOMAIN Section.relocs : NeedsStub(Section.relocs[k])}
<1>1. Count(Section) \in Nat
  BY PoolRequest
<1>2. \A k \in S : k \in Stubbed(Section)
  BY DEF NeedsStub, Stubbed
<1>3. IsFiniteSet(Stubbed(Section))
  BY SectionFacts, StubbedFinite DEF Section
<1> HIDE DEF S
<1>4. S \in SUBSET Stubbed(Section)
  BY <1>2
<1>5. Cardinality(S) <= Cardinality(Stubbed(Section))
  BY <1>3, <1>4, FS_Subset
<1> QED
  BY <1>1, <1>5 DEF Count, S

-----------------------------------------------------------------------------
(* The linker is never ahead of the estimate by more than the padding that *)
(* an empty pool takes.  x: where the link began; sec: the section it is at. *)

EstimateAt(x, obj, sec) ==
  /\ link.fits => GroupsEnd(x, obj, Len(obj.sections)) <= Base + Size
  /\ In("track") => Base + cursor <= AlignUp(GroupsEnd(x, obj, sec - 1), StubLen)
  /\ In("count") => Base + cursor <= DataEnd(GroupsEnd(x, obj, sec - 1), obj.sections[sec])

EstimateOK ==
  (~NotLinking /\ machine # "arm64") =>
    \A x, obj, sec :
      (x = Base + Top.cursor /\ obj = link.obj /\ sec = link.sec) => EstimateAt(x, obj, sec)

\* The estimate depends on the architecture only, which stays.
LEMMA EstimateKept ==
  ASSUME machine' = machine, NEW x, NEW obj, NEW i, NEW sect
  PROVE  /\ GroupsEnd(x, obj, i)' = GroupsEnd(x, obj, i)
         /\ DataEnd(x, sect)' = DataEnd(x, sect)
         /\ Group(sect)' = Group(sect)
<1>1. StubSize' = StubSize
  BY DEF StubSize
<1>2. \A s : EstAlign(s)' = EstAlign(s)
  BY <1>1 DEF EstAlign
<1>3. \A s : Group(s)' = Group(s)
  BY <1>1, <1>2 DEF Group
<1>4. Groups(obj)' = Groups(obj)
  BY <1>3 DEF Groups
<1> QED
  BY <1>2, <1>3, <1>4 DEF GroupsEnd, DataEnd

\* What every link has in hand: where it began, and the estimate up to its
\* section.
LEMMA LinkInHand ==
  ASSUME EvenLayout, TypeOK, LinkOK, LayoutOK, CoffrTypes, ~NotLinking, machine # "arm64"
  PROVE  /\ machine \in {"x64", "x86"} /\ InTx /\ link.obj \in Objects
         /\ cursor \in Nat /\ Base \in Nat /\ Size \in Nat
         /\ Base + Top.cursor \in Nat
<1>1. machine \in {"x64", "x86"}
  BY CoffrAssumption DEF CoffrTypes
<1>2. InTx /\ link.obj \in Objects /\ cursor \in Nat /\ Base \in Nat /\ Size \in Nat
  BY SlabAssumption DEF LayoutOK, LinkOK, TypeOK
<1>3. Top \in Tx
  BY <1>2, TopFacts
<1>4. Top.cursor \in Nat
  BY <1>3 DEF Tx
<1> QED
  BY <1>1, <1>2, <1>4

LEMMA EstimateStart ==
  ASSUME EvenLayout, TypeOK, machine \in {"x64", "x86"}, NEW obj \in Objects, NEW calls,
         LinkStart(obj, calls)
  PROVE  EstimateOK'
<1>1. /\ cursor \in Nat /\ Base \in Nat /\ Size \in Nat
      /\ txs \in Seq(Tx) /\ machine' = machine /\ cursor' = cursor
  BY SlabAssumption DEF TypeOK, LinkStart, Begin
<1>2. Top'.cursor = cursor
  <2>1. txs' = Append(txs, [id |-> progs + 1, cursor |-> cursor,
                            total |-> obj.total, writes |-> 0])
    BY DEF LinkStart, Begin
  <2>2. Top'.cursor = txs'[Len(txs')].cursor
    BY DEF Top
  <2> QED
    BY <1>1, <2>1, <2>2
<1>n. PICK n \in Nat : n = Len(obj.sections)
  BY <1>1, GroupsFacts
<1>3. PICK sec \in 1 .. n + 1 : n = Len(obj.sections) /\ sec = NextTracked(obj, 0)
  BY <1>n, NextTrackedUp
<1>4. /\ link'.phase \in {"panic", "track"} /\ link'.obj = obj /\ link'.sec = sec
      /\ link'.fits = UnderSizeAdv(Base, Size, cursor, Sizecalc(obj))
  BY <1>3 DEF LinkStart
<1>5. PICK x \in Nat : x = Base + cursor
  BY <1>1
<1>6. \A i \in 0 .. n : GroupsEnd(x, obj, i) \in Nat
  BY <1>3, GroupsFacts
<1>7. link'.fits => GroupsEnd(x, obj, n) <= Base + Size
  <2>1. GroupsEnd(x, obj, n) = LayoutEnd(x, Sizecalc(obj))
    BY <1>3, GroupsFacts
  <2>3. GroupsEnd(x, obj, n) \in Nat
    BY <1>6
  <2>2. link'.fits => LayoutEnd(x, Sizecalc(obj)) - x <= Size - cursor
    BY <1>4, <1>5 DEF UnderSizeAdv
  <2> QED
    BY <1>1, <1>5, <2>1, <2>2, <2>3
<1>8. x <= AlignUp(GroupsEnd(x, obj, sec - 1), 16)
  <2>1. 0 \in 0 .. n /\ sec - 1 \in 0 .. n /\ 0 <= sec - 1
    BY <1>3
  <2>2. GroupsEnd(x, obj, 0) = x
    BY GroupsFacts
  <2>3. GroupsEnd(x, obj, 0) <= GroupsEnd(x, obj, sec - 1)
    BY <1>3, <2>1, GroupsUp
  <2>4. PICK y \in Nat : y = GroupsEnd(x, obj, sec - 1) /\ x <= y
    BY <1>6, <2>1, <2>2, <2>3
  <2> QED
    BY <2>4, AlignUpFacts
<1>9. EstimateAt(x, obj, sec)'
  <2>1. /\ GroupsEnd(x, obj, n)' = GroupsEnd(x, obj, n)
        /\ GroupsEnd(x, obj, sec - 1)' = GroupsEnd(x, obj, sec - 1)
    BY <1>1, EstimateKept
  <2>2. Base + cursor' = x /\ ~In("count")'
    BY <1>1, <1>4, <1>5 DEF In
  <2> QED
    BY <1>3, <1>7, <1>8, <2>1, <2>2 DEF EstimateAt, StubLen
<1>10. Base + Top'.cursor = x
  BY <1>2, <1>5
<1> QED
  BY <1>4, <1>9, <1>10 DEF EstimateOK

LEMMA EstimateData ==
  ASSUME EvenLayout, CountInv, LinkOK, LayoutOK, CoffrTypes, EstimateOK, TrackData
  PROVE  EstimateOK'
<1> SUFFICES ASSUME machine # "arm64" PROVE EstimateOK'
  BY DEF EstimateOK, TrackData
<1>1. ~NotLinking /\ In("track") /\ InSections
  BY DEF TrackData, NotLinking, In
<1>2. /\ TypeOK /\ machine \in {"x64", "x86"} /\ link.obj \in Objects
      /\ cursor \in Nat /\ Base \in Nat /\ Base + Top.cursor \in Nat
  BY <1>1, LinkInHand DEF CountInv
<1>3. PICK x \in Nat, obj \in Objects : x = Base + Top.cursor /\ obj = link.obj
  BY <1>2
<1>4. PICK sec \in DOMAIN obj.sections : sec = link.sec /\ Section = obj.sections[sec]
  BY <1>1, <1>3, SectionFacts DEF Section
<1>5. EstimateAt(x, obj, sec)
  BY <1>1, <1>2, <1>3, <1>4 DEF EstimateOK
<1>6. PICK e \in Nat : e = GroupsEnd(x, obj, sec - 1)
  <2>1. sec - 1 \in 0 .. Len(obj.sections)
    BY <1>2, <1>4, GroupsFacts
  <2> QED
    BY <1>2, <2>1, GroupsFacts
<1>7. PICK c \in Nat : c = Base + cursor /\ c <= AlignUp(e, 16)
  BY <1>1, <1>2, <1>5, <1>6 DEF EstimateAt, StubLen
<1>8. AlignUp(c, Section.align) + Section.len <= DataEnd(e, Section)
  BY <1>2, <1>4, <1>7, DataFits
<1>9. Base + cursor' = AlignUp(c, Section.align) + Section.len
  <2>1. cursor' = StartOffset(Base, cursor, DataCall.align) + DataCall.len
    BY DEF TrackData, TxWrite, Place
  <2>2. PICK a \in Nat \ {0}, len \in Nat : a = Section.align /\ len = Section.len
    BY <1>1, SectionFacts
  <2>3. AlignUp(c, a) \in Nat
    BY <1>7, <2>2, AlignUpFacts
  <2>4. cursor' = AlignUp(c, a) - Base + len
    BY <1>7, <2>1, <2>2 DEF StartOffset, DataCall
  <2> QED
    BY <1>2, <2>2, <2>3, <2>4
<1>10. Top'.cursor = Top.cursor
  <2>1. Request(DataCall) /\ TxWrite(DataCall, TRUE) /\ TRUE \in BOOLEAN
    BY <1>1, DataRequest DEF TrackData
  <2> QED
    BY <1>1, <2>1, LinkBlocksStay
<1>11. /\ link'.phase = "count" /\ link'.obj = obj /\ link'.sec = sec
       /\ link'.fits = link.fits /\ machine' = machine
  BY <1>1, <1>3, <1>4 DEF TrackData, LinkOK, LinkFields
<1>12. EstimateAt(x, obj, sec)'
  <2>1. /\ GroupsEnd(x, obj, Len(obj.sections))' = GroupsEnd(x, obj, Len(obj.sections))
        /\ GroupsEnd(x, obj, sec - 1)' = e
        /\ DataEnd(e, obj.sections[sec])' = DataEnd(e, obj.sections[sec])
    BY <1>6, <1>11, EstimateKept
  <2> QED
    BY <1>4, <1>5, <1>8, <1>9, <1>11, <2>1, EstimateKept DEF EstimateAt, In
<1> QED
  BY <1>3, <1>10, <1>11, <1>12 DEF EstimateOK

LEMMA EstimatePool ==
  ASSUME EvenLayout, CountInv, LinkOK, LayoutOK, CoffrTypes, EstimateOK, TrackPool
  PROVE  EstimateOK'
<1> SUFFICES ASSUME machine # "arm64" PROVE EstimateOK'
  BY DEF EstimateOK, TrackPool
<1>1. ~NotLinking /\ In("count") /\ InSections
  BY DEF TrackPool, NotLinking, In, LinkOK
<1>2. /\ TypeOK /\ machine \in {"x64", "x86"} /\ link.obj \in Objects
      /\ cursor \in Nat /\ Base \in Nat /\ Base + Top.cursor \in Nat
  BY <1>1, LinkInHand DEF CountInv
<1>3. PICK x \in Nat, obj \in Objects : x = Base + Top.cursor /\ obj = link.obj
  BY <1>2
<1>4. PICK sec \in DOMAIN obj.sections : sec = link.sec /\ Section = obj.sections[sec]
  BY <1>1, <1>3, SectionFacts DEF Section
<1>5. EstimateAt(x, obj, sec)
  BY <1>1, <1>2, <1>3, <1>4 DEF EstimateOK
<1>6. PICK len \in Nat : len = Len(obj.sections) /\ DOMAIN obj.sections = 1 .. len
  BY <1>2, GroupsFacts
<1>7. \A i \in 0 .. len : GroupsEnd(x, obj, i) \in Nat
  BY <1>2, <1>6, GroupsFacts
<1>8. PICK e \in Nat : e = GroupsEnd(x, obj, sec - 1)
  <2>1. sec - 1 \in 0 .. len
    BY <1>6
  <2> QED
    BY <1>7, <2>1
<1>9. PICK u \in Nat : u = GroupsEnd(x, obj, sec) /\ u = LayoutEnd(e, Group(obj.sections[sec]))
  <2>1. sec \in 0 .. len /\ sec \in 1 .. len
    BY <1>6
  <2>2. GroupsEnd(x, obj, sec) \in Nat
    BY <1>7, <2>1
  <2>3. GroupsEnd(x, obj, sec) = LayoutEnd(GroupsEnd(x, obj, sec - 1), Group(obj.sections[sec]))
    BY <1>2, <1>6, <2>1, GroupsFacts
  <2> QED
    BY <1>8, <2>2, <2>3
<1>10. PICK n \in Nat : n = Count(Section) /\ n <= Cardinality(Stubbed(obj.sections[sec]))
  BY <1>1, <1>4, CountedAreStubbed
<1>11. PICK c \in Nat : c = Base + cursor /\ c <= DataEnd(e, obj.sections[sec])
  BY <1>1, <1>2, <1>5, <1>8 DEF EstimateAt
<1>12. PICK p \in Nat : /\ p = AlignUp(c, 16) /\ c <= u
                        /\ n > 0 => p + 16 * n <= u
  BY <1>2, <1>9, <1>10, <1>11, PoolFits
<1>13. p + 16 * n <= AlignUp(u, 16)
  <2>1. AlignUp(u, 16) \in Nat /\ u <= AlignUp(u, 16)
    BY AlignUpFacts
  <2>2. p <= AlignUp(u, 16)
    BY <1>12, AlignUpMonotone
  <2> QED
    BY <1>12, <2>1, <2>2
<1>14. PICK next \in 1 .. len + 1 : next = NextTracked(obj, sec) /\ sec <= next - 1
  <2>1. sec \in Nat /\ sec <= len
    BY <1>6
  <2> QED
    BY <1>6, <2>1, NextTrackedUp
<1>15. p + 16 * n <= AlignUp(GroupsEnd(x, obj, next - 1), 16)
  <2>1. sec \in 0 .. len /\ next - 1 \in 0 .. len
    BY <1>6, <1>14
  <2>2. PICK v \in Nat : v = GroupsEnd(x, obj, next - 1)
    BY <1>7, <2>1
  <2>3. GroupsEnd(x, obj, sec) <= GroupsEnd(x, obj, next - 1)
    BY <1>2, <1>6, <1>14, <2>1, GroupsUp
  <2>4. u <= v
    BY <1>9, <2>2, <2>3
  <2>5. /\ AlignUp(u, 16) \in Nat /\ AlignUp(v, 16) \in Nat
        /\ AlignUp(u, 16) <= AlignUp(v, 16)
    BY <2>4, AlignUpFacts, AlignUpMonotone
  <2> QED
    BY <1>13, <2>2, <2>5
<1>16. Base + cursor' = p + 16 * n
  <2>1. cursor' = StartOffset(Base, cursor, PoolCall.align) + PoolCall.len
    BY DEF TrackPool, TxWrite, Place
  <2>2. PoolCall.align = 16 /\ PoolCall.len = 16 * n
    BY <1>10 DEF PoolCall, StubLen
  <2>3. cursor' = p - Base + 16 * n
    BY <1>11, <1>12, <2>1, <2>2 DEF StartOffset
  <2> QED
    BY <1>2, <2>3
<1>17. Top'.cursor = Top.cursor
  <2>1. Request(PoolCall) /\ TxWrite(PoolCall, TRUE) /\ TRUE \in BOOLEAN
    BY <1>1, PoolRequest DEF TrackPool
  <2> QED
    BY <1>1, <2>1, LinkBlocksStay
<1>18. /\ link'.phase = "track" /\ link'.obj = obj /\ link'.sec = next
       /\ link'.fits = link.fits /\ machine' = machine
  BY <1>1, <1>3, <1>4, <1>14 DEF TrackPool, LinkOK, LinkFields
<1>19. EstimateAt(x, obj, next)'
  <2>1. /\ GroupsEnd(x, obj, Len(obj.sections))' = GroupsEnd(x, obj, Len(obj.sections))
        /\ GroupsEnd(x, obj, next - 1)' = GroupsEnd(x, obj, next - 1)
    BY <1>18, EstimateKept
  <2> QED
    BY <1>5, <1>15, <1>16, <1>18, <2>1 DEF EstimateAt, In, StubLen
<1> QED
  BY <1>3, <1>17, <1>18, <1>19 DEF EstimateOK

\* What leaves the cursor, and goes no further than to relocating.
LEMMA EstimateStays ==
  ASSUME EstimateOK, machine' = machine, ~NotLinking, cursor' = cursor,
         Top'.cursor = Top.cursor,
         link'.obj = link.obj, link'.sec = link.sec, link'.fits = link.fits,
         In("track")' => In("track"), In("count")' => In("count")
  PROVE  EstimateOK'
<1> SUFFICES ASSUME machine # "arm64",
                    NEW x, NEW obj, NEW sec, x = Base + Top.cursor, obj = link.obj, sec = link.sec
             PROVE  EstimateAt(x, obj, sec)'
  BY DEF EstimateOK
<1>1. EstimateAt(x, obj, sec)
  BY DEF EstimateOK
<1>2. PICK e : e = GroupsEnd(x, obj, sec - 1)
  OBVIOUS
<1>3. /\ GroupsEnd(x, obj, Len(obj.sections))' = GroupsEnd(x, obj, Len(obj.sections))
      /\ GroupsEnd(x, obj, sec - 1)' = e
      /\ DataEnd(e, obj.sections[sec])' = DataEnd(e, obj.sections[sec])
  BY <1>2, EstimateKept
<1> QED
  BY <1>1, <1>2, <1>3 DEF EstimateAt

LEMMA EstimateNext ==
  ASSUME EvenLayout, CountInv, LinkOK, LayoutOK, CoffrTypes, EstimateOK, [CoffrNext]_allVars
  PROVE  EstimateOK'
<1>1. ASSUME NEW obj \in Objects, NEW calls \in Reserves, LinkStart(obj, calls)
      PROVE  EstimateOK'
  <2>1. machine' = machine
    BY <1>1 DEF LinkStart
  <2>2. CASE machine = "arm64"
    BY <2>1, <2>2 DEF EstimateOK
  <2>3. CASE machine # "arm64"
    <3>1. machine \in {"x64", "x86"}
      BY <2>3, CoffrAssumption DEF CoffrTypes
    <3> QED
      BY <1>1, <3>1, EstimateStart DEF CountInv
  <2> QED
    BY <2>2, <2>3
<1>2. CASE TrackData
  BY <1>2, EstimateData
<1>3. CASE TrackPool
  BY <1>3, EstimatePool
<1>4. CASE TrackEnd
  <2>1. /\ ~NotLinking /\ UNCHANGED vars /\ machine' = machine
        /\ link' = [link EXCEPT !.phase = "relocate", !.todo = NextReloc(link.obj, 0)]
    BY <1>4 DEF TrackEnd, NotLinking, In
  <2>2. /\ link'.phase = "relocate" /\ link'.obj = link.obj /\ link'.sec = link.sec
        /\ link'.fits = link.fits
    BY <2>1 DEF LinkOK, LinkFields
  <2>3. cursor' = cursor /\ Top' = Top
    BY <2>1 DEF vars, Top
  <2> QED
    BY <2>1, <2>2, <2>3, EstimateStays DEF In
<1>5. CASE RelocateNone \/ RelocateDirect \/ RelocateViaStub
  <2>1. PICK took : Advance(took) /\ In("relocate") /\ machine' = machine
    BY <1>5 DEF RelocateNone, RelocateDirect, RelocateViaStub, Relocating
  <2>2. ~NotLinking
    BY <2>1 DEF NotLinking, In
  <2>3. /\ link'.phase = "relocate" /\ link'.obj = link.obj /\ link'.sec = link.sec
        /\ link'.fits = link.fits
    BY <2>1, <2>2 DEF Advance, LinkOK, LinkFields, In
  <2>4. cursor' = cursor /\ Top' = Top
    BY <1>5 DEF RelocateNone, RelocateDirect, RelocateViaStub, Patch, vars, Top
  <2> QED
    BY <2>1, <2>2, <2>3, <2>4, EstimateStays DEF In
<1>6. CASE LinkCommit \/ SymbolsEnd \/ LinkFail \/ (\E c \in Calls : PlainWrite(c)) \/ Outer
  <2>1. NotLinking'
    BY <1>6 DEF LinkCommit, SymbolsEnd, LinkFail, PlainWrite, Outer, linkerVars, NotLinking, In, Idle
  <2> QED
    BY <2>1 DEF EstimateOK
<1>7. CASE ReleaseAny \/ UNCHANGED allVars
  <2>1. link' = link /\ machine' = machine /\ cursor' = cursor /\ txs' = txs
    BY <1>7 DEF ReleaseAny, Release, allVars, linkerVars, vars
  <2>2. Top' = Top
    BY <2>1 DEF Top
  <2>3. CASE NotLinking
    BY <2>1, <2>3 DEF NotLinking, In, EstimateOK
  <2>4. CASE ~NotLinking
    BY <2>1, <2>2, <2>4, EstimateStays DEF In
  <2> QED
    BY <2>3, <2>4
<1> QED
  BY <1>1, <1>2, <1>3, <1>4, <1>5, <1>6, <1>7 DEF CoffrNext

\* Never further ahead than the room that the estimate found.
LEMMA EstimateRoom ==
  ASSUME EvenLayout, CountInv, LinkOK, LayoutOK, CoffrTypes, EstimateOK
  PROVE  EstimateSuffices
<1> SUFFICES ASSUME ~NotLinking, machine # "arm64", link.fits, InSections
             PROVE  /\ In("track") => Room(DataCall)
                    /\ In("count") => Room(PoolCall)
  BY DEF EstimateSuffices, LinkOK
<1>2. /\ TypeOK /\ machine \in {"x64", "x86"} /\ link.obj \in Objects
      /\ cursor \in Nat /\ Base \in Nat /\ Size \in Nat /\ Base + Top.cursor \in Nat
  BY LinkInHand DEF CountInv
<1>3. PICK x \in Nat, obj \in Objects : x = Base + Top.cursor /\ obj = link.obj
  BY <1>2
<1>4. PICK sec \in DOMAIN obj.sections : sec = link.sec /\ Section = obj.sections[sec]
  BY <1>3, SectionFacts DEF Section
<1>5. EstimateAt(x, obj, sec)
  BY <1>2, <1>3, <1>4 DEF EstimateOK
<1>6. PICK len \in Nat : len = Len(obj.sections) /\ DOMAIN obj.sections = 1 .. len
  BY <1>2, GroupsFacts
<1>7. \A i \in 0 .. len : GroupsEnd(x, obj, i) \in Nat
  BY <1>2, <1>6, GroupsFacts
<1>8. /\ sec \in 1 .. len /\ sec - 1 \in 0 .. len /\ sec \in 0 .. len /\ len \in 0 .. len
      /\ sec <= len
  BY <1>6
<1>9. PICK e \in Nat : e = GroupsEnd(x, obj, sec - 1)
  BY <1>7, <1>8
<1>10. PICK u \in Nat : u = GroupsEnd(x, obj, sec) /\ u = LayoutEnd(e, Group(obj.sections[sec]))
  <2>1. GroupsEnd(x, obj, sec) \in Nat
    BY <1>7, <1>8
  <2>2. GroupsEnd(x, obj, sec) = LayoutEnd(GroupsEnd(x, obj, sec - 1), Group(obj.sections[sec]))
    BY <1>2, <1>6, <1>8, GroupsFacts
  <2> QED
    BY <1>9, <2>1, <2>2
<1>11. u <= Base + Size
  <2>1. GroupsEnd(x, obj, sec) <= GroupsEnd(x, obj, len)
    BY <1>2, <1>6, <1>8, GroupsUp
  <2>2. PICK v \in Nat : v = GroupsEnd(x, obj, len)
    BY <1>7, <1>8
  <2>3. v <= Base + Size
    BY <1>5, <1>6, <2>2 DEF EstimateAt
  <2> QED
    BY <1>2, <1>10, <2>1, <2>2, <2>3
<1>12. PICK c \in Nat : c = Base + cursor
  BY <1>2
<1>13. ASSUME In("track")
       PROVE  Room(DataCall)
  <2>1. c <= AlignUp(e, 16)
    BY <1>5, <1>9, <1>12, <1>13 DEF EstimateAt, StubLen
  <2>2. PICK a \in Nat \ {0}, k \in Nat : a = Section.align /\ k = Section.len
    BY SectionFacts
  <2>3. AlignUp(c, a) + k <= DataEnd(e, Section)
    BY <1>2, <1>4, <2>1, <2>2, DataFits
  <2>4. DataEnd(e, Section) \in Nat /\ DataEnd(e, Section) <= u
    BY <1>2, <1>4, <1>10, GroupFacts
  <2>5. AlignUp(c, a) \in Nat
    BY <2>2, AlignUpFacts
  <2>6. AlignUp(c, a) - Base + k <= Size
    BY <1>2, <1>11, <2>3, <2>4, <2>5
  <2>7. DataCall.align = a /\ DataCall.cap = k
    BY <2>2 DEF DataCall
  <2> QED
    BY <1>12, <2>6, <2>7 DEF Room, Fits, StartOffset
<1>14. ASSUME In("count")
       PROVE  Room(PoolCall)
  <2>1. c <= DataEnd(e, obj.sections[sec])
    BY <1>5, <1>9, <1>12, <1>14 DEF EstimateAt
  <2>2. PICK n \in Nat : n = Count(Section) /\ n <= Cardinality(Stubbed(obj.sections[sec]))
    BY <1>4, CountedAreStubbed
  <2>3. PICK p \in Nat : /\ p = AlignUp(c, 16) /\ c <= u
                         /\ n > 0 => p + 16 * n <= u
    BY <1>2, <1>10, <2>1, <2>2, PoolFits
  <2>4. p + 16 * n <= Base + Size
    <3>1. CASE n > 0
      BY <1>2, <1>11, <2>3, <3>1
    <3>2. CASE n = 0
      <4>1. (Base + Size) % 16 = 0 /\ Base + Size \in Nat /\ c <= Base + Size
        BY <1>2, <1>11, <2>3 DEF EvenLayout, StubLen
      <4>2. AlignUp(c, 16) <= Base + Size
        BY <4>1, AlignUpLeast
      <4> QED
        BY <2>3, <3>2, <4>2
    <3> QED
      BY <3>1, <3>2
  <2>5. PoolCall.align = 16 /\ PoolCall.cap = 16 * n
    BY <2>2 DEF PoolCall, StubLen
  <2>6. p - Base + 16 * n <= Size
    BY <1>2, <2>4
  <2> QED
    BY <1>12, <2>3, <2>5, <2>6 DEF Room, Fits, StartOffset
<1> QED
  BY <1>13, <1>14

\* The estimate is conservative on x64 and x86: a link into a slab in which
\* under_size_adv found room never runs out of it, at no section and no pool,
\* where section alignments are COFF's and the mapping ends on a trampoline's.
THEOREM EstimateIsEnough ==
  ASSUME EvenLayout
  PROVE  CoffrSpec => []EstimateSuffices
<1>1. CoffrInit => EstimateOK
  BY DEF CoffrInit, EstimateOK, NotLinking, In, Idle
<1>2. CoffrInv /\ CoffrTypes /\ [CoffrNext]_allVars => CoffrTypes'
  BY CoffrTypesNext DEF CoffrInv, SlabInv
<1>3. CoffrInv /\ CoffrTypes /\ EstimateOK /\ [CoffrNext]_allVars => EstimateOK'
  BY EstimateNext DEF CoffrInv, SlabInv
<1>4. CoffrInv /\ CoffrTypes /\ EstimateOK => EstimateSuffices
  BY EstimateRoom DEF CoffrInv, SlabInv
<1> QED
  BY <1>1, <1>2, <1>3, <1>4, CoffrTypesInit, CoffrInvariant, PTL DEF CoffrSpec
=============================================================================
