---------------------------- MODULE LinkerCache ----------------------------
(***************************************************************************)
(* ReusableLinkerCache and LinkerTransaction (src/coffr/cache.rs): the     *)
(* views of a link's sections, in two vectors kept side by side so that    *)
(* the numbers can be searched.  The cache outlives the link: the next one *)
(* clears the vectors and finds their capacity.                            *)
(*                                                                         *)
(* The operations are given as actions on the cache alone; module Coffr    *)
(* conjoins them to the linker's steps.                                    *)
(***************************************************************************)
EXTENDS Integers, SequencesExt, FiniteSetsExt

CONSTANTS
  ShrinkThreshold,  \* SHRINK_THRESHOLD, 256
  SmallCap,         \* 128
  MinCap,           \* what a vector first allocates: 4
  Reserves          \* the calls of `reserve' clients make before a link

ASSUME CacheAssumption ==
  /\ MinCap \in Nat \ {0}
  /\ SmallCap \in Nat /\ MinCap <= SmallCap
  /\ ShrinkThreshold \in Nat /\ SmallCap <= ShrinkThreshold
  /\ Reserves \subseteq Seq(Nat)

VARIABLES
  borrowed,  \* a LinkerTransaction exists
  idmap,     \* section numbers
  views,     \* their views, at the same places
  caps,      \* capacities of the two vectors, [ids, views]
  reserved   \* history: the size last reserved by this link; 0 for none

cacheVars == <<borrowed, idmap, views, caps, reserved>>

CacheInit ==
  /\ borrowed = FALSE
  /\ idmap = <<>>
  /\ views = <<>>
  /\ caps = [ids |-> 0, views |-> 0]
  /\ reserved = 0

-----------------------------------------------------------------------------
(* The standard library's vectors: capacity after reserve (amortised by    *)
(* doubling), reserve_exact and shrink_to.                                 *)

VecReserve(cap, len, more) ==
  IF cap - len >= more THEN cap ELSE Max({2 * cap, len + more, MinCap})

VecReserveExact(cap, len, more) == IF cap - len >= more THEN cap ELSE len + more

VecShrinkTo(cap, len, to) == IF cap > to THEN Max({len, to}) ELSE cap

\* Some room to spare.
Headroom(n) == (n * 115) \div 100

BadAlwaysSmall(ids, cap, len, more) ==
  LET need == len + more
  IN  IF ids > need /\ ids - need >= ShrinkThreshold THEN VecShrinkTo(cap, len, SmallCap)
      ELSE IF ids >= need THEN cap
      ELSE VecReserveExact(cap, len, Headroom(need) - len)

\* reserve, for a vector of capacity cap: what to do is read off the first
\* vector's capacity and done to both.
Reserved(ids, cap, len, more) ==
  LET need == len + more
  IN  IF ids > need /\ ids - need >= ShrinkThreshold
        THEN VecShrinkTo(cap, len, IF need < SmallCap THEN SmallCap ELSE Headroom(need))
      ELSE IF ids >= need THEN cap
      ELSE IF need < SmallCap THEN VecReserve(cap, len, more)
      ELSE VecReserveExact(cap, len, Headroom(need) - len)

Reserve(c, more) ==
  [ids |-> Reserved(c.ids, c.ids, 0, more), views |-> Reserved(c.ids, c.views, 0, more)]

\* The capacities after these calls of reserve, one after another.
ReserveAll(c, calls) ==
  LET after[i \in 0 .. Len(calls)] ==
        IF i = 0 THEN c ELSE Reserve(after[i - 1], calls[i])
  IN  after[Len(calls)]

-----------------------------------------------------------------------------
BadKept == UNCHANGED <<idmap, views>>

BadIdsKept == idmap' = idmap /\ views' = <<>>

Emptied == idmap' = <<>> /\ views' = <<>>

\* LinkerTransaction::create, and the calls of reserve before the link.
Create(calls) ==
  /\ ~borrowed
  /\ borrowed' = TRUE
  /\ Emptied
  /\ caps' = ReserveAll(caps, calls)
  /\ reserved' = IF calls = <<>> THEN 0 ELSE Last(calls)

\* insert_sorted.
Insert(key, view) ==
  /\ borrowed
  /\ views' = Append(views, view)
  /\ idmap' = Append(idmap, key)
  /\ caps' = [ids   |-> VecReserve(caps.ids, Len(idmap), 1),
              views |-> VecReserve(caps.views, Len(views), 1)]
  /\ UNCHANGED <<borrowed, reserved>>

\* Drop for LinkerTransaction.
Close ==
  /\ borrowed
  /\ borrowed' = FALSE
  /\ Emptied
  /\ reserved' = 0
  /\ UNCHANGED caps

\* get: binary_search finds a place that holds the key, if the numbers are
\* sorted and it is there; the view is read unchecked at the same place.
Keys == Range(idmap)
Get(key) == views[CHOOSE i \in DOMAIN idmap : idmap[i] = key]

-----------------------------------------------------------------------------
\* What get relies on: the numbers are strictly ascending, which insert_sorted
\* only asserts in debug builds, and every one has its view.
CacheSorted ==
  /\ \A i, j \in DOMAIN idmap : i < j => idmap[i] < idmap[j]
  /\ Len(views) = Len(idmap)

\* reserve keeps its promise and its bound: the sections announced go in
\* without another allocation, both vectors grow and shrink alike, and a link
\* keeps no more than it announced plus the threshold from earlier ones.
ReserveHolds ==
  /\ caps.ids = caps.views
  /\ Len(idmap) <= caps.ids
  /\ reserved <= caps.ids
  /\ (reserved > 0 /\ idmap = <<>>) =>
       caps.ids <= Max({reserved + ShrinkThreshold - 1, SmallCap, Headroom(reserved)})

\* The cache implements the map the linker relies on.
Map == INSTANCE SectionMap WITH
         open <- borrowed,
         map  <- [k \in Keys |-> Get(k)]

ImplementsSectionMap == Map!Spec
=============================================================================
