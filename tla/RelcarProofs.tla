---------------------------- MODULE RelcarProofs ----------------------------
(***************************************************************************)
(* What holds of the slab when functions come with RELCAR's relocations,   *)
(* for every platform, build and set of functions, panics included.        *)
(***************************************************************************)
EXTENDS Relcar, SlabProofs

RelcarInv == CountInv /\ Watermarks /\ LiveCodeIntact

\* Every step is a step of the slab, a panic in the midst of a write none.
LEMMA RelcarIsSlab ==
  ASSUME [RelcarNext]_allVars
  PROVE  [AnyNext]_vars
<1>1. ASSUME NEW blob \in Blobs, WriteRelocated(blob)
      PROVE  AnyNext
  <2>1. Request(blob) /\ TRUE \in BOOLEAN
    BY RelcarAssumption DEF Request
  <2>2. WriteFn(blob) \/ TxWrite(blob, TRUE)
    BY <1>1 DEF WriteRelocated
  <2> QED
    BY <2>1, <2>2 DEF AnyNext
<1>2. ASSUME NEW blob \in Blobs, WritePanics(blob)
      PROVE  UNCHANGED vars
  BY <1>2 DEF WritePanics
<1>3. CASE Unwind \/ Owner \/ ReleaseAny
  BY <1>3 DEF Unwind, Owner, ReleaseAny, AnyNext
<1>4. CASE UNCHANGED allVars
  BY <1>4 DEF allVars
<1> QED
  BY <1>1, <1>2, <1>3, <1>4 DEF RelcarNext

LEMMA RelcarInitial == RelcarInit => RelcarInv
<1> SUFFICES ASSUME RelcarInit PROVE RelcarInv
  OBVIOUS
<1>1. CountInv
  BY CountInit DEF RelcarInit
<1> QED
  BY <1>1 DEF RelcarInit, Init, RelcarInv, Watermarks, LiveCodeIntact

LEMMA RelcarStep == RelcarInv /\ [RelcarNext]_allVars => RelcarInv'
<1> SUFFICES ASSUME RelcarInv, [RelcarNext]_allVars PROVE RelcarInv'
  OBVIOUS
<1>1. [AnyNext]_vars /\ TypeOK /\ CountInv /\ Watermarks /\ LiveCodeIntact
  BY RelcarIsSlab DEF RelcarInv, CountInv
<1> QED
  BY <1>1, CountNext, MarkNext, IntactNext DEF RelcarInv, MarkInv

THEOREM RelcarInvariant == RelcarSpec => []RelcarInv
BY RelcarInitial, RelcarStep, PTL DEF RelcarSpec

\* A panic in the midst of a write costs the slab none of its promises.
THEOREM PanicsKeepSlab == RelcarSpec => [](Ledger /\ FreeIsSafe /\ Watermarks /\ LiveCodeIntact)
<1>1. RelcarInv => Ledger /\ FreeIsSafe /\ Watermarks /\ LiveCodeIntact
  BY DEF RelcarInv, CountInv
<1> QED
  BY <1>1, RelcarInvariant, PTL

-----------------------------------------------------------------------------
(* What a handler stores is what its relocation asks for. *)

\* Keeping the low bits changes a number by a multiple of the span, and one
\* within the span not at all.
LEMMA TruncatedFacts ==
  ASSUME NEW x \in Int, NEW half \in Nat \ {0}
  PROVE  /\ \E k \in Int : Truncated(x, half) - x = (2 * half) * k
         /\ Truncated(x, half) \in Int
         /\ (Truncated(x, half) - x) % (2 * half) = 0
         /\ InSpan(x, half) => Truncated(x, half) = x
<1>1. PICK m \in Nat \ {0}, y \in Int : m = 2 * half /\ y = x + half
  OBVIOUS
<1>2. PICK k \in Int, r \in Int : r = y % m /\ r - y = m * k
  BY RemainderCongruent
<1>3. Truncated(x, half) = r - half
  BY <1>1, <1>2 DEF Truncated
<1>4. ASSUME InSpan(x, half) PROVE r = y
  <2>1. y \in 0 .. m - 1 /\ m * 0 + y = y
    BY <1>1, <1>4 DEF InSpan
  <2>2. (m * 0 + y) % m = y
    BY <2>1, EuclidUnique
  <2> QED
    BY <1>2, <2>1, <2>2
<1>5. Truncated(x, half) - x = m * k
  BY <1>1, <1>2, <1>3
<1>6. (Truncated(x, half) - x) % m = 0
  BY <1>5, MultipleRemains
<1> QED
  BY <1>1, <1>3, <1>4, <1>5, <1>6

\* The division of a branch's displacement loses nothing of a multiple of 4.
LEMMA QuotientFacts ==
  ASSUME NEW x \in Int
  PROVE  Quotient(x) \in Int /\ (x % 4 = 0 => 4 * Quotient(x) = x)
BY DEF Quotient

LEMMA DisplacementFacts ==
  ASSUME NEW r \in Relocation, NEW at \in Nat, platform \in Platforms
  PROVE  /\ r.symbol_addr \in Int /\ Base \in Nat /\ RwBase[platform] \in Nat
         /\ Half \in Nat \ {0} /\ HalfBranch \in Nat \ {0}
         /\ Displacement(at, r) \in Int
         /\ Patched(at, r) \in Int
<1>1. /\ r.symbol_addr \in Int /\ Base \in Nat /\ RwBase[platform] \in Nat
      /\ Half \in Nat \ {0} /\ HalfBranch \in Nat \ {0}
  BY RelcarAssumption, SlabAssumption DEF Relocation
<1>2. Displacement(at, r) \in Int
  BY <1>1 DEF Displacement, PatchSite
<1>3. r.symbol_addr % (2 * Half) \in Int
  BY <1>1, RemainderCongruent, 2 * Half \in Nat \ {0}
<1>4. Quotient(Displacement(at, r)) \in Int
  BY <1>2, QuotientFacts
<1>5. /\ Truncated(Quotient(Displacement(at, r)), HalfBranch) \in Int
      /\ Truncated(Displacement(at, r), Half) \in Int
  BY <1>1, <1>2, <1>4, TruncatedFacts
<1>6. Patched(at, r) \in Int
  <2>1. CASE r.kind \in Arm64Kinds
    BY <1>5, <2>1 DEF Patched, Arm64Kinds
  <2>2. CASE r.kind = "Abs8"
    BY <1>1, <2>2 DEF Patched, Arm64Kinds
  <2>3. CASE r.kind = "Abs4"
    BY <1>3, <2>3 DEF Patched, Arm64Kinds
  <2>4. CASE r.kind \notin Arm64Kinds \cup AbsKinds
    BY <1>5, <2>4 DEF Patched, AbsKinds
  <2> QED
    BY <2>1, <2>2, <2>3, <2>4 DEF AbsKinds
<1> QED
  BY <1>1, <1>2, <1>6

\* A field that holds what its handler computed without a panic meets its
\* relocation, in the view that it is patched in.
LEMMA PatchedMeets ==
  ASSUME NEW r \in Relocation, NEW at \in Nat, NEW len \in Nat,
         platform \in Platforms, build \in Builds,
         r.offset + Width(r) <= len, ~Panics(len, at, r),
         OneView(r)
  PROVE  Meets(at, r, Patched(at, r))
<1> DEFINE D == Displacement(at, r)
           V == Patched(at, r)
           S == r.symbol_addr
<1>1. /\ S \in Int /\ Base \in Nat /\ RwBase[platform] \in Nat /\ at \in Nat
      /\ Half \in Nat \ {0} /\ HalfBranch \in Nat \ {0}
      /\ D \in Int /\ V \in Int
  BY DisplacementFacts
<1>2. build \in {"debug", "release"}
  BY RelcarAssumption
<1>3. r.kind # "UserCustom" /\ r.kind \in RelocKind
  BY DEF Panics, Relocation
<1>4. CASE r.kind = "Abs8"
  <2>1. Reaches(at, r, V) = V /\ V = S /\ Target(at, r) = S
    BY <1>4 DEF Reaches, Target, Patched, AbsKinds, Provided, Arm64Kinds
  <2> QED
    BY <2>1 DEF Meets
<1>5. CASE r.kind = "Abs4"
  <2>1. V = S % (2 * Half)
    BY <1>5 DEF Patched, Arm64Kinds
  <2>3. (V - S) % (2 * Half) = 0
    <3> HIDE DEF V, S
    <3>1. 2 * Half \in Nat \ {0}
      BY <1>1
    <3> QED
      BY <1>1, <2>1, <3>1, RemainderCongruent
  <2>2. Reaches(at, r, V) = V /\ Target(at, r) = S /\ Span(r) = 2 * Half
    BY <1>5 DEF Reaches, Target, Span, AbsKinds, Provided, Arm64Kinds
  <2> QED
    BY <1>5, <2>2, <2>3 DEF Meets
<1>6. CASE r.kind \in X86Rel
  <2>1. RwBase[platform] = Base
    BY <1>6 DEF OneView, X86Rel, AbsKinds, Provided
  <2>2. D = S - (Base + at + 4) /\ V = Truncated(D, Half)
    BY <1>6, <2>1 DEF Displacement, PatchSite, Patched, X86Rel, Arm64Kinds
  <2>3. Reaches(at, r, V) = Base + at + 4 + V /\ Target(at, r) = S /\ Span(r) = 2 * Half
    BY <1>6 DEF Reaches, Target, Span, X86Rel, AbsKinds, Provided, Arm64Kinds
  <2>4. (V - D) % (2 * Half) = 0 /\ (InSpan(D, Half) => V = D)
    <3> HIDE DEF V, D, S
    <3> QED
      BY <1>1, <2>2, TruncatedFacts
  <2>5. Reaches(at, r, V) - Target(at, r) = V - D
    BY <1>1, <2>2, <2>3
  <2>6. CASE build = "debug"
    <3>1. InSpan(D, Half)
      BY <1>6, <2>6 DEF Panics, Unchecked, X86Rel
    <3> QED
      BY <1>1, <2>2, <2>3, <2>4, <3>1 DEF Meets
  <2>7. CASE build = "release"
    BY <1>6, <2>3, <2>4, <2>5, <2>7 DEF Meets, X86Rel
  <2> QED
    BY <1>2, <2>6, <2>7
<1>7. CASE r.kind = "X86CallPCRelOrPCRelProvidedRelativeBytes"
  <2>2. D = S /\ V = Truncated(D, Half)
    BY <1>7 DEF Displacement, Patched, X86Rel, Arm64Kinds
  <2>3. /\ Reaches(at, r, V) = Base + at + 4 + V
        /\ Target(at, r) = Base + at + 4 + S /\ Span(r) = 2 * Half
    BY <1>7 DEF Reaches, Target, Span, AbsKinds, Provided, Arm64Kinds
  <2>4. (V - D) % (2 * Half) = 0
    BY <1>1, <2>2, TruncatedFacts
  <2>5. Reaches(at, r, V) - Target(at, r) = V - D
    BY <1>1, <2>2, <2>3
  <2> QED
    BY <1>7, <2>3, <2>4, <2>5 DEF Meets, Unchecked
<1>8. CASE r.kind \in Arm64Kinds
  <2> DEFINE Q == Quotient(D)
  <2>1. r.kind = "Arm64Call" => RwBase[platform] = Base
    BY <1>8 DEF OneView, Arm64Kinds, AbsKinds, Provided
  <2>2. V = Truncated(Q, HalfBranch)
    BY <1>8 DEF Patched, Arm64Kinds
  <2>3. Reaches(at, r, V) = Base + at + 4 * V /\ Span(r) = 8 * HalfBranch
    BY <1>8 DEF Reaches, Span, AbsKinds, Arm64Kinds
  <2>4. Target(at, r) = Base + at + D
    <3>1. CASE r.kind = "Arm64Call"
      <4>1. D = S - PatchSite(at)
        BY <3>1 DEF Displacement, X86Rel
      <4>2. Target(at, r) = S
        BY <3>1 DEF Target, Provided
      <4>3. PatchSite(at) = Base + at
        BY <2>1, <3>1 DEF PatchSite
      <4> HIDE DEF D, S
      <4> QED
        BY <1>1, <4>1, <4>2, <4>3
    <3>2. CASE r.kind = "Arm64CallProvidedRelativeBytes"
      BY <3>2 DEF Displacement, Target, X86Rel, Provided, Arm64Kinds
    <3> QED
      BY <1>8, <3>1, <3>2 DEF Arm64Kinds
  <2>5. Q \in Int /\ (D % 4 = 0 => 4 * Q = D)
    BY <1>1, QuotientFacts
  <2> SUFFICES Meets(at, r, V)
    OBVIOUS
  <2> HIDE DEF D, Q, V, S
  <2>6. PICK k \in Int : V - Q = (2 * HalfBranch) * k
    BY <1>1, <2>2, <2>5, TruncatedFacts
  <2>7. InSpan(Q, HalfBranch) => V = Q
    BY <1>1, <2>2, <2>5, TruncatedFacts
  <2>8. CASE build = "debug"
    <3>1. D % 4 = 0 /\ InSpan(Q, HalfBranch)
      BY <1>8, <2>8 DEF Panics, Unchecked, Arm64Kinds, D, Q
    <3> QED
      BY <1>1, <2>3, <2>4, <2>5, <2>7, <3>1 DEF Meets
  <2>9. CASE build = "release" /\ D % 4 # 0
    BY <1>8, <2>9 DEF Meets, Arm64Kinds, D
  <2>10. CASE build = "release" /\ D % 4 = 0
    <3>1. Reaches(at, r, V) - Target(at, r) = 4 * (V - Q)
      BY <1>1, <2>3, <2>4, <2>5, <2>10
    <3>2. 4 * (V - Q) = (8 * HalfBranch) * k
      BY <1>1, <2>5, <2>6
    <3>3. PICK m \in Nat \ {0} : m = 8 * HalfBranch
      BY <1>1
    <3>4. (Reaches(at, r, V) - Target(at, r)) % m = 0
      BY <3>1, <3>2, <3>3, MultipleRemains
    <3> QED
      BY <1>8, <2>3, <2>10, <3>3, <3>4 DEF Meets, Arm64Kinds
  <2> QED
    BY <1>2, <2>8, <2>9, <2>10
<1> QED
  BY <1>3, <1>4, <1>5, <1>6, <1>7, <1>8
  DEF RelocKind, AbsKinds, X86Rel, Provided, Arm64Kinds

-----------------------------------------------------------------------------
(* What was asked for stays in place: a field in use lies inside a block of  *)
(* its program, below the cursor, and writes start above it.                 *)

RelcarTypes ==
  /\ platform \in Platforms
  /\ build \in Builds
  /\ DOMAIN mem \subseteq Nat
  /\ \A o \in DOMAIN mem : mem[o] \in Int
  /\ asked \subseteq (1 .. MaxProgs) \X Nat \X Relocation
  /\ unwinding => InTx
  /\ writable => platform = "macos"

InBlock(a) ==
  \E b \in code : b.prog = a[1] /\ b.lo <= a[2] /\ a[2] + Width(a[3]) <= b.hi

\* OneView and Meets depend on mem, which the fields of an undercut program
\* share with what was written over it.
Served(a) ==
  /\ InBlock(a)
  /\ \A o \in WordsAt(a[2], a[3]) :
       /\ o \in DOMAIN mem
       /\ OneView(a[3]) => Meets(a[2], a[3], mem[o])

AllServed == \A a \in asked : a[1] \notin undercut => Served(a)

LEMMA AskedFacts ==
  ASSUME RelcarTypes, NEW a \in asked
  PROVE  /\ a[1] \in 1 .. MaxProgs /\ a[2] \in Nat /\ a[3] \in Relocation
         /\ Width(a[3]) \in Nat /\ 4 <= Width(a[3])
BY DEF RelcarTypes, Width

\* The words of a field lie in it.
LEMMA WordFacts ==
  ASSUME NEW at \in Nat, NEW r
  PROVE  /\ at \in WordsAt(at, r)
         /\ \A o \in WordsAt(at, r) : o \in Nat /\ at <= o /\ o + 4 <= at + Width(r)
BY DEF WordsAt, Width

\* The relocations of a function the client writes.
LEMMA BlobFacts ==
  ASSUME NEW blob \in Blobs
  PROVE  /\ Request(blob)
         /\ \A r \in Relocs(blob) : r \in Relocation /\ r.offset \in Nat
         /\ \A r, q \in Relocs(blob) : r # q => Apart(r, q)
BY RelcarAssumption DEF Request, Relocs, Range, Relocation

\* No two fields of a function have a word in common.
LEMMA OneWordOneField ==
  ASSUME NEW blob \in Blobs, NEW start \in Nat, NEW r \in Relocs(blob), NEW q \in Relocs(blob),
         NEW o \in WordsAt(start + r.offset, r), o \in WordsAt(start + q.offset, q)
  PROVE  r = q
<1> SUFFICES ASSUME r # q PROVE FALSE
  OBVIOUS
<1>1. /\ r.offset \in Nat /\ q.offset \in Nat /\ Apart(r, q)
      /\ Width(r) \in Nat /\ Width(q) \in Nat
  BY BlobFacts DEF Width
<1>2. /\ o \in Nat
      /\ start + r.offset <= o /\ o + 4 <= start + r.offset + Width(r)
      /\ start + q.offset <= o /\ o + 4 <= start + q.offset + Width(q)
  BY <1>1, WordFacts
<1> QED
  BY <1>1, <1>2 DEF Apart

\* A write starts at or above the cursor.
LEMMA StartFacts ==
  ASSUME TypeOK, NEW blob \in Blobs
  PROVE  Start(blob) \in Nat /\ cursor <= Start(blob) /\ cursor \in Nat
<1>1. blob.align \in Nat \ {0} /\ Base \in Nat /\ cursor \in Nat /\ Base + cursor \in Nat
  BY BlobFacts, SlabAssumption DEF Request, TypeOK
<1>2. /\ AlignUp(Base + cursor, blob.align) \in Nat
      /\ Base + cursor <= AlignUp(Base + cursor, blob.align)
  BY <1>1, AlignUpFacts
<1> QED
  BY <1>1, <1>2 DEF Start, StartOffset

\* A field that is in place before a write, of a program that is not
\* undercut, ends before the write starts.
LEMMA BelowWrite ==
  ASSUME TypeOK, RelcarTypes, LiveCodeIntact, NEW blob \in Blobs,
         NEW a \in asked, a[1] \notin undercut, InBlock(a)
  PROVE  \A o \in WordsAt(a[2], a[3]) : o \in Nat /\ o + 4 <= Start(blob)
<1>1. PICK b \in code : b.prog = a[1] /\ a[2] + Width(a[3]) <= b.hi
  BY DEF InBlock
<1>2. b.hi <= cursor /\ b.hi \in Nat
  BY <1>1 DEF LiveCodeIntact, Safe, TypeOK, Block
<1>3. \A o \in WordsAt(a[2], a[3]) : o \in Nat /\ o + 4 <= a[2] + Width(a[3])
  BY AskedFacts, WordFacts
<1> QED
  BY <1>1, <1>2, <1>3, AskedFacts, StartFacts

\* What a write stores: the value of its relocation in each word of a field.
LEMMA FieldsFacts ==
  ASSUME TypeOK, NEW blob \in Blobs
  PROVE  /\ \A o \in DOMAIN Fields(blob) :
              /\ o \in Nat /\ Start(blob) <= o
              /\ \E r \in Relocs(blob) :
                   Fields(blob)[o] = Patched(Start(blob) + r.offset, r)
         /\ \A r \in Relocs(blob) : \A o \in WordsAt(Start(blob) + r.offset, r) :
              /\ o \in DOMAIN Fields(blob)
              /\ Fields(blob)[o] = Patched(Start(blob) + r.offset, r)
<1> DEFINE words(r) == WordsAt(Start(blob) + r.offset, r)
           val(o) == LET r == CHOOSE r \in Relocs(blob) : o \in words(r)
                     IN  Patched(Start(blob) + r.offset, r)
<1>1. /\ DOMAIN Fields(blob) = UNION {words(r) : r \in Relocs(blob)}
      /\ \A o \in UNION {words(r) : r \in Relocs(blob)} : Fields(blob)[o] = val(o)
  BY Zenon DEF Fields
<1>2. \A r \in Relocs(blob) : r.offset \in Nat /\ Start(blob) \in Nat
  BY BlobFacts, StartFacts
<1>3. ASSUME NEW r \in Relocs(blob), NEW o \in words(r)
      PROVE  /\ o \in DOMAIN Fields(blob) /\ o \in Nat /\ Start(blob) <= o
             /\ Fields(blob)[o] = Patched(Start(blob) + r.offset, r)
  <2> DEFINE q == CHOOSE x \in Relocs(blob) : o \in words(x)
  <2>1. q \in Relocs(blob) /\ o \in words(q)
    BY <1>3, Zenon
  <2>2. q = r
    <3> HIDE DEF q
    <3> QED
      BY <1>2, <1>3, <2>1, OneWordOneField
  <2>3. o \in UNION {words(x) : x \in Relocs(blob)}
    BY <1>3
  <2>4. o \in DOMAIN Fields(blob) /\ Fields(blob)[o] = Patched(Start(blob) + q.offset, q)
    BY <1>1, <2>3, Zenon
  <2>5. Start(blob) + r.offset \in Nat /\ Start(blob) <= Start(blob) + r.offset
    BY <1>2
  <2>6. o \in Nat /\ Start(blob) + r.offset <= o
    BY <1>3, <2>5, WordFacts
  <2>7. Start(blob) <= o
    BY <1>2, <2>5, <2>6
  <2> HIDE DEF q
  <2> QED
    BY <2>2, <2>4, <2>6, <2>7
<1>4. \A o \in DOMAIN Fields(blob) : \E r \in Relocs(blob) : o \in words(r)
  BY <1>1
<1> QED
  BY <1>3, <1>4

\* A field keeps its meaning where its bytes keep their value.
LEMMA ServedStays ==
  ASSUME NEW a, Served(a), InBlock(a)', UNCHANGED <<platform, build>>,
         \A o \in WordsAt(a[2], a[3]) : o \in DOMAIN mem => o \in DOMAIN mem' /\ mem'[o] = mem[o]
  PROVE  Served(a)'
<1>1. OneView(a[3])' = OneView(a[3])
  BY DEF OneView
<1>2. Displacement(a[2], a[3])' = Displacement(a[2], a[3])
  BY DEF Displacement, PatchSite
<1>4. ASSUME NEW o \in WordsAt(a[2], a[3])
      PROVE  /\ o \in DOMAIN mem'
             /\ OneView(a[3])' => Meets(a[2], a[3], mem[o])'
  <2>1. o \in DOMAIN mem /\ mem'[o] = mem[o] /\ o \in DOMAIN mem'
    BY <1>4 DEF Served
  <2>2. Meets(a[2], a[3], mem[o])' = Meets(a[2], a[3], mem[o])
    BY <1>2, <2>1 DEF Meets
  <2> QED
    BY <1>1, <1>4, <2>1, <2>2 DEF Served
<1> QED
  BY <1>4 DEF Served

\* What a write stores, and what it leaves.
LEMMA WrittenFacts ==
  ASSUME TypeOK, NEW blob \in Blobs, NEW p, Relocated(p, blob)
  PROVE  /\ \A x \in DOMAIN mem : x \in Nat /\ x + 4 <= Start(blob) =>
              x \in DOMAIN mem' /\ mem'[x] = mem[x]
         /\ \A r \in Relocs(blob) : \A o \in WordsAt(Start(blob) + r.offset, r) :
              o \in DOMAIN mem' /\ mem'[o] = Patched(Start(blob) + r.offset, r)
<1>1. PICK F : F = Fields(blob)
  OBVIOUS
<1>2. PICK C : C = Clear(Start(blob), Start(blob) + blob.len)
  OBVIOUS
<1>3. mem' = Over(F, C)
  BY <1>1, <1>2 DEF Relocated
<1>4. /\ DOMAIN mem' = DOMAIN F \cup DOMAIN C
      /\ \A o \in DOMAIN F : mem'[o] = F[o]
      /\ \A o \in DOMAIN C \ DOMAIN F : mem'[o] = C[o]
  BY <1>3 DEF Over
<1>5. ASSUME NEW x \in DOMAIN mem, x \in Nat, x + 4 <= Start(blob)
      PROVE  x \in DOMAIN mem' /\ mem'[x] = mem[x]
  <2>1. x \in DOMAIN C /\ C[x] = mem[x]
    BY <1>2, <1>5 DEF Clear
  <2>2. \A o \in DOMAIN F : o \in Nat /\ Start(blob) <= o
    BY <1>1, FieldsFacts
  <2>3. x \notin DOMAIN F
    BY <1>5, <2>2, StartFacts
  <2> QED
    BY <1>4, <2>1, <2>3
<1>6. ASSUME NEW r \in Relocs(blob), NEW o \in WordsAt(Start(blob) + r.offset, r)
      PROVE  o \in DOMAIN mem' /\ mem'[o] = Patched(Start(blob) + r.offset, r)
  <2>1. o \in DOMAIN F /\ F[o] = Patched(Start(blob) + r.offset, r)
    BY <1>1, FieldsFacts
  <2> QED
    BY <1>4, <2>1
<1> QED
  BY <1>5, <1>6

\* What a write puts in place, and what it leaves.
LEMMA ServedWrite ==
  ASSUME TypeOK, RelcarTypes, LiveCodeIntact, AllServed,
         NEW blob \in Blobs, NEW p \in 1 .. MaxProgs,
         Place(p, blob, TRUE), Relocated(p, blob), ~RelocPanics(blob),
         undercut' = undercut, UNCHANGED <<platform, build>>
  PROVE  AllServed'
<1>0. Start(blob) \in Nat /\ blob.len \in Nat /\ Request(blob)
  BY StartFacts, BlobFacts DEF Request
<1>1. PICK b \in Block : /\ code' = code \cup {b} /\ b.prog = p
                         /\ b.lo = Start(blob) /\ b.hi = Start(blob) + blob.len
  <2> DEFINE lo == Start(blob)
             b  == [prog |-> p, lo |-> lo, hi |-> lo + blob.len,
                    align |-> blob.align, flushed |-> TRUE]
  <2>1. b \in Block
    BY <1>0 DEF Block, Request
  <2>2. code' = code \cup {b}
    BY DEF Place, Start
  <2> QED
    BY <2>1, <2>2
<1>2. ASSUME NEW a \in asked, a[1] \notin undercut
      PROVE  Served(a)'
  <2>1. Served(a) /\ InBlock(a)
    BY <1>2 DEF AllServed, Served
  <2>2. \A o \in WordsAt(a[2], a[3]) : o \in Nat /\ o + 4 <= Start(blob)
    BY <1>2, <2>1, BelowWrite
  <2>3. \A o \in WordsAt(a[2], a[3]) : o \in DOMAIN mem => o \in DOMAIN mem' /\ mem'[o] = mem[o]
    BY <2>2, WrittenFacts
  <2>4. InBlock(a)'
    BY <1>1, <2>1 DEF InBlock
  <2> QED
    BY <2>1, <2>3, <2>4, ServedStays
<1>3. ASSUME NEW r \in Inside(blob), NEW at \in Nat, at = Start(blob) + r.offset
      PROVE  Served(<<p, at, r>>)'
  <2> DEFINE a == <<p, at, r>>
  <2>1. /\ r \in Relocs(blob) /\ r \in Relocation /\ r.offset \in Nat
        /\ r.offset + Width(r) <= blob.len /\ Width(r) \in Nat
    BY BlobFacts DEF Inside, Width
  <2>2. \A o \in WordsAt(at, r) : o \in DOMAIN mem' /\ mem'[o] = Patched(at, r)
    BY <1>3, <2>1, WrittenFacts
  <2>3. InBlock(a)'
    <3>1. b \in code' /\ b.lo <= at /\ at + Width(r) <= b.hi
      BY <1>0, <1>1, <1>3, <2>1
    <3> QED
      BY <1>1, <3>1 DEF InBlock
  <2>4. platform \in Platforms /\ build \in Builds /\ ~Panics(blob.len, at, r)
    BY <1>3, <2>1 DEF RelcarTypes, RelocPanics
  <2>5. OneView(r) => Meets(at, r, Patched(at, r))
    BY <1>0, <2>1, <2>4, PatchedMeets
  <2>6. OneView(r)' = OneView(r)
    BY DEF OneView
  <2>7. Displacement(at, r)' = Displacement(at, r)
    BY DEF Displacement, PatchSite
  <2>8. \A o \in WordsAt(at, r) : Meets(at, r, mem[o])' = Meets(at, r, Patched(at, r))
    BY <2>2, <2>7 DEF Meets
  <2> QED
    BY <2>2, <2>3, <2>5, <2>6, <2>8 DEF Served
<1>4. asked' = asked \cup {<<p, Start(blob) + r.offset, r>> : r \in Inside(blob)}
  BY DEF Relocated
<1>5. \A r \in Inside(blob) : Start(blob) + r.offset \in Nat
  BY <1>0, BlobFacts DEF Inside
<1> QED
  BY <1>2, <1>3, <1>4, <1>5 DEF AllServed

\* A write that panics has overwritten nothing in use.
LEMMA ServedPanic ==
  ASSUME TypeOK, RelcarTypes, LiveCodeIntact, AllServed,
         NEW blob \in Blobs, WritePanics(blob)
  PROVE  AllServed'
<1>1. ASSUME NEW a \in asked, a[1] \notin undercut
      PROVE  Served(a)'
  <2>1. Served(a) /\ InBlock(a)
    BY <1>1 DEF AllServed, Served
  <2>2. \A o \in WordsAt(a[2], a[3]) : o \in Nat /\ o + 4 <= Start(blob)
    BY <1>1, <2>1, BelowWrite
  <2>3. \A o \in WordsAt(a[2], a[3]) : o \in DOMAIN mem => o \in DOMAIN mem' /\ mem'[o] = mem[o]
    BY <2>2 DEF Clear, WritePanics
  <2>4. InBlock(a)' /\ UNCHANGED <<platform, build>>
    BY <2>1 DEF WritePanics, vars, InBlock
  <2> QED
    BY <2>1, <2>3, <2>4, ServedStays
<1>2. asked' = asked /\ undercut' = undercut
  BY DEF WritePanics, vars
<1> QED
  BY <1>1, <1>2 DEF AllServed

\* The other steps take all the blocks of a program, or leave all of them
\* where they are.
AllOrNone ==
  /\ undercut \subseteq undercut'
  /\ \A p \in 1 .. MaxProgs :
       (\E e \in code' : e.prog = p) =>
         \A b \in code : b.prog = p =>
           \E e \in code' : e.prog = b.prog /\ e.lo = b.lo /\ e.hi = b.hi

LEMMA OwnerTakesAll ==
  ASSUME TypeOK,
         \/ \E t \in Totals : Begin(t)
         \/ Commit \/ Abort \/ TryFree
         \/ \E h \in handles : Release(h)
  PROVE  AllOrNone
<1>1. CASE (\E t \in Totals : Begin(t)) \/ TryFree
  BY <1>1 DEF Begin, TryFree, AllOrNone
<1>2. CASE Commit
  <2>1. ASSUME NEW e \in code', e.prog = Top.id PROVE Top.total > 0
    BY <1>2, <2>1 DEF Commit
  <2>2. undercut' = undercut
    BY <1>2 DEF Commit
  <2> QED
    BY <1>2, <2>1, <2>2, CommitBlocks DEF AllOrNone
<1>3. CASE Abort
  BY <1>3 DEF Abort, AllOrNone
<1>4. CASE \E h \in handles : Release(h)
  BY <1>4 DEF Release, AllOrNone
<1> QED
  BY <1>1, <1>2, <1>3, <1>4

LEMMA ServedForget ==
  ASSUME RelcarTypes, AllServed, AllOrNone, Forget, UNCHANGED <<platform, build>>
  PROVE  AllServed'
<1> SUFFICES ASSUME NEW a \in asked', a[1] \notin undercut'
             PROVE  Served(a)'
  BY DEF AllServed
<1>1. a \in asked /\ a[1] \notin undercut /\ \E e \in code' : e.prog = a[1]
  BY DEF Forget, AllOrNone
<1>2. Served(a)
  BY <1>1 DEF AllServed
<1>3. PICK b \in code : b.prog = a[1] /\ b.lo <= a[2] /\ a[2] + Width(a[3]) <= b.hi
  BY <1>2 DEF Served, InBlock
<1>4. PICK e \in code' : e.prog = b.prog /\ e.lo = b.lo /\ e.hi = b.hi
  BY <1>1, <1>3, AskedFacts DEF AllOrNone
<1>5. InBlock(a)'
  BY <1>3, <1>4 DEF InBlock
<1>6. \A o \in WordsAt(a[2], a[3]) : o \in DOMAIN mem => o \in DOMAIN mem' /\ mem'[o] = mem[o]
  BY DEF Forget
<1> QED
  BY <1>2, <1>5, <1>6, ServedStays

LEMMA ServedNext ==
  ASSUME TypeOK, RelcarTypes, LiveCodeIntact, AllServed, [RelcarNext]_allVars
  PROVE  AllServed'
<1>1. ASSUME NEW blob \in Blobs, WriteRelocated(blob)
      PROVE  AllServed'
  <2>1. ~RelocPanics(blob) /\ UNCHANGED <<platform, build>>
    BY <1>1 DEF WriteRelocated
  <2>2. CASE WriteFn(blob) /\ Relocated(progs + 1, blob)
    <3>1. progs + 1 \in 1 .. MaxProgs
      BY <2>2, SlabAssumption DEF TypeOK, WriteFn
    <3>2. Place(progs + 1, blob, TRUE) /\ undercut' = undercut
      BY <2>2 DEF WriteFn
    <3> QED
      BY <2>1, <2>2, <3>1, <3>2, ServedWrite
  <2>3. CASE TxWrite(blob, TRUE) /\ Relocated(Top.id, blob)
    <3>1. Top.id \in 1 .. MaxProgs
      BY <2>3, TopFacts DEF TxWrite, Tx
    <3>2. Place(Top.id, blob, TRUE) /\ undercut' = undercut
      BY <2>3 DEF TxWrite
    <3> QED
      BY <2>1, <2>3, <3>1, <3>2, ServedWrite
  <2> QED
    BY <1>1, <2>2, <2>3 DEF WriteRelocated
<1>2. ASSUME NEW blob \in Blobs, WritePanics(blob)
      PROVE  AllServed'
  BY <1>2, ServedPanic
<1>3. CASE Unwind \/ Owner \/ ReleaseAny
  <2>1. AllOrNone
    BY <1>3, OwnerTakesAll DEF Unwind, Owner, ReleaseAny
  <2>2. Forget /\ UNCHANGED <<platform, build>>
    BY <1>3 DEF Unwind, Owner, ReleaseAny
  <2> QED
    BY <2>1, <2>2, ServedForget
<1>4. CASE UNCHANGED allVars
  <2>1. \A a : Served(a)' = Served(a)
    BY <1>4 DEF allVars, vars, relcarVars, Served, InBlock, OneView, Meets, Displacement, PatchSite
  <2> QED
    BY <1>4, <2>1 DEF allVars, vars, relcarVars, AllServed
<1> QED
  BY <1>1, <1>2, <1>3, <1>4 DEF RelcarNext

\* The types, of what a write stores and of what it is asked for.
LEMMA TypesWrite ==
  ASSUME TypeOK, RelcarTypes, NEW blob \in Blobs, NEW p \in 1 .. MaxProgs,
         Relocated(p, blob)
  PROVE  /\ DOMAIN mem' \subseteq Nat
         /\ \A o \in DOMAIN mem' : mem'[o] \in Int
         /\ asked' \subseteq (1 .. MaxProgs) \X Nat \X Relocation
<1>0. Start(blob) \in Nat /\ platform \in Platforms
  BY StartFacts DEF RelcarTypes
<1>1. PICK F : F = Fields(blob)
  OBVIOUS
<1>2. PICK C : C = Clear(Start(blob), Start(blob) + blob.len)
  OBVIOUS
<1>3. mem' = Over(F, C)
  BY <1>1, <1>2 DEF Relocated
<1>4. /\ DOMAIN mem' = DOMAIN F \cup DOMAIN C
      /\ \A o \in DOMAIN F : mem'[o] = F[o]
      /\ \A o \in DOMAIN C \ DOMAIN F : mem'[o] = C[o]
  BY <1>3 DEF Over
<1>5. ASSUME NEW o \in DOMAIN F PROVE o \in Nat /\ F[o] \in Int
  <2>1. PICK r \in Relocs(blob) : o \in Nat /\ F[o] = Patched(Start(blob) + r.offset, r)
    BY <1>1, <1>5, FieldsFacts
  <2>2. r \in Relocation /\ Start(blob) + r.offset \in Nat
    BY <1>0, BlobFacts
  <2> QED
    BY <1>0, <2>1, <2>2, DisplacementFacts
<1>6. ASSUME NEW o \in DOMAIN C PROVE o \in Nat /\ C[o] \in Int
  BY <1>2, <1>6 DEF Clear, RelcarTypes
<1>7. \A r \in Inside(blob) : r \in Relocation /\ Start(blob) + r.offset \in Nat
  BY <1>0, BlobFacts DEF Inside
<1>8. asked' = asked \cup {<<p, Start(blob) + r.offset, r>> : r \in Inside(blob)}
  BY DEF Relocated
<1> QED
  BY <1>4, <1>5, <1>6, <1>7, <1>8 DEF RelcarTypes

LEMMA RelcarTypesNext ==
  ASSUME TypeOK, RelcarTypes, [RelcarNext]_allVars
  PROVE  RelcarTypes'
<1>1. ASSUME NEW blob \in Blobs, WriteRelocated(blob)
      PROVE  RelcarTypes'
  <2>1. ~unwinding /\ unwinding' = unwinding /\ ~writable'
    BY <1>1 DEF WriteRelocated, Protected
  <2>2. \E p \in 1 .. MaxProgs : Relocated(p, blob)
    <3>1. CASE WriteFn(blob) /\ Relocated(progs + 1, blob)
      <4>1. progs + 1 \in 1 .. MaxProgs
        BY <3>1, SlabAssumption DEF TypeOK, WriteFn
      <4> QED
        BY <3>1, <4>1
    <3>2. CASE TxWrite(blob, TRUE) /\ Relocated(Top.id, blob)
      <4>1. Top.id \in 1 .. MaxProgs
        BY <3>2, TopFacts DEF TxWrite, Tx
      <4> QED
        BY <3>2, <4>1
    <3> QED
      BY <1>1, <3>1, <3>2 DEF WriteRelocated
  <2>3. /\ DOMAIN mem' \subseteq Nat
        /\ \A o \in DOMAIN mem' : mem'[o] \in Int
        /\ asked' \subseteq (1 .. MaxProgs) \X Nat \X Relocation
    BY <2>2, TypesWrite
  <2>4. UNCHANGED <<platform, build>>
    BY <1>1 DEF WriteRelocated
  <2> QED
    BY <2>1, <2>3, <2>4 DEF RelcarTypes
<1>2. ASSUME NEW blob \in Blobs, WritePanics(blob)
      PROVE  RelcarTypes'
  <2>1. unwinding' => InTx'
    BY <1>2 DEF WritePanics, vars, InTx
  <2>2. writable' => platform' = "macos"
    BY <1>2 DEF WritePanics
  <2>3. DOMAIN mem' \subseteq Nat /\ \A o \in DOMAIN mem' : mem'[o] \in Int
    BY <1>2 DEF WritePanics, Clear, RelcarTypes
  <2> QED
    BY <1>2, <2>1, <2>2, <2>3 DEF WritePanics, RelcarTypes
<1>3. CASE Forget /\ UNCHANGED <<platform, build, writable>> /\ (unwinding' => InTx')
  BY <1>3 DEF Forget, RelcarTypes
<1>4. CASE Unwind
  <2>1. Len(txs) > 1 => InTx'
    <3>1. InTx /\ txs' = SubSeq(txs, 1, Len(txs) - 1)
      BY <1>4 DEF Unwind, Abort
    <3>2. DOMAIN txs' = 1 .. Len(txs) - 1 /\ Len(txs) \in Nat
      BY <3>1, TopFacts
    <3> QED
      BY <3>2 DEF InTx
  <2> QED
    BY <1>3, <1>4, <2>1 DEF Unwind
<1>5. CASE Owner
  BY <1>3, <1>5 DEF Owner
<1>6. CASE ReleaseAny
  <2>1. txs' = txs /\ unwinding' = unwinding
    BY <1>6 DEF ReleaseAny, Release
  <2>2. unwinding' => InTx'
    BY <2>1 DEF InTx, RelcarTypes
  <2> QED
    BY <1>3, <1>6, <2>2 DEF ReleaseAny
<1>7. CASE UNCHANGED allVars
  BY <1>7 DEF allVars, vars, relcarVars, RelcarTypes, InTx
<1> QED
  BY <1>1, <1>2, <1>4, <1>5, <1>6, <1>7 DEF RelcarNext

-----------------------------------------------------------------------------

ServedInv == RelcarInv /\ RelcarTypes /\ AllServed

LEMMA ServedInitial == RelcarInit => ServedInv
<1> SUFFICES ASSUME RelcarInit PROVE ServedInv
  OBVIOUS
<1>1. mem = <<>> /\ DOMAIN mem = {} /\ asked = {}
  BY DEF RelcarInit
<1>2. RelcarTypes
  BY <1>1 DEF RelcarInit, RelcarTypes
<1> QED
  BY <1>1, <1>2, RelcarInitial DEF ServedInv, AllServed

LEMMA ServedStep == ServedInv /\ [RelcarNext]_allVars => ServedInv'
<1> SUFFICES ASSUME ServedInv, [RelcarNext]_allVars PROVE ServedInv'
  OBVIOUS
<1>1. RelcarInv /\ RelcarTypes /\ AllServed /\ TypeOK /\ LiveCodeIntact
  BY DEF ServedInv, RelcarInv, CountInv
<1> QED
  BY <1>1, RelcarStep, ServedNext, RelcarTypesNext DEF ServedInv

LEMMA ServedInvariant == RelcarSpec => []ServedInv
BY ServedInitial, ServedStep, PTL DEF RelcarSpec

\* Types, RELCAR's among them: only an open transaction is unwound, and only
\* on macOS can a thread lose the right to run the slab.
THEOREM RelcarTypesHold == RelcarSpec => []RelcarTypeOK
<1>1. ServedInv => RelcarTypeOK
  BY DEF ServedInv, RelcarInv, CountInv, RelcarTypes, RelcarTypeOK
<1> QED
  BY <1>1, ServedInvariant, PTL

\* Every relocation of a function in use does what it asks for, in so far as
\* its view does not matter: for every platform, build and function, whatever
\* is written, released, rolled back or panics after it.
THEOREM RelocationsServed == RelcarSpec => []RelocatedAsAsked
<1>1. ServedInv => RelocatedAsAsked
  BY DEF ServedInv, AllServed, Served, RelocatedAsAsked, InUse
<1> QED
  BY <1>1, ServedInvariant, PTL
=============================================================================
