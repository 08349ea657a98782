-------------------------- MODULE CoffrLinkProofs --------------------------
(***************************************************************************)
(* What linked code computes, for all object files whose relocations do    *)
(* not overlap, all resolvers and all users of the slab: every relocation  *)
(* of a program in use does what the object file asks for, as long as no   *)
(* section takes more trampolines than were counted; and none does, if no  *)
(* target is at the limit of reach.  On arm64, where all far calls of a    *)
(* section share a trampoline, no section has two.                         *)
(*                                                                         *)
(* Until it is relocated a field holds the addend of the object file; then *)
(* it holds what is Right, by itself or through a trampoline that no later *)
(* relocation takes; and whatever is written afterwards goes above the     *)
(* program.                                                                *)
(***************************************************************************)
EXTENDS CoffrProofs, Arm64FieldsProofs

-----------------------------------------------------------------------------
(* Fields and trampolines, given as functions. *)

\* The field of typ is in an instruction.
Patches(mach, typ) == mach = "arm64" /\ typ \in InstrTypes

\* What a displacement in the field is relative to.
Ip(mach, at, r) == IF mach = "arm64" THEN Base + at ELSE Base + at + 4 + r.tail

Congruent(mach, x, y) == IF mach = "x86" THEN (x - y) % (2 * Reach[mach]) = 0 ELSE x = y

\* What the object file has in the field, and what it asks for.
Given(mach, r) == IF Patches(mach, r.typ) THEN r.word ELSE r.addend

Want(mach, vs, r) ==
  Address(vs, r.symbol) + (IF Patches(mach, r.typ) THEN Addend(r.typ, r.word) ELSE r.addend)

\* The address that x in the field of r, at offset at, gives.
Lands(mach, at, r, x) ==
  IF Patches(mach, r.typ) THEN Meaning(r.typ, x, Base + at) ELSE Ip(mach, at, r) + x

Kept(mach, r, x) == Patches(mach, r.typ) => Opcode(r.typ, x) = Opcode(r.typ, r.word)

\* x in the field does by itself what r asks for.
Right(mach, vs, base, at, r, x) ==
  LET want == Want(mach, vs, r)
  IN  /\ Kept(mach, r, x)
      /\ CASE r.typ \in {"branch", "near", "cond", "test", "adr"} ->
                Congruent(mach, Lands(mach, at, r, x), want)
           [] r.typ = "adrp" -> Lands(mach, at, r, x) = want - (want % Page)
           [] r.typ \in {"pageoff", "pageoffl"} -> Lands(mach, at, r, x) = want % Page
           [] r.typ \in {"addr64", "addr32"} -> Congruent(mach, x, want)
           [] r.typ = "addr32nb" -> Congruent(mach, base + x, want)
           [] r.typ = "secrel" -> Congruent(mach, SectStart(vs, r.symbol) + x, want)
           [] r.typ = "section" -> Congruent(mach, x, SectIdx(r.symbol) + r.addend)
           [] r.typ = "none" -> x = r.addend
           [] OTHER -> FALSE

\* The n-th trampoline of the section viewed in v, and the end of its pool.
Tramp(v, n) == v.pool + StubLen * n
End(v)      == Tramp(v, v.count)

\* Relocation r of the section viewed in vs[i] is done, with one of the first
\* n trampolines if it takes one.
Good(m, st, mach, vs, base, i, r, n) ==
  LET at == vs[i].cursor + r.offset
  IN  /\ \A o \in WordsAt(at, r) : o \in DOMAIN m /\ m[o] = m[at]
      /\ \/ Right(mach, vs, base, at, r, m[at])
         \/ /\ r.typ = "branch" /\ Kept(mach, r, m[at])
            /\ \E k \in 0 .. n - 1 :
                 /\ Lands(mach, at, r, m[at]) = Base + Tramp(vs[i], k)
                 /\ Tramp(vs[i], k) \in DOMAIN st
                 /\ Congruent(mach, st[Tramp(vs[i], k)], Want(mach, vs, r))

\* The field of r, in a section at lo, is as in the object file.
Untouched(mach, m, lo, r) ==
  \A o \in WordsAt(lo + r.offset, r) : o \in DOMAIN m /\ m[o] = Given(mach, r)

\* The sections of obj in vs and their pools follow one another above lo ...
InOrder(vs, obj, lo) ==
  /\ \A i \in DOMAIN vs :
       /\ i \in DOMAIN obj.sections /\ vs[i] \in SectionView
       /\ lo <= vs[i].cursor
       /\ vs[i].cursor + obj.sections[i].len <= vs[i].pool
  /\ \A i, j \in DOMAIN vs : i < j => End(vs[i]) <= vs[j].cursor

\* ... and end below hi.
EndBelow(vs, hi) == \A i \in DOMAIN vs : End(vs[i]) <= hi

-----------------------------------------------------------------------------
(* The invariant. *)

\* The link lays its sections out above the mark of its transaction.
OrderOK ==
  ~NotLinking =>
    /\ InOrder(Views, link.obj, Top.cursor)
    /\ EndBelow(Views, IF In("count") THEN link.at ELSE cursor)
    /\ In("count") => Top.cursor <= link.at /\ link.at + Section.len <= cursor

\* The pools are blocks of the link's transaction, with their trampolines.
PoolsOK ==
  ~NotLinking =>
    \A i \in Keys :
      /\ Lies(code, Top.id, Get(i).pool, StubLen * Get(i).count)
      /\ \A n \in 0 .. Get(i).count - 1 : Tramp(Get(i), n) \in DOMAIN stubs

\* Before relocating, every field is as the object file has it.
RawOK ==
  (~NotLinking /\ ~In("relocate")) =>
    /\ link.used = 0
    /\ \A i \in Keys : \A r \in Range(link.obj.sections[i].relocs) : Untouched(machine, mem, Get(i).cursor, r)
    /\ In("count") => \A r \in Range(Section.relocs) : Untouched(machine, mem, link.at, r)

\* The walk has been at the k-th relocation of section i.
Walked(i, k) == i < link.todo[1] \/ (i = link.todo[1] /\ k < link.todo[2])

\* So many trampolines of section i are taken, as far as relocation r can
\* tell: on arm64, where all calls share the first, none but a far call.
Taken(i, r) ==
  IF machine = "arm64" THEN IF FarCall(r) THEN Get(i).count ELSE 0
  ELSE IF i = link.todo[1] THEN link.used ELSE Get(i).count

\* Relocating, what the walk has been at is done, the rest is untouched.
DoneOK ==
  In("relocate") =>
    /\ link.todo[1] \in Nat
    /\ Relocating => link.used <= View.count
    /\ \A i \in Keys : \A k \in DOMAIN link.obj.sections[i].relocs :
         LET r == link.obj.sections[i].relocs[k]
         IN  IF Walked(i, k)
               THEN Good(mem, stubs, machine, Views, link.base, i, r, Taken(i, r))
               ELSE Untouched(machine, mem, Get(i).cursor, r)

\* Program p is in use, and what was written after it went above it.
Stands(p) == Mapped(p) /\ p \notin undercut

\* Program p, linked as l says, has its pools in place and its relocations
\* done, below whatever is linked meanwhile.
Held(p, l) ==
  /\ p \in 1 .. progs
  /\ \A i \in DOMAIN txs : txs[i].id # p
  /\ l.obj \in Objects
  /\ Tracked(l.obj) \subseteq DOMAIN l.views
  /\ InOrder(l.views, l.obj, 0)
  /\ Mapped(p) => \A i \in DOMAIN l.views :
       Lies(code, p, l.views[i].pool, StubLen * l.views[i].count)
  /\ Stands(p) =>
       /\ \A i \in Tracked(l.obj) : \A r \in Range(l.obj.sections[i].relocs) :
            Good(mem, stubs, machine, l.views, l.base, i, r, l.views[i].count)
       /\ ~NotLinking => EndBelow(l.views, Top.cursor)

LoadedOK == \A p \in DOMAIN loaded : Held(p, loaded[p])

\* The link's object is for this machine, its image base is not above the mark
\* of its transaction, and what it places is aligned.
PlacesOK ==
  ~NotLinking =>
    /\ link.obj.arch = machine
    /\ link.base <= Base + Top.cursor
    /\ \A i \in Keys : /\ (Base + Get(i).cursor) % link.obj.sections[i].align = 0
                       /\ (Base + Get(i).pool) % StubLen = 0
    /\ In("count") => (Base + link.at) % Section.align = 0

FieldsInv == OrderOK /\ PoolsOK /\ RawOK /\ DoneOK /\ LoadedOK /\ PlacesOK

\* What is asked of objects for arm64, and what their links need besides.
Formed  == machine = "arm64" => WellFormed /\ LoneCalls
Covered == machine = "arm64" => WellFormed /\ LoneCalls /\ SectionRelocsFit

-----------------------------------------------------------------------------
(* The arithmetic of a field. *)

LEMMA CongruentFacts ==
  ASSUME NEW mach \in Machines, NEW x \in Int, NEW w \in Int
  PROVE  /\ Congruent(mach, x, x)
         /\ mach = "x86" => Congruent(mach, w + (x % (2 * Reach[mach])), w + x)
<1>1. Reach[mach] \in Nat \ {0} /\ 2 * Reach[mach] \in Nat \ {0}
  BY CoffrAssumption
<1>2. PICK m \in Nat \ {0} : m = 2 * Reach[mach]
  BY <1>1
<1>3. (x - x) % m = 0
  BY MultipleRemains
<1>4. x % m \in Int /\ ((x % m) - x) % m = 0
  BY RemainderCongruent
<1>5. (w + (x % m)) - (w + x) = (x % m) - x
  BY <1>4
<1> QED
  BY <1>2, <1>3, <1>4, <1>5 DEF Congruent

\* The numbers a relocation against sections in vs is computed from.
Numbers(vs, r) ==
  /\ r.addend \in Int /\ r.tail \in Int
  /\ Address(vs, r.symbol) \in Int /\ SectStart(vs, r.symbol) \in Int
  /\ SectIdx(r.symbol) \in Int

LEMMA PatchesFacts ==
  /\ \A typ : Patches(machine, typ) <=> Instr(typ)
  /\ \A r : Given(machine, r) = IF Instr(r.typ) THEN r.word ELSE r.addend
BY DEF Patches, Instr, Given

\* The addend of an instruction, and of all else that fits its field, is read
\* as the object file has it.
LEMMA InstrRead == \A r, x : Instr(r.typ) => ReadAddend(r, x) = Addend(r.typ, x)
BY DEF ReadAddend, ReadUnsigned, Instr, InstrTypes

LEMMA AddendRead ==
  ASSUME machine \in Machines, NEW r, r.addend \in Int,
         ReadUnsigned(r) => r.addend \in 0 .. 2 * Reach["arm64"] - 1
  PROVE  ~Instr(r.typ) => ReadAddend(r, r.addend) = r.addend
<1> SUFFICES ASSUME ~Instr(r.typ)
             PROVE  ReadAddend(r, r.addend) = r.addend
  OBVIOUS
<1>1. CASE ReadUnsigned(r)
  <2>1. machine = "arm64" /\ Reach[machine] \in Nat \ {0}
    BY <1>1, CoffrAssumption DEF ReadUnsigned
  <2>2. PICK m \in Nat \ {0}, a \in Int : m = 2 * Reach[machine] /\ a = r.addend
    BY <2>1
  <2>3. a \in 0 .. m - 1
    BY <1>1, <2>1, <2>2
  <2>4. a % m = a
    BY <2>2, <2>3
  <2> QED
    BY <1>1, <2>2, <2>4 DEF ReadAddend
<1>2. CASE ~ReadUnsigned(r)
  BY <1>2 DEF ReadAddend
<1> QED
  BY <1>1, <1>2

\* What a relocator writes into a field other than an instruction's is right.
LEMMA ValueRight ==
  ASSUME machine \in Machines, NEW vs, NEW base \in Int, NEW at \in Int, NEW r, Numbers(vs, r),
         Known(r.typ), r.typ # "none", ~Instr(r.typ),
         machine = "arm64" /\ r.typ = "section" => r.addend = 0,
         ReadAddend(r, r.addend) = r.addend
  PROVE  LET v == Value(vs, base, at, r, r.addend)
         IN  v \in Int /\ Right(machine, vs, base, at, r, Patched(r.typ, r.addend, v))
<1>1. PICK v : v = Value(vs, base, at, r, r.addend)
  OBVIOUS
<1>2. PICK a \in Int, t \in Int, s \in Int, d \in Int, n \in Int, ip \in Int :
        /\ a = r.addend /\ t = r.tail /\ s = Address(vs, r.symbol)
        /\ d = SectStart(vs, r.symbol) /\ n = SectIdx(r.symbol)
        /\ ip = Base + at + (IF machine = "arm64" THEN 0 ELSE 4 + t)
  BY SlabAssumption DEF Numbers
<1>3. /\ machine \in {"x64", "x86", "arm64"} /\ ~Patches(machine, r.typ)
      /\ r.typ \in {"section", "near", "addr32", "addr32nb", "addr64", "secrel", "branch"}
  BY CoffrAssumption, PatchesFacts DEF Known
<1>4. /\ Target(vs, r, r.addend) = s + a /\ Want(machine, vs, r) = s + a /\ Pc(at, r) = ip
      /\ \A x : Lands(machine, at, r, x) = Ip(machine, at, r) + x
      /\ \A x : Kept(machine, r, x)
  BY <1>2, <1>3 DEF Target, Want, Pc, Lands, Kept
<1>i. Ip(machine, at, r) = ip
  <2>1. CASE machine = "arm64"
    <3>1. Ip(machine, at, r) = Base + at
      BY <2>1 DEF Ip
    <3> QED
      BY <1>2, <2>1, <3>1, SlabAssumption
  <2>2. CASE machine # "arm64"
    <3>1. Ip(machine, at, r) = Base + at + 4 + t
      BY <1>2, <2>2 DEF Ip
    <3> QED
      BY <1>2, <2>2, <3>1, SlabAssumption
  <2> QED
    BY <2>1, <2>2
<1>5. /\ r.typ \in {"addr64", "addr32"} => v = s + a
      /\ r.typ = "addr32nb" => v = (s + a) - base
      /\ r.typ = "secrel" => v = (s + a) - d
      /\ r.typ = "section" => v = n + a
      /\ r.typ \in {"branch", "near"} => v = (s + a) - ip
  <2>1. machine = "arm64" /\ r.typ = "section" => n + 0 = n + a
    BY <1>2
  <2> QED
    BY <1>1, <1>2, <1>3, <1>4, <2>1 DEF Value
<1>6. v \in Int
  BY <1>2, <1>3, <1>5
<1>7. ASSUME NEW w \in Int
      PROVE  Congruent(machine, w + Patched(r.typ, r.addend, v), w + v)
  <2>1. CASE machine = "x86"
    <3>1. Patched(r.typ, r.addend, v) = v % (2 * Reach[machine])
      BY <2>1 DEF Patched
    <3> QED
      BY <1>6, <2>1, <3>1, CongruentFacts
  <2>2. CASE machine # "x86"
    <3>1. Patched(r.typ, r.addend, v) = v
      BY <2>2 DEF Patched
    <3> QED
      BY <1>6, <2>2, <3>1 DEF Congruent
  <2> QED
    BY <2>1, <2>2
<1>8. Patched(r.typ, r.addend, v) \in Int
  <2>1. 2 * Reach[machine] \in Nat \ {0}
    BY CoffrAssumption
  <2>2. v % (2 * Reach[machine]) \in Int
    BY <1>6, <2>1, Euclid
  <2> QED
    BY <1>6, <2>2 DEF Patched
<1>9. PICK x \in Int : x = Patched(r.typ, r.addend, v)
  BY <1>8
<1>10. Right(machine, vs, base, at, r, x)
  <2>1. CASE r.typ \in {"branch", "near"}
    <3>1. ip + v = s + a
      BY <1>2, <1>5, <2>1
    <3>2. Congruent(machine, ip + x, s + a)
      BY <1>7, <1>9, <3>1
    <3> QED
      BY <1>4, <1>i, <2>1, <3>2 DEF Right
  <2>2. CASE r.typ \in {"addr64", "addr32"}
    <3>1. 0 + v = s + a /\ 0 + x = x
      BY <1>2, <1>5, <1>9, <2>2
    <3>2. Congruent(machine, x, s + a)
      BY <1>7, <1>9, <3>1
    <3> QED
      BY <1>4, <2>2, <3>2 DEF Right
  <2>3. CASE r.typ = "addr32nb"
    <3>1. base + v = s + a
      BY <1>2, <1>5, <2>3
    <3>2. Congruent(machine, base + x, s + a)
      BY <1>7, <1>9, <3>1
    <3> QED
      BY <1>4, <2>3, <3>2 DEF Right
  <2>4. CASE r.typ = "secrel"
    <3>1. d + v = s + a
      BY <1>2, <1>5, <2>4
    <3>2. Congruent(machine, d + x, s + a)
      BY <1>7, <1>9, <3>1
    <3> QED
      BY <1>2, <1>4, <2>4, <3>2 DEF Right
  <2>5. CASE r.typ = "section"
    <3>1. 0 + v = n + a /\ 0 + x = x
      BY <1>2, <1>5, <1>9, <2>5
    <3>2. Congruent(machine, x, n + a)
      BY <1>7, <1>9, <3>1
    <3> QED
      BY <1>2, <1>4, <2>5, <3>2 DEF Right
  <2> QED
    BY <1>3, <2>1, <2>2, <2>3, <2>4, <2>5
<1> QED
  BY <1>1, <1>6, <1>9, <1>10

LEMMA PatchGives ==
  ASSUME NEW typ \in InstrTypes, NEW word \in SUBSET (0 .. 31),
         typ = "pageoffl" => WellSized(word), NEW target \in Int, NEW p \in Int,
         Encodable(typ, word, target, p), typ \in Branches => (target - p) % 4 = 0,
         NEW w, w = Instruction(typ, word, Encoded(typ, word, target, p))
  PROVE  /\ Opcode(typ, w) = Opcode(typ, word)
         /\ typ = "adrp" => Meaning(typ, w, p) = target - (target % Page)
         /\ typ \in {"pageoff", "pageoffl"} => Meaning(typ, w, p) = target % Page
         /\ typ \in {"branch", "cond", "test", "adr"} => Meaning(typ, w, p) = target
<1>1. typ \in {"branch", "cond", "test"} => (target - p) % 4 = 0
  BY DEF Branches
<1>2. /\ Opcode(typ, w) = Opcode(typ, word)
      /\ Meaning(typ, w, p) =
           CASE typ = "adrp" -> target - (target % Page)
             [] typ \in {"pageoff", "pageoffl"} -> target % Page
             [] OTHER -> target
  BY <1>1, PatchedInstruction
<1> QED
  BY <1>2

\* An instruction that can be patched for what r asks for is right, too.
LEMMA InstructionRight ==
  ASSUME NEW vs, NEW base, NEW at, NEW r, Instr(r.typ), Base + at \in Int,
         r.word \in SUBSET (0 .. 31), r.typ = "pageoffl" => WellSized(r.word),
         NEW want \in Int, want = Want(machine, vs, r), Encodable(r.typ, r.word, want, Base + at),
         r.typ \in Branches => (want - (Base + at)) % 4 = 0
  PROVE  Right(machine, vs, base, at, r,
               Instruction(r.typ, r.word, Encoded(r.typ, r.word, want, Base + at)))
<1>1. r.typ \in InstrTypes /\ machine = "arm64" /\ Patches(machine, r.typ)
  BY PatchesFacts DEF Instr
<1>2. PICK typ, word, w, p : /\ typ = r.typ /\ word = r.word /\ p = Base + at
                             /\ w = Instruction(typ, word, Encoded(typ, word, want, p))
  OBVIOUS
<1>3. /\ Opcode(r.typ, w) = Opcode(r.typ, r.word)
      /\ r.typ = "adrp" => Meaning(r.typ, w, p) = want - (want % Page)
      /\ r.typ \in {"pageoff", "pageoffl"} => Meaning(r.typ, w, p) = want % Page
      /\ r.typ \in {"branch", "cond", "test", "adr"} => Meaning(r.typ, w, p) = want
  <2>1. /\ typ \in InstrTypes /\ word \in SUBSET (0 .. 31) /\ p \in Int
        /\ typ = "pageoffl" => WellSized(word)
        /\ typ \in Branches => (want - p) % 4 = 0
    BY <1>1, <1>2
  <2>2. Encodable(typ, word, want, p)
    BY <1>2
  <2>3. /\ Opcode(typ, w) = Opcode(typ, word)
        /\ typ = "adrp" => Meaning(typ, w, p) = want - (want % Page)
        /\ typ \in {"pageoff", "pageoffl"} => Meaning(typ, w, p) = want % Page
        /\ typ \in {"branch", "cond", "test", "adr"} => Meaning(typ, w, p) = want
    BY <1>2, <2>1, <2>2, PatchGives
  <2> QED
    BY <1>2, <2>3
<1>4. Kept(machine, r, w) /\ Lands(machine, at, r, w) = Meaning(r.typ, w, p)
  BY <1>1, <1>2, <1>3 DEF Kept, Lands
<1>5. \A x, y : Congruent(machine, x, y) <=> x = y
  BY <1>1 DEF Congruent
<1>6. Right(machine, vs, base, at, r, w)
  <2>1. CASE r.typ = "adrp"
    BY <1>3, <1>4, <2>1 DEF Right
  <2>2. CASE r.typ \in {"pageoff", "pageoffl"}
    BY <1>3, <1>4, <2>2 DEF Right
  <2>3. CASE r.typ \in {"branch", "cond", "test", "adr"}
    BY <1>3, <1>4, <1>5, <2>3 DEF Right
  <2> QED
    BY <1>1, <2>1, <2>2, <2>3 DEF InstrTypes
<1> QED
  BY <1>2, <1>6

-----------------------------------------------------------------------------
(* What a write leaves alone. *)

\* g has the items of f, w bytes long, that end below hi.
Below(f, g, w, hi) == \A o \in DOMAIN f : o + w <= hi => o \in DOMAIN g /\ g[o] = f[o]

LEMMA ClearBelow ==
  ASSUME NEW f, NEW w, NEW lo, NEW hi
  PROVE  Below(f, Clear(f, w, lo, hi), w, lo)
BY DEF Clear, Below

LEMMA BelowLess ==
  ASSUME NEW f, NEW g, NEW w \in Nat, NEW lo \in Int, NEW hi \in Int, lo <= hi,
         DOMAIN f \subseteq Int, Below(f, g, w, hi)
  PROVE  Below(f, g, w, lo)
<1> SUFFICES ASSUME NEW o \in DOMAIN f, o + w <= lo
             PROVE  o \in DOMAIN g /\ g[o] = f[o]
  BY DEF Below
<1>1. o \in Int /\ o + w <= hi
  OBVIOUS
<1> QED
  BY <1>1 DEF Below

\* The fields and the trampolines of a section that was laid out.
LEMMA Laid ==
  ASSUME NEW obj \in Objects, NEW vs, NEW lo, InOrder(vs, obj, lo), NEW i \in DOMAIN vs
  PROVE  /\ i \in DOMAIN obj.sections /\ obj.sections[i].len \in Nat
         /\ vs[i].cursor \in Nat /\ vs[i].pool \in Nat /\ vs[i].count \in Nat
         /\ vs[i].cursor + obj.sections[i].len <= vs[i].pool
         /\ End(vs[i]) \in Nat /\ vs[i].pool <= End(vs[i])
         /\ \A r \in Range(obj.sections[i].relocs) :
              /\ r.offset \in Nat /\ r.tail \in Nat
              /\ vs[i].cursor + r.offset + 4 <= vs[i].pool
              /\ vs[i].cursor + r.offset + FieldLen(r) <= vs[i].pool
              /\ \A o \in WordsAt(vs[i].cursor + r.offset, r) :
                   o \in Nat /\ vs[i].cursor + r.offset <= o /\ o + 4 <= vs[i].pool
         /\ \A n \in 0 .. vs[i].count - 1 :
              /\ Tramp(vs[i], n) \in Nat /\ vs[i].pool <= Tramp(vs[i], n)
              /\ Tramp(vs[i], n) + StubLen <= End(vs[i])
<1>1. /\ i \in DOMAIN obj.sections /\ vs[i] \in SectionView
      /\ vs[i].cursor + obj.sections[i].len <= vs[i].pool
  BY DEF InOrder
<1>2. PICK c \in Nat, p \in Nat, n \in Nat : c = vs[i].cursor /\ p = vs[i].pool /\ n = vs[i].count
  BY <1>1 DEF SectionView
<1>3. PICK len \in Nat : len = obj.sections[i].len
  BY <1>1, RelocFacts
<1>4. End(vs[i]) = p + 16 * n
  BY <1>2 DEF End, Tramp, StubLen
<1>5. \A r \in Range(obj.sections[i].relocs) :
        /\ r.offset \in Nat /\ r.tail \in Nat
        /\ FieldLen(r) \in {4, 8} /\ r.offset + FieldLen(r) <= len
  BY <1>1, <1>3, RelocFacts
<1>6. c + len <= p
  BY <1>1, <1>2, <1>3
<1>7. ASSUME NEW r \in Range(obj.sections[i].relocs)
      PROVE  /\ c + r.offset + 4 <= p /\ c + r.offset + FieldLen(r) <= p
             /\ \A o \in WordsAt(c + r.offset, r) : o \in Nat /\ c + r.offset <= o /\ o + 4 <= p
  <2>1. PICK at \in Nat, l \in {4, 8} : at = c + r.offset /\ l = FieldLen(r) /\ at + l <= p
    BY <1>5, <1>6
  <2>2. \A o \in WordsAt(at, r) : o \in Nat /\ at <= o /\ o + 4 <= at + l
    BY <2>1, WordFacts
  <2> QED
    BY <2>1, <2>2
<1>8. \A k \in 0 .. n - 1 : /\ Tramp(vs[i], k) \in Nat /\ p <= Tramp(vs[i], k)
                            /\ Tramp(vs[i], k) + StubLen <= p + 16 * n
  <2>1. \A k : Tramp(vs[i], k) = p + 16 * k
    BY <1>2 DEF Tramp, StubLen
  <2>2. \A k \in 0 .. n - 1 : p + 16 * k \in Nat /\ p <= p + 16 * k /\ p + 16 * k + 16 <= p + 16 * n
    OBVIOUS
  <2> QED
    BY <2>1, <2>2 DEF StubLen
<1> QED
  BY <1>1, <1>2, <1>3, <1>4, <1>5, <1>7, <1>8

\* A relocation stays done when its field and the trampolines stay.
LEMMA GoodKept ==
  ASSUME NEW m, NEW st, NEW m2, NEW st2, NEW mach, NEW vs, NEW base, NEW i, NEW r,
         NEW n \in Nat, NEW n2 \in Nat, n <= n2,
         Good(m, st, mach, vs, base, i, r, n),
         \A o \in WordsAt(vs[i].cursor + r.offset, r) :
           o \in DOMAIN m => o \in DOMAIN m2 /\ m2[o] = m[o],
         \A k \in 0 .. n - 1 : Tramp(vs[i], k) \in DOMAIN st =>
           Tramp(vs[i], k) \in DOMAIN st2 /\ st2[Tramp(vs[i], k)] = st[Tramp(vs[i], k)]
  PROVE  Good(m2, st2, mach, vs, base, i, r, n2)
<1>1. \A k \in 0 .. n - 1 : k \in 0 .. n2 - 1
  OBVIOUS
<1>2. PICK at, v : at = vs[i].cursor + r.offset /\ v = vs[i]
  OBVIOUS
<1>3. at \in WordsAt(at, r)
  BY DEF WordsAt
<1>4. m2[at] = m[at] /\ \A o \in WordsAt(at, r) : o \in DOMAIN m2 /\ m2[o] = m2[at]
  BY <1>2, <1>3 DEF Good
<1> QED
  BY <1>1, <1>2, <1>4 DEF Good

LEMMA GoodMore ==
  ASSUME NEW m, NEW st, NEW mach, NEW vs, NEW base, NEW i, NEW r,
         NEW n \in Nat, NEW n2 \in Nat, n <= n2, Good(m, st, mach, vs, base, i, r, n)
  PROVE  Good(m, st, mach, vs, base, i, r, n2)
BY GoodKept

\* In particular when all that changes is above the section.
LEMMA GoodBelow ==
  ASSUME NEW obj \in Objects, NEW vs, NEW lo, InOrder(vs, obj, lo), NEW i \in DOMAIN vs,
         NEW hi \in Nat, End(vs[i]) <= hi,
         NEW m, NEW st, NEW m2, NEW st2, Below(m, m2, 4, hi), Below(st, st2, StubLen, hi),
         NEW mach, NEW base, NEW r \in Range(obj.sections[i].relocs),
         NEW n \in 0 .. vs[i].count, Good(m, st, mach, vs, base, i, r, n)
  PROVE  Good(m2, st2, mach, vs, base, i, r, n)
<1>0. vs[i].pool \in Nat /\ End(vs[i]) \in Nat /\ vs[i].count \in Nat
  BY Laid
<1>a. PICK at : at = vs[i].cursor + r.offset
  OBVIOUS
<1>1. PICK p \in Nat, e \in Nat, c \in Nat :
        p = vs[i].pool /\ e = End(vs[i]) /\ c = vs[i].count
  BY <1>0
<1>2. p <= e /\ \A o \in WordsAt(at, r) : o \in Nat /\ o + 4 <= p
  BY <1>a, <1>1, Laid
<1>4. ASSUME NEW o \in WordsAt(at, r), o \in DOMAIN m
      PROVE  o \in DOMAIN m2 /\ m2[o] = m[o]
  <2>1. o + 4 <= hi
    BY <1>1, <1>2
  <2> QED
    BY <1>4, <2>1 DEF Below
<1>5. ASSUME NEW k \in 0 .. n - 1, Tramp(vs[i], k) \in DOMAIN st
      PROVE  Tramp(vs[i], k) \in DOMAIN st2 /\ st2[Tramp(vs[i], k)] = st[Tramp(vs[i], k)]
  <2>1. k \in 0 .. vs[i].count - 1
    BY <1>1
  <2>2. PICK t \in Nat : t = Tramp(vs[i], k) /\ t + StubLen <= e
    BY <1>1, <2>1, Laid
  <2>3. t + StubLen <= hi
    BY <1>1, <2>2 DEF StubLen
  <2> QED
    BY <1>5, <2>2, <2>3 DEF Below
<1>6. n \in Nat
  BY <1>1
<1> QED
  BY <1>a, <1>1, <1>4, <1>5, <1>6, GoodKept

LEMMA UntouchedBelow ==
  ASSUME NEW obj \in Objects, NEW vs, NEW lo, InOrder(vs, obj, lo), NEW i \in DOMAIN vs,
         NEW hi \in Nat, End(vs[i]) <= hi, NEW m, NEW m2, Below(m, m2, 4, hi),
         NEW r \in Range(obj.sections[i].relocs), NEW mach, Untouched(mach, m, vs[i].cursor, r)
  PROVE  Untouched(mach, m2, vs[i].cursor, r)
<1>0. PICK at : at = vs[i].cursor + r.offset
  OBVIOUS
<1>1. PICK p \in Nat, e \in Nat : at = vs[i].cursor + r.offset /\ p = vs[i].pool /\ e = End(vs[i])
  BY <1>0, Laid
<1>2. p <= e /\ \A o \in WordsAt(at, r) : o \in Nat /\ o + 4 <= p
  BY <1>1, Laid
<1>3. ASSUME NEW o \in WordsAt(at, r)
      PROVE  o \in DOMAIN m2 /\ m2[o] = Given(mach, r)
  <2>1. o + 4 <= hi
    BY <1>1, <1>2
  <2>2. o \in DOMAIN m /\ m[o] = Given(mach, r)
    BY <1>0 DEF Untouched
  <2> QED
    BY <2>1, <2>2 DEF Below
<1> QED
  BY <1>1, <1>3 DEF Untouched

\* A relocation that is done does what the object asks for.
LEMMA GoodResolves ==
  ASSUME NEW prog, NEW obj \in Objects, NEW lo,
         InOrder(prog.views, obj, lo), NEW i \in DOMAIN prog.views,
         NEW r \in Range(obj.sections[i].relocs),
         Good(mem, stubs, machine, prog.views, prog.base, i, r, prog.views[i].count)
  PROVE  Resolves(prog, i, r)
<1>1. PICK vs, at : vs = prog.views /\ at = vs[i].cursor + r.offset
  OBVIOUS
<1>2. at \in Nat /\ r.tail \in Nat
  BY <1>1, Laid
<1>3. PICK want : want = Want(machine, vs, r)
  OBVIOUS
<1>4. Address(vs, r.symbol) + AddendOf(machine, r) = want
  BY <1>3 DEF AddendOf, Want, Patches
<1>w. \A o \in WordsAt(at, r) : o \in DOMAIN mem /\ mem[o] = mem[at]
  BY <1>1 DEF Good
<1>5. Reached(at, r) = Lands(machine, at, r, mem[at])
  <2>1. NextIp(at, r) = Ip(machine, at, r)
    <3>1. CASE machine = "arm64"
      BY <3>1 DEF NextIp, Ip
    <3>2. CASE machine # "arm64"
      <4>1. NextIp(at, r) = Base + (at + 4 + r.tail) /\ Ip(machine, at, r) = Base + at + 4 + r.tail
        BY <3>2 DEF NextIp, Ip
      <4> QED
        BY <1>2, <4>1, SlabAssumption
    <3> QED
      BY <3>1, <3>2
  <2> QED
    BY <2>1, PatchesFacts DEF Reached, Lands
<1>6. \A x, y : Equal(x, y) <=> Congruent(machine, x, y)
  BY DEF Equal, Congruent
<1>7. Kept(machine, r, mem[at]) => (Instr(r.typ) => Opcode(r.typ, mem[at]) = Opcode(r.typ, r.word))
  BY PatchesFacts DEF Kept
<1>8. ASSUME r.typ = "branch", NEW k \in 0 .. vs[i].count - 1,
             Lands(machine, at, r, mem[at]) = Base + Tramp(vs[i], k),
             Tramp(vs[i], k) \in DOMAIN stubs, Congruent(machine, stubs[Tramp(vs[i], k)], want)
      PROVE  Leads(at, r, want)
  <2>1. PICK t \in Nat : t = Tramp(vs[i], k)
    BY <1>1, Laid
  <2>2. Reached(at, r) - Base = t
    BY <1>5, <1>8, <2>1, SlabAssumption
  <2> QED
    BY <1>6, <1>8, <2>1, <2>2 DEF Leads
<1>9. ASSUME Right(machine, vs, prog.base, at, r, mem[at])
      PROVE  Resolves(prog, i, r)
  <2>1. Kept(machine, r, mem[at])
    BY <1>9 DEF Right
  <2> QED
    BY <1>1, <1>3, <1>4, <1>w, <1>5, <1>6, <1>7, <1>9, <2>1 DEF Resolves, Right, Leads
<1>10. ASSUME r.typ = "branch", Kept(machine, r, mem[at]), Leads(at, r, want)
       PROVE  Resolves(prog, i, r)
  BY <1>1, <1>4, <1>w, <1>7, <1>10 DEF Resolves
<1> QED
  BY <1>1, <1>3, <1>8, <1>9, <1>10 DEF Good

-----------------------------------------------------------------------------
(* The link's own steps write above the mark of its transaction, all others *)
(* above the cursor.                                                        *)

LEMMA ViewsFacts == DOMAIN Views = Keys /\ \A k \in Keys : Views[k] = Get(k)
BY DEF Views

LEMMA ViewsKept ==
  ASSUME UNCHANGED cacheVars
  PROVE  Keys' = Keys /\ Views' = Views
<1>1. idmap' = idmap /\ views' = views
  BY DEF cacheVars
<1> QED
  BY <1>1 DEF Keys, Views, Get

LEMMA LinkFacts ==
  ASSUME CoffrInv, CoffrTypes, ~NotLinking
  PROVE  /\ CountInv /\ TypeOK /\ InTx /\ Base \in Nat
         /\ cursor \in Nat /\ Top.cursor \in Nat /\ Top.cursor <= cursor
         /\ DOMAIN link = LinkFields /\ link.obj \in Objects
         /\ link.base \in Nat /\ link.used \in Nat /\ link.sec \in Nat /\ link.at \in Nat
         /\ Keys \subseteq DOMAIN link.obj.sections
         /\ Keys \subseteq Tracked(link.obj)
         /\ Keys \subseteq Nat
<1>1. CountInv /\ TypeOK /\ InTx /\ Watermarks /\ LinkOK /\ CacheInv /\ Base \in Nat
  BY SlabAssumption DEF CoffrInv, SlabInv, CountInv, LayoutOK
<1>2. Len(txs) \in DOMAIN txs /\ Top = txs[Len(txs)] /\ Top \in Tx
  BY <1>1, TopFacts
<1>3. cursor \in Nat /\ Top.cursor \in Nat /\ Top.cursor <= cursor
  BY <1>1, <1>2 DEF TypeOK, Tx, Watermarks
<1>4. /\ DOMAIN link = LinkFields /\ link.obj \in Objects
      /\ link.sec \in Nat /\ link.at \in Nat /\ link.base \in Nat /\ link.used \in Nat
  BY <1>1 DEF LinkOK, CoffrTypes
<1>5. Keys \subseteq Tracked(link.obj)
  <2>1. borrowed
    BY <1>1 DEF CacheInv, NotLinking
  <2> QED
    BY <2>1 DEF CoffrTypes
<1>6. Keys \subseteq DOMAIN link.obj.sections
  BY <1>5 DEF Tracked
<1>7. Keys \subseteq Nat
  <2>1. link.obj.sections \in Seq(Range(link.obj.sections))
    BY <1>4, CoffrAssumption
  <2> QED
    BY <1>6, <2>1
<1> QED
  BY <1>1, <1>3, <1>4, <1>5, <1>6, <1>7

LEMMA StartAbove ==
  ASSUME TypeOK, NEW a \in Nat \ {0}
  PROVE  /\ StartOffset(Base, cursor, a) \in Nat
         /\ cursor <= StartOffset(Base, cursor, a)
<1>1. Base \in Nat /\ cursor \in Nat /\ Base + cursor \in Nat
  BY SlabAssumption DEF TypeOK
<1>2. AlignUp(Base + cursor, a) \in Nat /\ Base + cursor <= AlignUp(Base + cursor, a)
  BY <1>1, AlignUpFacts
<1> QED
  BY <1>1, <1>2 DEF StartOffset

LEMMA OverBelow ==
  ASSUME NEW f, NEW g, NEW m, NEW w \in Nat \ {0}, NEW lo \in Nat,
         DOMAIN m \subseteq Nat, \A o \in DOMAIN f : o \in Nat /\ lo <= o,
         Below(m, g, w, lo)
  PROVE  Below(m, Over(f, g), w, lo)
<1> SUFFICES ASSUME NEW o \in DOMAIN m, o + w <= lo
             PROVE  o \in DOMAIN Over(f, g) /\ Over(f, g)[o] = m[o]
  BY DEF Below
<1>1. o \in DOMAIN g /\ g[o] = m[o]
  BY DEF Below
<1>2. o \notin DOMAIN f
  <2>1. o \in Nat /\ ~(lo <= o)
    OBVIOUS
  <2> QED
    BY <2>1
<1> QED
  BY <1>1, <1>2 DEF Over

\* Below this offset nothing is written.
Floor == IF NotLinking THEN cursor ELSE Top.cursor

\* The places a relocation writes to.
LEMMA PatchedPlaces ==
  ASSUME CoffrInv, CoffrTypes, OrderOK, Relocating
  PROVE  /\ link.todo[1] \in Keys /\ link.todo[1] \in DOMAIN link.obj.sections
         /\ link.todo[2] \in DOMAIN Relocs
         /\ Reloc \in Range(link.obj.sections[link.todo[1]].relocs)
         /\ At \in Nat /\ Top.cursor <= At /\ At + 4 <= View.pool
         /\ Stub \in Nat /\ View.pool <= Stub
         /\ View = Views[link.todo[1]]
<1>1. ~NotLinking /\ In("relocate")
  BY DEF Relocating, NotLinking, In
<1>2. /\ link.todo[1] \in Tracked(link.obj) /\ link.todo[2] \in DOMAIN Relocs
      /\ link.todo[1] \in Keys
  BY ViewsThere DEF CoffrInv, WalkOK, ViewsComplete
<1>3. link.todo[1] \in DOMAIN link.obj.sections
  BY <1>2 DEF Tracked
<1>4. Reloc \in Range(link.obj.sections[link.todo[1]].relocs)
  BY <1>2 DEF Reloc, Relocs, Range
<1>o. PICK obj \in Objects : obj = link.obj
  BY <1>1, LinkFacts
<1>p. PICK vs, i, r : vs = Views /\ i = link.todo[1] /\ r = Reloc
  OBVIOUS
<1>5. obj = link.obj /\ vs = Views /\ i = link.todo[1] /\ r = Reloc
  BY <1>o, <1>p
<1>6. /\ Top.cursor \in Nat /\ InOrder(vs, obj, Top.cursor) /\ i \in DOMAIN vs
      /\ r \in Range(obj.sections[i].relocs) /\ vs[i] = View /\ link.used \in Nat
  BY <1>1, <1>2, <1>4, <1>5, LinkFacts, ViewsFacts DEF OrderOK, View
<1>7. Top.cursor <= vs[i].cursor
  BY <1>6 DEF InOrder
<1>8. /\ vs[i].cursor \in Nat /\ vs[i].pool \in Nat /\ r.offset \in Nat
      /\ vs[i].cursor + r.offset + 4 <= vs[i].pool
  BY <1>6, Laid
<1>9. At = vs[i].cursor + r.offset /\ Stub = vs[i].pool + 16 * link.used
  BY <1>5, <1>6 DEF At, Stub, StubLen
<1>10. At \in Nat /\ Top.cursor <= At /\ At + 4 <= vs[i].pool
  BY <1>6, <1>7, <1>8, <1>9
<1>11. Stub \in Nat /\ vs[i].pool <= Stub
  BY <1>6, <1>8, <1>9
<1> QED
  BY <1>2, <1>3, <1>4, <1>5, <1>6, <1>10, <1>11

LEMMA FloorWrites ==
  ASSUME CoffrInv, CoffrTypes, OrderOK, TrackData \/ TrackPool
  PROVE  Below(mem, mem', 4, Top.cursor) /\ Below(stubs, stubs', StubLen, Top.cursor)
<1>1. ~NotLinking /\ InSections
  BY DEF TrackData, TrackPool, NotLinking, In, CoffrInv, LinkOK
<1>2. /\ TypeOK /\ cursor \in Nat /\ Top.cursor \in Nat /\ Top.cursor <= cursor
      /\ DOMAIN mem \subseteq Nat /\ DOMAIN stubs \subseteq Nat
      /\ StubLen \in Nat \ {0} /\ 4 \in Nat \ {0} /\ 4 \in Nat /\ StubLen \in Nat
  BY <1>1, LinkFacts DEF CoffrTypes, StubLen
<1>3. \A f, g, w, lo : (/\ w \in Nat /\ lo \in Nat /\ cursor <= lo /\ DOMAIN f \subseteq Nat
                       /\ Below(f, g, w, lo)) => Below(f, g, w, Top.cursor)
  <2> TAKE f, g, w, lo
  <2> HAVE /\ w \in Nat /\ lo \in Nat /\ cursor <= lo /\ DOMAIN f \subseteq Nat
           /\ Below(f, g, w, lo)
  <2>1. Top.cursor <= lo /\ Top.cursor \in Int /\ lo \in Int /\ DOMAIN f \subseteq Int
    BY <1>2
  <2> QED
    BY <2>1, BelowLess
<1>4. CASE TrackData
  <2>1. PICK lo : lo = StartOffset(Base, cursor, Section.align)
    OBVIOUS
  <2>2. Section.align \in Nat \ {0}
    BY <1>1, SectionFacts DEF CoffrInv
  <2>3. lo \in Nat /\ cursor <= lo
    BY <1>2, <2>1, <2>2, StartAbove
  <2>4. PICK f, g, hi : /\ f = Fields(Section, lo) /\ g = Clear(mem, 4, lo, hi)
                        /\ hi = lo + Section.len
    OBVIOUS
  <2>5. mem' = Over(f, g) /\ stubs' = Clear(stubs, StubLen, lo, hi)
    BY <1>4, <2>1, <2>4 DEF TrackData
  <2>6. \A r \in Range(Section.relocs) : r.offset \in Nat
    BY <1>1, SectionFacts, RelocFacts DEF Section, CoffrInv
  <2>7. DOMAIN f = UNION {WordsAt(lo + r.offset, r) : r \in Range(Section.relocs)}
    BY <2>4 DEF Fields
  <2>w. ASSUME NEW r \in Range(Section.relocs), NEW o \in WordsAt(lo + r.offset, r)
        PROVE  o \in Nat /\ lo <= o
    <3>1. PICK at \in Nat : at = lo + r.offset /\ lo <= at
      BY <2>3, <2>6
    <3>2. o \in Nat /\ at <= o
      BY <3>1, WordFacts
    <3> QED
      BY <2>3, <3>1, <3>2
  <2>8. \A o \in DOMAIN f : o \in Nat /\ lo <= o
    BY <2>7, <2>w
  <2>9. Below(mem, g, 4, lo) /\ Below(stubs, stubs', StubLen, lo)
    BY <2>4, <2>5, ClearBelow
  <2>10. Below(mem, Over(f, g), 4, lo)
    BY <1>2, <2>3, <2>8, <2>9, OverBelow
  <2> QED
    BY <1>2, <1>3, <2>3, <2>5, <2>9, <2>10
<1>5. CASE TrackPool
  <2>1. PICK lo, n : lo = StartOffset(Base, cursor, StubLen) /\ n = Count(Section)
    OBVIOUS
  <2>2. lo \in Nat /\ cursor <= lo
    BY <1>2, <2>1, StartAbove
  <2>3. n \in Nat
    BY <1>1, <2>1, PoolRequest DEF CoffrInv
  <2>4. PICK f, g, hi : /\ f = [o \in {lo + StubLen * k : k \in 0 .. n - 1} |-> 0]
                        /\ g = Clear(stubs, StubLen, lo, hi) /\ hi = lo + StubLen * n
    OBVIOUS
  <2>5. mem' = Clear(mem, 4, lo, hi) /\ stubs' = Over(f, g)
    BY <1>5, <2>1, <2>4 DEF TrackPool
  <2>6. \A o \in DOMAIN f : o \in Nat /\ lo <= o
    <3>1. \A k \in 0 .. n - 1 : lo + 16 * k \in Nat /\ lo <= lo + 16 * k
      BY <2>2, <2>3
    <3> QED
      BY <2>4, <3>1 DEF StubLen
  <2>7. Below(stubs, g, StubLen, lo) /\ Below(mem, mem', 4, lo)
    BY <2>4, <2>5, ClearBelow
  <2>8. Below(stubs, Over(f, g), StubLen, lo)
    BY <1>2, <2>2, <2>6, <2>7, OverBelow
  <2> QED
    BY <1>2, <1>3, <2>2, <2>5, <2>7, <2>8
<1> QED
  BY <1>4, <1>5

LEMMA FloorPatches ==
  ASSUME CoffrInv, CoffrTypes, OrderOK, RelocateDirect \/ RelocateViaStub
  PROVE  Below(mem, mem', 4, Top.cursor) /\ Below(stubs, stubs', StubLen, Top.cursor)
<1>1. ~NotLinking /\ Relocating
  BY DEF RelocateDirect, RelocateViaStub, Relocating, NotLinking, In
<1>2. /\ Top.cursor \in Nat /\ DOMAIN mem \subseteq Nat /\ DOMAIN stubs \subseteq Nat
      /\ At \in Nat /\ Top.cursor <= At /\ At + 4 <= View.pool
      /\ Stub \in Nat /\ View.pool <= Stub
  BY <1>1, LinkFacts, PatchedPlaces DEF CoffrTypes
<1>3. View.pool \in Nat
  <2>1. link.todo[1] \in DOMAIN Views /\ View = Views[link.todo[1]]
    BY <1>1, PatchedPlaces, ViewsFacts
  <2>2. View \in SectionView
    BY <1>1, <2>1 DEF OrderOK, InOrder
  <2> QED
    BY <2>2 DEF SectionView
<1>p. PICK pool \in Nat : pool = View.pool
  BY <1>3
<1>a. PICK at \in Nat : at = At /\ at + 4 <= pool
  BY <1>2, <1>p
<1>s. PICK s \in Nat : s = Stub /\ pool <= s
  BY <1>2, <1>p
<1>t. PICK top \in Nat : top = Top.cursor /\ top <= at
  BY <1>2, <1>a
<1>4. at = At /\ s = Stub /\ top = Top.cursor /\ top <= at /\ top <= s
  BY <1>p, <1>a, <1>s, <1>t
<1>5. CASE RelocateDirect
  <2>1. PICK new : /\ stubs' = stubs
                   /\ mem' = [o \in DOMAIN mem |-> IF o \in WordsAt(at, Reloc) THEN new ELSE mem[o]]
    BY <1>4, <1>5 DEF RelocateDirect
  <2>2. \A o \in WordsAt(at, Reloc) : o \in Nat /\ at <= o
    BY WordFacts
  <2>3. \A o \in DOMAIN mem : o + 4 <= top => o \notin WordsAt(at, Reloc)
    BY <1>2, <1>4, <2>2
  <2> QED
    BY <1>4, <2>1, <2>3 DEF Below
<1>6. CASE RelocateViaStub
  <2>a. PICK target, v :
          /\ target = Target(Views, Reloc, mem[At])
          /\ v = Patched(Reloc.typ, mem[At],
                         IF Instr(Reloc.typ) THEN ToStub \div 4 ELSE ToStub)
    OBVIOUS
  <2>b. stubs' = [o \in DOMAIN stubs |->
          IF o + StubLen > Stub + StubLen \div 2 /\ o < Stub + StubLen
            THEN target ELSE stubs[o]]
    BY <1>6, <2>a DEF RelocateViaStub
  <2>c. mem' = [[o \in DOMAIN mem |->
          IF o + 4 > Stub + StubLen \div 2 /\ o < Stub + StubLen
            THEN target ELSE mem[o]] EXCEPT ![At] = v]
    BY <1>6, <2>a DEF RelocateViaStub
  <2>1. /\ stubs' = [o \in DOMAIN stubs |->
              IF o + StubLen > s + StubLen \div 2 /\ o < s + StubLen THEN target ELSE stubs[o]]
        /\ mem' = [[o \in DOMAIN mem |->
              IF o + 4 > s + StubLen \div 2 /\ o < s + StubLen THEN target ELSE mem[o]]
                EXCEPT ![at] = v]
    BY <1>4, <2>b, <2>c
  <2>2. \A o \in DOMAIN mem : o + 4 <= top => o # at /\ ~(o + 4 > s + 8)
    BY <1>2, <1>4
  <2>3. \A o \in DOMAIN stubs : o + 16 <= top => ~(o + 16 > s + 8)
    BY <1>2, <1>4
  <2>4. StubLen = 16 /\ StubLen \div 2 = 8
    BY DEF StubLen
  <2>5. Below(mem, mem', 4, top)
    BY <2>1, <2>2, <2>4 DEF Below
  <2>6. Below(stubs, stubs', StubLen, top)
    BY <2>1, <2>3, <2>4 DEF Below
  <2> QED
    BY <1>4, <2>5, <2>6
<1> QED
  BY <1>5, <1>6

LEMMA FloorKept ==
  ASSUME CoffrInv, CoffrTypes, OrderOK, [CoffrNext]_allVars
  PROVE  /\ Floor \in Nat
         /\ Below(mem, mem', 4, Floor) /\ Below(stubs, stubs', StubLen, Floor)
         /\ ~NotLinking' => Top'.cursor = Floor
         /\ machine' = machine
<1>0. /\ CountInv /\ TypeOK /\ LinkOK /\ LayoutOK /\ cursor \in Nat /\ Floor \in Nat
      /\ ~NotLinking => DOMAIN link = LinkFields
  BY LinkFacts DEF CoffrInv, SlabInv, CountInv, TypeOK, Floor, LinkOK
<1>1. ASSUME mem' = mem, stubs' = stubs
      PROVE  Below(mem, mem', 4, Floor) /\ Below(stubs, stubs', StubLen, Floor)
  BY <1>1 DEF Below
<1>2. ASSUME NEW obj \in Objects, NEW calls \in Reserves, LinkStart(obj, calls)
      PROVE  Top'.cursor = Floor /\ mem' = mem /\ stubs' = stubs /\ machine' = machine
  <2>1. txs \in Seq(Tx) /\ txs' = Append(txs, [id |-> progs + 1, cursor |-> cursor,
                                               total |-> obj.total, writes |-> 0])
    BY <1>0, <1>2 DEF LinkStart, Begin, TypeOK
  <2>2. Len(txs') = Len(txs) + 1 /\ txs'[Len(txs) + 1].cursor = cursor
    BY <2>1
  <2>3. Top'.cursor = cursor
    BY <2>2 DEF Top
  <2> QED
    BY <1>2, <2>3 DEF LinkStart, Floor, NotLinking
<1>3. ASSUME TrackData \/ TrackPool \/ RelocateDirect \/ RelocateViaStub
      PROVE  /\ Floor = Top.cursor
             /\ Below(mem, mem', 4, Floor) /\ Below(stubs, stubs', StubLen, Floor)
  <2>1. ~NotLinking
    BY <1>3 DEF TrackData, TrackPool, RelocateDirect, RelocateViaStub, Relocating, NotLinking, In
  <2>2. Floor = Top.cursor
    BY <2>1 DEF Floor
  <2>3. Below(mem, mem', 4, Top.cursor) /\ Below(stubs, stubs', StubLen, Top.cursor)
    BY <1>3, FloorWrites, FloorPatches
  <2> QED
    BY <2>2, <2>3
<1>4. ASSUME ~NotLinking, UNCHANGED vars \/ (\E h \in handles : Release(h))
                \/ (\E c, write : Request(c) /\ write \in BOOLEAN /\ TxWrite(c, write))
                \/ \E blocks \in SUBSET code : Patch(blocks)
      PROVE  Top'.cursor = Top.cursor
  BY <1>0, <1>4, LinkBlocksStay
<1>5. CASE TrackData \/ TrackPool
  <2>1. ~NotLinking /\ InSections
    BY <1>0, <1>5 DEF TrackData, TrackPool, NotLinking, In, LinkOK
  <2>2. \E c, write : Request(c) /\ write \in BOOLEAN /\ TxWrite(c, write)
    BY <1>0, <1>5, <2>1, DataRequest, PoolRequest DEF TrackData, TrackPool
  <2>3. machine' = machine
    BY <1>5 DEF TrackData, TrackPool
  <2> QED
    BY <1>0, <1>3, <1>4, <1>5, <2>1, <2>2, <2>3
<1>6. CASE RelocateDirect \/ RelocateViaStub
  <2>1. ~NotLinking
    BY <1>6 DEF RelocateDirect, RelocateViaStub, Relocating, NotLinking, In
  <2>2. PICK offsets : Patch(BlocksAt(offsets))
    BY <1>6 DEF RelocateDirect, RelocateViaStub
  <2>3. BlocksAt(offsets) \in SUBSET code
    BY DEF BlocksAt
  <2>4. machine' = machine
    BY <1>6 DEF RelocateDirect, RelocateViaStub
  <2> QED
    BY <1>0, <1>3, <1>4, <1>6, <2>1, <2>2, <2>3, <2>4
<1>7. CASE TrackEnd \/ RelocateNone
  <2>1. ~NotLinking
    BY <1>7 DEF TrackEnd, RelocateNone, Relocating, NotLinking, In
  <2>2. UNCHANGED vars /\ mem' = mem /\ stubs' = stubs /\ machine' = machine
    BY <1>7 DEF TrackEnd, RelocateNone
  <2> QED
    BY <1>0, <1>1, <1>4, <2>1, <2>2 DEF Floor
<1>8. CASE LinkCommit \/ SymbolsEnd \/ LinkFail
  <2>1. NotLinking' /\ mem' = mem /\ stubs' = stubs /\ machine' = machine
    BY <1>8 DEF LinkCommit, SymbolsEnd, LinkFail, NotLinking, In, Idle
  <2> QED
    BY <1>0, <1>1, <2>1
<1>9. ASSUME NEW c \in Calls, PlainWrite(c)
      PROVE  /\ NotLinking' /\ machine' = machine
             /\ Below(mem, mem', 4, Floor) /\ Below(stubs, stubs', StubLen, Floor)
  <2>1. NotLinking /\ NotLinking' /\ machine' = machine
    BY <1>9 DEF PlainWrite, NotLinking, In
  <2>2. PICK lo : lo = StartOffset(Base, cursor, c.align)
    OBVIOUS
  <2>3. lo \in Nat /\ cursor <= lo
    <3>1. c.align \in Nat \ {0}
      BY SlabAssumption
    <3> QED
      BY <1>0, <2>2, <3>1, StartAbove
  <2>4. mem' = Clear(mem, 4, lo, lo + c.len) /\ stubs' = Clear(stubs, StubLen, lo, lo + c.len)
    BY <1>9, <2>2 DEF PlainWrite
  <2>5. Below(mem, mem', 4, lo) /\ Below(stubs, stubs', StubLen, lo)
    BY <2>4, ClearBelow
  <2>6. DOMAIN mem \subseteq Int /\ DOMAIN stubs \subseteq Int /\ StubLen \in Nat
    BY DEF CoffrTypes, StubLen
  <2>7. Below(mem, mem', 4, cursor) /\ Below(stubs, stubs', StubLen, cursor)
    BY <1>0, <2>3, <2>5, <2>6, BelowLess
  <2> QED
    BY <2>1, <2>7 DEF Floor
<1>10. CASE Outer
  <2>1. NotLinking' /\ mem' = mem /\ stubs' = stubs /\ machine' = machine
    BY <1>10 DEF Outer, linkerVars, NotLinking, In
  <2> QED
    BY <1>0, <1>1, <2>1
<1>11. CASE ReleaseAny \/ UNCHANGED allVars
  <2>1. link' = link /\ mem' = mem /\ stubs' = stubs /\ machine' = machine
    BY <1>11 DEF ReleaseAny, allVars, linkerVars
  <2>2. UNCHANGED vars \/ \E h \in handles : Release(h)
    BY <1>11 DEF ReleaseAny, allVars
  <2>3. NotLinking' <=> NotLinking
    BY <2>1 DEF NotLinking, In
  <2>4. ~NotLinking => Top'.cursor = Top.cursor
    BY <1>4, <2>2
  <2> QED
    BY <1>0, <1>1, <2>1, <2>3, <2>4 DEF Floor
<1> QED
  BY <1>0, <1>1, <1>2, <1>5, <1>6, <1>7, <1>8, <1>9, <1>10, <1>11 DEF CoffrNext

-----------------------------------------------------------------------------
(* The programs that were linked. *)

LEMMA HeldStays ==
  ASSUME CoffrInv, CoffrTypes, OrderOK, [CoffrNext]_allVars, NEW p, NEW l, Held(p, l)
  PROVE  Held(p, l)'
<1>0. /\ CountInv /\ LiveCodeIntact /\ TypeOK /\ cursor \in Nat /\ [AnyNext]_vars
      /\ code \subseteq Block
  BY CoffrIsSlab DEF CoffrInv, SlabInv, CountInv, TypeOK
<1>1. /\ p \in 1 .. progs /\ \A i \in DOMAIN txs : txs[i].id # p
      /\ l.obj \in Objects /\ Tracked(l.obj) \subseteq DOMAIN l.views
      /\ InOrder(l.views, l.obj, 0)
  BY DEF Held
<1>2. /\ p \in 1 .. progs'
      /\ \A i \in DOMAIN txs' : txs'[i].id # p
      /\ undercut \subseteq undercut'
      /\ Mapped(p)' =>
           /\ Mapped(p)
           /\ \A b \in code : b.prog = p =>
                \E e \in code' : e.prog = b.prog /\ e.lo = b.lo /\ e.hi = b.hi
  BY <1>0, <1>1, ProgramStays
<1>3. PICK hi \in Nat : hi = Floor
  BY FloorKept
<1>4. /\ Below(mem, mem', 4, hi) /\ Below(stubs, stubs', StubLen, hi)
      /\ ~NotLinking' => Top'.cursor = hi
      /\ machine' = machine
  BY <1>3, FloorKept
<1>5. ASSUME Mapped(p)', NEW i \in DOMAIN l.views
      PROVE  Lies(code', p, l.views[i].pool, StubLen * l.views[i].count)
  <2>1. Lies(code, p, l.views[i].pool, StubLen * l.views[i].count)
    BY <1>2, <1>5 DEF Held
  <2> QED
    BY <1>2, <1>5, <2>1 DEF Lies
<1>6. ASSUME Stands(p)' PROVE Stands(p)
  BY <1>2, <1>6 DEF Stands, Mapped, Live
<1>7. ASSUME Stands(p), NEW i \in DOMAIN l.views
      PROVE  End(l.views[i]) <= hi
  <2>1. CASE NotLinking
    <3>1. PICK b \in code : /\ b.prog = p /\ b.lo = l.views[i].pool
                            /\ b.hi = b.lo + StubLen * l.views[i].count
      BY <1>7 DEF Held, Stands, Lies
    <3>2. b.hi <= cursor
      BY <1>0, <1>7, <3>1 DEF LiveCodeIntact, Safe, Stands
    <3>3. b.hi = End(l.views[i])
      BY <3>1 DEF End, Tramp
    <3> QED
      BY <1>3, <2>1, <3>2, <3>3 DEF Floor
  <2>2. CASE ~NotLinking
    BY <1>3, <1>7, <2>2 DEF Held, EndBelow, Floor
  <2> QED
    BY <2>1, <2>2
<1>8. ASSUME Stands(p), NEW i \in Tracked(l.obj), NEW r \in Range(l.obj.sections[i].relocs)
      PROVE  Good(mem', stubs', machine, l.views, l.base, i, r, l.views[i].count)
  <2>1. i \in DOMAIN l.views /\ End(l.views[i]) <= hi
    BY <1>1, <1>7, <1>8
  <2>2. Good(mem, stubs, machine, l.views, l.base, i, r, l.views[i].count)
    BY <1>8 DEF Held
  <2>3. l.views[i].count \in 0 .. l.views[i].count
    <3>1. l.views[i].count \in Nat
      BY <1>1, <2>1, Laid
    <3> QED
      BY <3>1
  <2>4. PICK obj, vs, base, n, m, st, m2, st2, mach :
          /\ obj = l.obj /\ vs = l.views /\ base = l.base /\ n = l.views[i].count
          /\ m = mem /\ st = stubs /\ m2 = mem' /\ st2 = stubs' /\ mach = machine
    OBVIOUS
  <2>5. /\ obj \in Objects /\ InOrder(vs, obj, 0) /\ i \in DOMAIN vs /\ End(vs[i]) <= hi
        /\ Below(m, m2, 4, hi) /\ Below(st, st2, StubLen, hi)
        /\ r \in Range(obj.sections[i].relocs) /\ n \in 0 .. vs[i].count
        /\ Good(m, st, mach, vs, base, i, r, n)
    BY <1>1, <1>4, <1>8, <2>1, <2>2, <2>3, <2>4
  <2>6. Good(m2, st2, mach, vs, base, i, r, n)
    BY <2>5, GoodBelow
  <2> QED
    BY <2>4, <2>6
<1>9. ASSUME Stands(p), ~NotLinking'
      PROVE  EndBelow(l.views, Top'.cursor)
  BY <1>4, <1>7, <1>9 DEF EndBelow
<1>10. Mapped(p)' => \A i \in DOMAIN l.views :
         Lies(code', p, l.views[i].pool, StubLen * l.views[i].count)
  BY <1>5
<1>11. Stands(p)' =>
         /\ \A i \in Tracked(l.obj) : \A r \in Range(l.obj.sections[i].relocs) :
              Good(mem', stubs', machine', l.views, l.base, i, r, l.views[i].count)
         /\ ~NotLinking' => EndBelow(l.views, Top'.cursor)
  BY <1>4, <1>6, <1>8, <1>9
<1> QED
  BY <1>1, <1>2, <1>10, <1>11 DEF Held

LEMMA CommitHeld ==
  ASSUME CoffrInv, CoffrTypes, OrderOK, PoolsOK, DoneOK, LinkCommit,
         NEW p, p = Top.id,
         NEW l, l.obj = link.obj, l.views = Views, l.base = link.base
  PROVE  Held(p, l)'
<1>0. /\ ~NotLinking /\ In("relocate") /\ ~Relocating /\ Commit /\ NotLinking'
      /\ UNCHANGED <<cacheVars, machine, mem, stubs>> /\ link'.prog = Top.id
  BY DEF LinkCommit, NotLinking, In
<1>1. /\ CountInv /\ link.obj \in Objects /\ Top.cursor \in Nat
      /\ Keys \subseteq DOMAIN link.obj.sections
  BY <1>0, LinkFacts
<1>2. SymbolsOK'
  BY <1>1, CommitHandsOver DEF CoffrInv
<1>3. p \in 1 .. progs' /\ \A i \in DOMAIN txs' : txs'[i].id # p
  <2>1. In("symbols")'
    BY DEF LinkCommit, In
  <2> QED
    BY <1>0, <1>2, <2>1 DEF SymbolsOK
<1>4. DOMAIN l.views = Keys /\ \A i \in Keys : l.views[i] = Get(i)
  BY ViewsFacts
<1>5. Tracked(l.obj) \subseteq DOMAIN l.views
  <2>1. Tracked(link.obj) \subseteq Keys
    BY <1>0, AllTracked DEF CoffrInv
  <2>2. Tracked(l.obj) = Tracked(link.obj)
    BY DEF Tracked
  <2> QED
    BY <1>4, <2>1, <2>2
<1>6. InOrder(l.views, l.obj, 0)
  <2>1. InOrder(l.views, l.obj, Top.cursor)
    BY <1>0 DEF OrderOK
  <2>2. \A i \in DOMAIN l.views : 0 <= l.views[i].cursor
    BY <2>1 DEF InOrder, SectionView
  <2> QED
    BY <2>1, <2>2 DEF InOrder
<1>7. ASSUME Mapped(p)', NEW i \in DOMAIN l.views
      PROVE  Lies(code', p, l.views[i].pool, StubLen * l.views[i].count)
  <2>1. Lies(code, p, l.views[i].pool, StubLen * l.views[i].count)
    BY <1>0, <1>4, <1>7 DEF PoolsOK
  <2> QED
    BY <1>0, <1>1, <1>7, <2>1, CommitKeepsOwn
<1>8. ASSUME NEW i \in Tracked(l.obj), NEW r \in Range(l.obj.sections[i].relocs)
      PROVE  Good(mem, stubs, machine, l.views, l.base, i, r, l.views[i].count)
  <2>1. i \in Keys /\ i \in DOMAIN link.obj.sections
    BY <1>1, <1>4, <1>5
  <2>2. PICK k \in DOMAIN link.obj.sections[i].relocs : r = link.obj.sections[i].relocs[k]
    BY DEF Range
  <2>3. i < link.todo[1]
    <3>1. link.obj.sections \in Seq(Range(link.obj.sections))
      BY <1>1, CoffrAssumption
    <3>2. i \in Nat /\ i <= Len(link.obj.sections) /\ Len(link.obj.sections) \in Nat
      BY <2>1, <3>1
    <3>3. link.todo[1] \in Nat /\ ~(link.todo[1] <= Len(link.obj.sections))
      BY <1>0 DEF DoneOK, Relocating
    <3> QED
      BY <3>2, <3>3
  <2>4. i # link.todo[1]
    <3>1. link.todo[1] \in Nat
      BY <1>0 DEF DoneOK
    <3> QED
      BY <2>3, <3>1
  <2>5. PICK vs, m, st, mach, base : /\ vs = Views /\ m = mem /\ st = stubs
                                    /\ mach = machine /\ base = link.base
    OBVIOUS
  <2>6. InOrder(vs, link.obj, Top.cursor) /\ i \in DOMAIN vs /\ vs[i] = Get(i)
    BY <1>0, <1>4, <2>1, <2>5 DEF OrderOK
  <2>7. PICK c \in Nat : c = Get(i).count
    BY <1>1, <2>6, Laid
  <2>8. PICK n : n = Taken(i, r)
    OBVIOUS
  <2>9. Walked(i, k) /\ n \in Nat /\ n <= c
    BY <2>3, <2>4, <2>7, <2>8 DEF Walked, Taken
  <2>10. Good(m, st, mach, vs, base, i, r, n)
    BY <1>0, <2>1, <2>2, <2>5, <2>8, <2>9 DEF DoneOK
  <2>11. Good(m, st, mach, vs, base, i, r, c)
    BY <2>7, <2>9, <2>10, GoodMore
  <2> QED
    BY <1>4, <2>1, <2>5, <2>7, <2>11
<1>9. /\ Mapped(p)' => \A i \in DOMAIN l.views :
           Lies(code', p, l.views[i].pool, StubLen * l.views[i].count)
      /\ Stands(p)' =>
           /\ \A i \in Tracked(l.obj) : \A r \in Range(l.obj.sections[i].relocs) :
                Good(mem', stubs', machine', l.views, l.base, i, r, l.views[i].count)
           /\ ~NotLinking' => EndBelow(l.views, Top'.cursor)
  BY <1>0, <1>7, <1>8
<1> QED
  BY <1>1, <1>3, <1>5, <1>6, <1>9 DEF Held

LEMMA LoadedStep ==
  ASSUME CoffrInv, CoffrTypes, OrderOK, PoolsOK, DoneOK, LoadedOK, [CoffrNext]_allVars
  PROVE  LoadedOK'
<1>1. ASSUME NEW p \in DOMAIN loaded, loaded'[p] = loaded[p]
      PROVE  Held(p, loaded[p])'
  <2>1. PICK l : l = loaded[p]
    OBVIOUS
  <2>2. Held(p, l)
    BY <2>1 DEF LoadedOK
  <2>3. Held(p, l)'
    BY <2>2, HeldStays
  <2>4. loaded'[p] = l
    BY <1>1, <2>1
  <2> QED
    BY <2>3, <2>4 DEF Held, Stands, Mapped, Live, Lies, NotLinking, In
<1>2. CASE loaded' = loaded
  BY <1>1, <1>2 DEF LoadedOK
<1>3. CASE LinkCommit
  <2>1. PICK q, l : q = Top.id /\ l = [obj |-> link.obj, views |-> Views, base |-> link.base]
    OBVIOUS
  <2>2. l.obj = link.obj /\ l.views = Views /\ l.base = link.base
    BY <2>1
  <2>3. loaded' = Over([p \in {q} |-> l], loaded)
    BY <1>3, <2>1 DEF LinkCommit
  <2>4. DOMAIN loaded' = {q} \cup DOMAIN loaded /\ loaded'[q] = l
    BY <2>3 DEF Over
  <2>5. \A p \in DOMAIN loaded : p # q => loaded'[p] = loaded[p]
    BY <2>3 DEF Over
  <2>6. Held(q, l)'
    BY <1>3, <2>1, <2>2, CommitHeld
  <2>7. Held(q, loaded[q])'
    BY <2>4, <2>6 DEF Held, Stands, Mapped, Live, Lies, NotLinking, In
  <2>8. ASSUME NEW p \in DOMAIN loaded, p # q
        PROVE  Held(p, loaded[p])'
    BY <1>1, <2>5, <2>8
  <2> QED
    BY <2>4, <2>7, <2>8 DEF LoadedOK
<1>4. ~LinkCommit => loaded' = loaded
  BY DEF CoffrNext, LinkStart, TrackData, TrackPool, TrackEnd, RelocateNone, RelocateDirect,
     RelocateViaStub, SymbolsEnd, LinkFail, PlainWrite, Outer, ReleaseAny, allVars, linkerVars
<1> QED
  BY <1>2, <1>3, <1>4

-----------------------------------------------------------------------------
(* The link in progress, as it lays the sections out. *)

LinkInv == OrderOK /\ PoolsOK /\ RawOK /\ DoneOK

\* No step but a write moves a section or a pool.
LEMMA OrderSame ==
  ASSUME OrderOK, PoolsOK, ~NotLinking, UNCHANGED cacheVars, link'.obj = link.obj,
         Top'.id = Top.id, Top'.cursor = Top.cursor, cursor' = cursor,
         DOMAIN stubs' = DOMAIN stubs,
         \A lo, len : Lies(code, Top.id, lo, len) => Lies(code', Top.id, lo, len),
         In("count")' <=> In("count"),
         In("count") => link'.at = link.at /\ link'.sec = link.sec
  PROVE  OrderOK' /\ PoolsOK'
<1>1. Keys' = Keys /\ Views' = Views /\ \A k \in Keys : Get(k)' = Get(k)
  BY ViewsKept, CacheKept
<1>2. /\ InOrder(Views, link.obj, Top.cursor)
      /\ EndBelow(Views, IF In("count") THEN link.at ELSE cursor)
      /\ In("count") => Top.cursor <= link.at /\ link.at + Section.len <= cursor
  BY DEF OrderOK
<1>3. InOrder(Views', link'.obj, Top'.cursor)
  BY <1>1, <1>2
<1>4. EndBelow(Views', IF In("count")' THEN link'.at ELSE cursor')
  BY <1>1, <1>2
<1>5. In("count")' => Top'.cursor <= link'.at /\ link'.at + Section'.len <= cursor'
  BY <1>2 DEF Section
<1>6. OrderOK'
  BY <1>3, <1>4, <1>5 DEF OrderOK, InOrder, EndBelow
<1>7. ASSUME NEW i \in Keys
      PROVE  /\ Lies(code', Top'.id, Get(i)'.pool, StubLen * Get(i)'.count)
             /\ \A n \in 0 .. Get(i)'.count - 1 : Tramp(Get(i)', n) \in DOMAIN stubs'
  BY <1>1 DEF PoolsOK
<1>8. PoolsOK'
  BY <1>1, <1>7 DEF PoolsOK, Lies, Tramp
<1> QED
  BY <1>6, <1>8

LEMMA StartLinkInv ==
  ASSUME NEW obj, NEW calls, LinkStart(obj, calls)
  PROVE  LinkInv'
<1>1. Keys' = {}
  BY EmptyCache DEF LinkStart, Create
<1>2. link'.phase \in {"panic", "track"} /\ link'.used = 0
  BY DEF LinkStart
<1>3. ~In("count")' /\ ~In("relocate")'
  BY <1>2 DEF In
<1>4. DOMAIN Views' = {}
  BY <1>1 DEF Views
<1>5. OrderOK'
  BY <1>3, <1>4 DEF OrderOK, InOrder, EndBelow
<1>6. PoolsOK' /\ RawOK' /\ DoneOK'
  BY <1>1, <1>2, <1>3 DEF PoolsOK, RawOK, DoneOK
<1> QED
  BY <1>5, <1>6 DEF LinkInv

\* Where a write puts its bytes, and where the cursor is then.
LEMMA WriteMoves ==
  ASSUME TypeOK, NEW c, Request(c), TxWrite(c, TRUE)
  PROVE  cursor' = StartOffset(Base, cursor, c.align) + c.len
BY DEF TxWrite, Place

\* The fields of a section that is written are as in the object file.
LEMMA FieldsFresh ==
  ASSUME NEW obj \in Objects, NEW i \in DOMAIN obj.sections,
         NEW lo \in Nat, NEW g, NEW r \in Range(obj.sections[i].relocs)
  PROVE  Untouched(machine, Over(Fields(obj.sections[i], lo), g), lo, r)
<1>1. PICK relocs : relocs = obj.sections[i].relocs
  OBVIOUS
<1>2. PICK k \in DOMAIN relocs : r = relocs[k]
  BY <1>1 DEF Range
<1>3. \A q \in Range(relocs) : q.offset \in Nat
  BY <1>1, RelocFacts
<1>4. ASSUME NEW q \in Range(relocs), NEW o \in WordsAt(lo + r.offset, r),
             o \in WordsAt(lo + q.offset, q)
      PROVE  q = r
  <2>1. PICK l \in DOMAIN relocs : q = relocs[l]
    BY DEF Range
  <2>2. PICK a \in Nat, b \in Nat : a = lo + q.offset /\ b = lo + r.offset
    BY <1>1, <1>3, <1>4
  <2>3. PICK x \in {4, 8}, y \in {4, 8} : x = FieldLen(q) /\ y = FieldLen(r)
    BY <1>1, <1>4, RelocFacts
  <2>4. o \in Nat /\ a <= o /\ o + 4 <= a + x /\ b <= o /\ o + 4 <= b + y
    BY <1>4, <2>2, <2>3, WordFacts
  <2>5. k # l => FieldsApart(relocs, k, l)
    BY <1>1, <1>2, <2>1, RelocFacts
  <2>6. k # l => b + y <= a \/ a + x <= b
    BY <1>1, <1>2, <1>3, <1>4, <2>1, <2>2, <2>3, <2>5 DEF FieldsApart
  <2> QED
    BY <1>2, <2>1, <2>4, <2>6
<1>6. PICK f : f = Fields(obj.sections[i], lo)
  OBVIOUS
<1>7. ASSUME NEW o \in WordsAt(lo + r.offset, r)
      PROVE  o \in DOMAIN f /\ f[o] = Given(machine, r)
  <2>1. f = [x \in UNION {WordsAt(lo + q.offset, q) : q \in Range(relocs)} |->
              Given(machine, CHOOSE q \in Range(relocs) : x \in WordsAt(lo + q.offset, q))]
    BY <1>1, <1>6, PatchesFacts DEF Fields, Given
  <2>2. (CHOOSE q \in Range(relocs) : o \in WordsAt(lo + q.offset, q)) = r
    BY <1>1, <1>4, <1>7
  <2>3. o \in UNION {WordsAt(lo + q.offset, q) : q \in Range(relocs)}
    BY <1>1, <1>7
  <2> QED
    BY <2>1, <2>2, <2>3
<1> QED
  BY <1>6, <1>7 DEF Untouched, Over

LEMMA DataLinkInv ==
  ASSUME CoffrInv, CoffrTypes, LinkInv, TrackData
  PROVE  LinkInv'
<1>1. ~NotLinking /\ InSections /\ In("track") /\ ~In("count") /\ ~In("relocate") /\ LinkOK /\ LayoutOK
  BY DEF TrackData, NotLinking, In, CoffrInv, LinkOK
<1>2. /\ CountInv /\ TypeOK /\ DOMAIN link = LinkFields /\ Top.cursor \in Nat /\ cursor \in Nat
      /\ Top.cursor <= cursor /\ DOMAIN mem \subseteq Nat /\ DOMAIN stubs \subseteq Nat
  BY <1>1, LinkFacts DEF CoffrTypes
<1>o. PICK obj \in Objects : obj = link.obj
  BY <1>1, LinkFacts
<1>c. PICK top \in Nat : top = Top.cursor
  BY <1>2
<1>v. PICK vs, sec : vs = Views /\ sec = link.sec
  OBVIOUS
<1>3. obj = link.obj /\ vs = Views /\ sec = link.sec /\ top = Top.cursor
  BY <1>o, <1>c, <1>v
<1>4. sec \in DOMAIN obj.sections /\ Section = obj.sections[sec]
  BY <1>1, <1>3, SectionFacts DEF Section
<1>5. PICK len \in Nat, align \in Nat \ {0} : len = Section.len /\ align = Section.align
  BY <1>1, SectionFacts
<1>6. PICK lo \in Nat : lo = StartOffset(Base, cursor, align) /\ cursor <= lo
  BY <1>2, StartAbove
<1>7. Request(DataCall) /\ TxWrite(DataCall, TRUE) /\ DataCall.align = align /\ DataCall.len = len
  BY <1>1, <1>5, DataRequest DEF TrackData, DataCall
<1>8. cursor' = lo + len
  BY <1>2, <1>6, <1>7, WriteMoves
<1>9. /\ InTx' /\ Top'.id = Top.id /\ Top'.cursor = Top.cursor
      /\ \A x, y : Lies(code, Top.id, x, y) => Lies(code', Top.id, x, y)
  BY <1>1, <1>2, <1>7, LinkBlocksStay
<1>10. /\ link'.phase = "count" /\ link'.obj = obj /\ link'.sec = sec /\ link'.at = lo
       /\ link'.used = link.used /\ UNCHANGED <<cacheVars, machine>>
  BY <1>2, <1>3, <1>5, <1>6 DEF TrackData, LinkFields
<1>11. In("count")' /\ ~In("relocate")' /\ Section' = Section
  BY <1>3, <1>10 DEF In, Section
<1>12. Keys' = Keys /\ Views' = vs /\ \A k \in Keys : Get(k)' = Get(k) /\ vs[k] = Get(k)
  BY <1>3, <1>10, ViewsKept, CacheKept, ViewsFacts
<1>13. DOMAIN vs = Keys /\ InOrder(vs, obj, top) /\ EndBelow(vs, cursor)
  BY <1>1, <1>3, ViewsFacts DEF LinkInv, OrderOK
<1>14. ASSUME NEW i \in DOMAIN vs
       PROVE  End(vs[i]) \in Nat /\ End(vs[i]) <= lo
  <2>1. End(vs[i]) \in Nat /\ End(vs[i]) <= cursor
    BY <1>13, Laid DEF EndBelow
  <2> QED
    BY <1>2, <1>6, <2>1
<1>15. PICK f, g, m, st : /\ f = Fields(obj.sections[sec], lo) /\ g = Clear(mem, 4, lo, lo + len)
                          /\ m = mem /\ st = stubs
  OBVIOUS
<1>16. mem' = Over(f, g) /\ stubs' = Clear(stubs, StubLen, lo, lo + len)
  BY <1>4, <1>5, <1>6, <1>15 DEF TrackData
<1>17. Below(m, mem', 4, lo) /\ Below(st, stubs', StubLen, lo)
  <2>1. Below(m, g, 4, lo) /\ Below(st, stubs', StubLen, lo)
    BY <1>15, <1>16, ClearBelow
  <2>2. \A r \in Range(obj.sections[sec].relocs) : r.offset \in Nat
    BY <1>4, RelocFacts
  <2>3. \A o \in DOMAIN f : o \in Nat /\ lo <= o
    <3>1. ASSUME NEW r \in Range(obj.sections[sec].relocs), NEW o \in WordsAt(lo + r.offset, r)
          PROVE  o \in Nat /\ lo <= o
      <4>1. PICK at \in Nat : at = lo + r.offset /\ lo <= at
        BY <2>2
      <4>2. o \in Nat /\ at <= o
        BY <3>1, <4>1, WordFacts
      <4> QED
        BY <4>1, <4>2
    <3> QED
      BY <1>15, <3>1 DEF Fields
  <2>4. DOMAIN m \subseteq Nat /\ 4 \in Nat \ {0}
    BY <1>2, <1>15
  <2>5. Below(m, Over(f, g), 4, lo)
    BY <2>1, <2>3, <2>4, OverBelow
  <2> QED
    BY <1>16, <2>1, <2>5
<1>18. OrderOK'
  <2>1. EndBelow(vs, lo)
    BY <1>14 DEF EndBelow
  <2>2. top <= lo /\ lo + len <= cursor'
    BY <1>2, <1>3, <1>6, <1>8
  <2>3. InOrder(Views', link'.obj, Top'.cursor) /\ EndBelow(Views', link'.at)
    BY <1>3, <1>9, <1>10, <1>12, <1>13, <2>1
  <2>4. Top'.cursor <= link'.at /\ link'.at + Section'.len <= cursor'
    BY <1>3, <1>5, <1>9, <1>10, <1>11, <2>2
  <2> QED
    BY <1>11, <2>3, <2>4 DEF OrderOK, InOrder, EndBelow
<1>19. PoolsOK'
  <2>1. ASSUME NEW i \in Keys
        PROVE  /\ Lies(code', Top'.id, Get(i).pool, StubLen * Get(i).count)
               /\ \A n \in 0 .. Get(i).count - 1 : Tramp(Get(i), n) \in DOMAIN stubs'
    <3>1. Lies(code, Top.id, Get(i).pool, StubLen * Get(i).count)
      BY <1>1, <2>1 DEF LinkInv, PoolsOK
    <3>2. ASSUME NEW n \in 0 .. Get(i).count - 1
          PROVE  Tramp(Get(i), n) \in DOMAIN stubs'
      <4>1. Tramp(Get(i), n) \in DOMAIN st
        BY <1>1, <1>15, <2>1, <3>2 DEF LinkInv, PoolsOK
      <4>2. i \in DOMAIN vs /\ vs[i] = Get(i) /\ n \in 0 .. vs[i].count - 1
        BY <1>12, <1>13, <2>1, <3>2
      <4>3. Tramp(vs[i], n) \in Nat /\ Tramp(vs[i], n) + StubLen <= End(vs[i])
        BY <1>13, <4>2, Laid
      <4>4. Tramp(vs[i], n) + StubLen <= lo
        BY <1>14, <4>2, <4>3 DEF StubLen
      <4> QED
        BY <1>17, <4>1, <4>2, <4>4 DEF Below
    <3> QED
      BY <1>9, <3>1, <3>2
  <2> QED
    BY <1>12, <2>1 DEF PoolsOK, Lies, Tramp
<1>20. RawOK'
  <2>1. link.used = 0 /\ \A i \in Keys : \A r \in Range(obj.sections[i].relocs) : Untouched(machine, m, vs[i].cursor, r)
    BY <1>1, <1>3, <1>12, <1>15 DEF LinkInv, RawOK
  <2>2. ASSUME NEW i \in Keys, NEW r \in Range(obj.sections[i].relocs)
        PROVE  Untouched(machine, mem', vs[i].cursor, r)
    <3>1. PICK m2 : m2 = mem'
      OBVIOUS
    <3>2. i \in DOMAIN vs /\ End(vs[i]) <= lo /\ Below(m, m2, 4, lo) /\ Untouched(machine, m, vs[i].cursor, r)
      BY <1>13, <1>14, <1>17, <2>1, <2>2, <3>1
    <3>3. Untouched(machine, m2, vs[i].cursor, r)
      BY <1>13, <3>2, UntouchedBelow
    <3> QED
      BY <3>1, <3>3
  <2>3. \A r \in Range(obj.sections[sec].relocs) : Untouched(machine, mem', lo, r)
    BY <1>4, <1>15, <1>16, FieldsFresh
  <2>4. \A i \in Keys' : \A r \in Range(link'.obj.sections[i].relocs) : Untouched(machine, mem', Get(i)'.cursor, r)
    BY <1>10, <1>12, <2>2
  <2>5. \A r \in Range(Section'.relocs) : Untouched(machine, mem', link'.at, r)
    BY <1>4, <1>10, <1>11, <2>3
  <2> QED
    BY <1>10, <2>1, <2>4, <2>5 DEF RawOK, Untouched
<1> QED
  BY <1>11, <1>18, <1>19, <1>20 DEF LinkInv, DoneOK

LEMMA PoolLinkInv ==
  ASSUME CoffrInv, CoffrTypes, LinkInv, TrackPool
  PROVE  LinkInv'
<1>1. /\ ~NotLinking /\ InSections /\ In("count") /\ ~In("relocate")
      /\ LinkOK /\ LayoutOK /\ CacheInv
  BY DEF TrackPool, NotLinking, In, CoffrInv, LinkOK
<1>2. /\ CountInv /\ TypeOK /\ DOMAIN link = LinkFields /\ Top.cursor \in Nat /\ cursor \in Nat
      /\ Top.cursor <= cursor /\ DOMAIN mem \subseteq Nat /\ DOMAIN stubs \subseteq Nat
  BY <1>1, LinkFacts DEF CoffrTypes
<1>o. PICK obj \in Objects : obj = link.obj
  BY <1>1, LinkFacts
<1>c. PICK top \in Nat : top = Top.cursor
  BY <1>2
<1>v. PICK vs : vs = Views
  OBVIOUS
<1>s. PICK sec \in Nat : sec = link.sec
  BY <1>1, LinkFacts
<1>a. PICK at \in Nat : at = link.at
  BY <1>1, LinkFacts
<1>3. obj = link.obj /\ vs = Views /\ sec = link.sec /\ top = Top.cursor /\ at = link.at
  BY <1>o, <1>c, <1>v, <1>s, <1>a
<1>4. sec \in DOMAIN obj.sections /\ Section = obj.sections[sec]
  BY <1>1, <1>3, SectionFacts DEF Section
<1>5. PICK len \in Nat : len = Section.len
  BY <1>1, SectionFacts
<1>n. PICK n \in Nat : n = Count(Section)
  BY <1>1, PoolRequest
<1>6. PICK lo \in Nat : lo = StartOffset(Base, cursor, StubLen) /\ cursor <= lo
  <2>1. StubLen \in Nat \ {0}
    BY DEF StubLen
  <2> QED
    BY <1>2, <2>1, StartAbove
<1>7. /\ Request(PoolCall) /\ TxWrite(PoolCall, TRUE)
      /\ PoolCall.align = StubLen /\ PoolCall.len = StubLen * n
  BY <1>1, <1>n, PoolRequest DEF TrackPool, PoolCall
<1>8. cursor' = lo + StubLen * n
  BY <1>2, <1>6, <1>7, WriteMoves
<1>9. /\ InTx' /\ Top'.id = Top.id /\ Top'.cursor = Top.cursor
      /\ \A x, y : Lies(code, Top.id, x, y) => Lies(code', Top.id, x, y)
  BY <1>1, <1>2, <1>7, LinkBlocksStay
<1>10. /\ link'.phase = "track" /\ link'.obj = obj /\ link'.used = link.used
       /\ machine' = machine
  BY <1>2, <1>3 DEF TrackPool, LinkFields
<1>11. ~In("count")' /\ ~In("relocate")'
  BY <1>10 DEF In
<1>w. PICK view : view = [cursor |-> at, pool |-> lo, count |-> n]
  OBVIOUS
<1>12. /\ view \in SectionView /\ Insert(sec, view)
       /\ view.cursor = at /\ view.pool = lo /\ view.count = n
  <2>1. Insert(sec, view)
    BY <1>3, <1>6, <1>n, <1>w DEF TrackPool
  <2> QED
    BY <1>w, <2>1 DEF SectionView
<1>13. /\ Keys' = Keys \cup {sec} /\ sec \notin Keys
       /\ Get(sec)' = view /\ \A k \in Keys : Get(k)' = Get(k) /\ k < sec /\ k \in Nat
  <2>1. \A k \in Keys : k < sec /\ k \in Nat
    BY <1>1, <1>3, LinkFacts DEF CacheInv
  <2> QED
    BY <1>1, <1>12, <2>1, InsertKeeps DEF CacheInv
<1>14. PICK vs2 : vs2 = Views'
  OBVIOUS
<1>15. /\ DOMAIN vs = Keys /\ DOMAIN vs2 = Keys \cup {sec} /\ vs2[sec] = view
       /\ \A k \in Keys : vs2[k] = vs[k] /\ vs[k] = Get(k) /\ vs2[k] = Get(k)'
       /\ \A k \in Keys' : vs2[k] = Get(k)'
  BY <1>3, <1>13, <1>14 DEF Views
<1>16. /\ InOrder(vs, obj, top) /\ EndBelow(vs, at) /\ top <= at /\ at + len <= cursor
  BY <1>1, <1>3, <1>5 DEF LinkInv, OrderOK
<1>17. at + len <= lo /\ at <= lo
  BY <1>2, <1>6, <1>16
<1>18. End(view) = lo + StubLen * n
  BY <1>12 DEF End, Tramp
<1>19. ASSUME NEW i \in Keys
       PROVE  End(vs[i]) \in Nat /\ End(vs[i]) <= at /\ End(vs[i]) <= lo
  <2>1. End(vs[i]) \in Nat /\ End(vs[i]) <= at
    BY <1>15, <1>16, <1>19, Laid DEF EndBelow
  <2> QED
    BY <1>17, <2>1
<1>20. OrderOK'
  <2>1. ASSUME NEW i \in DOMAIN vs2
        PROVE  /\ i \in DOMAIN obj.sections /\ vs2[i] \in SectionView
               /\ top <= vs2[i].cursor
               /\ vs2[i].cursor + obj.sections[i].len <= vs2[i].pool
    <3>1. CASE i \in Keys
      BY <1>15, <1>16, <3>1 DEF InOrder
    <3>2. CASE i = sec
      BY <1>4, <1>5, <1>12, <1>15, <1>16, <1>17, <3>2
    <3> QED
      BY <1>15, <3>1, <3>2
  <2>2. ASSUME NEW i \in DOMAIN vs2, NEW j \in DOMAIN vs2, i < j
        PROVE  End(vs2[i]) <= vs2[j].cursor
    <3>1. i \in Keys
      BY <1>13, <1>15, <2>2
    <3>2. CASE j \in Keys
      BY <1>15, <1>16, <2>2, <3>1, <3>2 DEF InOrder
    <3>3. CASE j = sec
      BY <1>12, <1>15, <1>19, <3>1, <3>3
    <3> QED
      BY <1>15, <3>2, <3>3
  <2>3. InOrder(vs2, obj, top)
    BY <2>1, <2>2 DEF InOrder
  <2>4. ASSUME NEW i \in DOMAIN vs2
        PROVE  End(vs2[i]) <= cursor'
    <3>1. lo <= cursor' /\ cursor' \in Nat
      BY <1>8 DEF StubLen
    <3>2. CASE i \in Keys
      BY <1>15, <1>19, <3>1, <3>2
    <3>3. CASE i = sec
      BY <1>8, <1>15, <1>18, <3>1, <3>3
    <3> QED
      BY <1>15, <3>2, <3>3
  <2>5. InOrder(Views', link'.obj, Top'.cursor) /\ EndBelow(Views', cursor')
    BY <1>3, <1>9, <1>10, <1>14, <2>3, <2>4 DEF EndBelow
  <2> QED
    BY <1>11, <2>5 DEF OrderOK, InOrder, EndBelow
<1>21. PICK f, g, m, st, hi :
         /\ f = [o \in {lo + StubLen * k : k \in 0 .. n - 1} |-> 0]
         /\ g = Clear(stubs, StubLen, lo, hi) /\ hi = lo + StubLen * n
         /\ m = mem /\ st = stubs
  OBVIOUS
<1>22. mem' = Clear(m, 4, lo, hi) /\ stubs' = Over(f, g)
  BY <1>6, <1>n, <1>21 DEF TrackPool
<1>23. Below(m, mem', 4, lo) /\ Below(st, stubs', StubLen, lo)
  <2>1. Below(m, mem', 4, lo) /\ Below(st, g, StubLen, lo)
    BY <1>21, <1>22, ClearBelow
  <2>2. \A o \in DOMAIN f : o \in Nat /\ lo <= o
    <3>1. \A k \in 0 .. n - 1 : lo + 16 * k \in Nat /\ lo <= lo + 16 * k
      OBVIOUS
    <3> QED
      BY <1>21, <3>1 DEF StubLen
  <2>3. DOMAIN st \subseteq Nat /\ StubLen \in Nat \ {0}
    BY <1>2, <1>21 DEF StubLen
  <2>4. Below(st, Over(f, g), StubLen, lo)
    BY <2>1, <2>2, <2>3, OverBelow
  <2> QED
    BY <1>22, <2>1, <2>4
<1>24. PoolsOK'
  <2>1. ASSUME NEW i \in Keys
        PROVE  /\ Lies(code', Top'.id, vs2[i].pool, StubLen * vs2[i].count)
               /\ \A k \in 0 .. vs2[i].count - 1 : Tramp(vs2[i], k) \in DOMAIN stubs'
    <3>1. Lies(code, Top.id, vs[i].pool, StubLen * vs[i].count)
      BY <1>1, <1>15, <2>1 DEF LinkInv, PoolsOK
    <3>2. ASSUME NEW k \in 0 .. vs[i].count - 1
          PROVE  Tramp(vs[i], k) \in DOMAIN stubs'
      <4>1. Tramp(vs[i], k) \in DOMAIN st
        BY <1>1, <1>15, <1>21, <2>1, <3>2 DEF LinkInv, PoolsOK
      <4>2. i \in DOMAIN vs
        BY <1>15, <2>1
      <4>3. Tramp(vs[i], k) \in Nat /\ Tramp(vs[i], k) + StubLen <= End(vs[i])
        BY <1>16, <4>2, Laid
      <4>4. Tramp(vs[i], k) + StubLen <= lo
        BY <1>19, <4>3, <2>1 DEF StubLen
      <4> QED
        BY <1>23, <4>1, <4>4 DEF Below
    <3> QED
      BY <1>9, <1>15, <2>1, <3>1, <3>2
  <2>2. Lies(code', Top'.id, lo, StubLen * n)
    BY <1>2, <1>6, <1>7, <1>9, WriteLies
  <2>3. \A k \in 0 .. n - 1 : Tramp(view, k) \in DOMAIN stubs'
    <3>1. \A k \in 0 .. n - 1 : Tramp(view, k) \in DOMAIN f
      BY <1>12, <1>21 DEF Tramp
    <3> QED
      BY <1>22, <3>1, OverDomain
  <2>4. ASSUME NEW i \in Keys'
        PROVE  /\ Lies(code', Top'.id, vs2[i].pool, StubLen * vs2[i].count)
               /\ \A k \in 0 .. vs2[i].count - 1 : Tramp(vs2[i], k) \in DOMAIN stubs'
    BY <1>12, <1>13, <1>15, <2>1, <2>2, <2>3
  <2> QED
    BY <1>15, <2>4 DEF PoolsOK, Lies, Tramp
<1>25. RawOK'
  <2>1. /\ link.used = 0
        /\ \A i \in Keys : \A r \in Range(obj.sections[i].relocs) : Untouched(machine, m, vs[i].cursor, r)
        /\ \A r \in Range(obj.sections[sec].relocs) : Untouched(machine, m, at, r)
    BY <1>1, <1>3, <1>4, <1>15, <1>21 DEF LinkInv, RawOK
  <2>2. PICK m2 : m2 = mem'
    OBVIOUS
  <2>3. ASSUME NEW i \in Keys, NEW r \in Range(obj.sections[i].relocs)
        PROVE  Untouched(machine, m2, vs[i].cursor, r)
    <3>1. i \in DOMAIN vs /\ End(vs[i]) <= lo /\ Below(m, m2, 4, lo) /\ Untouched(machine, m, vs[i].cursor, r)
      BY <1>15, <1>19, <1>23, <2>1, <2>2, <2>3
    <3> QED
      BY <1>16, <3>1, UntouchedBelow
  <2>4. ASSUME NEW r \in Range(obj.sections[sec].relocs)
        PROVE  Untouched(machine, m2, at, r)
    <3>1. r.offset \in Nat /\ FieldLen(r) \in {4, 8} /\ r.offset + FieldLen(r) <= len
      BY <1>4, <1>5, RelocFacts
    <3>2. PICK x \in Nat, w \in {4, 8} : x = at + r.offset /\ w = FieldLen(r) /\ x + w <= lo
      BY <1>17, <3>1
    <3>3. \A o \in WordsAt(x, r) : o \in Nat /\ o + 4 <= lo
      BY <3>2, WordFacts
    <3> QED
      BY <1>23, <2>1, <2>2, <3>2, <3>3 DEF Below, Untouched
  <2>5. \A i \in Keys' : \A r \in Range(obj.sections[i].relocs) : Untouched(machine, m2, vs2[i].cursor, r)
    BY <1>12, <1>13, <1>15, <2>3, <2>4
  <2>6. \A i \in Keys' : \A r \in Range(link'.obj.sections[i].relocs) : Untouched(machine, mem', Get(i)'.cursor, r)
    BY <1>10, <1>15, <2>2, <2>5
  <2> QED
    BY <1>10, <1>11, <2>1, <2>6 DEF RawOK, Untouched
<1> QED
  BY <1>11, <1>20, <1>24, <1>25 DEF LinkInv, DoneOK

\* The walk's next section is the first one above with relocations.
LEMMA NextRelocUp ==
  ASSUME NEW obj \in Objects, NEW i \in Nat, i <= Len(obj.sections)
  PROVE  LET next == NextReloc(obj, i)
         IN  /\ next[1] \in Nat /\ next[1] > i /\ next[2] = 1
             /\ \A j \in Tracked(obj) : j > i /\ obj.sections[j].relocs # <<>> => next[1] <= j
<1> DEFINE n == Len(obj.sections)
           S == {j \in Tracked(obj) : j > i /\ obj.sections[j].relocs # <<>>} \cup {n + 1}
<1>1. obj.sections \in Seq(Range(obj.sections)) /\ n \in Nat
  BY CoffrAssumption
<1>2. NextReloc(obj, i)[1] = Min(S) /\ NextReloc(obj, i)[2] = 1
  BY DEF NextReloc
<1>3. \A j \in Tracked(obj) : j \in Nat
  BY <1>1 DEF Tracked
<1>4. S \in SUBSET Nat /\ S # {} /\ \A j \in S : j > i
  BY <1>1, <1>3
<1> HIDE DEF S
<1>5. Min(S) \in S /\ \A j \in S : Min(S) <= j
  BY <1>4, MinIsLeast
<1>6. Min(S) \in Nat /\ Min(S) > i
  BY <1>4, <1>5
<1>7. \A j \in Tracked(obj) : j > i /\ obj.sections[j].relocs # <<>> => j \in S
  BY DEF S
<1> QED
  BY <1>2, <1>5, <1>6, <1>7

LEMMA EndLinkInv ==
  ASSUME CoffrInv, CoffrTypes, LinkInv, TrackEnd
  PROVE  LinkInv'
<1>1. ~NotLinking /\ ~In("count") /\ ~In("relocate") /\ LinkOK /\ LayoutOK
  BY DEF TrackEnd, NotLinking, In, CoffrInv
<1>2. /\ DOMAIN link = LinkFields /\ Keys \subseteq Tracked(link.obj) /\ Keys \subseteq Nat
  BY <1>1, LinkFacts
<1>3. PICK obj \in Objects : obj = link.obj
  BY <1>1, LinkFacts
<1>4. UNCHANGED <<vars, cacheVars, machine, mem, stubs>>
  BY DEF TrackEnd
<1>5. /\ link'.phase = "relocate" /\ link'.obj = obj /\ link'.used = link.used
      /\ link'.todo = NextReloc(obj, 0)
  BY <1>2, <1>3 DEF TrackEnd, LinkFields
<1>6. ~In("count")' /\ In("relocate")'
  BY <1>5 DEF In
<1>7. OrderOK' /\ PoolsOK'
  <2>1. Top' = Top /\ cursor' = cursor /\ code' = code
    BY <1>4 DEF vars, Top
  <2> QED
    BY <1>1, <1>3, <1>4, <1>5, <1>6, <2>1, OrderSame DEF LinkInv
<1>8. Keys' = Keys /\ \A k \in Keys : Get(k)' = Get(k)
  BY <1>4, CacheKept
<1>9. /\ link'.todo[1] \in Nat /\ link'.todo[2] = 1
      /\ \A j \in Tracked(obj) : j > 0 /\ obj.sections[j].relocs # <<>> => link'.todo[1] <= j
  <2>1. Len(obj.sections) \in Nat
    BY CoffrAssumption
  <2>2. 0 \in Nat /\ 0 <= Len(obj.sections)
    BY <2>1
  <2> QED
    BY <1>5, <2>2, NextRelocUp
<1>10. link.used = 0 /\ \A i \in Keys : \A r \in Range(obj.sections[i].relocs) : Untouched(machine, mem, Get(i).cursor, r)
  BY <1>1, <1>3 DEF LinkInv, RawOK
<1>11. ASSUME NEW i \in Keys, NEW k \in DOMAIN obj.sections[i].relocs
       PROVE  /\ ~(i < link'.todo[1] \/ (i = link'.todo[1] /\ k < link'.todo[2]))
              /\ Untouched(machine, mem, Get(i).cursor, obj.sections[i].relocs[k])
  <2>1. i \in Tracked(obj) /\ i \in DOMAIN obj.sections /\ i > 0 /\ i \in Nat
    <3>1. i \in Tracked(obj) /\ i \in DOMAIN obj.sections
      BY <1>2, <1>3 DEF Tracked
    <3>2. obj.sections \in Seq(Range(obj.sections))
      BY CoffrAssumption
    <3> QED
      BY <3>1, <3>2
  <2>2. DOMAIN obj.sections[i].relocs = 1 .. Len(obj.sections[i].relocs) /\ Len(obj.sections[i].relocs) \in Nat
    BY <2>1, RelocFacts
  <2>3. obj.sections[i].relocs # <<>> /\ k \in Nat /\ k >= 1
    BY <2>2
  <2>4. link'.todo[1] <= i
    BY <1>9, <2>1, <2>3
  <2>5. obj.sections[i].relocs[k] \in Range(obj.sections[i].relocs)
    BY <2>1, RelocFacts
  <2>6. ~(i < link'.todo[1]) /\ ~(k < link'.todo[2])
    BY <1>9, <2>1, <2>3, <2>4
  <2> QED
    BY <1>10, <2>5, <2>6
<1>12. Relocating' => link'.used <= View'.count
  <2> SUFFICES ASSUME Relocating' PROVE link'.used <= View'.count
    OBVIOUS
  <2>1. WalkOK'
    BY WalkNext DEF CoffrInv, CoffrNext
  <2>2. link'.todo[1] \in Tracked(obj)
    BY <1>5, <2>1 DEF WalkOK, Tracked
  <2>3. link'.todo[1] \in Keys
    <3>1. ~InSections
      BY DEF TrackEnd
    <3>2. Tracked(link.obj) \subseteq Keys
      BY <1>1, <3>1, AllPlaced
    <3> QED
      BY <1>3, <2>2, <3>2
  <2>4. View' = Get(link'.todo[1])
    BY <1>4 DEF View, Get, cacheVars
  <2>5. View'.count \in Nat
    <3>1. InOrder(Views, link.obj, Top.cursor)
      BY <1>1 DEF LinkInv, OrderOK
    <3>2. Get(link'.todo[1]) \in SectionView
      BY <2>3, <3>1, ViewsFacts DEF InOrder
    <3> QED
      BY <2>4, <3>2 DEF SectionView
  <2> QED
    BY <1>5, <1>10, <2>5
<1>13. DoneOK'
  <2>1. ASSUME NEW i \in Keys', NEW k \in DOMAIN link'.obj.sections[i].relocs
        PROVE  ~Walked(i, k)' /\ Untouched(machine, mem', Get(i)'.cursor, link'.obj.sections[i].relocs[k])
    BY <1>4, <1>5, <1>8, <1>11 DEF Walked
  <2> QED
    BY <1>4, <1>9, <1>12, <2>1 DEF DoneOK, Untouched
<1> QED
  BY <1>6, <1>7, <1>13 DEF LinkInv, RawOK

-----------------------------------------------------------------------------
(* The link in progress, as it relocates. *)

\* The field of relocation K of section I has no word in common with others,
LEMMA PlacesApart ==
  ASSUME NEW obj \in Objects, NEW vs, NEW lo, InOrder(vs, obj, lo),
         NEW I \in DOMAIN vs, NEW K \in DOMAIN obj.sections[I].relocs,
         NEW i \in DOMAIN vs, NEW k \in DOMAIN obj.sections[i].relocs,
         ~(i = I /\ k = K)
  PROVE  LET r == obj.sections[i].relocs[k]
             R == obj.sections[I].relocs[K]
         IN  \A o \in WordsAt(vs[i].cursor + r.offset, r) : o \notin WordsAt(vs[I].cursor + R.offset, R)
<1>1. I \in DOMAIN obj.sections /\ i \in DOMAIN obj.sections
  BY DEF InOrder
<1>2. PICK c \in Nat, p \in Nat, e \in Nat, C \in Nat, P \in Nat, E \in Nat :
        /\ c = vs[i].cursor /\ p = vs[i].pool /\ e = End(vs[i]) /\ p <= e
        /\ C = vs[I].cursor /\ P = vs[I].pool /\ E = End(vs[I]) /\ P <= E
  <2>1. /\ vs[i].cursor \in Nat /\ vs[i].pool \in Nat /\ End(vs[i]) \in Nat /\ vs[i].pool <= End(vs[i])
        /\ vs[I].cursor \in Nat /\ vs[I].pool \in Nat /\ End(vs[I]) \in Nat /\ vs[I].pool <= End(vs[I])
    BY Laid
  <2> QED
    BY <2>1
<1>3. PICK r, R : r = obj.sections[i].relocs[k] /\ R = obj.sections[I].relocs[K]
  OBVIOUS
<1>4. r \in Range(obj.sections[i].relocs) /\ R \in Range(obj.sections[I].relocs)
  BY <1>1, <1>3, RelocFacts
<1>a. PICK a \in Nat, A \in Nat, w \in {4, 8}, W \in {4, 8} :
        a = r.offset /\ A = R.offset /\ w = FieldLen(r) /\ W = FieldLen(R)
  BY <1>1, <1>4, RelocFacts
<1>5. c + a + w <= p /\ C + A + W <= P
  BY <1>2, <1>4, <1>a, Laid
<1>w. SUFFICES ASSUME NEW o \in WordsAt(c + a, r), o \in WordsAt(C + A, R)
               PROVE  FALSE
  BY <1>2, <1>3, <1>a
<1>b. o \in Nat /\ c + a <= o /\ o + 4 <= c + a + w /\ C + A <= o /\ o + 4 <= C + A + W
  <2>1. c + a \in Nat /\ C + A \in Nat
    OBVIOUS
  <2> QED
    BY <1>a, <1>w, <2>1, WordFacts
<1>6. i \in Nat /\ I \in Nat
  <2>1. obj.sections \in Seq(Range(obj.sections))
    BY CoffrAssumption
  <2> QED
    BY <1>1, <2>1
<1>7. CASE i < I
  <2>1. e <= C
    BY <1>2, <1>7 DEF InOrder
  <2> QED
    BY <1>2, <1>5, <1>b, <2>1
<1>8. CASE I < i
  <2>1. E <= c
    BY <1>2, <1>8 DEF InOrder
  <2> QED
    BY <1>2, <1>5, <1>b, <2>1
<1>9. CASE i = I
  <2>1. k # K /\ c = C
    BY <1>2, <1>9
  <2>2. FieldsApart(obj.sections[I].relocs, k, K)
    BY <1>1, <1>9, <2>1, RelocFacts
  <2>3. a + w <= A \/ A + W <= a
    BY <1>3, <1>9, <1>a, <2>2 DEF FieldsApart
  <2> QED
    BY <1>b, <2>1, <2>3
<1>10. i < I \/ I < i \/ i = I
  <2>1. \A x, y \in Nat : x < y \/ y < x \/ x = y
    OBVIOUS
  <2> QED
    BY <1>6, <2>1, Zenon
<1> QED
  BY <1>7, <1>8, <1>9, <1>10, Zenon

\* and trampoline n of section I from all fields, and above the trampolines
\* taken before it.
LEMMA PoolApart ==
  ASSUME NEW obj \in Objects, NEW vs, NEW lo, InOrder(vs, obj, lo),
         NEW I \in DOMAIN vs, NEW n \in 0 .. vs[I].count - 1, NEW i \in DOMAIN vs
  PROVE  /\ \A r \in Range(obj.sections[i].relocs) :
              \A o \in WordsAt(vs[i].cursor + r.offset, r) :
                o + 4 <= Tramp(vs[I], n) \/ o >= Tramp(vs[I], n) + StubLen
         /\ \A k \in 0 .. vs[i].count - 1 :
              (i < I \/ (i = I /\ k < n)) => Tramp(vs[i], k) + StubLen <= Tramp(vs[I], n)
<1>1. PICK c \in Nat, p \in Nat, e \in Nat, C \in Nat, P \in Nat, E \in Nat, s \in Nat :
        /\ c = vs[i].cursor /\ p = vs[i].pool /\ e = End(vs[i]) /\ p <= e
        /\ C = vs[I].cursor /\ P = vs[I].pool /\ E = End(vs[I]) /\ C <= P
        /\ s = Tramp(vs[I], n) /\ P <= s /\ s + StubLen <= E
  <2>1. /\ vs[i].cursor \in Nat /\ vs[i].pool \in Nat /\ End(vs[i]) \in Nat /\ vs[i].pool <= End(vs[i])
        /\ vs[I].cursor \in Nat /\ vs[I].pool \in Nat /\ End(vs[I]) \in Nat
        /\ Tramp(vs[I], n) \in Nat /\ vs[I].pool <= Tramp(vs[I], n)
        /\ Tramp(vs[I], n) + StubLen <= End(vs[I])
    BY Laid
  <2>2. vs[I].cursor <= vs[I].pool
    <3>1. /\ vs[I].cursor \in Nat /\ vs[I].pool \in Nat /\ obj.sections[I].len \in Nat
          /\ vs[I].cursor + obj.sections[I].len <= vs[I].pool
      BY Laid
    <3> QED
      BY <3>1
  <2> QED
    BY <2>1, <2>2
<1>2. i \in Nat /\ I \in Nat
  <2>1. obj.sections \in Seq(Range(obj.sections))
    BY CoffrAssumption
  <2> QED
    BY <2>1 DEF InOrder
<1>3. i < I => e <= C
  BY <1>1 DEF InOrder
<1>4. I < i => E <= c
  BY <1>1 DEF InOrder
<1>5. ASSUME NEW r \in Range(obj.sections[i].relocs), NEW o \in WordsAt(c + r.offset, r)
      PROVE  o + 4 <= s \/ o >= s + StubLen
  <2>0. r.offset \in Nat
    BY Laid
  <2>1. o \in Nat /\ c <= o /\ o + 4 <= p
    <3>1. /\ \A x \in WordsAt(vs[i].cursor + r.offset, r) :
              x \in Nat /\ vs[i].cursor + r.offset <= x /\ x + 4 <= vs[i].pool
      BY Laid
    <3>2. o \in Nat /\ c + r.offset <= o /\ o + 4 <= p
      BY <1>1, <1>5, <3>1
    <3> QED
      BY <1>1, <2>0, <3>2
  <2>2. CASE i < I
    BY <1>1, <1>3, <2>1, <2>2
  <2>3. CASE i = I
    BY <1>1, <2>1, <2>3
  <2>4. CASE I < i
    BY <1>1, <1>4, <2>1, <2>4 DEF StubLen
  <2> QED
    BY <1>2, <2>2, <2>3, <2>4
<1>6. ASSUME NEW k \in 0 .. vs[i].count - 1, i < I \/ (i = I /\ k < n)
      PROVE  Tramp(vs[i], k) + StubLen <= s
  <2>1. PICK t \in Nat : t = Tramp(vs[i], k) /\ t + StubLen <= e
    BY <1>1, Laid
  <2>2. CASE i < I
    BY <1>1, <1>3, <2>1, <2>2 DEF StubLen
  <2>3. CASE i = I /\ k < n
    <3>1. t = P + 16 * k /\ s = P + 16 * n
      BY <1>1, <2>1, <2>3 DEF Tramp, StubLen
    <3>2. k \in Nat /\ n \in Nat /\ k + 1 <= n
      <4>1. vs[I].count \in Nat
        BY Laid
      <4> QED
        BY <2>3, <4>1
    <3>3. 16 * k + 16 <= 16 * n
      BY <3>2
    <3> QED
      BY <1>1, <2>1, <3>1, <3>2, <3>3 DEF StubLen
  <2> QED
    BY <1>6, <2>2, <2>3
<1> QED
  BY <1>1, <1>5, <1>6

\* What the walk is about to relocate.
LEMMA FreshField ==
  ASSUME CoffrInv, CoffrTypes, LinkInv, Relocating
  PROVE  /\ ~NotLinking /\ In("relocate") /\ link.obj \in Objects
         /\ InOrder(Views, link.obj, Top.cursor)
         /\ link.todo[1] \in Keys /\ link.todo[1] \in Nat
         /\ link.todo[2] \in DOMAIN link.obj.sections[link.todo[1]].relocs
         /\ Reloc = link.obj.sections[link.todo[1]].relocs[link.todo[2]]
         /\ Reloc \in Range(link.obj.sections[link.todo[1]].relocs)
         /\ View = Views[link.todo[1]] /\ View \in SectionView
         /\ At \in Nat /\ At \in DOMAIN mem /\ mem[At] = Given(machine, Reloc)
         /\ At \in WordsAt(At, Reloc)
         /\ \A o \in WordsAt(At, Reloc) : o \in DOMAIN mem /\ mem[o] = mem[At]
         /\ At = Views[link.todo[1]].cursor + Reloc.offset
         /\ link.used \in Nat /\ link.used <= View.count
<1>1. ~NotLinking /\ In("relocate")
  BY DEF Relocating, NotLinking, In
<1>2. /\ link.todo[1] \in Keys /\ link.todo[2] \in DOMAIN Relocs
      /\ Reloc \in Range(link.obj.sections[link.todo[1]].relocs)
      /\ At \in Nat /\ View = Views[link.todo[1]]
  BY PatchedPlaces DEF LinkInv
<1>3. InOrder(Views, link.obj, Top.cursor)
  BY <1>1 DEF LinkInv, OrderOK
<1>4. View \in SectionView
  BY <1>2, <1>3, ViewsFacts DEF InOrder
<1>5. link.todo[1] \in Nat /\ link.used <= View.count
  BY <1>1 DEF LinkInv, DoneOK
<1>6. DOMAIN Relocs = 1 .. Len(Relocs)
  BY <1>1, <1>2, LinkFacts, RelocFacts DEF Relocs
<1>7. ~Walked(link.todo[1], link.todo[2])
  <2>1. link.todo[2] \in Int
    BY <1>2, <1>6
  <2> QED
    BY <1>5, <2>1 DEF Walked
<1>8. Untouched(machine, mem, Get(link.todo[1]).cursor, Reloc)
  BY <1>1, <1>2, <1>7 DEF LinkInv, DoneOK, Reloc, Relocs
<1>9. At = Get(link.todo[1]).cursor + Reloc.offset
  BY DEF At, View
<1>10. At \in WordsAt(At, Reloc) /\ \A o \in WordsAt(At, Reloc) : o \in DOMAIN mem /\ mem[o] = Given(machine, Reloc)
  BY <1>2, <1>8, <1>9, WordFacts DEF Untouched
<1> QED
  BY <1>1, <1>2, <1>3, <1>4, <1>5, <1>9, <1>10, LinkFacts, Zenon DEF View, Reloc, Relocs

LEMMA RelocNumbers ==
  ASSUME CoffrInv, CoffrTypes, LinkInv, Relocating, Linkable
  PROVE  Numbers(Views, Reloc)
<1>o. PICK obj \in Objects : obj = link.obj
  BY FreshField
<1>p. PICK vs, i, r : vs = Views /\ i = link.todo[1] /\ r = Reloc
  OBVIOUS
<1>1. obj = link.obj /\ vs = Views /\ i = link.todo[1] /\ r = Reloc
  BY <1>o, <1>p
<1>2. /\ InOrder(vs, obj, Top.cursor) /\ i \in DOMAIN vs /\ r \in Range(obj.sections[i].relocs)
  BY <1>1, FreshField, ViewsFacts
<1>3. /\ r.tail \in Nat /\ r.addend \in Int
      /\ IF r.symbol.kind = "section"
           THEN r.symbol.idx \in DOMAIN obj.sections /\ r.symbol.offset \in Nat
           ELSE r.symbol.address \in Nat
  <2>1. i \in DOMAIN obj.sections
    BY <1>2, Laid
  <2> QED
    BY <1>2, <2>1, RelocFacts
<1>4. CASE r.symbol.kind = "section"
  <2>1. r.symbol.idx \in DOMAIN vs
    BY <1>1, <1>4, ViewsThere, ViewsFacts DEF ViewsComplete
  <2>2. vs[r.symbol.idx].cursor \in Nat
    BY <1>2, <2>1, Laid
  <2>3. r.symbol.idx \in Int
    <3>1. obj.sections \in Seq(Range(obj.sections))
      BY CoffrAssumption
    <3> QED
      BY <1>3, <1>4, <3>1
  <2>4. /\ Address(vs, r.symbol) = Base + vs[r.symbol.idx].cursor + r.symbol.offset
        /\ SectStart(vs, r.symbol) = Base + vs[r.symbol.idx].cursor
        /\ SectIdx(r.symbol) = r.symbol.idx
    BY <1>4 DEF Address, SectStart, SectIdx
  <2>5. Address(vs, r.symbol) \in Int /\ SectStart(vs, r.symbol) \in Int
    BY <1>3, <1>4, <2>2, <2>4, SlabAssumption
  <2> QED
    BY <1>1, <1>3, <2>3, <2>4, <2>5 DEF Numbers
<1>5. CASE r.symbol.kind # "section"
  <2>1. Address(vs, r.symbol) = r.symbol.address /\ SectStart(vs, r.symbol) = 0 /\ SectIdx(r.symbol) = 0
    BY <1>5 DEF Address, SectStart, SectIdx
  <2> QED
    BY <1>1, <1>3, <1>5, <2>1 DEF Numbers
<1> QED
  BY <1>4, <1>5

\* The walk's next place has exactly the relocations before it that the last
\* one had, and that one.
LEMMA WalkMoves ==
  ASSUME NEW obj \in Objects, NEW I \in Tracked(obj), NEW K \in DOMAIN obj.sections[I].relocs,
         NEW T, T = IF K = Len(obj.sections[I].relocs) THEN NextReloc(obj, I) ELSE <<I, K + 1>>
  PROVE  /\ T[1] \in Nat /\ I \in Nat /\ K \in Nat
         /\ IF K = Len(obj.sections[I].relocs) THEN T[1] > I ELSE T[1] = I
         /\ \A i \in Tracked(obj) : \A k \in DOMAIN obj.sections[i].relocs :
              (i < T[1] \/ (i = T[1] /\ k < T[2]))
                <=> (i < I \/ (i = I /\ k < K) \/ (i = I /\ k = K))
<1>1. obj.sections \in Seq(Range(obj.sections)) /\ Len(obj.sections) \in Nat
  BY CoffrAssumption
<1>2. \A i \in Tracked(obj) : i \in DOMAIN obj.sections /\ i \in Nat /\ i <= Len(obj.sections)
  BY <1>1 DEF Tracked
<1>3. \A i \in Tracked(obj) : /\ Len(obj.sections[i].relocs) \in Nat
                              /\ DOMAIN obj.sections[i].relocs = 1 .. Len(obj.sections[i].relocs)
  BY <1>2, RelocFacts
<1>4. I \in Nat /\ K \in Nat /\ K <= Len(obj.sections[I].relocs) /\ I <= Len(obj.sections)
  BY <1>2, <1>3
<1>5. CASE K = Len(obj.sections[I].relocs)
  <2>1. T = NextReloc(obj, I)
    BY <1>5
  <2>2. /\ T[1] \in Nat /\ T[1] > I /\ T[2] = 1
        /\ \A j \in Tracked(obj) : j > I /\ obj.sections[j].relocs # <<>> => T[1] <= j
    BY <1>4, <2>1, NextRelocUp
  <2>3. ASSUME NEW i \in Tracked(obj), NEW k \in DOMAIN obj.sections[i].relocs
        PROVE  (i < T[1] \/ (i = T[1] /\ k < T[2]))
                 <=> (i < I \/ (i = I /\ k < K) \/ (i = I /\ k = K))
    <3>1. k \in Nat /\ k >= 1 /\ obj.sections[i].relocs # <<>> /\ i \in Nat
      BY <1>2, <1>3
    <3>2. i = I => k <= K
      BY <1>3, <1>5
    <3>3. i > I => T[1] <= i
      BY <2>2, <3>1
    <3> QED
      BY <1>4, <2>2, <3>1, <3>2, <3>3
  <2> QED
    BY <1>4, <1>5, <2>2, <2>3
<1>6. CASE K # Len(obj.sections[I].relocs)
  <2>1. T[1] = I /\ T[2] = K + 1
    BY <1>6
  <2>2. ASSUME NEW i \in Tracked(obj), NEW k \in DOMAIN obj.sections[i].relocs
        PROVE  (i < T[1] \/ (i = T[1] /\ k < T[2]))
                 <=> (i < I \/ (i = I /\ k < K) \/ (i = I /\ k = K))
    <3>1. k \in Nat /\ i \in Nat
      BY <1>2, <1>3
    <3>2. k < K + 1 <=> k < K \/ k = K
      BY <1>4, <3>1
    <3> QED
      BY <2>1, <3>2
  <2> QED
    BY <1>4, <1>6, <2>1, <2>2
<1> QED
  BY <1>5, <1>6

\* One relocation of the walk.
PatchStep(took) ==
  /\ Advance(took) /\ [CoffrNext]_allVars
  /\ UNCHANGED <<cacheVars, machine>>
  /\ UNCHANGED vars \/ \E blocks \in SUBSET code : Patch(blocks)
  /\ took => link.used < View.count
  /\ DOMAIN stubs' = DOMAIN stubs

\* The fields of the other relocations are left as they are.
FieldsStay ==
  \A i \in Keys : \A k \in DOMAIN link.obj.sections[i].relocs :
    LET r == link.obj.sections[i].relocs[k]
    IN  \A o \in WordsAt(Views[i].cursor + r.offset, r) \ WordsAt(At, Reloc) :
          o \in DOMAIN mem => o \in DOMAIN mem' /\ mem'[o] = mem[o]

\* The trampolines that were taken are left as they are.
TrampsStay ==
  \A i \in Keys : \A k \in DOMAIN link.obj.sections[i].relocs :
    Walked(i, k) =>
      \A x \in 0 .. Taken(i, link.obj.sections[i].relocs[k]) - 1 :
        LET o == Tramp(Views[i], x)
        IN  o \in DOMAIN stubs => stubs'[o] = stubs[o]

\* So many trampolines are taken when the walk's relocation is done.
NowTaken(took) ==
  IF machine = "arm64" THEN IF FarCall(Reloc) THEN View.count ELSE 0
  ELSE IF took THEN link.used + 1 ELSE link.used

\* A step of the walk that makes its relocation good and leaves all other
\* fields and all trampolines that were taken.
LEMMA WalkOn ==
  ASSUME CoffrInv, CoffrTypes, LinkInv, Relocating,
         NEW took \in BOOLEAN, PatchStep(took), FieldsStay, TrampsStay,
         NEW n, n = NowTaken(took),
         Good(mem', stubs', machine, Views, link.base, link.todo[1], Reloc, n)
  PROVE  LinkInv'
<1>a. /\ Advance(took) /\ machine' = machine /\ (took => link.used < View.count)
      /\ DOMAIN stubs' = DOMAIN stubs
  BY DEF PatchStep
<1>b. [CoffrNext]_allVars /\ UNCHANGED cacheVars
  BY DEF PatchStep
<1>c. UNCHANGED vars \/ \E blocks \in SUBSET code : Patch(blocks)
  BY DEF PatchStep
<1>1. /\ ~NotLinking /\ In("relocate") /\ ~In("count") /\ LinkOK /\ LayoutOK
      /\ InOrder(Views, link.obj, Top.cursor) /\ Keys \subseteq Tracked(link.obj)
      /\ Keys \subseteq Nat /\ DOMAIN link = LinkFields /\ CountInv
  BY FreshField, LinkFacts DEF CoffrInv, In
<1>o. PICK obj \in Objects : obj = link.obj
  BY FreshField
<1>2. PICK vs, I, K, T, m, m2, st, st2, mach, base, top :
        /\ vs = Views /\ I = link.todo[1] /\ K = link.todo[2] /\ T = link'.todo
        /\ m = mem /\ m2 = mem' /\ st = stubs /\ st2 = stubs' /\ mach = machine
        /\ base = link.base /\ top = Top.cursor
  OBVIOUS
<1>u. PICK u \in Nat : u = link.used
  BY FreshField
<1>3. /\ I \in Keys /\ I \in Nat /\ K \in DOMAIN obj.sections[I].relocs
      /\ Reloc = obj.sections[I].relocs[K] /\ View = vs[I]
      /\ At = vs[I].cursor + obj.sections[I].relocs[K].offset
      /\ InOrder(vs, obj, top) /\ DOMAIN vs = Keys
      /\ vs[I].count \in Nat /\ u <= vs[I].count /\ (took => u < vs[I].count)
  <2>1. View.count \in Nat /\ u <= View.count /\ (took => u < View.count)
    <3>1. View.count \in Nat /\ link.used <= View.count
      BY FreshField, Zenon DEF SectionView
    <3> QED
      BY <1>a, <1>u, <3>1
  <2>2. /\ I \in Keys /\ I \in Nat /\ K \in DOMAIN obj.sections[I].relocs
        /\ Reloc = obj.sections[I].relocs[K] /\ View = vs[I]
        /\ At = vs[I].cursor + obj.sections[I].relocs[K].offset
    BY <1>o, <1>2, <2>1, FreshField
  <2>3. InOrder(vs, obj, top) /\ DOMAIN vs = Keys
    BY <1>1, <1>o, <1>2, ViewsFacts
  <2> QED
    BY <2>1, <2>2, <2>3
<1>R. PICK R : R = Reloc /\ R = obj.sections[I].relocs[K]
  BY <1>3
<1>4. /\ n = IF mach = "arm64" THEN IF FarCall(R) THEN vs[I].count ELSE 0
               ELSE IF took THEN u + 1 ELSE u
      /\ n \in Nat /\ n <= vs[I].count
  <2>1. View.count = vs[I].count /\ Reloc = R /\ link.used = u /\ machine = mach
    BY <1>2, <1>u, <1>3, <1>R, Zenon
  <2>2. n = IF mach = "arm64" THEN IF FarCall(R) THEN vs[I].count ELSE 0
            ELSE IF took THEN u + 1 ELSE u
    BY <2>1 DEF NowTaken
  <2>3. PICK c \in Nat : c = vs[I].count
    BY <1>3
  <2>4. u <= c /\ (took => u < c)
    BY <1>3, <2>3
  <2>5. n \in Nat /\ n <= c
    BY <2>2, <2>3, <2>4
  <2> QED
    BY <2>2, <2>3, <2>5, Zenon
<1>5. /\ link'.phase = "relocate" /\ link'.obj = obj /\ link'.base = base /\ link'.sec = link.sec
      /\ T = IF K = Len(obj.sections[I].relocs) THEN NextReloc(obj, I) ELSE <<I, K + 1>>
      /\ link'.used = IF mach = "arm64" \/ K = Len(obj.sections[I].relocs) THEN 0 ELSE n
  <2>1. Relocs = obj.sections[I].relocs
    BY <1>o, <1>2 DEF Relocs
  <2> QED
    BY <1>a, <1>1, <1>o, <1>2, <1>u, <1>4, <2>1 DEF Advance, NextUsed, LinkFields, In
<1>6. In("relocate")' /\ ~In("count")' /\ ~NotLinking'
  BY <1>5 DEF In, NotLinking
<1>7. Keys' = Keys /\ Views' = vs /\ \A k \in Keys : Get(k)' = vs[k] /\ Get(k) = vs[k]
  BY <1>b, <1>2, ViewsKept, CacheKept, ViewsFacts
<1>8. OrderOK' /\ PoolsOK'
  <2>1. /\ Top'.id = Top.id /\ Top'.cursor = Top.cursor
        /\ \A lo, len : Lies(code, Top.id, lo, len) => Lies(code', Top.id, lo, len)
    BY <1>b, <1>c, <1>1, LinkBlocksStay
  <2>2. cursor' = cursor
    BY <1>c DEF Patch, vars
  <2> QED
    BY <1>a, <1>b, <1>1, <1>o, <1>5, <1>6, <2>1, <2>2, OrderSame DEF LinkInv
<1>9. /\ T[1] \in Nat /\ K \in Nat
      /\ IF K = Len(obj.sections[I].relocs) THEN T[1] > I ELSE T[1] = I
      /\ \A i \in Tracked(obj) : \A k \in DOMAIN obj.sections[i].relocs :
           (i < T[1] \/ (i = T[1] /\ k < T[2]))
             <=> (i < I \/ (i = I /\ k < K) \/ (i = I /\ k = K))
  <2>1. I \in Tracked(obj)
    BY <1>1, <1>o, <1>3
  <2> QED
    BY <1>3, <1>5, <2>1, WalkMoves
<1>10. PICK u2 : u2 = link'.used
  OBVIOUS
<1>11. u2 \in Nat /\ u2 = IF mach = "arm64" \/ K = Len(obj.sections[I].relocs) THEN 0 ELSE n
  BY <1>4, <1>5, <1>10
<1> DEFINE Taken1(i, r) == IF mach = "arm64" THEN IF FarCall(r) THEN vs[i].count ELSE 0
                           ELSE IF i = I THEN u ELSE vs[i].count
           Taken2(i, r) == IF mach = "arm64" THEN IF FarCall(r) THEN vs[i].count ELSE 0
                           ELSE IF i = T[1] THEN u2 ELSE vs[i].count
<1>12. /\ \A i \in Keys : \A r : Taken(i, r) = Taken1(i, r) /\ Taken(i, r)' = Taken2(i, r)
       /\ \A i, k : Walked(i, k) <=> (i < I \/ (i = I /\ k < K))
       /\ \A i, k : Walked(i, k)' <=> (i < T[1] \/ (i = T[1] /\ k < T[2]))
  <2>1. ASSUME NEW i \in Keys, NEW r
        PROVE  Taken(i, r) = Taken1(i, r)
    BY <1>2, <1>u, <1>7, <2>1 DEF Taken
  <2>2. ASSUME NEW i \in Keys, NEW r
        PROVE  Taken(i, r)' = Taken2(i, r)
    BY <1>a, <1>2, <1>7, <1>10, <2>2 DEF Taken
  <2> QED
    BY <1>2, <2>1, <2>2 DEF Walked
<1>13. Taken2(I, R) \in Nat /\ n <= Taken2(I, R)
  <2>1. CASE mach = "arm64"
    BY <1>3, <1>4, <2>1
  <2>2. CASE mach # "arm64"
    BY <1>3, <1>4, <1>9, <1>11, <2>2
  <2> QED
    BY <2>1, <2>2
<1>14. ASSUME NEW i \in Keys, i < I \/ i = I, NEW r
       PROVE  /\ Taken1(i, r) \in Nat /\ Taken2(i, r) \in Nat
              /\ Taken1(i, r) <= Taken2(i, r) /\ Taken1(i, r) <= vs[i].count
  <2>1. vs[i].count \in Nat
    BY <1>3, <1>14, Laid
  <2>2. CASE mach = "arm64"
    BY <2>1, <2>2
  <2>3. CASE mach # "arm64" /\ i < I
    <3>1. i \in Nat /\ i # I /\ i # T[1]
      BY <1>1, <1>3, <1>9, <2>3
    <3> QED
      BY <2>1, <2>3, <3>1
  <2>4. CASE mach # "arm64" /\ i = I
    BY <1>3, <1>4, <1>9, <1>11, <2>4
  <2> QED
    BY <1>14, <2>2, <2>3, <2>4
<1> HIDE DEF Taken1, Taken2
<1>16. ASSUME NEW i \in Keys, NEW k \in DOMAIN obj.sections[i].relocs
       PROVE  IF i < T[1] \/ (i = T[1] /\ k < T[2])
                THEN Good(m2, st2, mach, vs, base, i, obj.sections[i].relocs[k],
                          Taken2(i, obj.sections[i].relocs[k]))
                ELSE Untouched(machine, m2, vs[i].cursor, obj.sections[i].relocs[k])
  <2>1. PICK r, at : r = obj.sections[i].relocs[k] /\ at = vs[i].cursor + r.offset
    OBVIOUS
  <2>2. i \in Nat /\ k \in Nat /\ i \in Tracked(obj)
    <3>1. i \in DOMAIN obj.sections
      BY <1>3, <1>16 DEF InOrder
    <3>2. /\ DOMAIN obj.sections[i].relocs = 1 .. Len(obj.sections[i].relocs)
          /\ Len(obj.sections[i].relocs) \in Nat
      BY <3>1, RelocFacts
    <3>3. k \in Nat
      BY <1>16, <3>2
    <3>4. i \in Nat /\ i \in Tracked(obj)
      <4>1. Keys \subseteq Tracked(obj) /\ Keys \subseteq Nat
        BY <1>1, <1>o
      <4> QED
        BY <1>16, <4>1
    <3> QED
      BY <3>3, <3>4
  <2>3. ASSUME ~(i = I /\ k = K), NEW o \in WordsAt(at, r), o \in DOMAIN m
        PROVE  o \in DOMAIN m2 /\ m2[o] = m[o]
    <3>1. o \notin WordsAt(At, Reloc)
      <4>1. /\ i \in DOMAIN vs /\ I \in DOMAIN vs /\ InOrder(vs, obj, top)
            /\ K \in DOMAIN obj.sections[I].relocs
        BY <1>3, <1>16
      <4>2. o \notin WordsAt(vs[I].cursor + obj.sections[I].relocs[K].offset,
                             obj.sections[I].relocs[K])
        BY <1>16, <2>1, <2>3, <4>1, PlacesApart
      <4> QED
        BY <1>3, <4>2
    <3> QED
      BY <1>o, <1>2, <1>16, <2>1, <2>3, <3>1 DEF FieldsStay
  <2>4. CASE i < I \/ (i = I /\ k < K)
    <3>1. Good(m, st, mach, vs, base, i, r, Taken1(i, r))
      <4>1. Good(mem, stubs, machine, Views, link.base, i, link.obj.sections[i].relocs[k],
                 Taken(i, link.obj.sections[i].relocs[k]))
        <5>1. Walked(i, k)
          BY <1>12, <2>4
        <5>2. k \in DOMAIN link.obj.sections[i].relocs
          BY <1>o, <1>16
        <5> QED
          BY <1>1, <1>16, <5>1, <5>2 DEF LinkInv, DoneOK
      <4> QED
        BY <1>o, <1>2, <1>12, <2>1, <4>1
    <3>2. ~(i = I /\ k = K)
      <4>1. I \in Nat /\ K \in Nat
        BY <1>3, <1>9
      <4> QED
        BY <2>2, <2>4, <4>1
    <3>3. \A o \in WordsAt(at, r) : o \in DOMAIN m => o \in DOMAIN m2 /\ m2[o] = m[o]
      BY <2>3, <3>2
    <3>4. PICK a \in Nat, b \in Nat :
            a = Taken1(i, r) /\ b = Taken2(i, r) /\ a <= b /\ a <= vs[i].count
      BY <1>14, <2>4
    <3>5. ASSUME NEW x \in 0 .. a - 1, Tramp(vs[i], x) \in DOMAIN st
          PROVE  Tramp(vs[i], x) \in DOMAIN st2 /\ st2[Tramp(vs[i], x)] = st[Tramp(vs[i], x)]
      <4>1. Walked(i, k) /\ a = Taken(i, r)
        BY <1>12, <2>4, <3>4
      <4>2. stubs'[Tramp(Views[i], x)] = stubs[Tramp(Views[i], x)]
        BY <1>o, <1>2, <1>16, <2>1, <3>5, <4>1 DEF TrampsStay
      <4> QED
        BY <1>a, <1>2, <3>5, <4>2
    <3>6. Good(m2, st2, mach, vs, base, i, r, Taken2(i, r))
      <4>1. Good(m, st, mach, vs, base, i, r, a)
        BY <3>1, <3>4
      <4>2. Good(m2, st2, mach, vs, base, i, r, b)
        BY <2>1, <3>3, <3>4, <3>5, <4>1, GoodKept
      <4> QED
        BY <3>4, <4>2
    <3> QED
      BY <1>9, <2>1, <2>2, <2>4, <3>6
  <2>5. CASE i = I /\ k = K
    <3>1. Good(m2, st2, mach, vs, base, i, r, n)
      BY <1>2, <1>3, <2>1, <2>5, Zenon
    <3>3. PICK b \in Nat : b = Taken2(i, r) /\ n <= b
      BY <1>13, <1>R, <2>1, <2>5
    <3>4. Good(m2, st2, mach, vs, base, i, r, b)
      BY <1>4, <3>1, <3>3, GoodMore
    <3> QED
      BY <1>9, <2>1, <2>2, <2>5, <3>3, <3>4
  <2>6. CASE ~(i < I \/ (i = I /\ k < K)) /\ ~(i = I /\ k = K)
    <3>1. Untouched(machine, m, vs[i].cursor, r)
      BY <1>1, <1>o, <1>2, <1>7, <1>12, <2>1, <2>6 DEF LinkInv, DoneOK
    <3>2. Untouched(machine, m2, vs[i].cursor, r)
      <4>1. ASSUME NEW o \in WordsAt(at, r)
            PROVE  o \in DOMAIN m2 /\ m2[o] = Given(machine, r)
        BY <2>1, <2>3, <2>6, <3>1, <4>1 DEF Untouched
      <4> QED
        BY <2>1, <4>1 DEF Untouched
    <3> QED
      BY <1>9, <2>1, <2>2, <2>6, <3>2
  <2> QED
    BY <2>4, <2>5, <2>6
<1>17. Relocating' => link'.used <= View'.count
  <2> SUFFICES ASSUME Relocating' PROVE link'.used <= View'.count
    OBVIOUS
  <2>1. View' = IF T[1] \in Keys THEN vs[T[1]] ELSE View'
    BY <1>2, <1>7 DEF View
  <2>2. T[1] \in Tracked(obj)
    <3>1. WalkOK'
      BY <1>b, WalkNext DEF CoffrInv
    <3> QED
      BY <1>2, <1>5, <3>1 DEF WalkOK, Tracked
  <2>3. T[1] \in Keys
    <3>1. Tracked(link.obj) \subseteq Keys
      BY <1>1, AllTracked
    <3> QED
      BY <1>o, <2>2, <3>1
  <2>4. vs[T[1]].count \in Nat
    BY <1>3, <2>3, Laid
  <2>5. u2 <= vs[T[1]].count
    BY <1>4, <1>9, <1>11, <2>4
  <2> QED
    BY <1>10, <2>1, <2>3, <2>5
<1>18. DoneOK'
  <2>1. ASSUME NEW i \in Keys', NEW k \in DOMAIN link'.obj.sections[i].relocs
        PROVE  IF Walked(i, k)'
                 THEN Good(mem', stubs', machine', Views', link'.base, i,
                           link'.obj.sections[i].relocs[k],
                           Taken(i, link.obj.sections[i].relocs[k])')
                 ELSE Untouched(machine', mem', Get(i)'.cursor, link'.obj.sections[i].relocs[k])
    <3>1. i \in Keys /\ k \in DOMAIN obj.sections[i].relocs
      BY <1>5, <1>7, <2>1
    <3> QED
      BY <1>a, <1>2, <1>5, <1>7, <1>12, <1>16, <3>1
  <2>2. link'.todo[1] \in Nat
    BY <1>2, <1>9
  <2> QED
    BY <1>17, <2>1, <2>2, Zenon DEF DoneOK, Good, Untouched
<1> QED
  BY <1>6, <1>8, <1>18 DEF LinkInv, RawOK

\* What is asked of objects for arm64, of the relocation the walk is at,
LEMMA FormedHere ==
  ASSUME CoffrInv, CoffrTypes, LinkInv, PlacesOK, WellFormed, Relocating, machine = "arm64"
  PROVE  /\ Instr(Reloc.typ) => Reloc.word \in SUBSET (0 .. 31)
         /\ Reloc.typ = "pageoffl" => WellSized(Reloc.word)
         /\ Reloc.typ \in Branches => WordAligned(link.obj, link.todo[1], Reloc)
         /\ Reloc.typ = "section" => Reloc.addend = 0
         /\ Reloc.typ \in {"addr32", "addr32nb"} => NotBelow(Reloc)
<1>1. /\ link.obj \in Objects /\ ~NotLinking /\ link.todo[1] \in Keys
      /\ Reloc \in Range(link.obj.sections[link.todo[1]].relocs)
  BY FreshField
<1>2. link.obj.arch = "arm64" /\ link.todo[1] \in Tracked(link.obj) /\ "arm64" \in Machines
  BY <1>1, LinkFacts DEF PlacesOK, CoffrTypes
<1>o. PICK obj \in Objects : obj = link.obj
  BY <1>1
<1>p. PICK i, r : i = link.todo[1] /\ r = Reloc
  OBVIOUS
<1>3. obj = link.obj /\ i = link.todo[1] /\ r = Reloc
  BY <1>o, <1>p
<1>4. i \in Tracked(obj) /\ r \in Range(obj.sections[i].relocs) /\ obj.arch = "arm64"
  BY <1>1, <1>2, <1>3
<1>5. /\ r.typ \in InstrTypes => r.word \in SUBSET (0 .. 31)
      /\ r.typ = "pageoffl" => WellSized(r.word)
      /\ r.typ \in Branches => WordAligned(obj, i, r)
      /\ r.typ = "section" => r.addend = 0
      /\ r.typ \in {"addr32", "addr32nb"} => NotBelow(r)
  BY <1>2, <1>4 DEF WellFormed
<1> QED
  BY <1>3, <1>5 DEF Instr

\* Sums and multiples of 4.
LEMMA Fours ==
  ASSUME NEW x \in Int, NEW y \in Int, x % 4 = 0, y % 4 = 0
  PROVE  (x + y) % 4 = 0 /\ (x - y) % 4 = 0
OBVIOUS

LEMMA MultipleOfFour ==
  ASSUME NEW x \in Nat, NEW a \in Nat \ {0}, a % 4 = 0, x % a = 0
  PROVE  x % 4 = 0
<1>1. 4 \in Nat \ {0}
  OBVIOUS
<1> QED
  BY <1>1, MultipleOfMultiple

\* and what follows for the instruction it patches.
LEMMA PatchNumbers ==
  ASSUME CoffrInv, CoffrTypes, LinkInv, PlacesOK, WellFormed, Relocating, Linkable,
         Instr(Reloc.typ), NEW want, want = Want(machine, Views, Reloc)
  PROVE  /\ Reloc.word \in SUBSET (0 .. 31)
         /\ Reloc.typ = "pageoffl" => WellSized(Reloc.word)
         /\ want \in Int
         /\ Reloc.typ \in Branches => (Base + At) % 4 = 0 /\ (want - (Base + At)) % 4 = 0
<1>1. machine = "arm64" /\ Reloc.typ \in InstrTypes /\ Patches(machine, Reloc.typ)
  BY PatchesFacts DEF Instr
<1>2. /\ Reloc.word \in SUBSET (0 .. 31)
      /\ Reloc.typ = "pageoffl" => WellSized(Reloc.word)
      /\ Reloc.typ \in Branches => WordAligned(link.obj, link.todo[1], Reloc)
  BY <1>1, FormedHere
<1>3. PICK a \in Int : /\ a = Addend(Reloc.typ, Reloc.word)
                       /\ Reloc.typ \in Branches => a % 4 = 0
  BY <1>1, <1>2, AddendFacts DEF Branches
<1>4. PICK s \in Int : s = Address(Views, Reloc.symbol)
  BY RelocNumbers DEF Numbers
<1>5. want = s + a
  BY <1>1, <1>3, <1>4 DEF Want
<1>6. ASSUME Reloc.typ \in Branches
      PROVE  (Base + At) % 4 = 0 /\ (want - (Base + At)) % 4 = 0
  <2>o. PICK obj \in Objects : obj = link.obj
    BY FreshField
  <2>p. PICK vs, i, r : vs = Views /\ i = link.todo[1] /\ r = Reloc
    OBVIOUS
  <2>1. obj = link.obj /\ vs = Views /\ i = link.todo[1] /\ r = Reloc
    BY <2>o, <2>p
  <2>2. /\ InOrder(vs, obj, Top.cursor) /\ i \in DOMAIN vs /\ i \in Keys
        /\ r \in Range(obj.sections[i].relocs) /\ ~NotLinking
        /\ At = vs[i].cursor + r.offset
    BY <2>1, FreshField, ViewsFacts
  <2>3. \A k \in Keys : k \in DOMAIN vs /\ (Base + vs[k].cursor) % obj.sections[k].align = 0
    BY <2>1, <2>2, ViewsFacts DEF PlacesOK
  <2>4. WordAligned(obj, i, r) /\ Base \in Nat
    BY <1>2, <1>6, <2>1, SlabAssumption
  <2>5. ASSUME NEW k \in Keys, obj.sections[k].align % 4 = 0
        PROVE  Base + vs[k].cursor \in Nat /\ (Base + vs[k].cursor) % 4 = 0
    <3>1. vs[k].cursor \in Nat
      BY <2>2, <2>3, Laid
    <3>2. obj.sections[k].align \in Nat \ {0}
      <4>1. k \in DOMAIN obj.sections
        BY <2>2, <2>3 DEF InOrder
      <4> QED
        BY <4>1, CoffrAssumption
    <3>3. PICK x \in Nat : x = Base + vs[k].cursor
      BY <2>4, <3>1
    <3>4. PICK d \in Nat \ {0} : d = obj.sections[k].align
      BY <3>2
    <3>5. d % 4 = 0 /\ x % d = 0
      BY <2>3, <2>5, <3>3, <3>4
    <3> QED
      BY <3>3, <3>4, <3>5, MultipleOfFour
  <2>6. PICK c \in Nat, o \in Nat : c = vs[i].cursor /\ o = r.offset
    BY <2>2, Laid
  <2>7. (Base + c) % 4 = 0 /\ o % 4 = 0
    BY <2>2, <2>4, <2>5, <2>6 DEF WordAligned
  <2>8. PICK p \in Int : p = Base + At /\ p % 4 = 0
    <3>1. PICK x \in Int : x = Base + c /\ x % 4 = 0
      BY <2>4, <2>7
    <3>2. (x + o) % 4 = 0 /\ x + o \in Int
      BY <2>7, <3>1, Fours
    <3>3. Base + At = x + o
      BY <2>2, <2>4, <2>6, <3>1
    <3> QED
      BY <3>2, <3>3
  <2>9. s % 4 = 0
    <3>1. CASE r.symbol.kind = "section"
      <4>1. PICK j : j = r.symbol.idx
        OBVIOUS
      <4>2. j \in Keys
        BY <2>1, <3>1, <4>1, ViewsThere DEF ViewsComplete
      <4>3. obj.sections[j].align % 4 = 0 /\ r.symbol.offset % 4 = 0
        BY <2>4, <3>1, <4>1 DEF WordAligned
      <4>4. r.symbol.offset \in Nat
        <5>1. i \in DOMAIN obj.sections
          BY <2>2 DEF InOrder
        <5> QED
          BY <2>2, <3>1, <5>1, RelocFacts
      <4>5. s = (Base + vs[j].cursor) + r.symbol.offset
        BY <1>4, <2>1, <3>1, <4>1 DEF Address
      <4>6. Base + vs[j].cursor \in Nat /\ (Base + vs[j].cursor) % 4 = 0
        BY <2>5, <4>2, <4>3
      <4>7. PICK x \in Int, y \in Int : /\ x = Base + vs[j].cursor /\ y = r.symbol.offset
                                        /\ x % 4 = 0 /\ y % 4 = 0
        BY <4>3, <4>4, <4>6
      <4> QED
        BY <4>5, <4>7, Fours
    <3>2. CASE r.symbol.kind # "section"
      BY <1>4, <2>1, <2>4, <3>2 DEF WordAligned, Address
    <3> QED
      BY <3>1, <3>2
  <2>10. want % 4 = 0 /\ want \in Int
    <3>1. a % 4 = 0
      BY <1>3, <1>6
    <3>2. (s + a) % 4 = 0 /\ s + a \in Int
      BY <2>9, <3>1, Fours
    <3> QED
      BY <1>5, <3>2
  <2> QED
    BY <2>8, <2>10, Fours
<1> QED
  BY <1>2, <1>3, <1>4, <1>5, <1>6

\* A relocation of type none: the field is as the object file has it.
LEMMA NoneLinkInv ==
  ASSUME CoffrInv, CoffrTypes, LinkInv, RelocateNone
  PROVE  LinkInv'
<1>1. /\ Relocating /\ Reloc.typ = "none" /\ Advance(FALSE)
      /\ UNCHANGED <<vars, cacheVars, machine, mem, stubs>>
  BY DEF RelocateNone
<1>2. /\ At = Views[link.todo[1]].cursor + Reloc.offset
      /\ mem[At] = Reloc.addend /\ ~Patches(machine, Reloc.typ)
      /\ \A o \in WordsAt(At, Reloc) : o \in DOMAIN mem /\ mem[o] = mem[At]
  <2>1. ~Instr(Reloc.typ)
    BY <1>1 DEF Instr, InstrTypes
  <2> QED
    BY <1>1, <2>1, FreshField, PatchesFacts
<1>3. Right(machine, Views, link.base, At, Reloc, mem[At])
  BY <1>1, <1>2 DEF Right, Kept
<1>n. PICK n : n = NowTaken(FALSE)
  OBVIOUS
<1>4. Good(mem', stubs', machine, Views, link.base, link.todo[1], Reloc, n)
  BY <1>1, <1>2, <1>3 DEF Good
<1>5. [CoffrNext]_allVars
  BY DEF CoffrNext
<1> QED
  <2>1. PatchStep(FALSE)
    BY <1>1, <1>5 DEF PatchStep
  <2>2. FieldsStay /\ TrampsStay
    BY <1>1 DEF FieldsStay, TrampsStay
  <2> QED
    BY <1>1, <1>n, <1>4, <2>1, <2>2, WalkOn

\* What is read unsigned and then fits is not below 0: read as almost 2^32, it
\* gives an address that far above a section, and does not fit.
LEMMA DirectNotBelow ==
  ASSUME CoffrInv, CoffrTypes, LinkInv, PlacesOK, WellFormed, Relocating, Linkable, Direct,
         ReadUnsigned(Reloc)
  PROVE  Reloc.addend \in 0 .. 2 * Reach["arm64"] - 1
<1>1. machine = "arm64" /\ Reloc.typ \in {"addr32", "addr32nb"} /\ ~Instr(Reloc.typ)
  BY DEF ReadUnsigned, Instr, InstrTypes
<1>o. PICK obj \in Objects : obj = link.obj
  BY FreshField
<1>v. PICK vs, i, r, at : vs = Views /\ i = link.todo[1] /\ r = Reloc /\ at = At
  OBVIOUS
<1>2. obj = link.obj /\ vs = Views /\ i = link.todo[1] /\ r = Reloc /\ at = At
  BY <1>o, <1>v
<1>3. /\ InOrder(vs, obj, Top.cursor) /\ i \in DOMAIN vs /\ ~NotLinking
      /\ r \in Range(obj.sections[i].relocs) /\ mem[at] = Given(machine, r)
  BY <1>2, FreshField, ViewsFacts
<1>4. PICK R \in Nat \ {0} : R = Reach["arm64"]
  BY <1>1, CoffrAssumption DEF CoffrTypes
<1>5. PICK a \in Int : a = r.addend
  <2>1. i \in DOMAIN obj.sections
    BY <1>3 DEF InOrder
  <2> QED
    BY <1>3, <2>1, RelocFacts
<1>6. /\ a \in -R .. 2 * R - 1
      /\ a < 0 => r.symbol.kind = "section" /\ r.symbol.offset + a >= 0
  BY <1>1, <1>2, <1>4, <1>5, FormedHere DEF NotBelow
<1>7. SUFFICES ASSUME a < 0 PROVE FALSE
  BY <1>2, <1>4, <1>5, <1>6
<1>8. PICK j : j = r.symbol.idx /\ j \in DOMAIN vs
  BY <1>2, <1>6, <1>7, ViewsThere, ViewsFacts DEF ViewsComplete
<1>9. PICK c \in Nat, top \in Nat, off \in Int :
        c = vs[j].cursor /\ top = Top.cursor /\ top <= c /\ off = r.symbol.offset
  <2>1. vs[j].cursor \in Nat /\ Top.cursor <= vs[j].cursor /\ Top.cursor \in Nat
    BY <1>3, <1>8, Laid, LinkFacts DEF InOrder
  <2>2. r.symbol.offset \in Nat
    <3>1. i \in DOMAIN obj.sections
      BY <1>3 DEF InOrder
    <3> QED
      BY <1>3, <1>6, <1>7, <3>1, RelocFacts
  <2> QED
    BY <2>1, <2>2
<1>10. PICK base \in Nat : base = link.base /\ base <= Base + top
  BY <1>3, <1>9, LinkFacts DEF PlacesOK
<1>11. PICK t : t = Target(vs, r, a)
  OBVIOUS
<1>12. t = Base + c + off + (a + 2 * R)
  <2>1. a % (2 * R) = a + 2 * R
    <3>1. PICK m \in Nat \ {0} : m = 2 * R
      BY <1>4
    <3>2. a + m \in 0 .. m - 1
      BY <1>6, <1>7, <3>1
    <3>3. a % m = a + m
      BY <3>1, <3>2
    <3> QED
      BY <3>1, <3>3
  <2>2. ReadAddend(r, a) = a + 2 * R
    BY <1>1, <1>2, <1>4, <2>1 DEF ReadAddend
  <2>3. Address(vs, r.symbol) = Base + c + off
    BY <1>6, <1>7, <1>8, <1>9 DEF Address
  <2> QED
    BY <1>11, <2>2, <2>3 DEF Target
<1>13. t >= 2 * R /\ t - base >= 2 * R /\ t \in Int
  BY <1>6, <1>7, <1>9, <1>10, <1>12, SlabAssumption
<1>14. PICK v : v = Value(vs, base, at, r, a)
  OBVIOUS
<1>15. v = t \/ v = t - base
  <2>1. r.typ \in {"addr32", "addr32nb"} /\ ~Instr(r.typ)
    BY <1>1, <1>2
  <2> QED
    BY <1>11, <1>14, <2>1 DEF Value
<1>16. Unsigned(v)
  <2>1. Holds(vs, at, r, a, v)
    BY <1>1, <1>2, <1>3, <1>5, <1>10, <1>14, PatchesFacts DEF Direct, Fixed
  <2> QED
    BY <1>1, <1>2, <2>1 DEF Holds
<1> QED
  BY <1>1, <1>4, <1>13, <1>15, <1>16 DEF Unsigned

\* A field that can hold its value gets it.
LEMMA DirectLinkInv ==
  ASSUME CoffrInv, CoffrTypes, LinkInv, PlacesOK, Covered, RelocateDirect
  PROVE  LinkInv'
<1>1. /\ Relocating /\ Linkable /\ Reloc.typ # "none" /\ Direct /\ Advance(FALSE)
      /\ Patch(BlocksAt({At})) /\ BlocksAt({At}) \in SUBSET code
      /\ UNCHANGED <<cacheVars, machine, stubs>>
      /\ mem' = [o \in DOMAIN mem |->
                   IF o \in WordsAt(At, Reloc) THEN Patched(Reloc.typ, mem[At], Fixed) ELSE mem[o]]
  BY DEF RelocateDirect, BlocksAt
<1>2. /\ At = Views[link.todo[1]].cursor + Reloc.offset /\ At \in Nat
      /\ mem[At] = Given(machine, Reloc) /\ ~NotLinking
      /\ At \in WordsAt(At, Reloc) /\ \A o \in WordsAt(At, Reloc) : o \in DOMAIN mem
  BY <1>1, FreshField
<1>b. PICK base \in Int : base = link.base
  BY <1>2, LinkFacts
<1>a. PICK at \in Int : at = At
  BY <1>2
<1>p. PICK vs, r : vs = Views /\ r = Reloc
  OBVIOUS
<1>3. vs = Views /\ at = At /\ r = Reloc
  BY <1>a, <1>p
<1>4. Numbers(vs, r) /\ Known(r.typ) /\ r.typ # "none"
  BY <1>1, <1>3, RelocNumbers DEF Linkable
<1>5. machine \in Machines
  BY DEF CoffrTypes
<1>x. PICK x : x = Given(machine, r)
  OBVIOUS
<1>v. Fixed = Value(vs, base, at, r, x)
  BY <1>2, <1>b, <1>3, <1>x DEF Fixed
<1>6. /\ mem'[At] = Patched(r.typ, x, Value(vs, base, at, r, x))
      /\ \A o \in WordsAt(At, Reloc) : o \in DOMAIN mem' /\ mem'[o] = mem'[At]
  BY <1>1, <1>2, <1>3, <1>x, <1>v
<1>7. Right(machine, vs, base, at, r, mem'[At])
  <2>1. CASE ~Instr(r.typ)
    <3>1. x = r.addend
      BY <1>x, <2>1, PatchesFacts
    <3>2. machine = "arm64" /\ r.typ = "section" => r.addend = 0
      BY <1>1, <1>3, FormedHere DEF Covered
    <3>3. ReadUnsigned(r) => r.addend \in 0 .. 2 * Reach["arm64"] - 1
      BY <1>1, <1>3, DirectNotBelow DEF ReadUnsigned, Covered
    <3>4. ReadAddend(r, r.addend) = r.addend
      BY <1>4, <1>5, <2>1, <3>3, AddendRead DEF Numbers
    <3> QED
      BY <1>4, <1>5, <1>6, <2>1, <3>1, <3>2, <3>4, ValueRight
  <2>2. CASE Instr(r.typ)
    <3>1. x = r.word /\ machine = "arm64" /\ Patches(machine, r.typ)
      BY <1>x, <2>2, PatchesFacts DEF Instr
    <3>2. PICK want : want = Want(machine, vs, r)
      OBVIOUS
    <3>3. Target(vs, r, x) = want
      BY <2>2, <3>1, <3>2, InstrRead DEF Target, Want
    <3>4. /\ r.word \in SUBSET (0 .. 31) /\ (r.typ = "pageoffl" => WellSized(r.word))
          /\ want \in Int
          /\ r.typ \in Branches => (want - (Base + at)) % 4 = 0
      BY <1>1, <1>3, <2>2, <3>1, <3>2, PatchNumbers DEF Covered
    <3>5. Encodable(r.typ, r.word, want, Base + at)
      <4>1. Holds(vs, at, r, x, Fixed)
        BY <1>1, <1>2, <1>3, <1>x DEF Direct
      <4> QED
        BY <2>2, <3>1, <3>3, <4>1 DEF Holds
    <3>6. mem'[At] = Instruction(r.typ, r.word, Encoded(r.typ, r.word, want, Base + at))
      <4>1. Value(vs, base, at, r, x) = Encoded(r.typ, x, Target(vs, r, x), Base + at)
        BY <2>2 DEF Value, Instr, InstrTypes
      <4>2. \A y : Patched(r.typ, x, y) = Instruction(r.typ, x, y)
        BY <2>2, <3>1 DEF Patched
      <4> QED
        BY <1>6, <3>1, <3>3, <4>1, <4>2
    <3>7. Base + at \in Int
      BY SlabAssumption
    <3> QED
      BY <2>2, <3>2, <3>4, <3>5, <3>6, <3>7, InstructionRight
  <2> QED
    BY <2>1, <2>2
<1>n. PICK n : n = NowTaken(FALSE)
  OBVIOUS
<1>8. Good(mem', stubs', machine, Views, link.base, link.todo[1], Reloc, n)
  BY <1>2, <1>b, <1>3, <1>6, <1>7 DEF Good
<1>9. [CoffrNext]_allVars
  BY DEF CoffrNext
<1>10. \A o \in DOMAIN mem : o \notin WordsAt(At, Reloc) => o \in DOMAIN mem' /\ mem'[o] = mem[o]
  BY <1>1
<1> QED
  <2>1. PatchStep(FALSE)
    BY <1>1, <1>9 DEF PatchStep
  <2>2. FieldsStay /\ TrampsStay
    BY <1>1, <1>10 DEF FieldsStay, TrampsStay
  <2> QED
    BY <1>1, <1>n, <1>8, <2>1, <2>2, WalkOn

\* A branch out of reach takes a trampoline of its section.
LEMMA StubLinkInv ==
  ASSUME CoffrInv, CoffrTypes, LinkInv, PlacesOK, Covered, StubsWithinPool, RelocateViaStub
  PROVE  LinkInv'
<1> DEFINE target == Target(Views, Reloc, mem[At])
           branch == IF Instr(Reloc.typ) THEN ToStub \div 4 ELSE ToStub
           Hit(o, w) == o + w > Stub + StubLen \div 2 /\ o < Stub + StubLen
<1>1. /\ Relocating /\ Linkable /\ ViaStub /\ InReach(ToStub) /\ Advance(TRUE)
      /\ Patch(BlocksAt({At, Stub})) /\ BlocksAt({At, Stub}) \in SUBSET code
      /\ UNCHANGED <<cacheVars, machine>>
      /\ machine \in {"x64", "arm64"} /\ Reloc.typ = "branch" /\ link.used < View.count
      /\ ~Direct /\ (Instr(Reloc.typ) <=> machine = "arm64")
      /\ ~ReadUnsigned(Reloc) /\ WordsAt(At, Reloc) = {At}
  <2>1. machine \in {"x64", "x86", "arm64"}
    BY CoffrAssumption DEF CoffrTypes
  <2> QED
    BY <2>1 DEF RelocateViaStub, BlocksAt, ViaStub, StubsWithinPool, Instr, InstrTypes,
       ReadUnsigned, WordsAt
<1>2. /\ stubs' = [o \in DOMAIN stubs |-> IF Hit(o, StubLen) THEN target ELSE stubs[o]]
      /\ mem' = [[o \in DOMAIN mem |-> IF Hit(o, 4) THEN target ELSE mem[o]]
                   EXCEPT ![At] = Patched(Reloc.typ, mem[At], branch)]
  BY DEF RelocateViaStub
<1>3. /\ ~NotLinking /\ link.obj \in Objects /\ InOrder(Views, link.obj, Top.cursor)
      /\ link.todo[1] \in Keys
      /\ Reloc \in Range(link.obj.sections[link.todo[1]].relocs)
      /\ At = Views[link.todo[1]].cursor + Reloc.offset /\ At \in Nat
      /\ At \in DOMAIN mem /\ mem[At] = Given(machine, Reloc)
      /\ View = Views[link.todo[1]] /\ link.used \in Nat
  BY <1>1, FreshField
<1>o. PICK obj \in Objects : obj = link.obj
  BY <1>3
<1>a. PICK at \in Nat : at = At
  BY <1>3
<1>p. PICK vs, I, r, s, t :
        /\ vs = Views /\ I = link.todo[1] /\ r = Reloc
        /\ s = Stub /\ t = target
  OBVIOUS
<1>v. PICK v : v = Patched(Reloc.typ, mem[At], branch)
  OBVIOUS
<1>4. /\ obj = link.obj /\ vs = Views /\ I = link.todo[1] /\ r = Reloc
      /\ s = Stub /\ t = target /\ at = At
  BY <1>o, <1>a, <1>p
<1>u. PICK u \in Nat : u = link.used
  BY <1>3
<1>5. /\ InOrder(vs, obj, Top.cursor) /\ DOMAIN vs = Keys /\ I \in DOMAIN vs
      /\ r \in Range(obj.sections[I].relocs) /\ vs[I] = View
      /\ vs[I].count \in Nat /\ u \in 0 .. vs[I].count - 1
  <2>1. InOrder(vs, obj, Top.cursor) /\ DOMAIN vs = Keys /\ I \in DOMAIN vs /\ vs[I] = View
    BY <1>3, <1>4, ViewsFacts
  <2>2. vs[I].count \in Nat
    BY <2>1, Laid
  <2> QED
    BY <1>1, <1>3, <1>4, <1>u, <2>1, <2>2
<1>6. s = Tramp(vs[I], u) /\ s \in Nat /\ s \in DOMAIN stubs
  <2>1. s = Tramp(vs[I], u)
    BY <1>4, <1>5, <1>u DEF Stub, Tramp
  <2>2. s \in Nat
    BY <1>5, <2>1, Laid
  <2>3. s \in DOMAIN stubs
    <3>1. Get(I) = vs[I]
      BY <1>4, <1>5, ViewsFacts
    <3> QED
      BY <1>3, <1>5, <2>1, <3>1 DEF LinkInv, PoolsOK
  <2> QED
    BY <2>1, <2>2, <2>3
<1>7. t = Want(machine, vs, r)
  BY <1>1, <1>3, <1>4, PatchesFacts DEF Target, Want, ReadAddend
<1>8. \A o, w : Hit(o, w) <=> o + w > s + 8 /\ o < s + 16
  BY <1>4, <1>6 DEF StubLen
<1>9. /\ DOMAIN stubs' = DOMAIN stubs /\ DOMAIN mem' = DOMAIN mem
      /\ stubs'[s] = t
      /\ mem'[At] = v
  <2>1. Hit(s, StubLen)
    BY <1>6, <1>8 DEF StubLen
  <2> HIDE DEF Hit, target, branch
  <2> QED
    BY <1>2, <1>3, <1>4, <1>6, <1>v, <2>1
\* On arm64 this is the only far call of its section.
<1>f. machine = "arm64" => FarCall(r)
  <2> SUFFICES ASSUME machine = "arm64" PROVE FarCall(r)
    OBVIOUS
  <2>1. Reloc.symbol.kind = "absolute"
    <3>1. Reloc.symbol.kind # "section"
      BY <1>1 DEF Covered, SectionRelocsFit, Narrow, ReadUnsigned
    <3>2. I \in DOMAIN obj.sections
      BY <1>5 DEF InOrder
    <3> QED
      BY <1>4, <1>5, <3>1, <3>2, RelocFacts
  <2>2. mem[At] = Reloc.word /\ Instr(Reloc.typ) /\ Reloc.typ = "branch"
    BY <1>1, <1>3, PatchesFacts
  <2> HIDE DEF target
  <2>3. t = r.symbol.address + Addend(r.typ, r.word)
    <3>1. t = Address(Views, r.symbol) + Addend(r.typ, r.word)
      BY <1>4, <2>2, InstrRead DEF target, Target
    <3>2. Address(Views, r.symbol) = r.symbol.address
      BY <1>4, <2>1 DEF Address
    <3> QED
      BY <3>1, <3>2
  <2>4. ~Encodable(r.typ, r.word, t, Base + At)
    BY <1>1, <1>4, <2>2 DEF target, Direct, Holds
  <2>5. ~WithinBits(TRUE, BranchBits, (t - (Base + At)) \div 4)
    BY <1>4, <2>2, <2>4 DEF Encodable, Misaligned, Fits12, Width, Encoded
  <2>6. At \in 0 .. Size
    BY <1>3, SlabAssumption DEF CoffrTypes
  <2>7. ~WithinBits(TRUE, BranchBits,
                    (r.symbol.address + Addend(r.typ, r.word) - (Base + At)) \div 4)
    <3>1. r.word \in SUBSET (0 .. 31) /\ r.typ \in InstrTypes /\ r.typ # "pageoffl"
      BY <1>1, <1>4, <2>2, FormedHere DEF Covered, Instr
    <3>2. PICK a \in Int : a = Addend(r.typ, r.word)
      BY <3>1, AddendFacts
    <3>3. PICK y \in Int : y = r.symbol.address
      <4>1. I \in DOMAIN obj.sections
        BY <1>5 DEF InOrder
      <4>2. r.symbol.address \in Nat
        BY <1>4, <1>5, <2>1, <4>1, RelocFacts
      <4> QED
        BY <4>2
    <3>4. t = y + a /\ Base + At \in Int
      BY <1>3, <2>3, <3>2, <3>3, SlabAssumption
    <3>5. PICK d \in Int : /\ d = r.symbol.address + Addend(r.typ, r.word) - (Base + At)
                           /\ d = t - (Base + At)
      BY <3>2, <3>3, <3>4
    <3>6. ~WithinBits(TRUE, BranchBits, d \div 4)
      BY <2>5, <3>5
    <3> QED
      BY <3>5, <3>6
  <2>8. r.typ = "branch" /\ r.symbol.kind = "absolute"
    BY <1>1, <1>4, <2>1
  <2> QED
    BY <2>6, <2>7, <2>8 DEF FarCall, CallInReach
<1>n. PICK n : n = NowTaken(TRUE)
  OBVIOUS
<1>g. n \in Nat /\ u \in 0 .. n - 1
  <2>1. CASE machine = "arm64"
    BY <1>4, <1>5, <1>f, <1>n, <2>1 DEF NowTaken
  <2>2. CASE machine # "arm64"
    BY <1>u, <1>n, <2>2 DEF NowTaken
  <2> QED
    BY <2>1, <2>2
<1>l. Lands(machine, at, r, v) = Base + s /\ Kept(machine, r, v)
  <2>1. ToStub = Base + s - Pc(at, r)
    BY <1>4 DEF ToStub
  <2>2. r.tail \in Nat /\ Base \in Nat
    BY <1>5, Laid, SlabAssumption
  <2>3. CASE machine = "x64"
    <3>1. v = ToStub /\ ~Patches(machine, r.typ)
      BY <1>1, <1>4, <1>v, <2>3, PatchesFacts DEF Patched
    <3>2. Pc(at, r) = Base + at + (4 + r.tail) /\ Ip(machine, at, r) = Base + at + 4 + r.tail
      BY <2>3 DEF Pc, Ip
    <3>3. Ip(machine, at, r) + ToStub = Base + s
      BY <1>6, <2>1, <2>2, <3>2
    <3> QED
      BY <3>1, <3>3 DEF Lands, Kept
  <2>4. CASE machine = "arm64"
    <3>1. /\ Instr(r.typ) /\ Patches(machine, r.typ) /\ r.typ = "branch" /\ mem[At] = r.word
      BY <1>1, <1>3, <1>4, <2>4, PatchesFacts
    <3>2. r.word \in SUBSET (0 .. 31) /\ (Base + at) % 4 = 0
      BY <1>1, <1>4, <2>4, <3>1, PatchNumbers DEF Covered, Branches
    <3>3. (Base + s) % 4 = 0
      <4>1. PICK b \in Nat : b = Base + vs[I].pool /\ b % 16 = 0
        <5>1. vs[I].pool \in Nat
          BY <1>5, Laid
        <5>2. (Base + Get(I).pool) % StubLen = 0 /\ Get(I) = vs[I]
          BY <1>3, <1>4, ViewsFacts DEF PlacesOK
        <5> QED
          BY <2>2, <5>1, <5>2 DEF StubLen
      <4>2. Base + s = b + 16 * u
        BY <1>5, <1>6, <2>2, <4>1, Laid DEF Tramp, StubLen
      <4>3. b % 4 = 0
        BY <4>1, MultipleOfFour
      <4>4. (16 * u) % 4 = 0
        <5>1. 4 \in Nat \ {0} /\ 4 * u \in Int /\ 16 * u = 4 * (4 * u)
          OBVIOUS
        <5> QED
          BY <5>1, MultipleRemains
      <4> QED
        BY <4>2, <4>3, <4>4, Fours
    <3>4. PICK p \in Int, q \in Int : p = Base + at /\ q = Base + s
      BY <1>6, <2>2
    <3>5. ToStub = q - p
      <4>1. Pc(at, r) = Base + at + 0
        BY <2>4 DEF Pc
      <4> QED
        BY <1>6, <2>1, <2>2, <3>4, <4>1
    <3>6. (q - p) % 4 = 0
      BY <3>2, <3>3, <3>4, Fours
    <3>7. Encoded(r.typ, r.word, q, p) = (q - p) \div 4
      BY <3>1 DEF Encoded
    <3>8. Encodable(r.typ, r.word, q, p)
      <4>1. WithinBits(TRUE, BranchBits, (q - p) \div 4)
        BY <1>1, <2>4, <3>5 DEF InReach
      <4>2. ~Misaligned(r.typ, r.word, q) /\ ~Fits12(r.typ) /\ Width(r.typ) = BranchBits
        BY <3>1 DEF Misaligned, Fits12, Width
      <4> QED
        BY <3>7, <4>1, <4>2 DEF Encodable
    <3>9. v = Instruction(r.typ, r.word, Encoded(r.typ, r.word, q, p))
      <4>1. branch = (q - p) \div 4
        BY <1>4, <3>1, <3>5
      <4>2. v = Instruction(r.typ, r.word, branch)
        BY <1>4, <1>v, <2>4, <3>1 DEF Patched
      <4> QED
        BY <3>7, <4>1, <4>2
    <3>10. Opcode(r.typ, v) = Opcode(r.typ, r.word) /\ Meaning(r.typ, v, p) = q
      <4>1. r.typ \in InstrTypes /\ r.typ # "pageoffl"
        <5>1. Instr(r.typ) /\ r.typ = "branch"
          BY <3>1, Zenon
        <5> QED
          BY <5>1 DEF Instr
      <4> QED
        BY <3>1, <3>2, <3>6, <3>8, <3>9, <4>1, PatchGives
    <3> QED
      BY <3>1, <3>4, <3>10 DEF Lands, Kept
  <2> QED
    BY <1>1, <2>3, <2>4
<1>10. Good(mem', stubs', machine, Views, link.base, link.todo[1], Reloc, n)
  <2>1. Congruent(machine, t, Want(machine, vs, r))
    BY <1>1, <1>7 DEF Congruent
  <2> QED
    BY <1>1, <1>3, <1>4, <1>6, <1>9, <1>g, <1>l, <2>1 DEF Good
<1> HIDE DEF Hit, target, branch
<1>11. ASSUME NEW i \in Keys, NEW k \in DOMAIN link.obj.sections[i].relocs,
              NEW q, q = link.obj.sections[i].relocs[k],
              NEW o \in WordsAt(Views[i].cursor + q.offset, q) \ WordsAt(At, Reloc),
              o \in DOMAIN mem
       PROVE  o \in DOMAIN mem' /\ mem'[o] = mem[o]
  <2>1. o \in WordsAt(vs[i].cursor + q.offset, q) /\ o # At
    BY <1>1, <1>4, <1>11
  <2>2. i \in DOMAIN vs /\ i \in DOMAIN obj.sections
    BY <1>5 DEF InOrder
  <2>3. q \in Range(obj.sections[i].relocs)
    BY <1>4, <1>11, <2>2, RelocFacts
  <2>4. o + 4 <= s \/ o >= s + StubLen
    BY <1>5, <1>6, <2>1, <2>2, <2>3, PoolApart
  <2>5. o \in Nat
    BY <1>5, <2>1, <2>2, <2>3, Laid
  <2>6. ~Hit(o, 4)
    <3>1. ~(o + 4 > s + 8 /\ o < s + 16)
      BY <1>6, <2>4, <2>5 DEF StubLen
    <3> QED
      BY <1>8, <3>1
  <2> QED
    BY <1>2, <1>9, <1>11, <2>1, <2>6
<1>12. ASSUME NEW i \in Keys, NEW k \in DOMAIN link.obj.sections[i].relocs, Walked(i, k),
              NEW x \in 0 .. Taken(i, link.obj.sections[i].relocs[k]) - 1,
              NEW o, o = Tramp(Views[i], x), o \in DOMAIN stubs
       PROVE  stubs'[o] = stubs[o]
  <2>1. PICK q : q = link.obj.sections[i].relocs[k]
    OBVIOUS
  <2>2. i \in DOMAIN vs /\ vs[i] = Get(i) /\ vs[i].count \in Nat
    BY <1>4, <1>5, ViewsFacts, Laid
  <2>3. i < I \/ (i = I /\ k < link.todo[2])
    BY <1>4, <1>12 DEF Walked
  <2>4. CASE i = I /\ machine = "arm64"
    <3>1. /\ link.todo[2] \in DOMAIN obj.sections[I].relocs /\ r = obj.sections[I].relocs[link.todo[2]]
          /\ k \in DOMAIN obj.sections[I].relocs /\ q = obj.sections[I].relocs[k]
      BY <1>1, <1>4, <1>12, <2>1, <2>4, FreshField, Zenon
    <3>2. k # link.todo[2]
      <4>1. I \in Nat
        BY <1>1, <1>4, FreshField
      <4>2. k \in Int /\ link.todo[2] \in Int
        <5>1. I \in DOMAIN obj.sections
          BY <1>5 DEF InOrder
        <5>2. DOMAIN obj.sections[I].relocs = 1 .. Len(obj.sections[I].relocs)
          BY <5>1, RelocFacts
        <5> QED
          BY <3>1, <5>2
      <4> QED
        BY <2>3, <2>4, <4>1, <4>2
    <3>3. obj.arch = "arm64" /\ I \in Tracked(obj) /\ "arm64" \in Machines
      BY <1>3, <1>4, <2>4, LinkFacts DEF PlacesOK, CoffrTypes
    <3>4. ~FarCall(q)
      BY <1>f, <2>4, <3>1, <3>2, <3>3 DEF Covered, LoneCalls
    <3>5. Taken(i, q) = 0
      BY <2>4, <3>4 DEF Taken
    <3>6. FALSE
      <4>1. x \in 0 .. 0 - 1
        BY <1>12, <2>1, <3>5
      <4> QED
        BY <4>1
    <3> QED
      BY <3>6, Zenon
  <2>5. CASE ~(i = I /\ machine = "arm64")
    <3>1. x \in 0 .. vs[i].count - 1 /\ (i < I \/ (i = I /\ x < u))
      <4>1. CASE machine = "arm64"
        <5>1. i < I
          BY <2>3, <2>5, <4>1
        <5>2. Taken(i, q) = vs[i].count \/ Taken(i, q) = 0
          BY <2>2, <4>1 DEF Taken
        <5> QED
          BY <1>12, <2>1, <2>2, <5>1, <5>2
      <4>2. CASE machine # "arm64" /\ i = I
        <5>1. Taken(i, q) = u
          BY <1>4, <1>u, <4>2 DEF Taken
        <5> QED
          BY <1>5, <1>12, <2>1, <4>2, <5>1
      <4>3. CASE machine # "arm64" /\ i # I
        <5>1. Taken(i, q) = vs[i].count /\ i < I
          BY <1>4, <2>2, <2>3, <4>3 DEF Taken
        <5> QED
          BY <1>12, <2>1, <5>1
      <4> QED
        BY <4>1, <4>2, <4>3
    <3>2. Tramp(vs[i], x) + StubLen <= s
      BY <1>5, <1>6, <2>2, <3>1, PoolApart
    <3>3. PICK y \in Nat : y = Tramp(vs[i], x)
      BY <1>5, <2>2, <3>1, Laid
    <3>4. ~Hit(y, StubLen)
      <4>1. ~(y + StubLen > s + 8)
        BY <1>6, <3>2, <3>3 DEF StubLen
      <4> QED
        BY <1>8, <4>1
    <3> QED
      BY <1>2, <1>4, <1>12, <3>3, <3>4
  <2> QED
    BY <2>4, <2>5
<1>13. [CoffrNext]_allVars
  BY DEF CoffrNext
<1> QED
  <2>1. PatchStep(TRUE)
    BY <1>1, <1>9, <1>13 DEF PatchStep
  <2>2. FieldsStay
    BY <1>11 DEF FieldsStay
  <2>3. TrampsStay
    BY <1>12 DEF TrampsStay
  <2> QED
    BY <1>1, <1>n, <1>10, <2>1, <2>2, <2>3, WalkOn

\* Releases and stuttering leave the link alone,
LEMMA StillLinkInv ==
  ASSUME CoffrInv, CoffrTypes, LinkInv, ~NotLinking, ReleaseAny \/ UNCHANGED allVars
  PROVE  LinkInv'
<1>1. /\ UNCHANGED <<cacheVars, machine, link, mem, stubs>> /\ cursor' = cursor
      /\ UNCHANGED vars \/ \E h \in handles : Release(h)
  BY DEF ReleaseAny, allVars, linkerVars, Release, vars
<1>2. /\ Top'.id = Top.id /\ Top'.cursor = Top.cursor
      /\ \A lo, len : Lies(code, Top.id, lo, len) => Lies(code', Top.id, lo, len)
  BY <1>1, LinkFacts, LinkBlocksStay DEF CoffrInv
<1>3. OrderOK' /\ PoolsOK'
  BY <1>1, <1>2, OrderSame DEF LinkInv, In
<1>4. Keys' = Keys /\ Views' = Views /\ \A k \in Keys : Get(k)' = Get(k)
  BY <1>1, ViewsKept, CacheKept
<1>5. RawOK' /\ DoneOK'
  <2>1. RawOK'
    BY <1>1, <1>4 DEF LinkInv, RawOK, NotLinking, In, Section, Untouched
  <2>2. Relocating' => link'.used <= View'.count
    <3>1. View' = View
      BY <1>1 DEF View, Get, cacheVars
    <3>2. (Relocating' <=> Relocating) /\ (In("relocate")' <=> In("relocate"))
      BY <1>1 DEF Relocating, In
    <3>3. Relocating => In("relocate")
      BY DEF Relocating
    <3> QED
      BY <1>1, <3>1, <3>2, <3>3 DEF LinkInv, DoneOK
  <2>3. ASSUME In("relocate"), NEW i \in Keys, NEW k \in DOMAIN link.obj.sections[i].relocs
        PROVE  IF Walked(i, k)'
                 THEN Good(mem', stubs', machine', Views', link'.base, i,
                           link'.obj.sections[i].relocs[k],
                           Taken(i, link.obj.sections[i].relocs[k])')
                 ELSE Untouched(machine', mem', Get(i)'.cursor, link'.obj.sections[i].relocs[k])
    <3>1. /\ Walked(i, k)' <=> Walked(i, k)
          /\ \A r : Taken(i, r)' = Taken(i, r)
      BY <1>1, <1>4, <2>3 DEF Walked, Taken
    <3>2. IF Walked(i, k)
            THEN Good(mem, stubs, machine, Views, link.base, i,
                      link.obj.sections[i].relocs[k], Taken(i, link.obj.sections[i].relocs[k]))
            ELSE Untouched(machine, mem, Get(i).cursor, link.obj.sections[i].relocs[k])
      <4>1. DoneOK
        BY Zenon DEF LinkInv
      <4> QED
        BY <2>3, <4>1 DEF DoneOK
    <3> QED
      BY <1>1, <1>4, <2>3, <3>1, <3>2
  <2>4. DoneOK'
    BY <1>1, <1>4, <2>2, <2>3, Zenon DEF LinkInv, DoneOK, In, Good, Untouched
  <2> QED
    BY <2>1, <2>4
<1> QED
  BY <1>3, <1>5 DEF LinkInv

\* and without a link in progress there is nothing to keep.
LEMMA NoLinkInv ==
  ASSUME NotLinking
  PROVE  LinkInv
<1>1. ~In("relocate")
  BY DEF NotLinking, In
<1> QED
  BY <1>1 DEF LinkInv, OrderOK, PoolsOK, RawOK, DoneOK

LEMMA LinkInvStep ==
  ASSUME CoffrInv, CoffrTypes, LinkInv, PlacesOK, Covered, StubsWithinPool, [CoffrNext]_allVars
  PROVE  LinkInv'
<1>1. CASE LinkCommit \/ SymbolsEnd \/ LinkFail \/ (\E c \in Calls : PlainWrite(c)) \/ Outer
  <2>1. NotLinking'
    BY <1>1 DEF LinkCommit, SymbolsEnd, LinkFail, PlainWrite, Outer, linkerVars, NotLinking, In, Idle
  <2>2. ~In("relocate")'
    BY <2>1 DEF NotLinking, In
  <2> QED
    BY <2>1, <2>2 DEF LinkInv, OrderOK, PoolsOK, RawOK, DoneOK
<1>2. CASE ReleaseAny \/ UNCHANGED allVars
  <2>1. CASE ~NotLinking
    BY <1>2, <2>1, StillLinkInv
  <2>2. CASE NotLinking
    <3>1. link' = link
      BY <1>2 DEF ReleaseAny, allVars, linkerVars
    <3>2. NotLinking' /\ ~In("relocate")'
      BY <2>2, <3>1 DEF NotLinking, In
    <3> QED
      BY <3>2 DEF LinkInv, OrderOK, PoolsOK, RawOK, DoneOK
  <2> QED
    BY <2>1, <2>2
<1>3. CASE \E obj \in Objects, calls \in Reserves : LinkStart(obj, calls)
  BY <1>3, StartLinkInv
<1>4. CASE TrackData
  BY <1>4, DataLinkInv
<1>5. CASE TrackPool
  BY <1>5, PoolLinkInv
<1>6. CASE TrackEnd
  BY <1>6, EndLinkInv
<1>7. CASE RelocateNone
  BY <1>7, NoneLinkInv
<1>8. CASE RelocateDirect
  BY <1>8, DirectLinkInv
<1>9. CASE RelocateViaStub
  BY <1>9, StubLinkInv
<1> QED
  BY <1>1, <1>2, <1>3, <1>4, <1>5, <1>6, <1>7, <1>8, <1>9 DEF CoffrNext

-----------------------------------------------------------------------------
(* Where the link places its sections and pools. *)

\* Where the link goes on it keeps its object and its base.
LEMMA LinkGoesOn ==
  ASSUME CoffrInv, CoffrTypes, [CoffrNext]_allVars, ~NotLinking',
         ~(\E obj \in Objects, calls \in Reserves : LinkStart(obj, calls))
  PROVE  /\ ~NotLinking /\ link'.obj = link.obj /\ link'.base = link.base
         /\ TrackData \/ TrackPool \/ UNCHANGED cacheVars
         /\ TrackData \/ (In("count")' => In("count") /\ link'.at = link.at /\ link'.sec = link.sec)
         /\ \/ TrackEnd
            \/ Relocating /\ \E took \in {TRUE, FALSE} :
                 /\ Advance(took)
                 /\ took => Linkable /\ ViaStub
            \/ Relocating' => Relocating /\ link' = link
<1>1. CASE TrackData \/ TrackPool \/ TrackEnd
  <2>1. ~NotLinking /\ DOMAIN link = LinkFields
    BY <1>1 DEF TrackData, TrackPool, TrackEnd, NotLinking, In, CoffrInv, LinkOK
  <2>2. /\ link'.obj = link.obj /\ link'.base = link.base
        /\ TrackData => link'.phase = "count"
        /\ TrackPool => link'.phase = "track"
        /\ TrackEnd => link'.phase = "relocate"
    BY <1>1, <2>1 DEF TrackData, TrackPool, TrackEnd, LinkFields
  <2>3. TrackEnd => UNCHANGED cacheVars
    BY DEF TrackEnd
  <2> QED
    BY <1>1, <2>1, <2>2, <2>3 DEF In, Relocating
<1>2. CASE RelocateNone \/ RelocateDirect \/ RelocateViaStub
  <2>1. PICK took \in {TRUE, FALSE} :
          Relocating /\ Advance(took) /\ (took => Linkable /\ ViaStub) /\ UNCHANGED cacheVars
    <3>1. CASE RelocateNone
      BY <3>1 DEF RelocateNone
    <3>2. CASE RelocateDirect
      BY <3>2 DEF RelocateDirect
    <3>3. CASE RelocateViaStub
      BY <3>3 DEF RelocateViaStub
    <3> QED
      BY <1>2, <3>1, <3>2, <3>3
  <2>2. ~NotLinking /\ In("relocate") /\ DOMAIN link = LinkFields /\ LinkOK
    BY <2>1 DEF Relocating, NotLinking, In, CoffrInv, LinkOK
  <2>3. link'.obj = link.obj /\ link'.base = link.base /\ link'.phase = "relocate"
    BY <2>1, <2>2 DEF Advance, LinkFields, In
  <2> QED
    BY <2>1, <2>2, <2>3 DEF In
<1>3. CASE ReleaseAny \/ UNCHANGED allVars
  <2>1. link' = link /\ UNCHANGED cacheVars
    BY <1>3 DEF ReleaseAny, allVars, linkerVars
  <2> QED
    BY <2>1 DEF NotLinking, In, Relocating
<1>4. CASE LinkCommit \/ SymbolsEnd \/ LinkFail \/ (\E c \in Calls : PlainWrite(c)) \/ Outer
  BY <1>4 DEF LinkCommit, SymbolsEnd, LinkFail, PlainWrite, Outer, linkerVars, NotLinking, In, Idle
<1> QED
  BY <1>1, <1>2, <1>3, <1>4 DEF CoffrNext

\* The view that a pool's section gets.
LEMMA PoolView ==
  ASSUME CoffrInv, CoffrTypes, TrackPool, NEW sec, sec = link.sec
  PROVE  /\ ~NotLinking /\ InSections /\ In("count") /\ sec \in DOMAIN link.obj.sections
         /\ Keys' = Keys \cup {sec} /\ \A k \in Keys : Get(k)' = Get(k)
         /\ Get(sec)'.cursor = link.at /\ Get(sec)'.count = Count(Section)
         /\ Get(sec)'.pool = StartOffset(Base, cursor, StubLen)
         /\ link'.phase = "track"
<1>1. /\ ~NotLinking /\ InSections /\ In("count") /\ LinkOK /\ CacheInv /\ TypeOK
      /\ DOMAIN link = LinkFields
  BY DEF TrackPool, NotLinking, In, CoffrInv, SlabInv, CountInv, LinkOK
<1>2. sec \in Nat /\ link.at \in Nat /\ Count(Section) \in Nat /\ sec \in DOMAIN link.obj.sections
  BY <1>1, LinkFacts, PoolRequest, SectionFacts
<1>3. StartOffset(Base, cursor, StubLen) \in Nat
  <2>1. StubLen \in Nat \ {0}
    BY DEF StubLen
  <2> QED
    BY <1>1, <2>1, StartAbove
<1>4. PICK view : view = [cursor |-> link.at, pool |-> StartOffset(Base, cursor, StubLen),
                          count |-> Count(Section)]
  OBVIOUS
<1>5. view \in SectionView
  BY <1>2, <1>3, <1>4 DEF SectionView
<1>6. Insert(sec, view)
  BY <1>4 DEF TrackPool
<1>7. \A k \in Keys : k < sec
  BY <1>1 DEF CacheInv
<1>8. /\ Keys' = Keys \cup {sec} /\ \A k \in Keys : Get(k)' = Get(k)
      /\ Get(sec)' = view
  BY <1>1, <1>2, <1>5, <1>6, <1>7, InsertKeeps DEF CacheInv
<1>9. /\ Get(sec)'.cursor = link.at /\ Get(sec)'.count = Count(Section)
      /\ Get(sec)'.pool = StartOffset(Base, cursor, StubLen)
  BY <1>4, <1>8
<1>10. link'.phase = "track"
  BY <1>1 DEF TrackPool, LinkFields
<1> QED
  BY <1>1, <1>2, <1>8, <1>9, <1>10

LEMMA StartAligned ==
  ASSUME TypeOK, NEW a \in Nat \ {0}
  PROVE  (Base + StartOffset(Base, cursor, a)) % a = 0
<1>1. Base \in Nat /\ Base + cursor \in Nat
  BY SlabAssumption DEF TypeOK
<1>2. PICK x \in Nat : x = AlignUp(Base + cursor, a) /\ x % a = 0
  BY <1>1, AlignUpFacts
<1>3. Base + StartOffset(Base, cursor, a) = x
  BY <1>1, <1>2 DEF StartOffset
<1> QED
  BY <1>2, <1>3

\* The image base is below the address it is made from, by less than a Granule.
LEMMA ImageBaseNear ==
  ASSUME NEW addr \in Nat
  PROVE  /\ ImageBase(addr) \in Nat /\ ImageBase(addr) <= addr
         /\ addr < ImageBase(addr) + Granule
<1>1. Granule \in Nat \ {0}
  BY CoffrAssumption
<1>2. addr % Granule \in 0 .. Granule - 1
  BY <1>1, Euclid
<1>3. PICK m \in 0 .. Granule - 1 : m = addr % Granule
  BY <1>2
<1>4. ImageBase(addr) = addr - m
  BY <1>3 DEF ImageBase
<1>5. ImageBase(addr) \in Nat
  BY ImageBaseFacts
<1> QED
  BY <1>1, <1>4, <1>5

LEMMA PlacesStep ==
  ASSUME CoffrInv, CoffrTypes, OrderOK, PlacesOK, [CoffrNext]_allVars
  PROVE  PlacesOK'
<1>1. ASSUME NEW obj \in Objects, NEW calls \in Reserves, LinkStart(obj, calls)
      PROVE  PlacesOK'
  <2>1. /\ link'.phase \in {"panic", "track"} /\ link'.obj = obj /\ obj.arch = machine
        /\ machine' = machine /\ link'.base = ImageBase(Base + cursor) /\ NotLinking
    BY <1>1 DEF LinkStart, NotLinking
  <2>2. ~In("count")' /\ ~NotLinking'
    BY <2>1 DEF In, NotLinking
  <2>3. Keys' = {}
    BY <1>1, EmptyCache DEF LinkStart, Create
  <2>4. Top'.cursor = cursor /\ Base + cursor \in Nat
    BY <2>1, <2>2, FloorKept, SlabAssumption DEF Floor
  <2>5. link'.base <= Base + Top'.cursor
    BY <2>1, <2>4, ImageBaseNear
  <2> QED
    BY <2>1, <2>2, <2>3, <2>5 DEF PlacesOK
<1>2. CASE NotLinking'
  BY <1>2 DEF PlacesOK
<1>3. ASSUME ~NotLinking', ~(\E obj \in Objects, calls \in Reserves : LinkStart(obj, calls))
      PROVE  PlacesOK'
  <2>1. /\ ~NotLinking /\ link'.obj = link.obj /\ link'.base = link.base
        /\ TrackData \/ TrackPool \/ UNCHANGED cacheVars
        /\ TrackData \/ (In("count")' => In("count") /\ link'.at = link.at /\ link'.sec = link.sec)
    BY <1>3, LinkGoesOn
  <2>2. machine' = machine /\ TypeOK /\ Top'.cursor = Top.cursor
    BY <1>3, <2>1, FloorKept, LinkFacts DEF Floor
  <2>b. link'.base <= Base + Top'.cursor
    BY <2>1, <2>2 DEF PlacesOK
  <2>3. ASSUME NEW i \in Keys'
        PROVE  /\ (Base + Get(i)'.cursor) % link'.obj.sections[i].align = 0
               /\ (Base + Get(i)'.pool) % StubLen = 0
    <3>1. CASE TrackPool
      <4>s. PICK sec : sec = link.sec
        OBVIOUS
      <4>1. /\ Keys' = Keys \cup {sec} /\ \A k \in Keys : Get(k)' = Get(k)
            /\ Get(sec)'.cursor = link.at /\ In("count")
            /\ Get(sec)'.pool = StartOffset(Base, cursor, StubLen)
        BY <3>1, <4>s, PoolView
      <4>2. (Base + link.at) % link.obj.sections[sec].align = 0
        BY <2>1, <4>s, <4>1 DEF PlacesOK, Section
      <4>3. (Base + StartOffset(Base, cursor, StubLen)) % StubLen = 0
        <5>1. StubLen \in Nat \ {0}
          BY DEF StubLen
        <5> QED
          BY <2>2, <5>1, StartAligned
      <4> QED
        BY <2>1, <2>3, <4>1, <4>2, <4>3 DEF PlacesOK
    <3>2. CASE UNCHANGED cacheVars
      BY <2>1, <2>3, <3>2, CacheKept DEF PlacesOK
    <3>3. TrackData => UNCHANGED cacheVars
      BY DEF TrackData
    <3> QED
      BY <2>1, <3>1, <3>2, <3>3
  <2>4. ASSUME In("count")'
        PROVE  (Base + link'.at) % Section'.align = 0
    <3>1. CASE TrackData
      <4>1. InSections /\ DOMAIN link = LinkFields
        BY <2>1, <3>1, LinkFacts DEF TrackData
      <4>2. Section.align \in Nat \ {0}
        BY <2>1, <4>1, SectionFacts DEF CoffrInv
      <4>3. (Base + StartOffset(Base, cursor, Section.align)) % Section.align = 0
        BY <2>2, <4>2, StartAligned
      <4>4. link'.at = StartOffset(Base, cursor, Section.align) /\ link'.sec = link.sec
        BY <3>1, <4>1 DEF TrackData, LinkFields
      <4>5. Section' = Section
        BY <2>1, <4>4 DEF Section
      <4> QED
        BY <4>3, <4>4, <4>5
    <3>2. CASE ~TrackData
      <4>1. In("count") /\ link'.at = link.at /\ Section' = Section
        BY <2>1, <2>4, <3>2 DEF Section
      <4> QED
        BY <2>1, <4>1 DEF PlacesOK
    <3> QED
      BY <3>1, <3>2
  <2> QED
    BY <2>1, <2>2, <2>b, <2>3, <2>4 DEF PlacesOK
<1> QED
  BY <1>1, <1>2, <1>3

-----------------------------------------------------------------------------
(* The theorems. *)

LEMMA FieldsInit == CoffrInit => FieldsInv
<1> SUFFICES ASSUME CoffrInit PROVE FieldsInv
  OBVIOUS
<1>1. link = Idle /\ DOMAIN loaded = {}
  BY DEF CoffrInit
<1>2. LinkInv
  BY <1>1, NoLinkInv DEF NotLinking, In, Idle
<1>3. LoadedOK /\ PlacesOK
  BY <1>1 DEF LoadedOK, PlacesOK, NotLinking, In, Idle
<1> QED
  BY <1>2, <1>3 DEF FieldsInv, LinkInv

LEMMA FieldsStep ==
  CoffrInv /\ CoffrTypes /\ FieldsInv /\ Covered /\ StubsWithinPool
    /\ [CoffrNext]_allVars => FieldsInv'
<1> SUFFICES ASSUME CoffrInv, CoffrTypes, FieldsInv, Covered, StubsWithinPool,
                    [CoffrNext]_allVars
             PROVE  FieldsInv'
  OBVIOUS
<1>1. LinkInv /\ LoadedOK /\ PlacesOK
  BY DEF FieldsInv, LinkInv
<1>2. LinkInv'
  BY <1>1, LinkInvStep
<1>3. LoadedOK' /\ PlacesOK'
  BY <1>1, LoadedStep, PlacesStep DEF LinkInv
<1> QED
  BY <1>2, <1>3 DEF FieldsInv, LinkInv

LEMMA FieldsLinked == FieldsInv => LinkedAsWritten
<1> SUFFICES ASSUME FieldsInv,
                    NEW p \in DOMAIN loaded, status = "mapped", Live(p), p \notin undercut,
                    NEW i \in Tracked(loaded[p].obj),
                    NEW r \in Range(loaded[p].obj.sections[i].relocs)
             PROVE  Resolves(loaded[p], i, r)
  BY DEF LinkedAsWritten
<1>1. PICK l : l = loaded[p]
  OBVIOUS
<1>2. Held(p, l)
  BY <1>1 DEF FieldsInv, LoadedOK
<1>3. Stands(p)
  BY DEF Stands, Mapped
<1>4. /\ l.obj \in Objects /\ InOrder(l.views, l.obj, 0) /\ i \in DOMAIN l.views
      /\ Good(mem, stubs, machine, l.views, l.base, i, r, l.views[i].count)
  BY <1>1, <1>2, <1>3 DEF Held
<1>5. PICK obj \in Objects : obj = l.obj
  BY <1>4
<1>6. Resolves(l, i, r)
  BY <1>1, <1>4, <1>5, GoodResolves
<1> QED
  BY <1>1, <1>6

\* As long as relocating takes no more trampolines than counting reserved,
\* every relocation of a linked program in use does what the object file asks
\* for, trampolines included, however the links, plain writes, roll-backs and
\* releases after it went.  On arm64, where instructions that are patched
\* keep their other bits and running them gives what is asked for, so it does
\* for well-formed objects with no two far calls in a section, as long as
\* references between sections fit.
THEOREM LinkedCodeIsRight ==
  CoffrSpec /\ [](Covered /\ StubsWithinPool) => []LinkedAsWritten
<1>1. CoffrInit => CoffrInv /\ CoffrTypes /\ FieldsInv
  BY CoffrInitial, CoffrTypesInit, FieldsInit
<1>2. CoffrInv /\ CoffrTypes /\ [CoffrNext]_allVars => CoffrInv' /\ CoffrTypes'
  BY CoffrStep, CoffrTypesNext DEF CoffrInv, SlabInv
<1> QED
  BY <1>1, <1>2, FieldsStep, FieldsLinked, PTL DEF CoffrSpec

-----------------------------------------------------------------------------
(* The pools are large enough, and nothing in the slab is out of reach, for *)
(* objects with nothing at the limit of reach.                              *)

\* r is counted: its target is out of reach from the start of the slab.
Counted(mach, r) ==
  /\ mach # "x86" /\ r.typ = "branch" /\ r.symbol.kind = "absolute"
  /\ IF mach = "arm64" THEN ~CallInReach(r, r.offset)
     ELSE Distance(r) - (r.offset + 4) \notin -Reach[mach] .. Reach[mach] - 1

\* The relocations of a section that are counted, of the first n.
CountedUpTo(mach, relocs, n) == {k \in DOMAIN relocs : k <= n /\ Counted(mach, relocs[k])}

\* The link's object is for this machine, its image base is that of the
\* transaction, and its sections lie in the slab.
InSlabOK ==
  ~NotLinking =>
    /\ link.obj.arch = machine
    /\ link.base = ImageBase(Base + Top.cursor)
    /\ \A i \in Keys : Get(i).cursor + link.obj.sections[i].len <= Size
    /\ In("count") => link.at + Section.len <= Size

\* A section's pool has a trampoline for each relocation that is counted, and
\* the walk has not taken more than it met.
CountsOK ==
  /\ ~NotLinking => \A i \in Keys :
       LET relocs == link.obj.sections[i].relocs
       IN  Get(i).count = Cardinality(CountedUpTo(machine, relocs, Len(relocs)))
  /\ Relocating => link.used <= Cardinality(CountedUpTo(machine, Relocs, link.todo[2] - 1))

\* Counting one relocation more.
LEMMA CountedFacts ==
  ASSUME NEW mach, NEW relocs, Len(relocs) \in Nat, DOMAIN relocs = 1 .. Len(relocs)
  PROVE  /\ \A n : Cardinality(CountedUpTo(mach, relocs, n)) \in Nat
         /\ \A k \in DOMAIN relocs :
              /\ Cardinality(CountedUpTo(mach, relocs, k - 1))
                   <= Cardinality(CountedUpTo(mach, relocs, k))
              /\ Cardinality(CountedUpTo(mach, relocs, k))
                   <= Cardinality(CountedUpTo(mach, relocs, Len(relocs)))
              /\ Counted(mach, relocs[k]) =>
                   Cardinality(CountedUpTo(mach, relocs, k))
                     = Cardinality(CountedUpTo(mach, relocs, k - 1)) + 1
<1> DEFINE S(n) == CountedUpTo(mach, relocs, n)
<1>1. IsFiniteSet(1 .. Len(relocs))
  BY FS_Interval
<1>2. ASSUME NEW n
      PROVE  IsFiniteSet(S(n)) /\ Cardinality(S(n)) \in Nat
  <2>1. S(n) \subseteq 1 .. Len(relocs)
    BY DEF CountedUpTo
  <2>2. IsFiniteSet(S(n))
    BY <1>1, <2>1, FS_Subset
  <2> QED
    BY <2>2, FS_CardinalityType
<1>3. ASSUME NEW k \in DOMAIN relocs
      PROVE  /\ Cardinality(S(k - 1)) <= Cardinality(S(k))
             /\ Cardinality(S(k)) <= Cardinality(S(Len(relocs)))
             /\ Counted(mach, relocs[k]) => Cardinality(S(k)) = Cardinality(S(k - 1)) + 1
  <2>1. S(k - 1) \subseteq S(k) /\ S(k) \subseteq S(Len(relocs))
    BY DEF CountedUpTo
  <2>2. Cardinality(S(k - 1)) <= Cardinality(S(k)) /\ Cardinality(S(k)) <= Cardinality(S(Len(relocs)))
    BY <1>2, <2>1, FS_Subset
  <2>3. ASSUME Counted(mach, relocs[k])
        PROVE  Cardinality(S(k)) = Cardinality(S(k - 1)) + 1
    <3>1. S(k) = S(k - 1) \cup {k} /\ k \notin S(k - 1)
      BY <2>3 DEF CountedUpTo
    <3> QED
      BY <1>2, <3>1, FS_AddElement
  <2> QED
    BY <2>2, <2>3
<1> QED
  BY <1>2, <1>3

\* The addend of a relocation is a number.
LEMMA AddendNumber ==
  ASSUME CoffrTypes, Formed, NEW obj \in Objects, obj.arch = machine,
         NEW i \in Tracked(obj), NEW r \in Range(obj.sections[i].relocs)
  PROVE  AddendOf(machine, r) \in Int
<1>1. CASE machine = "arm64" /\ r.typ \in InstrTypes
  <2>1. r.word \in SUBSET (0 .. 31) /\ (r.typ = "pageoffl" => WellSized(r.word))
    BY <1>1 DEF Formed, WellFormed, CoffrTypes
  <2>2. Addend(r.typ, r.word) \in Int
    BY <1>1, <2>1, AddendFacts
  <2> QED
    BY <1>1, <2>2 DEF AddendOf
<1>2. CASE ~(machine = "arm64" /\ r.typ \in InstrTypes)
  <2>1. i \in DOMAIN obj.sections
    BY DEF Tracked
  <2>2. r.addend \in Int
    BY <2>1, RelocFacts
  <2> QED
    BY <1>2, <2>2 DEF AddendOf
<1> QED
  BY <1>1, <1>2

\* Counting decides as Counted says.
LEMMA NeedsStubCounted ==
  ASSUME CoffrInv, CoffrTypes, LinkInv, InSlabOK, Formed, In("count"),
         NEW r \in Range(Section.relocs)
  PROVE  NeedsStub(r) <=> Counted(machine, r)
<1>1. ~NotLinking /\ ~In("relocate") /\ InSections /\ LinkOK
  BY DEF In, NotLinking, CoffrInv, LinkOK
<1>2. Untouched(machine, mem, link.at, r)
  BY <1>1 DEF LinkInv, RawOK
<1>3. mem[link.at + r.offset] = Given(machine, r)
  BY <1>2 DEF Untouched, WordsAt
<1>4. /\ r.offset \in Nat /\ r.addend \in Int
      /\ r.typ # "near" => r.tail = 0
      /\ r.symbol.kind = "absolute" => r.symbol.address \in Nat
  <2>1. link.obj \in Objects /\ link.sec \in DOMAIN link.obj.sections
    BY <1>1, SectionFacts
  <2> QED
    BY <2>1, RelocFacts DEF Section
<1>5. CASE machine = "x86"
  BY <1>5 DEF NeedsStub, Counted
<1>6. CASE machine = "x64"
  <2>1. ASSUME r.typ = "branch", r.symbol.kind = "absolute"
        PROVE  NeedsStub(r) <=> Counted(machine, r)
    <3>1. PICK d : d = Target(Views, r, mem[link.at + r.offset]) - Pc(r.offset, r)
      OBVIOUS
    <3>2. Target(Views, r, mem[link.at + r.offset]) = r.symbol.address + r.addend
      <4>1. ~Instr(r.typ)
        BY <1>6 DEF Instr
      <4>2. Address(Views, r.symbol) = r.symbol.address
        BY <2>1 DEF Address
      <4> QED
        BY <1>3, <1>6, <4>1, <4>2, PatchesFacts DEF Target, ReadAddend, ReadUnsigned
    <3>3. r.tail = 0 /\ Pc(r.offset, r) = Base + r.offset + (4 + r.tail)
      <4>1. r.typ # "near"
        BY <2>1
      <4>2. r.tail = 0
        BY <1>4, <4>1
      <4> QED
        BY <1>6, <4>2 DEF Pc
    <3>4. d = Distance(r) - (r.offset + 4)
      BY <1>4, <2>1, <3>1, <3>2, <3>3, SlabAssumption DEF Distance
    <3>5. InReach(d) <=> d \in -Reach[machine] .. Reach[machine] - 1
      BY <1>6 DEF InReach, Signed
    <3> QED
      BY <1>6, <2>1, <3>1, <3>4, <3>5 DEF NeedsStub, Counted
  <2>2. CASE ~(r.typ = "branch" /\ r.symbol.kind = "absolute")
    BY <2>2 DEF NeedsStub, Counted
  <2> QED
    BY <2>1, <2>2
<1>7. CASE machine = "arm64"
  <2>1. ASSUME r.typ = "branch", r.symbol.kind = "absolute"
        PROVE  NeedsStub(r) <=> Counted(machine, r)
    <3>1. Instr(r.typ) /\ Given(machine, r) = r.word
      BY <1>7, <2>1, PatchesFacts DEF Instr, InstrTypes
    <3>2. PICK a \in Int : a = Addend(r.typ, r.word)
      <4>1. /\ link.obj \in Objects /\ link.obj.arch = machine /\ link.sec \in Tracked(link.obj)
            /\ r \in Range(link.obj.sections[link.sec].relocs)
        BY <1>1, SectionFacts DEF InSlabOK, Section, CoffrTypes
      <4>2. AddendOf(machine, r) \in Int
        BY <4>1, AddendNumber
      <4> QED
        BY <1>7, <3>1, <4>2 DEF AddendOf, Instr
    <3>3. Target(Views, r, mem[link.at + r.offset]) = r.symbol.address + a
      BY <1>3, <2>1, <3>1, <3>2, InstrRead DEF Target, Address
    <3>4. Pc(r.offset, r) = Base + r.offset + 0
      BY <1>7 DEF Pc
    <3>5. PICK d \in Int : d = r.symbol.address + a - (Base + r.offset)
      BY <1>4, <2>1, SlabAssumption
    <3>6. Target(Views, r, mem[link.at + r.offset]) - Pc(r.offset, r) = d
      BY <1>4, <2>1, <3>3, <3>4, <3>5, SlabAssumption
    <3>7. InReach(Target(Views, r, mem[link.at + r.offset]) - Pc(r.offset, r))
            <=> WithinBits(TRUE, BranchBits, d \div 4)
      BY <1>7, <3>6 DEF InReach
    <3>8. CallInReach(r, r.offset) <=> WithinBits(TRUE, BranchBits, d \div 4)
      BY <3>2, <3>5 DEF CallInReach
    <3> QED
      BY <1>7, <2>1, <3>7, <3>8 DEF NeedsStub, Counted
  <2>2. CASE ~(r.typ = "branch" /\ r.symbol.kind = "absolute")
    BY <2>2 DEF NeedsStub, Counted
  <2> QED
    BY <2>1, <2>2
<1>8. machine \in {"x64", "x86", "arm64"}
  BY CoffrAssumption DEF CoffrTypes
<1> QED
  BY <1>5, <1>6, <1>7, <1>8

\* A branch of arm64 can be patched for a target iff that is in its reach.
LEMMA BranchEncodable ==
  \A word, z, p : Encodable("branch", word, z, p) <=> WithinBits(TRUE, BranchBits, (z - p) \div 4)
<1> SUFFICES ASSUME NEW word, NEW z, NEW p
             PROVE  Encodable("branch", word, z, p) <=> WithinBits(TRUE, BranchBits, (z - p) \div 4)
  OBVIOUS
<1>1. /\ Encoded("branch", word, z, p) = (z - p) \div 4 /\ Width("branch") = BranchBits
      /\ Fits12("branch") = FALSE /\ ~Misaligned("branch", word, z)
  BY DEF Encoded, Width, Fits12, Misaligned
<1> QED
  BY <1>1 DEF Encodable

\* A call from one place in the slab to another is in reach of arm64's branch.
LEMMA CallFits ==
  ASSUME NEW x \in Int, NEW y \in Int, x - y \in -Size .. Size,
         Size < 4 * 2 ^ (BranchBits - 1)
  PROVE  WithinBits(TRUE, BranchBits, (x - y) \div 4)
<1>1. PICK h \in Nat : h = 2 ^ (BranchBits - 1)
  <2>1. BranchBits - 1 \in Nat
    BY Arm64Assumption
  <2> QED
    BY <2>1, PowFacts
<1>2. PICK d \in Int : d = x - y
  OBVIOUS
<1>3. d < 4 * h /\ -d < 4 * h
  BY <1>1, <1>2, SlabAssumption
<1>4. d \div 4 \in -h .. h - 1
  BY <1>3
<1> QED
  BY <1>1, <1>2, <1>4 DEF WithinBits

\* Of relocations against a section, only the plain 32-bit address, arm64's
\* narrow fields and its ADDR32NB below 0 can be out of reach.
LEMMA SectionReached ==
  ASSUME CoffrInv, CoffrTypes, LinkInv, InSlabOK, WithinReach, Formed,
         Relocating, Linkable, Reloc.symbol.kind = "section",
         Reloc.typ \notin {"addr32", "none"}, ~Narrow(Reloc.typ),
         ~(ReadUnsigned(Reloc) /\ Reloc.addend < 0)
  PROVE  Direct
<1>1. CASE machine = "x86"
  BY <1>1 DEF Direct, Holds, Instr
<1>2. CASE machine # "x86"
  <2>o. PICK obj \in Objects : obj = link.obj
    BY FreshField
  <2>v. PICK vs, i, r, at : vs = Views /\ i = link.todo[1] /\ r = Reloc /\ at = At
    OBVIOUS
  <2>1. obj = link.obj /\ vs = Views /\ i = link.todo[1] /\ r = Reloc /\ at = At
    BY <2>o, <2>v
  <2>2. /\ InOrder(vs, obj, Top.cursor) /\ i \in DOMAIN vs /\ i \in Keys
        /\ r \in Range(obj.sections[i].relocs) /\ at = vs[i].cursor + r.offset
        /\ mem[at] = Given(machine, r) /\ ~NotLinking
    BY <2>1, FreshField, ViewsFacts
  <2>3. PICK top \in Nat : top = Top.cursor
    BY <2>2, LinkFacts
  <2>4. /\ obj.arch = machine /\ link.base = ImageBase(Base + top)
        /\ \A k \in Keys : vs[k].cursor + obj.sections[k].len <= Size
    BY <2>1, <2>2, <2>3, ViewsFacts DEF InSlabOK
  <2>5. PICK j : j = r.symbol.idx
    OBVIOUS
  <2>6. j \in Keys /\ j \in DOMAIN vs
    BY <2>1, <2>5, ViewsThere, ViewsFacts DEF ViewsComplete
  <2>7. i \in DOMAIN obj.sections /\ i \in Tracked(obj) /\ j \in DOMAIN obj.sections
    BY <2>1, <2>2, <2>6, LinkFacts
  <2>8. PICK c \in Nat, len \in Nat : c = vs[j].cursor /\ len = obj.sections[j].len
    BY <2>2, <2>6, Laid
  <2>9. top <= c /\ c + len <= Size
    BY <2>2, <2>3, <2>4, <2>6, <2>8 DEF InOrder
  <2>10. PICK ci \in Nat, li \in Nat, off \in Nat, tail \in Nat :
           ci = vs[i].cursor /\ li = obj.sections[i].len /\ off = r.offset /\ tail = r.tail
    BY <2>2, Laid
  <2>11. ci + li <= Size /\ off + 4 <= li /\ tail <= 5 /\ at = ci + off
    BY <2>2, <2>4, <2>7, <2>10, RelocFacts
  <2>x. PICK x : x = Given(machine, r)
    OBVIOUS
  <2>12. PICK o \in Nat, a \in Int : o = r.symbol.offset /\ a = AddendOf(machine, r)
    <3>1. AddendOf(machine, r) \in Int
      BY <2>2, <2>4, <2>7, AddendNumber
    <3>2. r.symbol.offset \in Nat
      BY <2>1, <2>2, <2>7, RelocFacts
    <3> QED
      BY <3>1, <3>2
  <2>13. PICK R : R = Reach[machine]
    OBVIOUS
  <2>14. r.typ \notin InstrTypes \ {"branch"}
    BY <1>2, <2>1, CoffrAssumption DEF Linkable, Known, Narrow, Instr, InstrTypes, CoffrTypes
  <2>15. /\ R \in Nat /\ Size + Granule + 12 <= R /\ o + a \in 0 .. len
         /\ machine = "arm64" => Size < 4 * 2 ^ (BranchBits - 1)
         /\ Size \in Nat /\ Base \in Nat /\ Granule \in Nat
    <3>1. machine \in Machines \ {"x86"} /\ R \in Nat
      BY <1>2, <2>13, CoffrAssumption DEF CoffrTypes
    <3>2. /\ Size + Granule + 12 <= R
          /\ machine = "arm64" => Size < 4 * 2 ^ (BranchBits - 1)
      BY <2>13, <3>1 DEF WithinReach
    <3>3. r.symbol.offset + AddendOf(machine, r) \in 0 .. obj.sections[r.symbol.idx].len
      BY <2>1, <2>2, <2>4, <2>7, <2>14, <3>1 DEF WithinReach
    <3> QED
      BY <2>5, <2>8, <2>12, <3>1, <3>2, <3>3, SlabAssumption, CoffrAssumption
  <2>16. PICK base \in Nat : base = link.base /\ base <= Base + top /\ Base + top < base + Granule
    <3>1. Base + top \in Nat
      BY <2>15
    <3> QED
      BY <2>4, <3>1, ImageBaseNear
  <2>17. PICK t : t = Target(vs, r, x)
    OBVIOUS
  <2>18. t = Base + c + o + a /\ SectStart(vs, r.symbol) = Base + c
    <3>1. r.symbol.kind = "section" /\ Address(vs, r.symbol) = Base + c + o
      BY <2>1, <2>5, <2>8, <2>12 DEF Address
    <3>2. a = IF Instr(r.typ) THEN Addend(r.typ, x) ELSE x
      BY <2>12, <2>x, PatchesFacts DEF AddendOf, Instr
    <3>3. CASE Instr(r.typ)
      <4>1. ReadAddend(r, x) = a
        BY <3>2, <3>3, InstrRead
      <4> QED
        BY <2>5, <2>8, <2>17, <3>1, <4>1 DEF Target, SectStart
    <3>4. CASE ~Instr(r.typ)
      <4>1. x = a /\ a = r.addend
        BY <2>x, <3>2, <3>4, PatchesFacts
      <4>2. ASSUME ReadUnsigned(r)
            PROVE  a \in 0 .. 2 * Reach["arm64"] - 1
        <5>1. machine = "arm64" /\ r.typ \in {"addr32", "addr32nb"}
          BY <4>2 DEF ReadUnsigned
        <5>2. NotBelow(r)
          BY <2>2, <2>4, <2>7, <5>1 DEF Formed, WellFormed, CoffrTypes
        <5>3. PICK n \in Nat : n = Reach["arm64"]
          BY <2>13, <2>15, <5>1
        <5> QED
          BY <2>1, <4>1, <4>2, <5>2, <5>3 DEF NotBelow
      <4>3. ReadAddend(r, a) = a
        BY <3>4, <4>1, <4>2, AddendRead DEF CoffrTypes
      <4> QED
        BY <2>5, <2>8, <2>17, <3>1, <4>1, <4>3 DEF Target, SectStart
    <3> QED
      BY <3>3, <3>4
  <2>19. PICK v : v = Value(vs, base, at, r, x)
    OBVIOUS
  <2>20. Direct <=> Holds(vs, at, r, x, v)
    BY <2>1, <2>2, <2>x, <2>16, <2>19 DEF Direct, Fixed
  <2>21. r.typ \in {"section", "near", "addr32nb", "addr64", "secrel", "branch"}
    BY <1>2, <2>1, <2>14 DEF Linkable, Known, Instr
  <2>22. CASE r.typ = "branch" /\ machine = "arm64"
    <3>1. Instr(r.typ)
      BY <2>22 DEF Instr, InstrTypes
    <3>2. Holds(vs, at, r, x, v) <=> Encodable("branch", x, t, Base + at)
      BY <2>17, <2>22, <3>1 DEF Holds
    <3>3. Base + at \in Int /\ t \in Int /\ t - (Base + at) \in -Size .. Size
      BY <2>9, <2>10, <2>11, <2>15, <2>18
    <3>4. WithinBits(TRUE, BranchBits, (t - (Base + at)) \div 4)
      BY <2>15, <2>22, <3>3, CallFits
    <3>5. Encodable("branch", x, t, Base + at)
      BY <3>4, BranchEncodable
    <3> QED
      BY <2>20, <3>2, <3>5
  <2>23. CASE ~(r.typ = "branch" /\ machine = "arm64")
    <3>1. ~Instr(r.typ)
      BY <2>14, <2>23 DEF Instr
    <3>2. CASE r.typ \in {"section", "addr64"}
      BY <2>20, <3>1, <3>2 DEF Holds
    <3>3. CASE r.typ = "addr32nb"
      <4>1. v = t - base
        BY <2>17, <2>19, <3>1, <3>3 DEF Value
      <4>2. v \in 0 .. 2 * R - 1
        BY <2>9, <2>15, <2>16, <2>18, <4>1
      <4> QED
        BY <2>13, <2>20, <3>1, <3>3, <4>2 DEF Holds, Unsigned
    <3>4. CASE r.typ = "secrel"
      <4>1. v = t - (Base + c)
        BY <2>17, <2>18, <2>19, <3>1, <3>4 DEF Value
      <4>2. v \in -R .. R - 1
        BY <2>9, <2>15, <2>18, <4>1
      <4> QED
        BY <2>13, <2>20, <3>1, <3>4, <4>2 DEF Holds, Signed
    <3>5. CASE r.typ \in {"near", "branch"}
      <4>1. PICK e \in 0 .. 9 : v = t - (Base + at + e)
        <5>1. v = t - Pc(at, r)
          BY <2>17, <2>19, <3>1, <3>5 DEF Value
        <5>2. Pc(at, r) = Base + at + (IF machine = "arm64" THEN 0 ELSE 4 + tail)
          BY <2>10 DEF Pc
        <5>3. 4 + tail \in 0 .. 9 /\ 0 \in 0 .. 9
          <6>1. tail \in Nat
            BY <2>10
          <6>2. tail <= 5
            BY <2>11
          <6> QED
            BY <6>1, <6>2
        <5> QED
          BY <5>1, <5>2, <5>3
      <4>2. v \in -R .. R - 1
        BY <2>9, <2>10, <2>11, <2>15, <2>18, <4>1
      <4> QED
        BY <2>13, <2>20, <3>1, <3>5, <4>2 DEF Holds, Signed
    <3> QED
      BY <2>21, <3>2, <3>3, <3>4, <3>5
  <2> QED
    BY <2>22, <2>23
<1> QED
  BY <1>1, <1>2

\* What takes a trampoline was counted.
LEMMA TakenCounted ==
  ASSUME CoffrInv, CoffrTypes, LinkInv, InSlabOK, WithinReach, NoneAtTheLimit, Formed,
         Relocating, Linkable, ViaStub
  PROVE  Counted(machine, Reloc)
<1>1. machine \in {"x64", "arm64"} /\ Reloc.typ = "branch" /\ ~Direct
  BY CoffrAssumption DEF ViaStub, CoffrTypes
<1>2. Reloc.symbol.kind # "section"
  BY <1>1, SectionReached DEF Narrow, ReadUnsigned
<1>o. PICK obj \in Objects : obj = link.obj
  BY FreshField
<1>v. PICK vs, i, r, at : vs = Views /\ i = link.todo[1] /\ r = Reloc /\ at = At
  OBVIOUS
<1>3. obj = link.obj /\ vs = Views /\ i = link.todo[1] /\ r = Reloc /\ at = At
  BY <1>o, <1>v
<1>4. /\ InOrder(vs, obj, Top.cursor) /\ i \in DOMAIN vs /\ i \in Keys
      /\ r \in Range(obj.sections[i].relocs) /\ at = vs[i].cursor + r.offset
      /\ mem[at] = Given(machine, r) /\ ~NotLinking
  BY <1>3, FreshField, ViewsFacts
<1>5. obj.arch = machine /\ vs[i].cursor + obj.sections[i].len <= Size
  BY <1>3, <1>4, ViewsFacts DEF InSlabOK
<1>6. i \in DOMAIN obj.sections /\ i \in Tracked(obj)
  BY <1>3, <1>4, LinkFacts
<1>7. r.symbol.kind = "absolute" /\ r.symbol.address \in Nat /\ r.addend \in Int /\ r.tail = 0
  BY <1>1, <1>2, <1>3, <1>4, <1>6, RelocFacts
<1>8. PICK ci \in Nat, li \in Nat, off \in Nat :
        ci = vs[i].cursor /\ li = obj.sections[i].len /\ off = r.offset
  BY <1>4, Laid
<1>9. ci + li <= Size /\ off + 4 <= li /\ at = ci + off
  BY <1>4, <1>5, <1>6, <1>8, RelocFacts
<1>10. Size \in Nat /\ Base \in Nat
  BY SlabAssumption
<1>11. CASE machine = "x64"
  <2>1. PICK R : R = Reach["x64"]
    OBVIOUS
  <2>2. R \in Nat /\ Size \in Nat /\ Base \in Nat
    BY <1>11, <2>1, CoffrAssumption, SlabAssumption DEF CoffrTypes
  <2>3. PICK d \in Int : d = Distance(r)
    BY <1>7, <2>2 DEF Distance
  <2>4. PICK v : v = Value(vs, link.base, at, r, r.addend)
    OBVIOUS
  <2>5. v = d - (at + 4)
    <3>1. ~Instr(r.typ)
      BY <1>11 DEF Instr
    <3>2. Target(vs, r, r.addend) = r.symbol.address + r.addend
      <4>1. Address(vs, r.symbol) = r.symbol.address
        BY <1>7 DEF Address
      <4> QED
        BY <1>11, <3>1, <4>1 DEF Target, ReadAddend, ReadUnsigned
    <3>3. r.typ = "branch"
      BY <1>1, <1>3
    <3>4. v = Target(vs, r, r.addend) - Pc(at, r)
      BY <2>4, <3>1, <3>3 DEF Value
    <3>5. Pc(at, r) = Base + at + (4 + 0)
      BY <1>7, <1>11 DEF Pc
    <3> QED
      BY <1>7, <1>9, <2>2, <2>3, <3>2, <3>4, <3>5 DEF Distance
  <2>6. v \notin -R .. R - 1
    <3>1. Direct <=> Holds(vs, at, r, r.addend, v)
      <4>1. mem[at] = r.addend
        BY <1>4, <1>11, PatchesFacts DEF Instr
      <4> QED
        BY <1>3, <2>4, <4>1 DEF Direct, Fixed
    <3>2. ~Instr(r.typ) /\ r.typ = "branch"
      BY <1>1, <1>3, <1>11 DEF Instr
    <3> QED
      BY <1>1, <1>11, <2>1, <3>1, <3>2 DEF Holds, Signed
  <2>7. -R <= d - (Size + 4) \/ d - (off + 4) < -R
    BY <1>1, <1>3, <1>4, <1>5, <1>6, <1>7, <1>8, <1>11, <2>1, <2>3 DEF NoneAtTheLimit
  <2>8. d - (off + 4) \notin -R .. R - 1
    BY <1>9, <2>2, <2>5, <2>6, <2>7, <1>8
  <2> QED
    BY <1>1, <1>3, <1>7, <1>8, <1>11, <2>1, <2>3, <2>8 DEF Counted
<1>12. CASE machine = "arm64"
  <2>1. Instr(r.typ) /\ Given(machine, r) = r.word /\ r.typ = "branch"
    BY <1>1, <1>3, <1>12, PatchesFacts DEF Instr, InstrTypes
  <2>2. Target(vs, r, mem[at]) = r.symbol.address + Addend(r.typ, r.word)
    BY <1>4, <1>7, <2>1, InstrRead DEF Target, Address
  <2>3. Direct <=> Encodable(r.typ, r.word, Target(vs, r, mem[at]), Base + at)
    BY <1>3, <1>4, <2>1 DEF Direct, Holds
  <2>4. CallInReach(r, at) => Direct
    <3>1. PICK a \in Int : a = Addend(r.typ, r.word)
      <4>1. AddendOf(machine, r) \in Int
        BY <1>3, <1>4, <1>5, <1>6, AddendNumber
      <4> QED
        BY <1>12, <2>1, <4>1 DEF AddendOf, Instr
    <3>2. PICK z \in Int, p \in Int : z = r.symbol.address + a /\ p = Base + at
      BY <1>7, <1>8, <1>9, <1>10
    <3>3. PICK d \in Int : d = z - p
      OBVIOUS
    <3>4. CallInReach(r, at) <=> WithinBits(TRUE, BranchBits, d \div 4)
      <4>1. (r.symbol.address + Addend(r.typ, r.word) - (Base + at)) = d
        <5>1. r.symbol.address \in Nat /\ at \in Nat /\ Base \in Nat
          BY <1>7, <1>8, <1>9, <1>10
        <5> QED
          BY <3>1, <3>2, <3>3, <5>1
      <4> QED
        BY <4>1 DEF CallInReach
    <3>5. Direct <=> Encodable("branch", r.word, z, p)
      BY <2>1, <2>2, <2>3, <3>1, <3>2
    <3> QED
      BY <3>3, <3>4, <3>5, BranchEncodable
  <2>5. at \in 0 .. Size
    BY <1>8, <1>9, <1>10
  <2>6. FarCall(r)
    BY <1>1, <1>7, <2>1, <2>4, <2>5 DEF FarCall
  <2>7. ~CallInReach(r, r.offset)
    BY <1>4, <1>5, <1>6, <1>7, <1>12, <2>1, <2>6 DEF NoneAtTheLimit
  <2> QED
    BY <1>3, <1>7, <1>12, <2>1, <2>7 DEF Counted
<1> QED
  BY <1>1, <1>11, <1>12

LEMMA StartsInSlab ==
  ASSUME CoffrInv, CoffrTypes, OrderOK,
         NEW obj \in Objects, NEW calls \in Reserves, LinkStart(obj, calls)
  PROVE  InSlabOK' /\ CountsOK'
<1>1. /\ link'.phase \in {"panic", "track"} /\ link'.obj = obj /\ obj.arch = machine
      /\ link'.base = ImageBase(Base + cursor) /\ machine' = machine
      /\ NotLinking /\ Emptied
  BY DEF LinkStart, Create, NotLinking
<1>2. [CoffrNext]_allVars
  BY DEF CoffrNext
<1>3. ~NotLinking' /\ ~In("count")' /\ ~In("relocate")'
  BY <1>1 DEF NotLinking, In
<1>4. Top'.cursor = cursor
  BY <1>1, <1>2, <1>3, FloorKept DEF Floor
<1>5. Keys' = {}
  BY <1>1, EmptyCache
<1>6. ImageBase(Base + Top.cursor)' = ImageBase(Base + cursor)
  BY <1>4 DEF ImageBase
<1>7. InSlabOK'
  BY <1>1, <1>3, <1>5, <1>6 DEF InSlabOK
<1>8. CountsOK'
  BY <1>3, <1>5 DEF CountsOK, Relocating
<1> QED
  BY <1>7, <1>8

LEMMA InSlabStep ==
  ASSUME CoffrInv, CoffrTypes, OrderOK, InSlabOK, [CoffrNext]_allVars
  PROVE  InSlabOK'
<1>1. CASE \E obj \in Objects, calls \in Reserves : LinkStart(obj, calls)
  BY <1>1, StartsInSlab
<1>2. CASE NotLinking'
  BY <1>2 DEF InSlabOK
<1>3. ASSUME ~NotLinking', ~(\E obj \in Objects, calls \in Reserves : LinkStart(obj, calls))
      PROVE  InSlabOK'
  <2>1. /\ ~NotLinking /\ link'.obj = link.obj /\ link'.base = link.base
        /\ TrackData \/ TrackPool \/ UNCHANGED cacheVars
        /\ TrackData \/ (In("count")' => In("count") /\ link'.at = link.at /\ link'.sec = link.sec)
    BY <1>3, LinkGoesOn
  <2>2. machine' = machine /\ Top'.cursor = Top.cursor
    BY <1>3, <2>1, FloorKept DEF Floor
  <2>3. link'.obj.arch = machine' /\ link'.base = ImageBase(Base + Top.cursor)'
    BY <2>1, <2>2 DEF InSlabOK, ImageBase
  <2>4. \A i \in Keys' : Get(i)'.cursor + link'.obj.sections[i].len <= Size
    <3>1. CASE TrackPool
      <4>s. PICK sec : sec = link.sec
        OBVIOUS
      <4>1. /\ Keys' = Keys \cup {sec} /\ \A k \in Keys : Get(k)' = Get(k)
            /\ Get(sec)'.cursor = link.at /\ In("count")
        BY <3>1, <4>s, PoolView
      <4>2. link.at + link.obj.sections[sec].len <= Size
        BY <2>1, <4>s, <4>1 DEF InSlabOK, Section
      <4> QED
        BY <2>1, <4>1, <4>2 DEF InSlabOK
    <3>2. CASE UNCHANGED cacheVars
      BY <2>1, <3>2, CacheKept DEF InSlabOK
    <3>3. TrackData => UNCHANGED cacheVars
      BY DEF TrackData
    <3> QED
      BY <2>1, <3>1, <3>2, <3>3
  <2>5. ASSUME In("count")'
        PROVE  link'.at + Section'.len <= Size
    <3>1. CASE TrackData
      <4>1. /\ InSections /\ DOMAIN link = LinkFields /\ LinkOK /\ TypeOK
        BY <2>1, <3>1 DEF TrackData, CoffrInv, SlabInv, CountInv, LinkOK
      <4>2. Request(DataCall) /\ Room(DataCall)
        BY <2>1, <3>1, <4>1, DataRequest DEF TrackData, TxWrite
      <4>3. StartOffset(Base, cursor, Section.align) + Section.len <= Size
        BY <4>1, <4>2, WriteInside DEF DataCall
      <4>4. link'.at = StartOffset(Base, cursor, Section.align) /\ link'.sec = link.sec
        BY <3>1, <4>1 DEF TrackData, LinkFields
      <4>5. Section' = Section
        BY <2>1, <4>4 DEF Section
      <4> QED
        BY <4>3, <4>4, <4>5
    <3>2. CASE ~TrackData
      <4>1. In("count") /\ link'.at = link.at /\ Section' = Section
        BY <2>1, <2>5, <3>2 DEF Section
      <4> QED
        BY <2>1, <4>1 DEF InSlabOK
    <3> QED
      BY <3>1, <3>2
  <2> QED
    BY <2>3, <2>4, <2>5 DEF InSlabOK
<1> QED
  BY <1>1, <1>2, <1>3

\* Counting decides for each relocation as Counted says.
LEMMA AllCounted ==
  ASSUME CoffrInv, CoffrTypes, LinkInv, InSlabOK, Formed, In("count"), InSections
  PROVE  Count(Section)
           = Cardinality(CountedUpTo(machine, Section.relocs, Len(Section.relocs)))
<1>1. \A k \in DOMAIN Section.relocs : NeedsStub(Section.relocs[k]) <=> Counted(machine, Section.relocs[k])
  BY NeedsStubCounted DEF Range
<1>2. ~NotLinking /\ LinkOK
  BY DEF NotLinking, In, CoffrInv
<1>3. DOMAIN Section.relocs = 1 .. Len(Section.relocs) /\ Len(Section.relocs) \in Nat
  BY <1>2, SectionFacts
<1>4. \A k \in DOMAIN Section.relocs : k <= Len(Section.relocs)
  BY <1>3
<1>5. {k \in DOMAIN Section.relocs : NeedsStub(Section.relocs[k])}
        = CountedUpTo(machine, Section.relocs, Len(Section.relocs))
  BY <1>1, <1>4 DEF CountedUpTo
<1> QED
  BY <1>5 DEF Count

LEMMA CountsStep ==
  ASSUME CoffrInv, CoffrTypes, LinkInv, InSlabOK, CountsOK, WithinReach,
         NoneAtTheLimit, Formed, [CoffrNext]_allVars
  PROVE  CountsOK'
<1>1. CASE \E obj \in Objects, calls \in Reserves : LinkStart(obj, calls)
  BY <1>1, StartsInSlab DEF LinkInv
<1>2. CASE NotLinking'
  <2>1. ~Relocating'
    BY <1>2 DEF Relocating, NotLinking, In
  <2> QED
    BY <1>2, <2>1 DEF CountsOK
<1>3. ASSUME ~NotLinking', ~(\E obj \in Objects, calls \in Reserves : LinkStart(obj, calls))
      PROVE  CountsOK'
  <2>1. /\ ~NotLinking /\ link'.obj = link.obj
        /\ TrackData \/ TrackPool \/ UNCHANGED cacheVars
        /\ \/ TrackEnd
           \/ Relocating /\ \E took \in {TRUE, FALSE} : Advance(took) /\ (took => Linkable /\ ViaStub)
           \/ Relocating' => Relocating /\ link' = link
    BY <1>3, LinkGoesOn
  <2>2. machine' = machine
    BY FloorKept DEF LinkInv
  <2>o. PICK obj \in Objects : obj = link.obj
    BY <2>1, LinkFacts
  <2> DEFINE All(i) == Cardinality(CountedUpTo(machine, obj.sections[i].relocs,
                                               Len(obj.sections[i].relocs)))
  <2>3. \A i \in Keys : Get(i).count = All(i)
    BY <2>1, <2>o DEF CountsOK
  <2>4. \A i \in Keys' : Get(i)'.count = All(i)
    <3>1. CASE TrackPool
      <4>s. PICK sec : sec = link.sec
        OBVIOUS
      <4>1. /\ Keys' = Keys \cup {sec} /\ \A k \in Keys : Get(k)' = Get(k)
            /\ Get(sec)'.count = Count(Section) /\ In("count") /\ InSections
        BY <3>1, <4>s, PoolView
      <4>2. Count(Section) = All(sec)
        BY <2>o, <4>s, <4>1, AllCounted DEF Section
      <4> QED
        BY <2>3, <4>1, <4>2
    <3>2. CASE UNCHANGED cacheVars
      BY <2>3, <3>2, CacheKept
    <3>3. TrackData => UNCHANGED cacheVars
      BY DEF TrackData
    <3> QED
      BY <2>1, <3>1, <3>2, <3>3
  <2>5. ASSUME Relocating'
        PROVE  link'.used <= Cardinality(CountedUpTo(machine, Relocs', link'.todo[2] - 1))
    <3>1. link'.todo[1] \in Tracked(link.obj)' /\ Relocs' = obj.sections[link'.todo[1]].relocs
      BY <2>1, <2>o, <2>5, CoffrStep DEF CoffrInv, WalkOK, Relocs
    <3>2. link'.todo[1] \in DOMAIN obj.sections
      BY <2>1, <2>o, <3>1 DEF Tracked
    <3>3. Len(Relocs') \in Nat /\ DOMAIN Relocs' = 1 .. Len(Relocs')
      BY <3>1, <3>2, RelocFacts
    <3>4. \A n : Cardinality(CountedUpTo(machine, Relocs', n)) \in Nat
      <4>1. PICK relocs : relocs = Relocs'
        OBVIOUS
      <4> QED
        BY <3>3, <4>1, CountedFacts
    <3>5. CASE TrackEnd
      <4>1. link.used = 0 /\ link'.used = link.used
        <5>1. ~In("relocate") /\ DOMAIN link = LinkFields
          BY <2>1, <3>5, LinkFacts DEF TrackEnd, In
        <5> QED
          BY <2>1, <3>5, <5>1 DEF LinkInv, RawOK, TrackEnd, LinkFields
      <4> QED
        BY <3>4, <4>1
    <3>6. CASE Relocating /\ link' = link
      <4>1. Relocs' = Relocs
        BY <3>6 DEF Relocs
      <4> QED
        BY <3>6, <4>1 DEF CountsOK
    <3>7. ASSUME Relocating, NEW took \in {TRUE, FALSE}, Advance(took), took => Linkable /\ ViaStub
          PROVE  link'.used <= Cardinality(CountedUpTo(machine, Relocs', link'.todo[2] - 1))
      <4>1. /\ DOMAIN link = LinkFields /\ link.used \in Nat
            /\ link.todo[2] \in DOMAIN Relocs /\ Reloc = Relocs[link.todo[2]]
            /\ link.todo[1] \in DOMAIN obj.sections /\ Relocs = obj.sections[link.todo[1]].relocs
        <5>1. link.todo[1] \in Keys
          BY <3>7, FreshField
        <5> QED
          BY <2>1, <2>o, <3>7, <5>1, FreshField, LinkFacts, Zenon DEF Reloc, Relocs
      <4>2. PICK relocs, i, k : relocs = Relocs /\ i = link.todo[1] /\ k = link.todo[2]
        OBVIOUS
      <4>3. PICK u \in Nat : u = link.used
        BY <4>1
      <4>4. /\ link'.todo = IF k = Len(relocs) THEN NextReloc(obj, i) ELSE <<i, k + 1>>
            /\ link'.used = IF machine = "arm64" \/ k = Len(relocs) THEN 0
                            ELSE IF took THEN u + 1 ELSE u
        BY <2>o, <3>7, <4>1, <4>2, <4>3 DEF Advance, NextUsed, LinkFields
      <4>5. CASE k = Len(relocs)
        BY <3>4, <4>4, <4>5
      <4>6. CASE k # Len(relocs)
        <5>1. link'.todo[1] = i /\ link'.todo[2] = k + 1 /\ Relocs' = relocs
          BY <3>1, <4>1, <4>2, <4>4, <4>6
        <5>2. Len(relocs) \in Nat /\ DOMAIN relocs = 1 .. Len(relocs) /\ k \in DOMAIN relocs
          BY <3>3, <4>1, <4>2, <5>1
        <5>c. /\ Cardinality(CountedUpTo(machine, relocs, k - 1)) \in Nat
              /\ Cardinality(CountedUpTo(machine, relocs, k)) \in Nat
          BY <5>2, CountedFacts
        <5>d. /\ Cardinality(CountedUpTo(machine, relocs, k - 1))
                   <= Cardinality(CountedUpTo(machine, relocs, k))
              /\ Counted(machine, relocs[k]) =>
                   Cardinality(CountedUpTo(machine, relocs, k))
                     = Cardinality(CountedUpTo(machine, relocs, k - 1)) + 1
          BY <5>2, CountedFacts
        <5>3. PICK m \in Nat, n \in Nat : /\ m = Cardinality(CountedUpTo(machine, relocs, k - 1))
                                          /\ n = Cardinality(CountedUpTo(machine, relocs, k))
                                          /\ m <= n
                                          /\ Counted(machine, relocs[k]) => n = m + 1
          BY <5>c, <5>d
        <5>4. u <= m
          <6>1. link.used <= Cardinality(CountedUpTo(machine, Relocs, link.todo[2] - 1))
            BY <3>7 DEF CountsOK
          <6> QED
            BY <4>2, <4>3, <5>3, <6>1
        <5>5. took => Counted(machine, relocs[k])
          BY <3>7, <4>1, <4>2, TakenCounted
        <5>6. link'.used <= n
          BY <4>4, <4>6, <5>3, <5>4, <5>5
        <5>7. link'.todo[2] - 1 = k
          BY <5>1, <5>2
        <5> QED
          BY <5>1, <5>3, <5>6, <5>7
      <4> QED
        BY <4>5, <4>6
    <3> QED
      BY <2>1, <2>5, <3>5, <3>6, <3>7
  <2> HIDE DEF All
  <2>6. \A i \in Keys' : Get(i)'.count
          = Cardinality(CountedUpTo(machine', link'.obj.sections[i].relocs,
                                    Len(link'.obj.sections[i].relocs)))
    BY <2>1, <2>2, <2>o, <2>4 DEF All
  <2> QED
    BY <2>2, <2>5, <2>6 DEF CountsOK
<1> QED
  BY <1>1, <1>2, <1>3

LEMMA PoolsEnough ==
  ASSUME CoffrInv, CoffrTypes, LinkInv, InSlabOK, CountsOK, WithinReach, NoneAtTheLimit, Formed
  PROVE  StubsWithinPool
<1> SUFFICES ASSUME Relocating, Linkable, ViaStub
             PROVE  link.used < View.count
  BY DEF StubsWithinPool
<1>1. Counted(machine, Reloc)
  BY TakenCounted
<1>2. /\ ~NotLinking /\ link.todo[1] \in Keys /\ link.used \in Nat
      /\ link.todo[2] \in DOMAIN link.obj.sections[link.todo[1]].relocs
      /\ Reloc = link.obj.sections[link.todo[1]].relocs[link.todo[2]]
      /\ link.todo[1] \in DOMAIN link.obj.sections /\ link.obj \in Objects
  BY FreshField, LinkFacts
<1>3. PICK relocs, k : relocs = link.obj.sections[link.todo[1]].relocs /\ k = link.todo[2]
  OBVIOUS
<1>4. /\ Len(relocs) \in Nat /\ DOMAIN relocs = 1 .. Len(relocs) /\ k \in DOMAIN relocs
      /\ Counted(machine, relocs[k])
  BY <1>1, <1>2, <1>3, RelocFacts, Zenon
<1>5. /\ Cardinality(CountedUpTo(machine, relocs, k - 1)) \in Nat
      /\ Cardinality(CountedUpTo(machine, relocs, Len(relocs))) \in Nat
      /\ Cardinality(CountedUpTo(machine, relocs, k))
           <= Cardinality(CountedUpTo(machine, relocs, Len(relocs)))
      /\ Cardinality(CountedUpTo(machine, relocs, k))
           = Cardinality(CountedUpTo(machine, relocs, k - 1)) + 1
  BY <1>4, CountedFacts
<1>6. link.used <= Cardinality(CountedUpTo(machine, relocs, k - 1))
  BY <1>3 DEF CountsOK, Relocs
<1>7. View.count = Cardinality(CountedUpTo(machine, relocs, Len(relocs)))
  BY <1>2, <1>3 DEF CountsOK, View
<1> QED
  BY <1>2, <1>5, <1>6, <1>7

LEMMA SectionsFit ==
  ASSUME CoffrInv, CoffrTypes, LinkInv, InSlabOK, WithinReach, Formed
  PROVE  SectionRelocsFit
BY SectionReached DEF SectionRelocsFit

\* The invariant with these counts.
PoolsInv == CoffrInv /\ CoffrTypes /\ FieldsInv /\ InSlabOK /\ CountsOK

LEMMA PoolsInit == CoffrInit => PoolsInv
<1> SUFFICES ASSUME CoffrInit PROVE PoolsInv
  OBVIOUS
<1>1. CoffrInv /\ CoffrTypes /\ FieldsInv
  BY CoffrInitial, CoffrTypesInit, FieldsInit
<1>2. NotLinking /\ ~Relocating
  BY DEF CoffrInit, NotLinking, Relocating, In, Idle
<1> QED
  BY <1>1, <1>2 DEF PoolsInv, InSlabOK, CountsOK

LEMMA PoolsStep ==
  ASSUME WithinReach, NoneAtTheLimit
  PROVE  PoolsInv /\ Formed /\ [CoffrNext]_allVars => PoolsInv'
<1> SUFFICES ASSUME PoolsInv, Formed, [CoffrNext]_allVars
             PROVE  PoolsInv'
  OBVIOUS
<1>1. CoffrInv /\ CoffrTypes /\ FieldsInv /\ LinkInv /\ OrderOK /\ InSlabOK /\ CountsOK
  BY DEF PoolsInv, FieldsInv, LinkInv
<1>2. CoffrInv' /\ CoffrTypes'
  BY <1>1, CoffrStep, CoffrTypesNext DEF CoffrInv, SlabInv
<1>3. FieldsInv'
  <2>1. Covered /\ StubsWithinPool
    BY <1>1, PoolsEnough, SectionsFit DEF Formed, Covered
  <2> QED
    BY <1>1, <2>1, FieldsStep
<1>4. InSlabOK' /\ CountsOK'
  BY <1>1, InSlabStep, CountsStep
<1> QED
  BY <1>2, <1>3, <1>4 DEF PoolsInv

LEMMA PoolsShow ==
  ASSUME WithinReach, NoneAtTheLimit
  PROVE  PoolsInv /\ Formed => StubsWithinPool /\ SectionRelocsFit /\ LinkedAsWritten
<1> SUFFICES ASSUME PoolsInv, Formed
             PROVE  StubsWithinPool /\ SectionRelocsFit /\ LinkedAsWritten
  OBVIOUS
<1>1. CoffrInv /\ CoffrTypes /\ FieldsInv /\ LinkInv /\ InSlabOK /\ CountsOK
  BY DEF PoolsInv, FieldsInv, LinkInv
<1> QED
  BY <1>1, PoolsEnough, SectionsFit, FieldsLinked

\* With nothing at the limit of reach, relocating never takes a trampoline
\* that counting has not reserved, although it decides anew.
THEOREM StubsAreCounted ==
  ASSUME WithinReach, NoneAtTheLimit
  PROVE  CoffrSpec /\ []Formed => []StubsWithinPool
BY PoolsInit, PoolsStep, PoolsShow, PTL DEF CoffrSpec

\* Under the same conditions no relocation against a section of the object
\* overflows, other than the plain 32-bit address and arm64's narrow fields,
\* wherever the slab and its cursor are.
THEOREM SectionsWithinReach ==
  ASSUME WithinReach, NoneAtTheLimit
  PROVE  CoffrSpec /\ []Formed => []SectionRelocsFit
BY PoolsInit, PoolsStep, PoolsShow, PTL DEF CoffrSpec

\* So, whatever users of the slab do, what is linked stays right, on all
\* machines, by conditions on the objects alone.
THEOREM LinkedWithinReach ==
  ASSUME WithinReach, NoneAtTheLimit
  PROVE  CoffrSpec /\ []Formed => []LinkedAsWritten
BY PoolsInit, PoolsStep, PoolsShow, PTL DEF CoffrSpec
=============================================================================
