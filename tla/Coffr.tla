------------------------------- MODULE Coffr -------------------------------
(***************************************************************************)
(* The COFF linker (src/coffr): link_binary lays the .text and .rdata      *)
(* sections of an object out in a transaction of the slab, each followed   *)
(* by a pool of 16-byte trampolines, then patches every relocation, then   *)
(* commits.  Any error drops the transaction.                              *)
(*                                                                         *)
(* The linker drives the slab of module Slab: each of its steps is a step  *)
(* of that machine together with a change of the linker's own state.       *)
(* Between links the slab's other users go on: plain writes, the outer     *)
(* transaction of DynamicMemory::process, releases.  The views of the      *)
(* sections are kept in the cache of module LinkerCache, which the link    *)
(* borrows until the client has dropped the iterator over the symbols.     *)
(*                                                                         *)
(* Bytes are abstracted to what linking tells apart: `mem' holds the       *)
(* relocatable fields and `stubs' the targets of the trampolines, both by  *)
(* offset in the slab.  A field is a number, or on arm64 the instruction   *)
(* that holds it (module Arm64Fields); one of 8 bytes is two words of      *)
(* `mem' with its value in both.  Widths are scaled: a 32-bit signed field *)
(* spans -Reach .. Reach - 1.                                              *)
(***************************************************************************)
EXTENDS Slab, Arm64Fields, LinkerCache

CONSTANTS
  Machines, \* the architectures considered, of "x64", "arm64" and "x86"
  Reach,    \* half the span of a 32-bit field (2^31)
  Granule,  \* KB_64
  Objects   \* the object files clients link, each with its `arch'

\* The field of a relocation, in bytes and as the words of 4 bytes it is when
\* it lies at `at', and those of its section's k-th and l-th.
FieldLen(r) == IF r.typ = "addr64" THEN 8 ELSE 4

WordsAt(at, r) == IF r.typ = "addr64" THEN {at, at + 4} ELSE {at}

FieldsApart(relocs, k, l) ==
  \/ relocs[k].offset + FieldLen(relocs[k]) <= relocs[l].offset
  \/ relocs[l].offset + FieldLen(relocs[l]) <= relocs[k].offset

ASSUME CoffrAssumption ==
  /\ Machines \subseteq {"x64", "arm64", "x86"}
  /\ Reach \in [Machines -> Nat \ {0}]
  /\ Granule \in Nat \ {0}
  /\ \A obj \in Objects :
       /\ obj.total \in Totals
       /\ obj.sections \in Seq(Range(obj.sections))
       /\ \A i \in DOMAIN obj.sections :
            /\ obj.sections[i].align \in Nat \ {0} /\ obj.sections[i].len \in Nat
            /\ obj.sections[i].relocs \in Seq(Range(obj.sections[i].relocs))
            /\ \A r \in Range(obj.sections[i].relocs) :
                 /\ r.offset \in Nat /\ r.offset + FieldLen(r) <= obj.sections[i].len
                 /\ r.tail \in (IF obj.arch = "x64" /\ r.typ = "near" THEN 1 .. 5 ELSE {0})
                 /\ r.addend \in Int
                 /\ r.symbol.kind \in {"section", "absolute"}
                 /\ IF r.symbol.kind = "section"
                      THEN r.symbol.idx \in DOMAIN obj.sections /\ r.symbol.offset \in Nat
                      ELSE r.symbol.address \in Nat
            /\ \A k, l \in DOMAIN obj.sections[i].relocs :
                 k # l => FieldsApart(obj.sections[i].relocs, k, l)

VARIABLES
  machine,  \* the architecture this process runs on, and its objects are for
  link,     \* the link in progress, or Idle
  mem,     \* offset of a word of a relocatable field -> the field's value
  stubs,   \* trampoline's offset -> its target address
  loaded   \* history: what each committed program was linked from

linkerVars == <<machine, link, mem, stubs, loaded>>
allVars    == <<vars, cacheVars, linkerVars>>

Idle == [phase |-> "idle"]

StubLen == 16  \* bytes of a trampoline

In(phase) == link.phase = phase

\* Writing lo .. hi - 1 destroys the items, w bytes long, that it overlaps.
Clear(f, w, lo, hi) == [o \in {x \in DOMAIN f : x + w <= lo \/ x >= hi} |-> f[o]]

\* f, and g where f has no value.
Over(f, g) == [o \in DOMAIN f \cup DOMAIN g |-> IF o \in DOMAIN f THEN f[o] ELSE g[o]]

CoffrInit ==
  /\ Init
  /\ CacheInit
  /\ machine \in Machines
  /\ link = Idle
  /\ mem = <<>>
  /\ stubs = <<>>
  /\ loaded = <<>>

-----------------------------------------------------------------------------
(* The object file, as resolve_symbol and relocparser read it.  A section's *)
(* name is "exact" (.text, .rdata), "suffixed" (.text$mn, which is tracked *)
(* but which symbols may not name) or "other".  An undefined symbol is     *)
(* absolute, with the address that the resolver answers.                   *)

Tracked(obj) == {i \in DOMAIN obj.sections : obj.sections[i].name # "other"}

BadFirstOnly(obj, i) ==
  IF i = 0 THEN Min(Tracked(obj) \cup {Len(obj.sections) + 1})
           ELSE Len(obj.sections) + 1

\* The section iterator skips to the next tracked section.
NextTracked(obj, i) ==
  Min({j \in Tracked(obj) : j > i} \cup {Len(obj.sections) + 1})

Unnameable(obj, sym) ==
  sym.kind = "section" /\ obj.sections[sym.idx].name # "exact"

\* What the cache holds, section by section.
Views == [k \in Keys |-> Get(k)]

\* symbolmap: where the symbol is, given the sections' views.
Address(vs, sym) ==
  IF sym.kind = "section" THEN Base + vs[sym.idx].cursor + sym.offset
                          ELSE sym.address

\* The start and the number of the section the symbol is in; 0 for none.
SectStart(vs, sym) ==
  IF sym.kind = "section" THEN Base + vs[sym.idx].cursor ELSE 0
SectIdx(sym) == IF sym.kind = "section" THEN sym.idx ELSE 0

-----------------------------------------------------------------------------
(* Displacements are relative to p, the field, on arm64; to p + 4 on x86;  *)
(* on x64 to p + 4 for REL32 (a "branch", tail 0) and to p + 4 + tail for  *)
(* REL32_1 .. REL32_5 ("near").  On arm64 "near" is REL32, "branch" is     *)
(* BRANCH26, "cond" BRANCH19, "test" BRANCH14, "adr" REL21, "adrp"         *)
(* PAGEBASE_REL21, "pageoff" and "pageoffl" PAGEOFFSET_12A and _12L.       *)

Signed(x)   == x \in -Reach[machine] .. Reach[machine] - 1
Unsigned(x) == x \in 0 .. 2 * Reach[machine] - 1

Instr(typ) == machine = "arm64" /\ typ \in InstrTypes

Pc(at, r) == Base + at + (IF machine = "arm64" THEN 0 ELSE 4 + r.tail)

\* The fields that arm64's relocator reads as u32 and widens to i64.
ReadUnsigned(r) == machine = "arm64" /\ r.typ \in {"addr32", "addr32nb"}

\* a, read from a field that holds x.  (The addition of an ADDR64 wraps; on
\* arm64 a debug build panics if it does.)
ReadAddend(r, x) ==
  CASE Instr(r.typ)    -> Addend(r.typ, x)
    [] ReadUnsigned(r) -> x % (2 * Reach[machine])
    [] OTHER           -> x

\* s + a.
Target(vs, r, x) == Address(vs, r.symbol) + ReadAddend(r, x)

Known(typ) ==
  \/ typ \in {"none", "section", "near", "addr32", "addr32nb"}
  \/ typ = "addr64" /\ machine # "x86"
  \/ typ = "secrel" /\ machine # "arm64"
  \/ typ = "branch" /\ machine = "x64"
  \/ Instr(typ)

\* What the relocator computes for a field that holds x.
Value(vs, base, at, r, x) ==
  CASE Instr(r.typ) -> Encoded(r.typ, x, Target(vs, r, x), Base + at)
    [] r.typ \in {"addr64", "addr32"} -> Target(vs, r, x)
    [] r.typ = "addr32nb" -> Target(vs, r, x) - base
    [] r.typ = "secrel"   -> Target(vs, r, x) - SectStart(vs, r.symbol)
    [] r.typ = "section"  -> SectIdx(r.symbol) + (IF machine = "arm64" THEN 0 ELSE x)
    [] OTHER              -> Target(vs, r, x) - Pc(at, r)

\* ... and whether the field can hold the value v.  x86 truncates without a
\* check.
Holds(vs, at, r, x, v) ==
  IF Instr(r.typ) THEN Encodable(r.typ, x, Target(vs, r, x), Base + at)
  ELSE machine # "x86" =>
         CASE r.typ \in {"addr64", "section"}    -> TRUE
           [] r.typ \in {"addr32", "addr32nb"} -> Unsigned(v)
           [] OTHER -> Signed(v)

\* The reach of a branch.
InReach(d) ==
  IF machine = "arm64" THEN WithinBits(TRUE, BranchBits, d \div 4) ELSE Signed(d)

\* What is written over the field x for the value v.
Patched(typ, x, v) ==
  CASE Instr(typ)      -> Instruction(typ, x, v)
    [] machine = "x86" -> v % (2 * Reach[machine])
    [] OTHER           -> v

-----------------------------------------------------------------------------
(* sizecalc: what a client announces to under_size_adv or to process       *)
(* before it links.  Of every section that is not for a debugger, its size *)
(* and one stub for each relocation that could need one.                   *)

StubSize ==
  CASE machine = "x64"   -> [size |-> 32, align |-> 16]
    [] machine = "arm64" -> [size |-> 20, align |-> 8]
    [] OTHER          -> [size |-> 64, align |-> 64]

Stubbed(sect) ==
  {k \in DOMAIN sect.relocs :
     sect.relocs[k].typ \notin {"none", "addr64", "addr32", "section", "secrel"}}

BadNoStubs(obj) ==
  [i \in DOMAIN obj.sections |->
     [align |-> Max({obj.sections[i].align, StubSize.align}), size |-> obj.sections[i].len]]

Sizecalc(obj) ==
  FlattenSeq([i \in DOMAIN obj.sections |->
    <<[align |-> Max({obj.sections[i].align, StubSize.align}),
       size  |-> obj.sections[i].len]>>
    \o [k \in 1 .. Cardinality(Stubbed(obj.sections[i])) |-> StubSize]])

-----------------------------------------------------------------------------
(* link_binary.  A failing step leaves through LinkFail. *)

BadRoundedTwice(addr) == (addr - (addr % Granule)) - Granule

BadRoundedUp(addr) == addr + Granule - (addr % Granule)

ImageBase(addr) == addr - (addr % Granule)

\* CoFFR::link, called with a new transaction of the slab and one of the
\* cache.  A .data or .bss section that is not empty panics at once.  `fits'
\* remembers, for the properties only, whether the slab had the room that
\* sizecalc asks for.
LinkStart(obj, calls) ==
  /\ In("idle")
  /\ obj.arch = machine
  /\ Begin(obj.total)
  /\ Create(calls)
  /\ link' = [phase |-> IF obj.data THEN "panic" ELSE "track", obj |-> obj,
              sec |-> NextTracked(obj, 0), at |-> 0,
              todo |-> <<>>, used |-> 0, base |-> ImageBase(Base + cursor),
              fits |-> UnderSizeAdv(Base, Size, cursor, Sizecalc(obj))]
  /\ UNCHANGED <<machine, mem, stubs, loaded>>

Section    == link.obj.sections[link.sec]
DataCall   == [align |-> Section.align, cap |-> Section.len, len |-> Section.len]
InSections == link.sec <= Len(link.obj.sections)

\* The fields of a section placed at lo, with the addends of the object.
Fields(sect, lo) ==
  [o \in UNION {WordsAt(lo + r.offset, r) : r \in Range(sect.relocs)} |->
     LET r == CHOOSE r \in Range(sect.relocs) : o \in WordsAt(lo + r.offset, r)
     IN  IF Instr(r.typ) THEN r.word ELSE r.addend]

\* The section's bytes are written into the transaction.
TrackData ==
  LET lo == StartOffset(Base, cursor, Section.align)
      hi == lo + Section.len
  IN
  /\ In("track")
  /\ InSections
  /\ TxWrite(DataCall, TRUE)
  /\ mem' = Over(Fields(Section, lo), Clear(mem, 4, lo, hi))
  /\ stubs' = Clear(stubs, StubLen, lo, hi)
  /\ link' = [link EXCEPT !.phase = "count", !.at = lo]
  /\ UNCHANGED <<cacheVars, machine, loaded>>

\* count_trampolines: a branch to an absolute symbol out of reach.  There
\* are no views yet, and the field is taken to be at the start of the slab:
\* the data pointer is rxview.add(cursor), which does not move (FlushFrom).
NeedsStub(r) ==
  /\ machine # "x86"
  /\ r.typ = "branch"
  /\ r.symbol.kind = "absolute"
  /\ ~InReach(Target(Views, r, mem[link.at + r.offset]) - Pc(r.offset, r))

BadCountsTargets(sect) ==
  Cardinality({r.symbol : r \in {q \in Range(sect.relocs) : NeedsStub(q)}})

Count(sect) == Cardinality({k \in DOMAIN sect.relocs : NeedsStub(sect.relocs[k])})

\* Any relocation with an unusable symbol ends the count (x86 has none).
CountFails == machine # "x86" /\ \E r \in Range(Section.relocs) : Unnameable(link.obj, r.symbol)

PoolCall == LET n == StubLen * Count(Section) IN [align |-> StubLen, cap |-> n, len |-> n]

\* relocate walks the tracked sections once more, each one's relocations in
\* file order: the place of the next relocation after section i.
NextReloc(obj, i) ==
  <<Min({j \in Tracked(obj) : j > i /\ obj.sections[j].relocs # <<>>}
          \cup {Len(obj.sections) + 1}), 1>>

\* The pool is filled with the template and the section's view is kept
\* (LinkerTransaction::insert_sorted); after the last section, relocate.
TrackPool ==
  LET pool == StartOffset(Base, cursor, StubLen)
      n    == Count(Section)
      view == [cursor |-> link.at, pool |-> pool, count |-> n]
      next == NextTracked(link.obj, link.sec)
      hi   == pool + StubLen * n
  IN
  /\ In("count")
  /\ ~CountFails
  /\ TxWrite(PoolCall, TRUE)
  /\ mem' = Clear(mem, 4, pool, hi)
  /\ stubs' = Over([o \in {pool + StubLen * k : k \in 0 .. n - 1} |-> 0],
                   Clear(stubs, StubLen, pool, hi))
  /\ Insert(link.sec, view)
  /\ link' = [link EXCEPT !.phase = "track", !.sec = next]
  /\ UNCHANGED <<machine, loaded>>

TrackEnd ==
  /\ In("track")
  /\ ~InSections
  /\ link' = [link EXCEPT !.phase = "relocate", !.todo = NextReloc(link.obj, 0)]
  /\ UNCHANGED <<vars, cacheVars, machine, mem, stubs, loaded>>

\* The relocation the walk is at, the link.todo[2]th of its section.
Relocating == In("relocate") /\ link.todo[1] <= Len(link.obj.sections)

Relocs == link.obj.sections[link.todo[1]].relocs
Reloc  == Relocs[link.todo[2]]
View   == Get(link.todo[1])
At     == View.cursor + Reloc.offset
Fixed  == Value(Views, link.base, At, Reloc, mem[At])
Stub   == View.pool + StubLen * link.used

Direct  == Holds(Views, At, Reloc, mem[At], Fixed)
ViaStub == machine # "x86" /\ Reloc.typ = "branch" /\ ~Direct
ToStub  == Base + Stub - Pc(At, Reloc)
Linkable    == ~Unnameable(link.obj, Reloc.symbol) /\ Known(Reloc.typ)

BadUsed(took) == 0

\* The next free trampoline: x64 counts them through a section, arm64's
\* counter is a variable of the loop's body and starts at 0 every time.
NextUsed(took) ==
  IF machine = "arm64" \/ link.todo[2] = Len(Relocs) THEN 0
  ELSE IF took THEN link.used + 1 ELSE link.used

Advance(took) ==
  link' = [link EXCEPT
             !.todo = IF @[2] = Len(Relocs) THEN NextReloc(link.obj, @[1])
                                            ELSE <<@[1], @[2] + 1>>,
             !.used = NextUsed(took)]

BlocksAt(offsets) == {b \in code : b.prog = Top.id /\ \E o \in offsets : b.lo <= o /\ o < b.hi}

RelocateNone ==
  /\ Relocating
  /\ Linkable
  /\ Reloc.typ = "none"
  /\ Advance(FALSE)
  /\ UNCHANGED <<vars, cacheVars, machine, mem, stubs, loaded>>

RelocateDirect ==
  /\ Relocating
  /\ Linkable
  /\ Reloc.typ # "none"
  /\ Direct
  /\ Patch(BlocksAt({At}))
  /\ mem' = [o \in DOMAIN mem |->
               IF o \in WordsAt(At, Reloc) THEN Patched(Reloc.typ, mem[At], Fixed) ELSE mem[o]]
  /\ Advance(FALSE)
  /\ UNCHANGED <<cacheVars, machine, stubs, loaded>>

\* The target goes into the upper half of the trampoline.  A trampoline past
\* the end of the pool has no code in front of that, and what lies there is
\* overwritten.
RelocateViaStub ==
  LET target == Target(Views, Reloc, mem[At])
      branch == IF Instr(Reloc.typ) THEN ToStub \div 4 ELSE ToStub
      Hit(o, w) == o + w > Stub + StubLen \div 2 /\ o < Stub + StubLen
  IN
  /\ Relocating
  /\ Linkable
  /\ ViaStub
  /\ InReach(ToStub)
  /\ Patch(BlocksAt({At, Stub}))
  /\ stubs' = [o \in DOMAIN stubs |-> IF Hit(o, StubLen) THEN target ELSE stubs[o]]
  /\ mem' = [[o \in DOMAIN mem |-> IF Hit(o, 4) THEN target ELSE mem[o]]
               EXCEPT ![At] = Patched(Reloc.typ, mem[At], branch)]
  /\ Advance(TRUE)
  /\ UNCHANGED <<cacheVars, machine, loaded>>

\* commit, and the iterator over the symbols is returned.  It keeps the
\* cache; the slab is free for its other users.
LinkCommit ==
  /\ In("relocate") /\ ~Relocating
  /\ Commit
  /\ loaded' = Over([p \in {Top.id} |-> [obj |-> link.obj, views |-> Views,
                                         base |-> link.base]], loaded)
  /\ link' = [phase |-> "symbols", prog |-> Top.id, obj |-> link.obj]
  /\ UNCHANGED <<cacheVars, machine, mem, stubs>>

\* The client has read what it wanted of the iterator and drops it.
SymbolsEnd ==
  /\ In("symbols")
  /\ Close
  /\ link' = Idle
  /\ UNCHANGED <<vars, machine, mem, stubs, loaded>>

BadSlabRelative(sym) ==
  IF sym.kind = "section" THEN Base + sym.offset ELSE sym.address

\* What the iterator yields for a symbol, at any time after the commit.
SymbolAddress(sym) == Address(Views, sym)

Failing ==
  \/ In("panic")
  \/ In("track") /\ InSections /\ ~Room(DataCall)
  \/ In("count") /\ (CountFails \/ ~Room(PoolCall))
  \/ Relocating
       /\ \/ ~Linkable
          \/ Reloc.typ # "none" /\ ~Direct /\ ~(ViaStub /\ InReach(ToStub))

\* An error return, or the panic: both transactions are dropped.
LinkFail ==
  /\ Failing
  /\ Abort
  /\ Close
  /\ link' = Idle
  /\ UNCHANGED <<machine, mem, stubs, loaded>>

-----------------------------------------------------------------------------
(* The slab's other users. *)

NotLinking == In("idle") \/ In("symbols")

PlainWrite(c) ==
  LET lo == StartOffset(Base, cursor, c.align)
  IN  /\ NotLinking
      /\ WriteFn(c)
      /\ mem' = Clear(mem, 4, lo, lo + c.len)
      /\ stubs' = Clear(stubs, StubLen, lo, lo + c.len)
      /\ UNCHANGED <<cacheVars, machine, link, loaded>>

\* DynamicMemory::process around the linker.
Outer ==
  /\ NotLinking
  /\ (\E t \in Totals : Begin(t)) \/ Commit \/ Abort \/ TryFree
  /\ UNCHANGED <<cacheVars, linkerVars>>

ReleaseAny ==
  /\ \E h \in handles : Release(h)
  /\ UNCHANGED <<cacheVars, linkerVars>>

CoffrNext ==
  \/ \E obj \in Objects, calls \in Reserves : LinkStart(obj, calls)
  \/ TrackData
  \/ TrackPool
  \/ TrackEnd
  \/ RelocateNone
  \/ RelocateDirect
  \/ RelocateViaStub
  \/ LinkCommit
  \/ SymbolsEnd
  \/ LinkFail
  \/ \E c \in Calls : PlainWrite(c)
  \/ Outer
  \/ ReleaseAny

CoffrSpec == CoffrInit /\ [][CoffrNext]_allVars

-----------------------------------------------------------------------------
CoffrTypeOK ==
  /\ TypeOK
  /\ machine \in Machines
  /\ borrowed <=> link # Idle
  /\ NotLinking \/ (InTx /\ link.base \in Nat /\ link.used \in Nat)
  /\ borrowed => Keys \subseteq Tracked(link.obj)
  /\ DOMAIN mem \subseteq 0 .. Size - 1
  /\ DOMAIN stubs \subseteq 0 .. Size - 1
  /\ DOMAIN loaded \subseteq 1 .. progs

\* The address the processor adds a displacement to: that of the instruction
\* on arm64, where the field is the instruction, else that of the next one.
NextIp(at, r) == IF machine = "arm64" THEN Base + at ELSE Base + (at + 4 + r.tail)

\* The address the linked code computes from the field of relocation r.
Reached(at, r) ==
  IF Instr(r.typ) THEN Meaning(r.typ, mem[at], Base + at) ELSE NextIp(at, r) + mem[at]

Equal(x, y) == IF machine = "x86" THEN (x - y) % (2 * Reach[machine]) = 0 ELSE x = y

\* A branch leads to `want' directly or through a trampoline.
Leads(at, r, want) ==
  LET to == Reached(at, r)
  IN  \/ Equal(to, want)
      \/ to - Base \in DOMAIN stubs /\ Equal(stubs[to - Base], want)

\* The addend that the object file asks for.
AddendOf(mach, r) ==
  IF mach = "arm64" /\ r.typ \in InstrTypes THEN Addend(r.typ, r.word) ELSE r.addend

\* The field is whole and gives the address that the object asks for.  For an
\* instruction, `word' is the one of the object file, which says the addend;
\* an adrp gives the page of its target, and an instruction after it the rest.
\* All other bits of it are kept.
Resolves(prog, i, r) ==
  LET at   == prog.views[i].cursor + r.offset
      want == Address(prog.views, r.symbol) + AddendOf(machine, r)
  IN  /\ \A o \in WordsAt(at, r) : o \in DOMAIN mem /\ mem[o] = mem[at]
      /\ CASE r.typ = "branch" -> Leads(at, r, want)
            [] r.typ \in {"near", "cond", "test", "adr"} -> Equal(Reached(at, r), want)
            [] r.typ = "adrp" -> Reached(at, r) = want - (want % Page)
            [] r.typ \in {"pageoff", "pageoffl"} -> Reached(at, r) = want % Page
            [] r.typ \in {"addr64", "addr32"} -> Equal(mem[at], want)
            [] r.typ = "addr32nb" -> Equal(prog.base + mem[at], want)
            [] r.typ = "secrel"   -> Equal(SectStart(prog.views, r.symbol) + mem[at], want)
            [] r.typ = "section"  -> Equal(mem[at], SectIdx(r.symbol) + r.addend)
            [] OTHER              -> mem[at] = r.addend
      /\ Instr(r.typ) => Opcode(r.typ, mem[at]) = Opcode(r.typ, r.word)

\* Every relocation of a linked program in use does what the object file
\* asks for, trampolines included, however the links, plain writes and
\* roll-backs after it went; programs under a dropped outer transaction
\* (see Slab) excepted.
LinkedAsWritten ==
  \A p \in DOMAIN loaded :
    (status = "mapped" /\ Live(p) /\ p \notin undercut) =>
      \A i \in Tracked(loaded[p].obj) :
        \A r \in Range(loaded[p].obj.sections[i].relocs) : Resolves(loaded[p], i, r)

\* A REL32 in the slab reaches all of it, and so does a branch of arm64; and
\* what a relocation against a section refers to, other than by a field too
\* narrow for the slab, lies in that section or at its end.
WithinReach ==
  \A mach \in Machines \ {"x86"} :
    /\ Size + Granule + 12 <= Reach[mach]
    /\ mach = "arm64" => Size < 4 * 2 ^ (BranchBits - 1)
    /\ \A obj \in Objects : obj.arch = mach =>
         \A i \in Tracked(obj) : \A r \in Range(obj.sections[i].relocs) :
           (r.symbol.kind = "section" /\ r.typ \notin InstrTypes \ {"branch"}) =>
             r.symbol.offset + AddendOf(mach, r) \in 0 .. obj.sections[r.symbol.idx].len

\* The distance from the slab's start to what r asks for.
Distance(r) == r.symbol.address + r.addend - Base

\* A call of arm64 at offset at of the slab is in reach.
CallInReach(r, at) ==
  WithinBits(TRUE, BranchBits,
             (r.symbol.address + Addend(r.typ, r.word) - (Base + at)) \div 4)

\* A call that is out of reach from some place in the slab.
FarCall(r) ==
  /\ r.typ = "branch" /\ r.symbol.kind = "absolute"
  /\ \E at \in 0 .. Size : ~CallInReach(r, at)

\* What a branch asks of the resolver is in reach from all of the slab, or out
\* of reach from its start; on x64 that can only fail below the slab.
NoneAtTheLimit ==
  \A obj \in Objects : \A i \in Tracked(obj) : \A r \in Range(obj.sections[i].relocs) :
    (r.typ = "branch" /\ r.symbol.kind = "absolute") =>
      /\ obj.arch = "x64" =>
           \/ -Reach["x64"] <= Distance(r) - (Size + 4)
           \/ Distance(r) - (r.offset + 4) < -Reach["x64"]
      /\ obj.arch = "arm64" => (FarCall(r) => ~CallInReach(r, r.offset))

\* What arm64's relocator takes for granted.  Code is aligned to words, and
\* what branches to, too; a load of 128 bits has the size bits of one; the
\* addend of a section's number, which is not read, is 0.
Branches == {"branch", "cond", "test"}

WordAligned(obj, i, r) ==
  /\ obj.sections[i].align % 4 = 0 /\ r.offset % 4 = 0
  /\ IF r.symbol.kind = "section"
       THEN obj.sections[r.symbol.idx].align % 4 = 0 /\ r.symbol.offset % 4 = 0
       ELSE r.symbol.address % 4 = 0

\* What is read unsigned asks for no address below the symbol it refers to, or
\* for none below that symbol's section.
NotBelow(r) ==
  /\ r.addend \in -Reach["arm64"] .. 2 * Reach["arm64"] - 1
  /\ r.addend < 0 => r.symbol.kind = "section" /\ r.symbol.offset + r.addend >= 0

WellFormed ==
  "arm64" \in Machines =>
    \A obj \in Objects : obj.arch = "arm64" =>
      \A i \in Tracked(obj) : \A r \in Range(obj.sections[i].relocs) :
        /\ r.typ \in InstrTypes => r.word \in SUBSET (0 .. 31)
        /\ r.typ = "pageoffl" => WellSized(r.word)
        /\ r.typ \in Branches => WordAligned(obj, i, r)
        /\ r.typ = "section" => r.addend = 0
        /\ r.typ \in {"addr32", "addr32nb"} => NotBelow(r)

\* No section of arm64 has two of them, which would share a trampoline.
LoneCalls ==
  "arm64" \in Machines =>
    \A obj \in Objects : obj.arch = "arm64" =>
      \A i \in Tracked(obj) : \A k, l \in DOMAIN obj.sections[i].relocs :
        k # l => ~(FarCall(obj.sections[i].relocs[k]) /\ FarCall(obj.sections[i].relocs[l]))

\* Relocating, which decides anew what needs a trampoline and what its
\* target is, never takes more of them than counting reserved: README.md has
\* trampolines "inside the slab-local trampoline pool".  Holds where
\* NoneAtTheLimit does, and fails for a target that is in reach from the
\* start of the slab, where counting measures, but not from the section.
StubsWithinPool ==
  (Relocating /\ Linkable /\ ViaStub) => link.used < View.count

\* OptionNull never happens: when relocating starts, the section patched and
\* the section referred to have views, forward references too.
ViewsComplete ==
  Relocating =>
    /\ link.todo[1] \in Keys
    /\ (Linkable /\ Reloc.symbol.kind = "section") => Reloc.symbol.idx \in Keys

\* The fields that hold less than the distances within an object.
Narrow(typ) == Instr(typ) /\ typ # "branch"

\* A relocation against a section of the object never overflows, except the
\* plain 32-bit address, arm64's narrow fields, and its ADDR32NB with an addend
\* below 0, which is read as one of almost 2^32: everything is laid out in
\* reach, and above the image base.
SectionRelocsFit ==
  (Relocating /\ Linkable
     /\ Reloc.symbol.kind = "section" /\ Reloc.typ \notin {"addr32", "none"}
     /\ ~Narrow(Reloc.typ) /\ ~(ReadUnsigned(Reloc) /\ Reloc.addend < 0))
  => Direct

\* The iterator over the symbols yields, whatever other users of the slab do
\* meanwhile, addresses inside the program's own sections, as long as it is
\* in use.
SymbolsPointIntoProgram ==
  (In("symbols") /\ status = "mapped" /\ Live(link.prog)) =>
    \A i \in Tracked(link.obj) : \A r \in Range(link.obj.sections[i].relocs) :
      (r.symbol.kind = "section" /\ ~Unnameable(link.obj, r.symbol)) =>
        \E b \in code :
          /\ b.prog = link.prog
          /\ b.hi - b.lo = link.obj.sections[r.symbol.idx].len
          /\ SymbolAddress(r.symbol) = Base + b.lo + r.symbol.offset

\* commit's comment (src/coffr/arch/mod.rs): a program that was linked and
\* committed is not overwritten while it is in use.  Fails for one that was
\* linked inside a transaction, DynamicMemory::process's, that is then dropped.
CommittedNotOverwritten ==
  \A p \in DOMAIN loaded : Live(p) =>
    \A b, d \in code : (b.prog = p /\ d # b) => (b.hi <= d.lo \/ d.hi <= b.lo)

\* COFF has a section's alignment in four bits, and a mapping ends at a
\* multiple of the page.
EvenLayout ==
  /\ (Base + Size) % StubLen = 0
  /\ \A obj \in Objects : \A i \in DOMAIN obj.sections :
       obj.sections[i].align
         \in {1, 2, 4, 8, 16, 32, 64, 128, 256, 512, 1024, 2048, 4096, 8192}

\* The estimate is conservative, as its documentation says: a link into a
\* slab that under_size_adv found large enough never runs out of it, though
\* the linker aligns sections and pools otherwise than sizecalc assumes.
\* Claimed of x64 and x86 only: on arm64 sizecalc asks for stubs aligned to 8
\* where the linker aligns a pool, an empty one too, to 16.
EstimateSuffices ==
  (~NotLinking /\ machine # "arm64" /\ link.fits) =>
    /\ (In("track") /\ InSections)  => Room(DataCall)
    /\ (In("count") /\ ~CountFails) => Room(PoolCall)
=============================================================================
