------------------------------- MODULE Relcar -------------------------------
(***************************************************************************)
(* RELCAR (src/relcar/mod.rs), the relocator of code that comes as bytes   *)
(* and a list of relocations (Cranelift's output, for one), and the write  *)
(* that calls it on each platform (src/advanced/{linux,windows,macos}).    *)
(*                                                                         *)
(* A write copies its bytes through the RW view, patches each relocation   *)
(* there, flushes and only then moves the slab's cursor.  A relocation may *)
(* panic: in debug builds when an assertion about it fails, in all builds  *)
(* when its kind is unknown to BasicRelocator.  The panic unwinds through  *)
(* the open transactions, which drops them.                                *)
(*                                                                         *)
(* The slab is that of module Slab; `mem' holds the patched fields by      *)
(* offset.  The RX view starts at Base and the RW view at RwBase, which is *)
(* the same address on macOS only.                                         *)
(***************************************************************************)
EXTENDS Slab, SequencesExt, FiniteSetsExt

CONSTANTS
  Platforms,   \* those considered, of "linux", "windows" and "macos"
  Builds,      \* those considered, of "debug" and "release"
  RwBase,      \* address of the RW view on each platform
  Half,        \* half the span of a 32-bit field (2^31)
  HalfBranch,  \* half the span of a 26-bit field (2^25 instructions)
  Blobs        \* the functions clients write, with their relocations

AbsKinds  == {"Abs8", "Abs4"}
X86Rel    == {"X86CallPCRel4", "X86PCRel4"}
Provided  == {"X86CallPCRelOrPCRelProvidedRelativeBytes", "Arm64CallProvidedRelativeBytes"}
Arm64Kinds == {"Arm64Call", "Arm64CallProvidedRelativeBytes"}
RelocKind == AbsKinds \cup X86Rel \cup Provided \cup Arm64Kinds \cup {"UserCustom"}

Relocation == [kind : RelocKind, offset : Nat, symbol_addr : Int, addend : Int]

Width(r) == IF r.kind = "Abs8" THEN 8 ELSE 4

\* A field at `at' as words of 4 bytes; one of 8 bytes has its value in both.
WordsAt(at, r) == IF r.kind = "Abs8" THEN {at, at + 4} ELSE {at}

\* The fields of relocations r and q have no byte in common.
Apart(r, q) == r.offset + Width(r) <= q.offset \/ q.offset + Width(q) <= r.offset

ASSUME RelcarAssumption ==
  /\ Platforms \subseteq {"linux", "windows", "macos"}
  /\ Builds \subseteq {"debug", "release"}
  /\ RwBase \in [Platforms -> Nat]
  /\ \A p \in Platforms : p = "macos" => RwBase[p] = Base
  /\ Half \in Nat \ {0} /\ HalfBranch \in Nat \ {0}
  /\ \A blob \in Blobs :
       /\ blob.align \in Nat \ {0} /\ blob.cap \in Nat /\ blob.len \in Nat
       /\ \A i \in DOMAIN blob.relocs : blob.relocs[i] \in Relocation
       /\ \A r, q \in Range(blob.relocs) : r # q => Apart(r, q)

VARIABLES
  platform,
  build,
  mem,        \* offset of a word of a patched field -> the field's value
  asked,      \* history: <<program, offset, relocation>> of what is in place
  unwinding,  \* a panic is on its way through the open transactions
  writable    \* macOS: the thread may write the slab, and so not run it

relcarVars == <<platform, build, mem, asked, unwinding, writable>>
allVars    == <<vars, relcarVars>>

RelcarInit ==
  /\ Init
  /\ platform \in Platforms
  /\ build \in Builds
  /\ mem = <<>>
  /\ asked = {}
  /\ unwinding = FALSE
  /\ writable = FALSE

-----------------------------------------------------------------------------
(* The handlers of BasicRelocator. *)

\* `as i32', `as u32' and the mask of arm64's branch keep the low bits.
Truncated(x, half) == ((x + half) % (2 * half)) - half

InSpan(x, half) == x \in -half .. half - 1

\* Rust's division of i64, towards zero.
Quotient(x) == IF x >= 0 THEN x \div 4 ELSE -((-x) \div 4)

\* relocate: patch_site is an address in the view that is written.
PatchSite(at) == RwBase[platform] + at

BadFieldRelative(at, r) ==
  CASE r.kind \in X86Rel    -> r.symbol_addr - PatchSite(at)
    [] r.kind = "Arm64Call" -> r.symbol_addr - PatchSite(at)
    [] OTHER                -> r.symbol_addr

\* x86's displacement is from the end of the field, arm64's from its start;
\* a provided one is taken as it is.  The addend plays no part.
Displacement(at, r) ==
  CASE r.kind \in X86Rel    -> r.symbol_addr - (PatchSite(at) + 4)
    [] r.kind = "Arm64Call" -> r.symbol_addr - PatchSite(at)
    [] OTHER                -> r.symbol_addr

Patched(at, r) ==
  CASE r.kind = "Abs8"        -> r.symbol_addr
    [] r.kind = "Abs4"        -> r.symbol_addr % (2 * Half)
    [] r.kind \in Arm64Kinds  -> Truncated(Quotient(Displacement(at, r)), HalfBranch)
    [] OTHER                  -> Truncated(Displacement(at, r), Half)

\* A displacement that is provided for x86 is written without any test.
Unchecked(r) == r.kind = "X86CallPCRelOrPCRelProvidedRelativeBytes"

Panics(len, at, r) ==
  \/ r.kind = "UserCustom"
  \/ /\ build = "debug"
     /\ ~Unchecked(r)
     /\ \/ r.offset + Width(r) > len
        \/ r.kind \in AbsKinds /\ r.addend # 0
        \/ r.kind \in X86Rel /\ ~InSpan(Displacement(at, r), Half)
        \/ /\ r.kind \in Arm64Kinds
           /\ \/ Displacement(at, r) % 4 # 0
              \/ ~InSpan(Quotient(Displacement(at, r)), HalfBranch)

-----------------------------------------------------------------------------
(* The writes. *)

Start(blob) == StartOffset(Base, cursor, blob.align)
Relocs(blob) == Range(blob.relocs)

RelocPanics(blob) ==
  \E r \in Relocs(blob) : Panics(blob.len, Start(blob) + r.offset, r)

\* Writing lo .. hi - 1 destroys the fields that it overlaps.
Clear(lo, hi) == [o \in {x \in DOMAIN mem : x + 4 <= lo \/ x >= hi} |-> mem[o]]

Fields(blob) ==
  [o \in UNION {WordsAt(Start(blob) + r.offset, r) : r \in Relocs(blob)} |->
     LET r == CHOOSE r \in Relocs(blob) : o \in WordsAt(Start(blob) + r.offset, r)
     IN  Patched(Start(blob) + r.offset, r)]

\* Those inside the function's bytes: release builds do not test it, and one
\* outside asks for nothing the function could use.
Inside(blob) == {r \in Relocs(blob) : r.offset + Width(r) <= blob.len}

\* f, and g where f has no value.
Over(f, g) == [o \in DOMAIN f \cup DOMAIN g |-> IF o \in DOMAIN f THEN f[o] ELSE g[o]]

\* What is no longer in the slab is forgotten.
Forget ==
  /\ asked' = {a \in asked : \E b \in code' : b.prog = a[1]}
  /\ mem' = [o \in DOMAIN mem \cap UNION {WordsAt(a[2], a[3]) : a \in asked'} |-> mem[o]]

Relocated(p, blob) ==
  /\ mem' = Over(Fields(blob), Clear(Start(blob), Start(blob) + blob.len))
  /\ asked' = asked \cup {<<p, Start(blob) + r.offset, r>> : r \in Inside(blob)}

\* pthread_jit_write_protect_np(1) at the end of every write on macOS.
Protected == writable' = FALSE

\* write_fn and the transaction's write_fn_iterated.
WriteRelocated(blob) ==
  /\ ~unwinding
  /\ ~RelocPanics(blob)
  /\ \/ WriteFn(blob) /\ Relocated(progs + 1, blob)
     \/ TxWrite(blob, TRUE) /\ Relocated(Top.id, blob)
  /\ Protected
  /\ UNCHANGED <<platform, build, unwinding>>

\* Neither the cursor nor a counter has moved yet; the bytes lie above the
\* cursor.  Without a transaction the panic reaches the client at once.
WritePanics(blob) ==
  /\ ~unwinding
  /\ status = "mapped"
  /\ Room(blob)
  /\ RelocPanics(blob)
  /\ mem' = Clear(Start(blob), Start(blob) + blob.len)
  /\ unwinding' = InTx
  /\ writable' = (platform = "macos")
  /\ UNCHANGED <<vars, platform, build, asked>>

Unwind ==
  /\ unwinding
  /\ Abort
  /\ Forget
  /\ unwinding' = (Len(txs) > 1)
  /\ UNCHANGED <<platform, build, writable>>

\* The owner's other operations, those of DynamicMemory::process.
Owner ==
  /\ ~unwinding
  /\ (\E t \in Totals : Begin(t)) \/ Commit \/ Abort \/ TryFree
  /\ Forget
  /\ UNCHANGED <<platform, build, unwinding, writable>>

ReleaseAny ==
  /\ \E h \in handles : Release(h)
  /\ Forget
  /\ UNCHANGED <<platform, build, unwinding, writable>>

RelcarNext ==
  \/ \E blob \in Blobs : WriteRelocated(blob)
  \/ \E blob \in Blobs : WritePanics(blob)
  \/ Unwind
  \/ Owner
  \/ ReleaseAny

RelcarSpec == RelcarInit /\ [][RelcarNext]_allVars

-----------------------------------------------------------------------------
RelcarTypeOK ==
  /\ TypeOK
  /\ platform \in Platforms
  /\ build \in Builds
  /\ DOMAIN mem \subseteq Nat
  /\ \A o \in DOMAIN mem : mem[o] \in Int
  /\ asked \subseteq (1 .. MaxProgs) \X Nat \X Relocation
  /\ unwinding => InTx
  /\ writable => platform = "macos"

\* Where the processor goes, or what it reads, in the RX view when the field
\* holds value.
Reaches(at, r, value) ==
  CASE r.kind \in AbsKinds   -> value
    [] r.kind \in Arm64Kinds -> Base + at + 4 * value
    [] OTHER                 -> Base + at + 4 + value

\* What the relocation asks for: symbol_addr is an absolute address, or for
\* the provided kinds the displacement itself.
Target(at, r) ==
  CASE r.kind \notin Provided -> r.symbol_addr
    [] r.kind \in Provided \cap Arm64Kinds -> Base + at + r.symbol_addr
    [] OTHER -> Base + at + 4 + r.symbol_addr

Span(r) == IF r.kind \in Arm64Kinds THEN 8 * HalfBranch ELSE 2 * Half

\* In debug builds a field that cannot hold its value is never handed out;
\* release builds, and the unchecked kinds, keep it modulo the span.
Meets(at, r, value) ==
  \/ Reaches(at, r, value) = Target(at, r)
  \/ /\ build = "release" \/ Unchecked(r) \/ r.kind = "Abs4"
     /\ r.kind # "Abs8"
     /\ \/ (Reaches(at, r, value) - Target(at, r)) % Span(r) = 0
        \/ r.kind \in Arm64Kinds /\ Displacement(at, r) % 4 # 0

InUse(a) == status = "mapped" /\ Live(a[1]) /\ a[1] \notin undercut

\* The code runs in the view it was patched in (macOS), or the field depends
\* on no view.
OneView(r) == RwBase[platform] = Base \/ r.kind \in AbsKinds \cup Provided

\* Every relocation of a function in use does what it asks for, whatever was
\* written, rolled back or panicked after it, in so far as the view it was
\* patched in does not matter.
RelocatedAsAsked ==
  \A a \in asked : InUse(a) /\ OneView(a[3]) =>
    \A o \in WordsAt(a[2], a[3]) : o \in DOMAIN mem /\ Meets(a[2], a[3], mem[o])

\* The documentation of RelocKind::X86CallPCRel4 (src/relocations/mod.rs):
\* symbol_addr is absolute, the displacement is calculated.  Fails where
\* code runs in another view than it is patched in: the displacement is
\* taken from the RW view's address.
CallsReachTarget ==
  \A a \in asked :
    (InUse(a) /\ a[3].kind \in X86Rel \cup {"Arm64Call"})
    => Meets(a[2], a[3], mem[a[2]])
=============================================================================
