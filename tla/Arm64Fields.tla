---------------------------- MODULE Arm64Fields ----------------------------
(***************************************************************************)
(* The instruction fields that arm64's COFF relocator reads and patches    *)
(* (extract, compact, extract_adr21, compact_adr21 and scale in            *)
(* src/coffr/arch/arm64/mod.rs).  An instruction word is the set of its    *)
(* bits that are one, 0 to 31: `|' is a union, `& !mask' a difference and  *)
(* a shift moves every bit.  The fields are where the architecture has     *)
(* them; their widths are parameters, so that small addresses overflow.    *)
(***************************************************************************)
EXTENDS Integers, SequencesExt, FiniteSetsExt

CONSTANTS
  BranchBits,  \* of b and bl: 26
  CondBits,    \* of b.cond, cbz and ldr (literal): 19
  TestBits,    \* of tbz and tbnz: 14
  AdrBits,     \* of adr and adrp: 21
  PageBits     \* of add (immediate) and of a page's offset: 12

ASSUME Arm64Assumption ==
  /\ BranchBits \in 1 .. 26
  /\ CondBits \in 1 .. 19
  /\ TestBits \in 1 .. 14
  /\ AdrBits \in 3 .. 21
  /\ PageBits \in 1 .. 12

Page == 2 ^ PageBits

\* The types that patch instructions, and where their field is.
InstrTypes == {"branch", "cond", "test", "adr", "adrp", "pageoff", "pageoffl"}

Width(typ) ==
  CASE typ = "branch" -> BranchBits
    [] typ = "cond"   -> CondBits
    [] typ = "test"   -> TestBits
    [] typ \in {"adr", "adrp"} -> AdrBits
    [] OTHER          -> PageBits

Offset(typ) == CASE typ = "branch" -> 0 [] typ \in {"cond", "test"} -> 5 [] OTHER -> 10

Mask(off, n) == off .. off + n - 1

\* minint and maxint.
WithinBits(signed, n, x) ==
  IF signed THEN x \in -(2 ^ (n - 1)) .. 2 ^ (n - 1) - 1 ELSE x \in 0 .. 2 ^ n - 1

\* The low n bits of a number, as a cast to u32 and a mask keep them.
LowBits(x, n) == {i \in 0 .. n - 1 : (x \div 2 ^ i) % 2 = 1}

Shl(bits, k) == {i + k : i \in bits}
Shr(bits, k) == {i - k : i \in {j \in bits : j >= k}}

Number(bits) == MapThenSumSet(LAMBDA i : 2 ^ i, bits)

SignExtended(bits, n) == Number(bits) - (IF n - 1 \in bits THEN 2 ^ n ELSE 0)

\* The field's value; extract's shift is applied by Addend.
Extract(word, off, n, signed) ==
  LET field == Shr(word, off) \cap Mask(0, n)
  IN  IF signed THEN SignExtended(field, n) ELSE Number(field)

Compact(word, off, n, x) == (word \ Mask(off, n)) \cup Shl(LowBits(x, n), off)

\* adr's low two bits are apart from the others.
ExtractAdr(word) ==
  SignExtended(Shl(Shr(word, 5) \cap Mask(0, AdrBits - 2), 2)
                 \cup (Shr(word, 29) \cap Mask(0, 2)), AdrBits)

CompactAdr(word, x) ==
  LET imm == LowBits(x, AdrBits)
  IN  (word \ (Mask(29, 2) \cup Mask(5, AdrBits - 2)))
        \cup Shl(imm \cap Mask(0, 2), 29)
        \cup Shl(Shr(imm, 2), 5)

\* The size of a load or store, as a power of two: bits 30 and 31, and 16
\* bytes when both SIMD and the 128-bit form are marked.
Scale(word) == Number(Shr(word, 30)) + (IF {23, 26} \subseteq word THEN 4 ELSE 0)

\* What is added to the symbol's address: the field, shifted.  The pages of
\* adrp are shifted like an address, by PageBits.
Addend(typ, word) ==
  CASE typ \in {"branch", "cond", "test"} ->
         4 * Extract(word, Offset(typ), Width(typ), TRUE)
    [] typ = "adr"      -> ExtractAdr(word)
    [] typ = "adrp"     -> Page * ExtractAdr(word)
    [] typ = "pageoff"  -> Extract(word, Offset(typ), PageBits, FALSE)
    [] typ = "pageoffl" -> Extract(word, Offset(typ), PageBits, FALSE) * 2 ^ Scale(word)

\* The number patched in, for the target s + a of an instruction at p.
Encoded(typ, word, target, p) ==
  CASE typ \in {"branch", "cond", "test"} -> (target - p) \div 4
    [] typ = "adr"      -> target - p
    [] typ = "adrp"     -> target \div Page - p \div Page
    [] typ = "pageoff"  -> target % Page
    [] typ = "pageoffl" -> (target % Page) \div 2 ^ Scale(word)

\* Arm64AlignmentError: a scaled offset must have no remainder.
Misaligned(typ, word, target) ==
  typ = "pageoffl" /\ (target % Page) % 2 ^ Scale(word) # 0

Fits12(typ) == typ \in {"pageoff", "pageoffl"}

Encodable(typ, word, target, p) ==
  /\ ~Misaligned(typ, word, target)
  /\ WithinBits(~Fits12(typ), Width(typ), Encoded(typ, word, target, p))

Instruction(typ, word, x) ==
  IF typ \in {"adr", "adrp"} THEN CompactAdr(word, x)
                             ELSE Compact(word, Offset(typ), Width(typ), x)

-----------------------------------------------------------------------------
(* The architecture's side: which bits make up the immediate, from the      *)
(* lowest, and what the processor makes of it.                              *)

Immediate(typ) ==
  CASE typ = "branch" -> [i \in 1 .. BranchBits |-> i - 1]
    [] typ = "cond"   -> [i \in 1 .. CondBits |-> i + 4]
    [] typ = "test"   -> [i \in 1 .. TestBits |-> i + 4]
    [] typ \in {"adr", "adrp"} -> <<29, 30>> \o [i \in 1 .. AdrBits - 2 |-> i + 4]
    [] OTHER          -> [i \in 1 .. PageBits |-> i + 9]

Raw(typ, word) ==
  Number({i \in 0 .. Len(Immediate(typ)) - 1 : Immediate(typ)[i + 1] \in word})

\* The size of a load's or store's access, as a power of two.
AccessSize(word) ==
  IF {23, 26} \subseteq word THEN 4
  ELSE CASE word \cap {30, 31} = {30, 31} -> 3
         [] word \cap {30, 31} = {31} -> 2
         [] word \cap {30, 31} = {30} -> 1
         [] OTHER -> 0

\* A 128-bit access has the size bits clear: no other access has both SIMD's
\* bit 26 and bit 23.
WellSized(word) == {23, 26} \subseteq word => word \cap {30, 31} = {}

\* The address, or for the 12-bit forms the offset in a page, that running
\* the instruction at p gives.
Meaning(typ, word, p) ==
  LET n == Len(Immediate(typ))
      x == Raw(typ, word)
      s == IF x >= 2 ^ (n - 1) THEN x - 2 ^ n ELSE x
  IN  CASE typ \in {"branch", "cond", "test"} -> p + 4 * s
        [] typ = "adr"     -> p + s
        [] typ = "adrp"    -> (p - (p % Page)) + Page * s
        [] typ = "pageoff" -> x
        [] OTHER           -> x * 2 ^ AccessSize(word)

Opcode(typ, word) == word \ Range(Immediate(typ))
=============================================================================
