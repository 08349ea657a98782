------------------------------- MODULE Layout -------------------------------
(***************************************************************************)
(* The arithmetic of a slab: where the next function goes, whether it      *)
(* still fits, and how large a slab must be.  Pure operators, shared by    *)
(* the single slab (Slab), the pool of slabs (DynamicMemory) and the COFF  *)
(* linker (Coffr).                                                         *)
(*                                                                         *)
(* Addresses and sizes are mathematical integers: every addition the code  *)
(* makes here is either a checked_add that turns overflow into "does not   *)
(* fit", or is bounded by the size of a mapping that already exists.       *)
(***************************************************************************)
EXTENDS Integers, Sequences

\* usize::next_multiple_of(a); a = 0 panics in the code and is never passed.
AlignUp(x, a) == ((x + a - 1) \div a) * a

DivCeil(x, a) == (x + a - 1) \div a

IsPowerOfTwo(a) == \E k \in 0 .. a : a = 2^k

\* write_fn_iterated: the ADDRESS rx_base + cursor is aligned, not the offset.
StartOffset(base, cursor, align) == AlignUp(base + cursor, align) - base

\* The negation of write_fn_iterated's OutOfSlab test.
Fits(base, size, cursor, align, cap) ==
  StartOffset(base, cursor, align) + cap <= size

\* Where the items end that are laid out one after another from address x.
LayoutEnd(x, items) ==
  LET end[i \in 0 .. Len(items)] ==
        IF i = 0 THEN x
        ELSE AlignUp(end[i - 1], items[i].align) + items[i].size
  IN  end[Len(items)]

\* SizeCheck::under_size_adv, with the None of a bad alignment read as false,
\* as its caller does (unwrap_or_default).
UnderSizeAdv(base, size, cursor, items) ==
  /\ \A i \in DOMAIN items : IsPowerOfTwo(items[i].align)
  /\ LayoutEnd(base + cursor, items) - (base + cursor) <= size - cursor

\* A faulty variant: no allowance for the padding.
BadNoPadding(items) ==
  LET sum[i \in 0 .. Len(items)] ==
        IF i = 0 THEN 0 ELSE sum[i - 1] + items[i].size
  IN  sum[Len(items)]

\* The size DynamicMemory::process asks of alloc when no slab has room.
WorstCase(items) ==
  LET sum[i \in 0 .. Len(items)] ==
        IF i = 0 THEN 0
        ELSE sum[i - 1] + items[i].size + (items[i].align - 1)
  IN  sum[Len(items)]

\* DynamicMemory::alloc: the number of units (DEFAULT_SLAB_SIZE) of the new
\* slab; the 32 is the alignment alloc reserves for the init blob.
SlabUnits(need, initLen, initAlign, unit) ==
  LET units == DivCeil(need + initLen + initAlign, unit)
  IN  IF units < 1 THEN 1 ELSE units
=============================================================================
