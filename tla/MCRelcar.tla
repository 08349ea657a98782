------------------------------ MODULE MCRelcar ------------------------------
(* Instances of Relcar for TLC: functions that call near and far, forwards  *)
(* and backwards, that hold addresses, and that make a handler panic.       *)
EXTENDS Relcar

R(kind, offset, addr, addend) ==
  [kind |-> kind, offset |-> offset, symbol_addr |-> addr, addend |-> addend]

\* write_fn aligns to 16, an item of a transaction may ask for less.
Blob(align, len, relocs) ==
  [align |-> align, cap |-> len, len |-> len, relocs |-> relocs]

Calls86 == Blob(16, 13, <<R("X86CallPCRel4", 1, 40, -4), R("X86PCRel4", 9, 4, -4)>>)
Calls64 == Blob(4, 12, <<R("Arm64Call", 0, 40, 0), R("Arm64Call", 8, 4, 0)>>)
Given   == Blob(4, 8, <<R("X86CallPCRelOrPCRelProvidedRelativeBytes", 0, 200, 0),
                        R("Arm64CallProvidedRelativeBytes", 4, -8, 0)>>)
Address == Blob(8, 12, <<R("Abs8", 0, 900, 0), R("Abs4", 8, 900, 0)>>)

\* Panics in debug builds, is truncated in release builds.
Far86  == Blob(1, 6, <<R("X86CallPCRel4", 1, 900, -4)>>)
Far64  == Blob(4, 4, <<R("Arm64Call", 0, 900, 0)>>)
Odd64  == Blob(4, 4, <<R("Arm64Call", 0, 42, 0)>>)
Addend == Blob(4, 4, <<R("Abs4", 0, 40, 4)>>)
Beyond == Blob(4, 6, <<R("X86PCRel4", 4, 40, -4)>>)

\* Panics always.
Custom == Blob(4, 4, <<R("UserCustom", 0, 40, 0)>>)

MCBlobs == {Calls86, Calls64, Given, Address, Far86, Far64, Odd64, Addend, Beyond, Custom}

\* The RW view lies elsewhere, out of the reach of no field of the model.
MCRwBase == [p \in Platforms |-> IF p = "macos" THEN Base ELSE Base + 64]
=============================================================================
