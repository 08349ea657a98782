-------------------------- MODULE MCDynamicMemory --------------------------
(* Instances of DynamicMemory for TLC: units of a dozen bytes, mappings at *)
(* more and less aligned addresses, requests of one and of several         *)
(* functions: one with an alignment that is no power of two, one that gets *)
(* a slab of two units for its padding, and one that exceeds MaxUnits.     *)
EXTENDS DynamicMemory

Item(size, align) == [size |-> size, align |-> align]

MCRequests == {<<Item(3, 1), Item(2, 4)>>, <<Item(1, 3)>>, <<Item(7, 8)>>,
               <<Item(22, 1)>>}
SmallRequests == {<<Item(3, 1), Item(2, 4)>>, <<Item(1, 3)>>}
=============================================================================
