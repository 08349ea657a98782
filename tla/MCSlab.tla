------------------------------- MODULE MCSlab -------------------------------
(* Instances of Slab for TLC: a slab of a few bytes at an address that is  *)
(* less aligned than some of the calls ask for.                            *)
EXTENDS Slab

Call(align, cap, len) == [align |-> align, cap |-> cap, len |-> len]

\* An aligned write that copies less than announced, a packed one, an empty
\* one (an empty trampoline pool).
MCCalls == {Call(4, 3, 2), Call(1, 2, 2), Call(2, 0, 0)}
MCTotals == {0, 1, 2}
=============================================================================
