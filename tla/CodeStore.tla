----------------------------- MODULE CodeStore -----------------------------
(***************************************************************************)
(* What a store of executable code promises: once a program is handed out  *)
(* with n references, its code stays in place until the n-th release; the  *)
(* store reclaims what nobody refers to, at its leisure.                   *)
(***************************************************************************)
EXTENDS Naturals

CONSTANTS
  Programs,  \* identities a program can have, never used twice
  Refs       \* numbers of references a program can be handed out with

VARIABLES
  held,    \* <<program, k>>: references not yet released
  intact   \* programs whose code is in place

InUse(hs) == {p \in Programs : \E h \in hs : h[1] = p}

StoreInit == held = {} /\ intact = {}

Load(p, n) ==
  /\ p \notin InUse(held)
  /\ held' = held \cup ({p} \X (1 .. n))
  /\ InUse(held') \subseteq intact'
  /\ intact' \subseteq intact \cup {p}

GiveBack(h) ==
  /\ held' = held \ {h}
  /\ InUse(held') \subseteq intact'
  /\ intact' \subseteq intact

Reclaim ==
  /\ held' = held
  /\ InUse(held) \subseteq intact'
  /\ intact' \subseteq intact

StoreNext ==
  \/ \E p \in Programs, n \in Refs : Load(p, n)
  \/ \E h \in held : GiveBack(h)
  \/ Reclaim

StoreSpec == StoreInit /\ [][StoreNext]_<<held, intact>>
=============================================================================
