----------------------------- MODULE SectionMap -----------------------------
(* What a link asks of ReusableLinkerCache: for as long as the link borrows *)
(* it, a map from section numbers to views, empty at first, that only grows. *)
VARIABLES open, map

Init == open = FALSE /\ map = <<>>

Open == ~open /\ open' = TRUE /\ map' = <<>>

\* A new key; what was found before is found unchanged.
Insert ==
  /\ open /\ open'
  /\ \E key \in DOMAIN map' \ DOMAIN map : DOMAIN map' = DOMAIN map \cup {key}
  /\ map' = [k \in DOMAIN map' |-> IF k \in DOMAIN map THEN map[k] ELSE map'[k]]

Close == open /\ open' = FALSE /\ map' = <<>>

Next == Open \/ Insert \/ Close

Spec == Init /\ [][Next]_<<open, map>>
=============================================================================
