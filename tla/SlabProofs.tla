----------------------------- MODULE SlabProofs -----------------------------
(***************************************************************************)
(* What holds of every slab, whatever its size and address, the calls      *)
(* clients make, the depth of their transactions and the bounds.           *)
(*                                                                         *)
(* The argument has two halves.  Counting: `stored' is the number of       *)
(* outstanding releases less the debt, because a program's handles are     *)
(* created once, under an identity nothing else has.  Layout: the cursor   *)
(* is above every block it has to protect, because writes move it up and a *)
(* dropped transaction moves it back to a mark that the transactions       *)
(* around it are below.                                                    *)
(***************************************************************************)
EXTENDS Slab, LayoutProofs, FiniteSetTheorems

\* A write a client can ask for.  Clients that compute theirs, as JITLink's
\* bridge does, ask for others than Calls.
Request(c) == c.align \in Nat \ {0} /\ c.cap \in Nat /\ c.len \in Nat

\* A step of the slab, whatever its clients ask for.
AnyNext ==
  \/ \E c : Request(c) /\ WriteFn(c)
  \/ \E t \in Totals : Begin(t)
  \/ \E c, write : Request(c) /\ write \in BOOLEAN /\ TxWrite(c, write)
  \/ \E blocks \in SUBSET code : Patch(blocks)
  \/ Commit
  \/ Abort
  \/ \E h \in handles : Release(h)
  \/ TryFree
  \/ Leak

\* The steps of the specification are such steps.
LEMMA NextIsAny == [Next]_vars => [AnyNext]_vars
<1>1. \A c \in Calls : Request(c)
  BY SlabAssumption DEF Request
<1> QED
  BY <1>1 DEF Next, AnyNext

\* A write puts its block above the cursor and moves the cursor past it.
LEMMA PlaceFacts ==
  ASSUME TypeOK, NEW p \in 1 .. MaxProgs, NEW c, Request(c), NEW write \in BOOLEAN,
         Place(p, c, write)
  PROVE  \E b \in Block :
           /\ code' = code \cup {b}
           /\ b.prog = p /\ b.align = c.align /\ b.flushed = write
           /\ b.lo = StartOffset(Base, cursor, c.align)
           /\ b.hi = b.lo + (IF write THEN c.len ELSE c.cap)
           /\ cursor <= b.lo /\ b.lo <= b.hi
           /\ cursor' = b.hi
           /\ (Base + b.lo) % b.align = 0
<1> DEFINE lo == StartOffset(Base, cursor, c.align)
           hi == lo + (IF write THEN c.len ELSE c.cap)
           b  == [prog |-> p, lo |-> lo, hi |-> hi, align |-> c.align, flushed |-> write]
<1>1. c.align \in Nat \ {0} /\ c.cap \in Nat /\ c.len \in Nat
  BY DEF Request
<1>2. Base \in Nat /\ cursor \in Nat /\ Base + cursor \in Nat
  BY SlabAssumption DEF TypeOK
<1>3. /\ AlignUp(Base + cursor, c.align) \in Nat
      /\ Base + cursor <= AlignUp(Base + cursor, c.align)
      /\ AlignUp(Base + cursor, c.align) % c.align = 0
  BY <1>1, <1>2, AlignUpFacts
<1>4. lo \in Nat /\ cursor <= lo /\ Base + lo = AlignUp(Base + cursor, c.align)
  BY <1>2, <1>3 DEF StartOffset
<1>5. hi \in Nat /\ lo <= hi
  BY <1>1, <1>4
<1>6. b \in Block
  BY <1>1, <1>4, <1>5 DEF Block
<1>7. cursor' = hi /\ code' = code \cup {b}
  BY DEF Place
<1> QED
  BY <1>3, <1>4, <1>5, <1>6, <1>7

\* Handing a program out adds n handles, if it had none.
LEMMA HandOutFacts ==
  ASSUME TypeOK, NEW p \in 1 .. MaxProgs, NEW n \in Nat, HandOut(p, n)
  PROVE  /\ handles' \in SUBSET Handle
         /\ IsFiniteSet(handles')
         /\ stored' \in 0 .. Word - 1
         /\ (\A h \in handles : h[1] # p) =>
              /\ Cardinality(handles') = Cardinality(handles) + n
              /\ Cardinality(handles') < Word
<1> DEFINE new == {p} \X (1 .. n)
<1>1. IsFiniteSet({p}) /\ Cardinality({p}) = 1
  BY FS_Singleton
<1>2. IsFiniteSet(1 .. n) /\ Cardinality(1 .. n) = n
  BY FS_Interval
<1>3. IsFiniteSet(new) /\ Cardinality(new) = 1 * n
  <2>1. Cardinality(new) = Cardinality({p}) * Cardinality(1 .. n) /\ IsFiniteSet(new)
    BY <1>1, <1>2, FS_Product
  <2> QED
    BY <1>1, <1>2, <2>1
<1>4. IsFiniteSet(handles) /\ Cardinality(handles) \in Nat
  BY FS_CardinalityType DEF TypeOK
<1>5. handles' = handles \cup new
  BY DEF HandOut
<1>6. /\ IsFiniteSet(handles')
      /\ Cardinality(handles') = Cardinality(handles) + Cardinality(new)
                                   - Cardinality(handles \cap new)
  BY <1>3, <1>4, <1>5, FS_Union
<1>7. handles' \in SUBSET Handle
  BY <1>5 DEF TypeOK, Handle
<1>8. stored' \in 0 .. Word - 1
  BY SlabAssumption DEF HandOut, Wrap, TypeOK
<1>9. ASSUME \A h \in handles : h[1] # p
      PROVE  Cardinality(handles') = Cardinality(handles) + n
  <2>1. handles \cap new = {}
    BY <1>9
  <2> QED
    BY <1>3, <1>4, <1>6, <2>1, FS_EmptySet
<1>10. Cardinality(handles) + n < Word
  BY DEF HandOut
<1> QED
  BY <1>6, <1>7, <1>8, <1>9, <1>10

\* The open transactions are a sequence of transactions.
LEMMA TxFacts ==
  ASSUME TypeOK
  PROVE  /\ Len(txs) \in Nat /\ DOMAIN txs = 1 .. Len(txs)
         /\ \A i \in DOMAIN txs :
              txs[i] \in Tx /\ txs[i].id \in Nat /\ txs[i].cursor \in Nat
<1>1. txs \in Seq(Tx)
  BY DEF TypeOK
<1>2. \A i \in DOMAIN txs : txs[i] \in Tx
  BY <1>1
<1>3. \A t \in Tx : t.id \in Nat /\ t.cursor \in Nat
  BY DEF Tx
<1> QED
  BY <1>1, <1>2, <1>3

\* The innermost transaction, and what is left when it is closed.
LEMMA TopFacts ==
  ASSUME TypeOK, InTx
  PROVE  /\ Len(txs) \in Nat \ {0} /\ Len(txs) \in DOMAIN txs
         /\ Top = txs[Len(txs)] /\ Top \in Tx
         /\ LET rest == SubSeq(txs, 1, Len(txs) - 1)
            IN  /\ rest \in Seq(Tx)
                /\ DOMAIN rest = 1 .. Len(txs) - 1
                /\ \A i \in DOMAIN rest : i \in DOMAIN txs /\ rest[i] = txs[i]
<1>1. txs \in Seq(Tx) /\ txs # <<>>
  BY DEF TypeOK, InTx
<1>2. Len(txs) \in Nat \ {0} /\ DOMAIN txs = 1 .. Len(txs)
  BY <1>1
<1>3. Top \in Tx
  BY <1>1, <1>2 DEF Top
<1> QED
  BY <1>1, <1>2, <1>3 DEF Top

-----------------------------------------------------------------------------
(* Types. *)

\* The types hold in a new slab.
LEMMA TypeInit == Init => TypeOK
<1> SUFFICES ASSUME Init PROVE TypeOK
  OBVIOUS
<1>1. IsFiniteSet({})
  BY FS_EmptySet
<1> QED
  BY <1>1, SlabAssumption DEF Init, TypeOK, Handle

\* write_fn keeps the types.
LEMMA TypeWriteFn ==
  ASSUME TypeOK, NEW c, Request(c), WriteFn(c)
  PROVE  TypeOK'
<1>1. progs + 1 \in 1 .. MaxProgs
  BY SlabAssumption DEF TypeOK, WriteFn
<1>2. PICK b \in Block : code' = code \cup {b} /\ cursor' = b.hi
  BY <1>1, PlaceFacts DEF WriteFn
<1>3. handles' \in SUBSET Handle /\ IsFiniteSet(handles') /\ stored' \in 0 .. Word - 1
  BY <1>1, HandOutFacts DEF WriteFn
<1> QED
  BY <1>1, <1>2, <1>3 DEF TypeOK, WriteFn, Block

\* Opening a transaction keeps the types.
LEMMA TypeBegin ==
  ASSUME TypeOK, NEW t \in Totals, Begin(t)
  PROVE  TypeOK'
<1>1. progs + 1 \in 1 .. MaxProgs
  BY SlabAssumption DEF TypeOK, Begin
<1>2. [id |-> progs + 1, cursor |-> cursor, total |-> t, writes |-> 0] \in Tx
  BY <1>1 DEF Tx, TypeOK
<1>3. txs' \in Seq(Tx)
  BY <1>2 DEF TypeOK, Begin
<1> QED
  BY <1>1, <1>3 DEF TypeOK, Begin

\* A write in a transaction keeps the types.
LEMMA TypeTxWrite ==
  ASSUME TypeOK, NEW c, Request(c), NEW write \in BOOLEAN, TxWrite(c, write)
  PROVE  TypeOK'
<1>0. InTx
  BY DEF TxWrite
<1>1. Len(txs) \in DOMAIN txs /\ Top = txs[Len(txs)] /\ Top \in Tx
  BY <1>0, TopFacts
<1>2. Top.id \in 1 .. MaxProgs /\ Top.writes \in Nat
  BY <1>1 DEF Tx
<1>3. PICK b \in Block : code' = code \cup {b} /\ cursor' = b.hi
  BY <1>2, PlaceFacts DEF TxWrite
<1>4. [Top EXCEPT !.writes = @ + 1] \in Tx
  BY <1>1 DEF Tx
<1>5. txs' = [txs EXCEPT ![Len(txs)] = [Top EXCEPT !.writes = @ + 1]]
  BY <1>1 DEF TxWrite
<1>6. txs' \in Seq(Tx)
  BY <1>1, <1>4, <1>5 DEF TypeOK
<1> QED
  BY <1>3, <1>6 DEF TypeOK, TxWrite, Block

\* Patching keeps the types.
LEMMA TypePatch ==
  ASSUME TypeOK, NEW blocks \in SUBSET code, Patch(blocks)
  PROVE  TypeOK'
<1>1. \A b \in Block : [b EXCEPT !.flushed = FALSE] \in Block
  BY DEF Block
<1>2. code' \in SUBSET Block
  BY <1>1 DEF TypeOK, Patch
<1> QED
  BY <1>2 DEF TypeOK, Patch

\* Flushing changes no block's place or owner.
LEMMA FlushFacts ==
  ASSUME NEW lo, NEW blocks \in SUBSET Block
  PROVE  \A e \in FlushFrom(lo, blocks) :
           /\ e \in Block
           /\ \E b \in blocks : /\ e.prog = b.prog /\ e.lo = b.lo /\ e.hi = b.hi
                               /\ e.align = b.align
                               /\ e = IF b.hi <= cursor - lo
                                      THEN [b EXCEPT !.flushed = TRUE] ELSE b
BY DEF FlushFrom, Block

\* commit keeps the types.
LEMMA TypeCommit ==
  ASSUME TypeOK, Commit
  PROVE  TypeOK'
<1>0. InTx
  BY DEF Commit
<1>1. Top \in Tx /\ txs' \in Seq(Tx)
  BY <1>0, TopFacts DEF Commit
<1>2. Top.id \in 1 .. MaxProgs /\ Top.total \in Nat
  BY <1>1, SlabAssumption DEF Tx
<1>3. handles' \in SUBSET Handle /\ IsFiniteSet(handles') /\ stored' \in 0 .. Word - 1
  BY <1>2, HandOutFacts DEF Commit
<1>4. code' \in SUBSET Block
  BY FlushFacts DEF Commit, TypeOK
<1> QED
  BY <1>1, <1>3, <1>4 DEF TypeOK, Commit

\* Dropping a transaction keeps the types, whatever it subtracts.
LEMMA TypeAbort ==
  ASSUME TypeOK, Abort
  PROVE  TypeOK'
<1>0. InTx
  BY DEF Abort
<1>1. Top \in Tx /\ txs' \in Seq(Tx)
  BY <1>0, TopFacts DEF Abort
<1>2. Top.cursor \in Nat /\ Top.writes \in Nat
  BY <1>1 DEF Tx
<1>3. stored' \in 0 .. Word - 1
  <2>1. stored - Top.writes \in Int /\ Word \in Nat \ {0}
    BY <1>2, SlabAssumption DEF TypeOK
  <2>2. stored' = (stored - Top.writes) % Word
    BY DEF Abort, Wrap
  <2> QED BY <2>1, <2>2, Euclid
<1>4. undercut' \in SUBSET (1 .. MaxProgs)
  BY DEF Abort, TypeOK, Block
<1>5. code' \in SUBSET Block
  BY DEF Abort, TypeOK
<1> QED
  BY <1>1, <1>2, <1>3, <1>4, <1>5 DEF TypeOK, Abort

\* A release takes one handle away and one off the counter.
LEMMA ReleaseFacts ==
  ASSUME TypeOK, NEW h \in handles, Release(h)
  PROVE  /\ handles' \in SUBSET Handle
         /\ IsFiniteSet(handles')
         /\ Cardinality(handles') = Cardinality(handles) - 1
         /\ Cardinality(handles) \in Nat
         /\ stored' \in 0 .. Word - 1
<1>1. IsFiniteSet(handles)
  BY DEF TypeOK
<1>2. handles' = handles \ {h}
  BY DEF Release
<1>3. stored' \in 0 .. Word - 1
  BY SlabAssumption DEF Release, Wrap, TypeOK
<1> QED
  BY <1>1, <1>2, <1>3, FS_RemoveElement, FS_CardinalityType DEF TypeOK

\* A release keeps the types.
LEMMA TypeRelease ==
  ASSUME TypeOK, NEW h \in handles, Release(h)
  PROVE  TypeOK'
<1>1. handles' \in SUBSET Handle /\ IsFiniteSet(handles') /\ stored' \in 0 .. Word - 1
  BY ReleaseFacts
<1>2. code' \in SUBSET Block
  BY DEF Release, TypeOK
<1> QED
  BY <1>1, <1>2 DEF TypeOK, Release

\* Every step of the slab and of its users keeps the types.
LEMMA TypeNext == TypeOK /\ [AnyNext]_vars => TypeOK'
<1> SUFFICES ASSUME TypeOK, [AnyNext]_vars PROVE TypeOK'
  OBVIOUS
<1>1. CASE \E c : Request(c) /\ WriteFn(c)
  BY <1>1, TypeWriteFn
<1>2. CASE \E t \in Totals : Begin(t)
  BY <1>2, TypeBegin
<1>3. CASE \E c, write : Request(c) /\ write \in BOOLEAN /\ TxWrite(c, write)
  BY <1>3, TypeTxWrite
<1>4. CASE \E blocks \in SUBSET code : Patch(blocks)
  BY <1>4, TypePatch
<1>5. CASE Commit
  BY <1>5, TypeCommit
<1>6. CASE Abort
  BY <1>6, TypeAbort
<1>7. CASE \E h \in handles : Release(h)
  BY <1>7, TypeRelease
<1>8. CASE TryFree
  BY <1>8 DEF TypeOK, TryFree
<1>9. CASE Leak
  BY <1>9 DEF TypeOK, Leak
<1>10. CASE UNCHANGED vars
  BY <1>10 DEF TypeOK, vars
<1> QED
  BY <1>1, <1>2, <1>3, <1>4, <1>5, <1>6, <1>7, <1>8, <1>9, <1>10 DEF AnyNext

\* Type correctness: in particular the cursor never leaves the naturals and
\* the counter never leaves the word.
THEOREM TypeCorrect == Spec => []TypeOK
  BY TypeInit, TypeNext, NextIsAny, PTL DEF Spec

-----------------------------------------------------------------------------
(* Counting. *)

\* What keeps handles from being created twice: every identity in use was
\* given out, and an open transaction's has no handle and is its own.
Identities ==
  /\ \A h \in handles : h[1] <= progs
  /\ \A i \in DOMAIN txs :
       txs[i].id <= progs /\ \A h \in handles : h[1] # txs[i].id
  /\ \A i, j \in DOMAIN txs : i # j => txs[i].id # txs[j].id

\* The owner frees or leaks the slab only when no transaction borrows it.
Closed == status # "mapped" => txs = <<>>

CountInv ==
  /\ TypeOK
  /\ Identities
  /\ Closed
  /\ Cardinality(handles) < Word
  /\ Ledger
  /\ FreeIsSafe

\* The ledger survives adding to both sides.
LEMMA LedgerStep ==
  ASSUME TypeOK, Ledger, NEW n \in Int,
         stored' = Wrap(stored + n),
         Cardinality(handles') - debt' = Cardinality(handles) - debt + n
  PROVE  Ledger'
<1>1. Word \in Nat \ {0} /\ Cardinality(handles) - debt \in Int
  BY SlabAssumption, FS_CardinalityType DEF TypeOK
<1>2. stored = (Cardinality(handles) - debt) % Word
  BY DEF Ledger, Wrap
<1>3. (stored + n) % Word = ((Cardinality(handles) - debt) + n) % Word
  BY <1>1, <1>2, WrapAdd
<1> QED
  BY <1>3 DEF Ledger, Wrap

\* A new slab has nothing to count.
LEMMA CountInit == Init => CountInv
<1> SUFFICES ASSUME Init PROVE CountInv
  OBVIOUS
<1>1. TypeOK
  BY TypeInit
<1>2. Cardinality(handles) = 0 /\ 0 < Word /\ Word \in Nat \ {0}
  BY FS_EmptySet, SlabAssumption DEF Init
<1>3. 0 % Word = 0
  BY <1>2
<1>4. Ledger
  BY <1>2, <1>3 DEF Init, Ledger, Wrap
<1>5. Identities /\ Closed /\ FreeIsSafe
  BY DEF Init, Identities, Closed, FreeIsSafe
<1> QED
  BY <1>1, <1>2, <1>4, <1>5 DEF CountInv

\* write_fn adds one count for one handle.
LEMMA CountWriteFn ==
  ASSUME CountInv, NEW c, Request(c), WriteFn(c)
  PROVE  CountInv'
<1>1. TypeOK /\ TypeOK'
  BY TypeWriteFn DEF CountInv
<1>2. progs + 1 \in 1 .. MaxProgs /\ progs \in Nat
  BY <1>1, SlabAssumption DEF TypeOK, WriteFn
<1>3. HandOut(progs + 1, 1) /\ handles' = handles \cup ({progs + 1} \X (1 .. 1))
  BY DEF WriteFn, HandOut
<1>4. handles \in SUBSET Handle /\ \A h \in handles : h[1] # progs + 1
  BY <1>1, <1>2 DEF CountInv, Identities, TypeOK, Handle
<1>5. Cardinality(handles') = Cardinality(handles) + 1 /\ Cardinality(handles') < Word
  BY <1>1, <1>2, <1>3, <1>4, HandOutFacts
<1>6. Ledger'
  <2>1. Cardinality(handles) \in Nat /\ debt \in Nat
    BY <1>1, FS_CardinalityType DEF TypeOK
  <2>2. stored' = Wrap(stored + 1) /\ debt' = debt
    BY DEF WriteFn, HandOut
  <2> QED
    BY <1>1, <1>5, <2>1, <2>2, LedgerStep DEF CountInv
<1>7. Identities'
  <2>1. txs' = txs /\ progs' = progs + 1
    BY DEF WriteFn
  <2>2. \A i \in DOMAIN txs : txs[i].id \in Nat
    BY <1>1, TxFacts
  <2>3. \A h \in handles' : h \in handles \/ h[1] = progs + 1
    BY <1>3
  <2>4. \A h \in handles : h[1] \in Nat
    BY <1>4 DEF Handle
  <2> QED
    BY <1>2, <2>1, <2>2, <2>3, <2>4 DEF CountInv, Identities
<1>8. Closed' /\ FreeIsSafe'
  BY DEF CountInv, WriteFn, Closed, FreeIsSafe
<1> QED
  BY <1>1, <1>5, <1>6, <1>7, <1>8 DEF CountInv

\* A new transaction has an identity nobody else uses, and counts nothing.
LEMMA CountBegin ==
  ASSUME CountInv, NEW t \in Totals, Begin(t)
  PROVE  CountInv'
<1>1. TypeOK /\ TypeOK'
  BY TypeBegin DEF CountInv
<1>2. progs \in Nat /\ progs' = progs + 1 /\ handles' = handles
  BY <1>1, SlabAssumption DEF TypeOK, Begin
<1>3. Identities'
  <2>1. txs \in Seq(Tx) /\ Len(txs) \in Nat /\ DOMAIN txs = 1 .. Len(txs)
    BY <1>1 DEF TypeOK
  <2>2. /\ DOMAIN txs' = 1 .. Len(txs) + 1
        /\ \A i \in DOMAIN txs : txs'[i] = txs[i]
        /\ txs'[Len(txs) + 1].id = progs + 1
    BY <2>1 DEF Begin
  <2>3. \A i \in DOMAIN txs : txs[i].id \in Nat
    BY <1>1, TxFacts
  <2>4. \A h \in handles : h[1] \in Nat
    BY <1>1 DEF TypeOK, Handle
  <2> QED
    BY <1>2, <2>1, <2>2, <2>3, <2>4 DEF CountInv, Identities
<1>4. Closed' /\ FreeIsSafe' /\ Ledger'
  BY DEF CountInv, Begin, Closed, FreeIsSafe, Ledger
<1> QED
  BY <1>1, <1>2, <1>3, <1>4 DEF CountInv

\* A write in a transaction leaves the count alone.
LEMMA CountTxWrite ==
  ASSUME CountInv, NEW c, Request(c), NEW write \in BOOLEAN, TxWrite(c, write)
  PROVE  CountInv'
<1>1. TypeOK /\ TypeOK'
  BY TypeTxWrite DEF CountInv
<1>2. InTx
  BY DEF TxWrite
<1>3. Len(txs) \in DOMAIN txs /\ txs \in Seq(Tx)
  BY <1>1, <1>2, TopFacts DEF TypeOK
<1>4. DOMAIN txs' = DOMAIN txs /\ \A i \in DOMAIN txs : txs'[i].id = txs[i].id
  BY <1>3 DEF TxWrite, Tx
<1>5. Identities'
  BY <1>4 DEF CountInv, Identities, TxWrite
<1>6. Closed'
  BY <1>2 DEF CountInv, Closed, InTx, TxWrite
<1> QED
  BY <1>1, <1>5, <1>6 DEF CountInv, TxWrite, Ledger, FreeIsSafe

\* commit adds as many counts as it hands out handles.
LEMMA CountCommit ==
  ASSUME CountInv, Commit
  PROVE  CountInv'
<1>1. TypeOK /\ TypeOK' /\ InTx
  BY TypeCommit DEF CountInv, Commit
<1>2. /\ Len(txs) \in Nat \ {0} /\ Len(txs) \in DOMAIN txs
      /\ Top = txs[Len(txs)] /\ Top \in Tx
      /\ DOMAIN txs' = 1 .. Len(txs) - 1
      /\ \A i \in DOMAIN txs' : i \in DOMAIN txs /\ txs'[i] = txs[i]
  BY <1>1, TopFacts DEF Commit
<1>3. Top.id \in 1 .. MaxProgs /\ Top.total \in Nat
  BY <1>2, SlabAssumption DEF Tx
<1>4. HandOut(Top.id, Top.total) /\ handles' = handles \cup ({Top.id} \X (1 .. Top.total))
  BY DEF Commit, HandOut
<1>5. Top.id <= progs /\ \A h \in handles : h[1] # Top.id
  BY <1>2 DEF CountInv, Identities
<1>6. Cardinality(handles') = Cardinality(handles) + Top.total /\ Cardinality(handles') < Word
  BY <1>1, <1>3, <1>4, <1>5, HandOutFacts
<1>7. Ledger'
  <2>1. Cardinality(handles) \in Nat /\ debt \in Nat
    BY <1>1, FS_CardinalityType DEF TypeOK
  <2>2. stored' = Wrap(stored + Top.total) /\ debt' = debt
    BY DEF Commit, HandOut
  <2> QED
    BY <1>1, <1>3, <1>6, <2>1, <2>2, LedgerStep DEF CountInv
<1>8. Identities'
  <2>1. \A h \in handles' : h \in handles \/ h[1] = Top.id
    BY <1>4
  <2>2. \A i \in DOMAIN txs' : i # Len(txs)
    BY <1>2
  <2>3. progs' = progs
    BY DEF Commit
  <2> QED
    BY <1>2, <1>5, <2>1, <2>2, <2>3 DEF CountInv, Identities
<1>9. status = "mapped" /\ status' = status
  BY <1>1 DEF CountInv, Closed, InTx, Commit
<1> QED
  BY <1>1, <1>6, <1>7, <1>8, <1>9 DEF CountInv, Closed, FreeIsSafe

\* What a dropped transaction subtracts is added to the debt.
LEMMA CountAbort ==
  ASSUME CountInv, Abort
  PROVE  CountInv'
<1>1. TypeOK /\ TypeOK' /\ InTx
  BY TypeAbort DEF CountInv, Abort
<1>2. /\ Top \in Tx
      /\ \A i \in DOMAIN txs' : i \in DOMAIN txs /\ txs'[i] = txs[i]
  BY <1>1, TopFacts DEF Abort
<1>3. Top.writes \in Nat /\ -Top.writes \in Int
  BY <1>2 DEF Tx
<1>4. Ledger'
  <2>1. Cardinality(handles) \in Nat /\ debt \in Nat /\ stored \in Int
    BY <1>1, FS_CardinalityType DEF TypeOK
  <2>2. stored' = Wrap(stored + (-Top.writes))
    BY <1>3, <2>1 DEF Abort
  <2>3. handles' = handles /\ debt' = debt + Top.writes
    BY DEF Abort
  <2> QED
    BY <1>1, <1>3, <2>1, <2>2, <2>3, LedgerStep DEF CountInv
<1>5. Identities'
  BY <1>2 DEF CountInv, Identities, Abort
<1>6. status = "mapped" /\ status' = status /\ handles' = handles
  BY <1>1 DEF CountInv, Closed, InTx, Abort
<1> QED
  BY <1>1, <1>4, <1>5, <1>6 DEF CountInv, Closed, FreeIsSafe

\* A release takes one count and one handle away.
LEMMA CountRelease ==
  ASSUME CountInv, NEW h \in handles, Release(h)
  PROVE  CountInv'
<1>1. TypeOK /\ TypeOK'
  BY TypeRelease DEF CountInv
<1>2. /\ Cardinality(handles') = Cardinality(handles) - 1
      /\ Cardinality(handles) \in Nat
  BY <1>1, ReleaseFacts
<1>3. Cardinality(handles') < Word
  BY <1>2, SlabAssumption DEF CountInv
<1>4. Ledger'
  <2>1. debt \in Nat /\ stored \in Int
    BY <1>1 DEF TypeOK
  <2>2. stored' = Wrap(stored + (-1)) /\ debt' = debt
    BY <2>1 DEF Release
  <2> QED
    BY <1>1, <1>2, <2>1, <2>2, LedgerStep DEF CountInv
<1>5. Identities' /\ Closed' /\ FreeIsSafe'
  BY DEF CountInv, Identities, Closed, FreeIsSafe, Release
<1> QED
  BY <1>1, <1>3, <1>4, <1>5 DEF CountInv

\* Without debt the wrapped counter is the number of handles.
LEMMA ExactCount ==
  ASSUME CountInv, debt = 0
  PROVE  stored = Cardinality(handles)
<1>1. Cardinality(handles) \in 0 .. Word - 1 /\ Word \in Nat \ {0}
  BY SlabAssumption, FS_CardinalityType DEF CountInv, TypeOK
<1>2. (Word * 0 + Cardinality(handles)) % Word = Cardinality(handles)
  BY <1>1, EuclidUnique
<1>3. Word * 0 + Cardinality(handles) = Cardinality(handles) - debt
  BY <1>1
<1> QED
  BY <1>2, <1>3 DEF CountInv, Ledger, Wrap

\* Without debt, freeing at zero leaves nobody with a handle.
LEMMA CountTryFree ==
  ASSUME CountInv, TryFree
  PROVE  CountInv'
<1>1. TypeOK'
  BY DEF CountInv, TypeOK, TryFree
<1>2. debt = 0 => handles = {}
  BY ExactCount, FS_EmptySet DEF TryFree, CountInv, TypeOK
<1>3. FreeIsSafe' /\ Closed'
  BY <1>2 DEF FreeIsSafe, Closed, TryFree, InTx
<1> QED
  BY <1>1, <1>3 DEF CountInv, Identities, Ledger, TryFree

\* Every step keeps the count invariant.
LEMMA CountNext == CountInv /\ [AnyNext]_vars => CountInv'
<1> SUFFICES ASSUME CountInv, [AnyNext]_vars PROVE CountInv'
  OBVIOUS
<1>0. TypeOK'
  BY TypeNext DEF CountInv
<1>1. CASE \E c : Request(c) /\ WriteFn(c)
  BY <1>1, CountWriteFn
<1>2. CASE \E t \in Totals : Begin(t)
  BY <1>2, CountBegin
<1>3. CASE \E c, write : Request(c) /\ write \in BOOLEAN /\ TxWrite(c, write)
  BY <1>3, CountTxWrite
<1>4. CASE \E blocks \in SUBSET code : Patch(blocks)
  BY <1>0, <1>4 DEF CountInv, Identities, Closed, Ledger, FreeIsSafe, Patch
<1>5. CASE Commit
  BY <1>5, CountCommit
<1>6. CASE Abort
  BY <1>6, CountAbort
<1>7. CASE \E h \in handles : Release(h)
  BY <1>7, CountRelease
<1>8. CASE TryFree
  BY <1>8, CountTryFree
<1>9. CASE Leak
  BY <1>0, <1>9 DEF CountInv, Identities, Closed, Ledger, FreeIsSafe, Leak, InTx
<1>10. CASE UNCHANGED vars
  BY <1>0, <1>10 DEF CountInv, Identities, Closed, Ledger, FreeIsSafe, vars
<1> QED
  BY <1>1, <1>2, <1>3, <1>4, <1>5, <1>6, <1>7, <1>8, <1>9, <1>10 DEF AnyNext

\* The inductive invariant of the counter holds in every reachable state.
THEOREM CountInvariant == Spec => []CountInv
  BY CountInit, CountNext, NextIsAny, PTL DEF Spec

\* The counter is the outstanding releases less the dropped transactions'
\* subtractions, modulo the word, in every interleaving.
THEOREM LedgerBalances == Spec => []Ledger
<1>1. CountInv => Ledger
  BY DEF CountInv
<1> QED
  BY <1>1, CountInvariant, PTL

\* A slab without debt is freed only when everything in it was released.
THEOREM FreeSafe == Spec => []FreeIsSafe
<1>1. CountInv => FreeIsSafe
  BY DEF CountInv
<1> QED
  BY <1>1, CountInvariant, PTL

\* release_ptr never finds the counter at zero, without debt.
THEOREM ReleaseSafe == Spec => []ReleaseFindsCount
<1>1. CountInv => ReleaseFindsCount
  <2> SUFFICES ASSUME CountInv, handles # {}, debt = 0 PROVE stored # 0
    BY DEF ReleaseFindsCount
  <2> QED
    BY ExactCount, FS_EmptySet DEF CountInv, TypeOK
<1> QED
  BY <1>1, CountInvariant, PTL

-----------------------------------------------------------------------------
(* Layout. *)

MarkInv == TypeOK /\ Watermarks

\* Every step keeps the marks nested and below the cursor.
LEMMA MarkNext == MarkInv /\ [AnyNext]_vars => MarkInv'
<1> SUFFICES ASSUME MarkInv, [AnyNext]_vars PROVE Watermarks'
  BY TypeNext DEF MarkInv
<1>0. /\ TypeOK /\ Watermarks /\ cursor \in Nat
      /\ Len(txs) \in Nat /\ DOMAIN txs = 1 .. Len(txs)
      /\ \A i \in DOMAIN txs : txs[i].cursor \in Nat
  BY TxFacts DEF MarkInv, TypeOK
<1>1. ASSUME txs' = txs, cursor' \in Nat, cursor <= cursor'
      PROVE  Watermarks'
  BY <1>0, <1>1 DEF Watermarks
<1>2. ASSUME NEW c, Request(c), WriteFn(c)
      PROVE  Watermarks'
  <2>1. progs + 1 \in 1 .. MaxProgs
    BY <1>0, <1>2, SlabAssumption DEF TypeOK, WriteFn
  <2>2. PICK b \in Block : cursor <= b.lo /\ b.lo <= b.hi /\ cursor' = b.hi
    BY <1>0, <1>2, <2>1, PlaceFacts DEF WriteFn
  <2>3. cursor' \in Nat /\ cursor <= cursor'
    BY <1>0, <2>2 DEF Block
  <2> QED
    BY <1>1, <1>2, <2>3 DEF WriteFn
<1>3. ASSUME NEW t \in Totals, Begin(t)
      PROVE  Watermarks'
  <2>1. /\ cursor' = cursor
        /\ DOMAIN txs' = 1 .. Len(txs) + 1
        /\ \A i \in DOMAIN txs : txs'[i] = txs[i]
        /\ txs'[Len(txs) + 1].cursor = cursor
    BY <1>0, <1>3 DEF Begin, TypeOK
  <2> QED
    BY <1>0, <2>1 DEF Watermarks
<1>4. ASSUME NEW c, Request(c), NEW write \in BOOLEAN, TxWrite(c, write)
      PROVE  Watermarks'
  <2>1. Len(txs) \in DOMAIN txs /\ Top \in Tx /\ Top.id \in 1 .. MaxProgs
    BY <1>0, <1>4, TopFacts DEF TxWrite, Tx
  <2>2. cursor' \in Nat /\ cursor <= cursor'
    BY <1>0, <1>4, <2>1, PlaceFacts DEF TxWrite, Block
  <2>3. DOMAIN txs' = DOMAIN txs /\ \A i \in DOMAIN txs : txs'[i].cursor = txs[i].cursor
    BY <1>0, <1>4, <2>1 DEF TxWrite, TypeOK, Tx
  <2>4. \A i \in DOMAIN txs : txs[i].cursor <= cursor'
    BY <1>0, <2>2 DEF Watermarks
  <2>5. \A i \in DOMAIN txs : \A j \in 1 .. i : j \in DOMAIN txs /\ txs[j].cursor <= txs[i].cursor
    BY <1>0 DEF Watermarks
  <2> QED
    BY <2>3, <2>4, <2>5 DEF Watermarks
<1>5. ASSUME NEW blocks \in SUBSET code, Patch(blocks)
      PROVE  Watermarks'
  BY <1>0, <1>1, <1>5 DEF Patch
<1>6. CASE Commit
  <2>1. \A i \in DOMAIN txs' : i \in DOMAIN txs /\ txs'[i] = txs[i]
    BY <1>0, <1>6, TopFacts DEF Commit
  <2>2. DOMAIN txs' = 1 .. Len(txs) - 1
    BY <1>0, <1>6, TopFacts DEF Commit
  <2> QED
    BY <1>0, <1>6, <2>1, <2>2 DEF Watermarks, Commit
<1>7. CASE Abort
  <2>1. /\ \A i \in DOMAIN txs' : i \in DOMAIN txs /\ txs'[i] = txs[i]
        /\ DOMAIN txs' = 1 .. Len(txs) - 1
        /\ Len(txs) \in DOMAIN txs /\ Top = txs[Len(txs)]
    BY <1>0, <1>7, TopFacts DEF Abort
  <2>2. cursor' = Top.cursor
    BY <1>7 DEF Abort
  <2> QED
    BY <1>0, <2>1, <2>2 DEF Watermarks
<1>8. ASSUME NEW h \in handles, Release(h)
      PROVE  Watermarks'
  BY <1>0, <1>1, <1>8 DEF Release
<1>9. CASE TryFree \/ Leak \/ UNCHANGED vars
  BY <1>0, <1>1, <1>9 DEF TryFree, Leak, vars
<1> QED
  BY <1>2, <1>3, <1>4, <1>5, <1>6, <1>7, <1>8, <1>9 DEF AnyNext

\* Open transactions' marks are nested and below the cursor, so commit's
\* subtraction cannot underflow.
THEOREM WatermarksHold == Spec => []Watermarks
<1>1. Init => MarkInv
  BY TypeInit DEF Init, MarkInv, Watermarks
<1>2. MarkInv => Watermarks
  BY DEF MarkInv
<1> QED
  BY <1>1, <1>2, MarkNext, NextIsAny, PTL DEF Spec

\* Every block of the next state is where some block was before, except the
\* one a write places.
LEMMA BlocksStay ==
  ASSUME TypeOK, [Next]_vars,
         ~(\E c \in Calls : WriteFn(c)),
         ~(\E c \in Calls, write \in BOOLEAN : TxWrite(c, write)),
         NEW e \in code'
  PROVE  \E b \in code : /\ e.prog = b.prog /\ e.lo = b.lo /\ e.hi = b.hi
                        /\ e.align = b.align
<1>1. code \in SUBSET Block
  BY DEF TypeOK
<1>2. ASSUME NEW blocks \in SUBSET code, Patch(blocks)
      PROVE  \E b \in code : /\ e.prog = b.prog /\ e.lo = b.lo /\ e.hi = b.hi
                            /\ e.align = b.align
  BY <1>1, <1>2 DEF Patch, Block
<1>3. CASE Commit
  BY <1>1, <1>3, FlushFacts DEF Commit
<1>4. CASE Abort
  BY <1>4 DEF Abort
<1>5. CASE \E h \in handles : Release(h)
  BY <1>5 DEF Release
<1>6. CASE (\E t \in Totals : Begin(t)) \/ TryFree \/ Leak \/ UNCHANGED vars
  BY <1>6 DEF Begin, TryFree, Leak, vars
<1> QED
  BY <1>2, <1>3, <1>4, <1>5, <1>6 DEF Next

\* Every step keeps blocks inside the mapping.
LEMMA WithinNext ==
  ASSUME DataWithinCap, TypeOK, WithinSlab, [Next]_vars
  PROVE  WithinSlab'
<1>1. ASSUME NEW p \in 1 .. MaxProgs, NEW c \in Calls, NEW write \in BOOLEAN,
             Room(c), Place(p, c, write)
      PROVE  WithinSlab'
  <2>1. PICK b \in Block :
           /\ code' = code \cup {b}
           /\ b.lo = StartOffset(Base, cursor, c.align)
           /\ b.hi = b.lo + (IF write THEN c.len ELSE c.cap)
           /\ b.lo <= b.hi
           /\ (Base + b.lo) % b.align = 0
    BY <1>1, SlabAssumption, PlaceFacts DEF Request
  <2>2. c.len <= c.cap /\ c.len \in Nat /\ c.cap \in Nat
    BY SlabAssumption DEF DataWithinCap
  <2>3. b.lo + c.cap <= Size /\ b.lo \in Nat /\ Size \in Nat
    BY <1>1, <2>1, SlabAssumption DEF Room, Fits, Block
  <2>4. b.hi <= Size
    BY <2>1, <2>2, <2>3
  <2> QED
    BY <2>1, <2>4 DEF WithinSlab
<1>2. CASE \E c \in Calls : WriteFn(c)
  <2>1. progs + 1 \in 1 .. MaxProgs
    BY <1>2, SlabAssumption DEF TypeOK, WriteFn
  <2> QED
    BY <1>1, <1>2, <2>1 DEF WriteFn
<1>3. CASE \E c \in Calls, write \in BOOLEAN : TxWrite(c, write)
  <2>1. Top.id \in 1 .. MaxProgs
    BY <1>3, TopFacts DEF TxWrite, Tx
  <2> QED
    BY <1>1, <1>3, <2>1 DEF TxWrite
<1>4. CASE /\ ~(\E c \in Calls : WriteFn(c))
           /\ ~(\E c \in Calls, write \in BOOLEAN : TxWrite(c, write))
  BY <1>4, BlocksStay DEF WithinSlab
<1> QED
  BY <1>2, <1>3, <1>4

\* With data that respects the announced size, every block lies inside the
\* mapping and is aligned as asked for.
THEOREM StaysWithinSlab ==
  ASSUME DataWithinCap
  PROVE  Spec => []WithinSlab
<1>1. Init => TypeOK /\ WithinSlab
  BY TypeInit DEF Init, WithinSlab
<1>2. TypeOK /\ WithinSlab /\ [Next]_vars => (TypeOK /\ WithinSlab)'
  BY WithinNext, TypeNext, NextIsAny
<1> QED
  BY <1>1, <1>2, PTL DEF Spec

-----------------------------------------------------------------------------
(* Blocks in use do not overlap. *)

\* A write's block is above every other safe block.
LEMMA IntactWrite ==
  ASSUME TypeOK, LiveCodeIntact, undercut' = undercut,
         NEW p \in 1 .. MaxProgs, NEW c, Request(c), NEW write \in BOOLEAN,
         Place(p, c, write)
  PROVE  LiveCodeIntact'
<1>1. PICK b \in Block : /\ code' = code \cup {b}
                         /\ cursor <= b.lo /\ b.lo <= b.hi /\ cursor' = b.hi
  BY PlaceFacts
<1>2. cursor \in Nat /\ code \in SUBSET Block /\ b.lo \in Nat /\ b.hi \in Nat
  BY DEF TypeOK, Block
<1>3. \A d \in code : d.hi \in Nat /\ d.lo \in Nat
  BY <1>2 DEF Block
<1>4. \A d \in code : Safe(d) => d.hi <= b.lo /\ d.hi <= cursor'
  BY <1>1, <1>2, <1>3 DEF LiveCodeIntact
<1>5. \A d : Safe(d)' <=> Safe(d)
  BY DEF Safe
<1>6. \A d, e \in code' : (d # e /\ Safe(d) /\ Safe(e)) => (d.hi <= e.lo \/ e.hi <= d.lo)
  BY <1>1, <1>4 DEF LiveCodeIntact
<1>7. \A d \in code' : Safe(d) => d.hi <= cursor'
  BY <1>1, <1>2, <1>4
<1> QED
  BY <1>5, <1>6, <1>7 DEF LiveCodeIntact

\* A step that keeps, drops or re-marks blocks, each under a rule that maps
\* one block to one, and does not lower the cursor under a safe one.
LEMMA IntactKeep ==
  ASSUME LiveCodeIntact, undercut \subseteq undercut',
         NEW origin, \A e \in code' : /\ origin[e] \in code
                                    /\ origin[e].prog = e.prog
                                    /\ origin[e].lo = e.lo /\ origin[e].hi = e.hi,
         \A d, e \in code' : origin[d] = origin[e] => d = e,
         \A e \in code' : e.prog \notin undercut' /\ e.hi <= cursor => e.hi <= cursor'
  PROVE  LiveCodeIntact'
<1>1. \A e \in code' : e.prog \notin undercut' => Safe(origin[e])
  BY DEF Safe
<1>2. \A d, e \in code' :
        (d # e /\ d.prog \notin undercut' /\ e.prog \notin undercut')
          => (d.hi <= e.lo \/ e.hi <= d.lo)
  BY <1>1 DEF LiveCodeIntact
<1>3. \A e \in code' : e.prog \notin undercut' => e.hi <= cursor'
  BY <1>1 DEF LiveCodeIntact
<1> QED
  BY <1>2, <1>3 DEF LiveCodeIntact, Safe

\* Every step keeps safe blocks apart and below the cursor.
LEMMA IntactNext ==
  ASSUME TypeOK, Watermarks, LiveCodeIntact, [AnyNext]_vars
  PROVE  LiveCodeIntact'
<1>0. code \in SUBSET Block
  BY DEF TypeOK
<1>1. ASSUME NEW c, Request(c), WriteFn(c)
      PROVE  LiveCodeIntact'
  <2>1. progs + 1 \in 1 .. MaxProgs
    BY <1>1, SlabAssumption DEF TypeOK, WriteFn
  <2> QED
    BY <1>1, <2>1, IntactWrite DEF WriteFn
<1>2. ASSUME NEW c, Request(c), NEW write \in BOOLEAN, TxWrite(c, write)
      PROVE  LiveCodeIntact'
  <2>1. Top.id \in 1 .. MaxProgs
    BY <1>2, TopFacts DEF TxWrite, Tx
  <2> QED
    BY <1>2, <2>1, IntactWrite DEF TxWrite
<1>3. ASSUME code' \subseteq code, undercut \subseteq undercut',
             \A e \in code' : e.prog \notin undercut' /\ e.hi <= cursor => e.hi <= cursor'
      PROVE  LiveCodeIntact'
  <2> DEFINE origin == [e \in code' |-> e]
  <2>1. \A e \in code' : origin[e] = e
    OBVIOUS
  <2> HIDE DEF origin
  <2> QED
    BY <1>3, <2>1, IntactKeep
<1>4. ASSUME NEW blocks \in SUBSET code, Patch(blocks)
      PROVE  LiveCodeIntact'
  <2> DEFINE patched(b) == IF b \in blocks THEN [b EXCEPT !.flushed = FALSE] ELSE b
             origin == [e \in code' |-> CHOOSE b \in code : e = patched(b)]
  <2>1. code' \subseteq {patched(b) : b \in code}
    BY <1>4 DEF Patch
  <2>2. \A e \in code' : origin[e] \in code /\ e = patched(origin[e])
    BY <2>1
  <2>3. \A b \in code : patched(b).prog = b.prog /\ patched(b).lo = b.lo /\ patched(b).hi = b.hi
    BY <1>0 DEF Block
  <2>4. undercut' = undercut /\ cursor' = cursor
    BY <1>4 DEF Patch
  <2> HIDE DEF origin, patched
  <2>5. \A e \in code' : /\ origin[e] \in code
                        /\ origin[e].prog = e.prog
                        /\ origin[e].lo = e.lo /\ origin[e].hi = e.hi
    BY <2>2, <2>3
  <2>6. \A d, e \in code' : origin[d] = origin[e] => d = e
    BY <2>2
  <2> QED
    BY <2>4, <2>5, <2>6, IntactKeep
<1>5. CASE Commit
  <2> DEFINE flushed(b) == IF b.hi <= cursor - Top.cursor
                           THEN [b EXCEPT !.flushed = TRUE] ELSE b
             origin == [e \in code' |-> CHOOSE b \in code : e = flushed(b)]
  <2>1. code' \subseteq {flushed(b) : b \in code}
    BY <1>5 DEF Commit, FlushFrom
  <2>2. \A e \in code' : origin[e] \in code /\ e = flushed(origin[e])
    BY <2>1
  <2>3. \A b \in code : flushed(b).prog = b.prog /\ flushed(b).lo = b.lo /\ flushed(b).hi = b.hi
    BY <1>0 DEF Block
  <2>4. undercut' = undercut /\ cursor' = cursor
    BY <1>5 DEF Commit
  <2> HIDE DEF origin, flushed
  <2>5. \A e \in code' : /\ origin[e] \in code
                        /\ origin[e].prog = e.prog
                        /\ origin[e].lo = e.lo /\ origin[e].hi = e.hi
    BY <2>2, <2>3
  <2>6. \A d, e \in code' : origin[d] = origin[e] => d = e
    BY <2>2
  <2> QED
    BY <2>4, <2>5, <2>6, IntactKeep
<1>6. CASE Abort
  <2>1. code' \subseteq code /\ undercut \subseteq undercut' /\ cursor' = Top.cursor
    BY <1>6 DEF Abort
  <2>2. \A e \in code' : e.hi > Top.cursor => e.prog \in undercut'
    BY <1>6 DEF Abort
  <2>3. Top.cursor \in Nat /\ \A e \in code : e.hi \in Nat
    BY <1>0, <1>6, TopFacts DEF Abort, Tx, Block
  <2> QED
    BY <1>3, <2>1, <2>2, <2>3
<1>7. ASSUME NEW h \in handles, Release(h)
      PROVE  LiveCodeIntact'
  BY <1>3, <1>7 DEF Release
<1>8. CASE (\E t \in Totals : Begin(t)) \/ TryFree \/ Leak \/ UNCHANGED vars
  BY <1>3, <1>8 DEF Begin, TryFree, Leak, vars
<1> QED
  BY <1>1, <1>2, <1>4, <1>5, <1>6, <1>7, <1>8 DEF AnyNext

\* Functions in use never overlap and the next write never reaches one,
\* except for what a dropped outer transaction left above the cursor.
THEOREM LiveCodeStaysIntact == Spec => []LiveCodeIntact
<1> DEFINE I == TypeOK /\ Watermarks /\ LiveCodeIntact
<1>1. Init => I
  BY TypeInit DEF Init, Watermarks, LiveCodeIntact
<1>2. I /\ [Next]_vars => I'
  BY IntactNext, TypeNext, MarkNext, NextIsAny DEF MarkInv
<1>3. I => LiveCodeIntact
  OBVIOUS
<1> HIDE DEF I
<1> QED
  BY <1>1, <1>2, <1>3, PTL DEF Spec

-----------------------------------------------------------------------------
(* What stays of a program, for clients that keep addresses of it. *)

\* commit keeps every block in its place, and those of a program that asked
\* for no reference only, it forgets.
LEMMA CommitBlocks ==
  ASSUME TypeOK, Commit, NEW b \in code, b.prog = Top.id => Top.total > 0
  PROVE  \E e \in code' : /\ e.prog = b.prog /\ e.lo = b.lo /\ e.hi = b.hi
                          /\ b.hi <= cursor - Top.cursor => e.flushed
<1> DEFINE e == IF b.hi <= cursor - Top.cursor THEN [b EXCEPT !.flushed = TRUE] ELSE b
<1>1. b \in Block
  BY DEF TypeOK
<1>2. e.prog = b.prog /\ e.lo = b.lo /\ e.hi = b.hi /\ (b.hi <= cursor - Top.cursor => e.flushed)
  BY <1>1 DEF Block
<1>3. e \in FlushFrom(Top.cursor, code)
  BY DEF FlushFrom
<1> HIDE DEF e
<1>4. e \in code'
  BY <1>2, <1>3 DEF Commit
<1> QED
  BY <1>2, <1>4

\* A release takes no block of an open transaction.
LEMMA ReleaseKept ==
  ASSUME CountInv, NEW h \in handles, Release(h)
  PROVE  /\ txs' = txs /\ cursor' = cursor /\ undercut' = undercut
         /\ progs' = progs /\ handles' \subseteq handles /\ status' = status
         /\ code' \subseteq code
         /\ InTx => \A b \in code : b.prog = Top.id => b \in code'
         /\ \A b \in code : (\E g \in handles' : g[1] = b.prog) => b \in code'
<1>1. InTx => h[1] # Top.id
  BY TopFacts DEF CountInv, Identities
<1> QED
  BY <1>1 DEF Release

\* p has users and its slab is there.
Mapped(p) == status = "mapped" /\ Live(p)

\* A program that is nobody's transaction stays nobody's; while it is in use
\* it was so before, and all its blocks stay.
LEMMA ProgramStays ==
  ASSUME CountInv, [AnyNext]_vars, NEW p \in 1 .. progs,
         \A i \in DOMAIN txs : txs[i].id # p
  PROVE  /\ p \in 1 .. progs'
         /\ \A i \in DOMAIN txs' : txs'[i].id # p
         /\ undercut \subseteq undercut'
         /\ Mapped(p)' =>
              /\ Mapped(p)
              /\ \A b \in code : b.prog = p =>
                   \E e \in code' : e.prog = b.prog /\ e.lo = b.lo /\ e.hi = b.hi
<1> DEFINE Stays == \A b \in code : b.prog = p =>
                      \E e \in code' : e.prog = b.prog /\ e.lo = b.lo /\ e.hi = b.hi
<1>0. TypeOK /\ CountInv /\ Identities /\ progs \in Nat
  BY SlabAssumption DEF CountInv, TypeOK
<1>t. /\ Len(txs) \in Nat /\ DOMAIN txs = 1 .. Len(txs)
      /\ InTx => /\ Top.id # p
                 /\ DOMAIN SubSeq(txs, 1, Len(txs) - 1) = 1 .. Len(txs) - 1
                 /\ \A i \in 1 .. Len(txs) - 1 :
                      i \in DOMAIN txs /\ SubSeq(txs, 1, Len(txs) - 1)[i] = txs[i]
  <2>1. Len(txs) \in Nat /\ DOMAIN txs = 1 .. Len(txs)
    BY <1>0, TxFacts
  <2>2. ASSUME InTx
        PROVE  /\ Top.id # p
               /\ DOMAIN SubSeq(txs, 1, Len(txs) - 1) = 1 .. Len(txs) - 1
               /\ \A i \in 1 .. Len(txs) - 1 :
                    i \in DOMAIN txs /\ SubSeq(txs, 1, Len(txs) - 1)[i] = txs[i]
    BY <1>0, <2>2, TopFacts
  <2> QED
    BY <2>1, <2>2
<1>1. ASSUME NEW c, Request(c), WriteFn(c)
      PROVE  progs' = progs + 1 /\ txs' = txs /\ undercut \subseteq undercut' /\ (Mapped(p)' => Mapped(p)) /\ Stays
  <2>1. /\ progs' = progs + 1 /\ txs' = txs /\ status' = status /\ undercut' = undercut
        /\ code \subseteq code' /\ handles' = handles \cup ({progs + 1} \X (1 .. 1))
    BY <1>1 DEF WriteFn, Place, HandOut
  <2>2. Live(p)' => Live(p)
    BY <1>0, <2>1 DEF Live
  <2> QED
    BY <2>1, <2>2 DEF Mapped
<1>2. ASSUME NEW c, Request(c), NEW write \in BOOLEAN, TxWrite(c, write)
      PROVE  /\ progs' = progs /\ DOMAIN txs' = DOMAIN txs
             /\ \A i \in DOMAIN txs : txs'[i].id = txs[i].id
             /\ undercut \subseteq undercut' /\ (Mapped(p)' => Mapped(p)) /\ Stays
  <2>1. Len(txs) \in DOMAIN txs /\ Top \in Tx /\ Top = txs[Len(txs)] /\ txs \in Seq(Tx)
    BY <1>0, <1>2, TopFacts DEF TxWrite, TypeOK
  <2>2. DOMAIN txs' = DOMAIN txs /\ \A i \in DOMAIN txs : txs'[i].id = txs[i].id
    BY <1>2, <2>1 DEF TxWrite, Tx
  <2>3. /\ progs' = progs /\ handles' = handles /\ status' = status /\ undercut' = undercut
        /\ code \subseteq code'
    BY <1>2 DEF TxWrite, Place
  <2> QED
    BY <2>2, <2>3 DEF Mapped, Live
<1>3. ASSUME NEW t \in Totals, Begin(t)
      PROVE  /\ progs' = progs + 1
             /\ \A i \in DOMAIN txs' : txs'[i].id # p
             /\ undercut \subseteq undercut' /\ (Mapped(p)' => Mapped(p)) /\ Stays
  <2>1. /\ DOMAIN txs' = 1 .. Len(txs) + 1
        /\ \A i \in DOMAIN txs : txs'[i] = txs[i]
        /\ txs'[Len(txs) + 1].id = progs + 1
    BY <1>0, <1>3, <1>t DEF Begin, TypeOK
  <2>2. \A i \in DOMAIN txs' : txs'[i].id # p
    BY <1>0, <1>t, <2>1
  <2> QED
    BY <1>3, <2>2 DEF Begin, Mapped, Live
<1>4. ASSUME NEW blocks \in SUBSET code, Patch(blocks)
      PROVE  progs' = progs /\ txs' = txs /\ undercut \subseteq undercut' /\ (Mapped(p)' => Mapped(p)) /\ Stays
  <2>1. code' = (code \ blocks) \cup {[b EXCEPT !.flushed = FALSE] : b \in blocks}
    BY <1>4 DEF Patch
  <2>2. ASSUME NEW b \in code
        PROVE  \E e \in code' : e.prog = b.prog /\ e.lo = b.lo /\ e.hi = b.hi
    <3>1. CASE b \notin blocks
      BY <2>1, <3>1
    <3>2. CASE b \in blocks
      <4>1. b \in Block /\ [b EXCEPT !.flushed = FALSE] \in code'
        BY <1>0, <2>1, <3>2 DEF TypeOK
      <4> QED
        BY <4>1 DEF Block
    <3> QED
      BY <3>1, <3>2
  <2> QED
    BY <1>4, <2>2 DEF Patch, Mapped, Live
<1>5. ASSUME Commit
      PROVE  /\ progs' = progs /\ \A i \in DOMAIN txs' : txs'[i].id # p
             /\ undercut \subseteq undercut' /\ (Mapped(p)' => Mapped(p)) /\ Stays
  <2>1. /\ InTx /\ progs' = progs /\ status' = status /\ undercut' = undercut
        /\ txs' = SubSeq(txs, 1, Len(txs) - 1)
        /\ handles' = handles \cup ({Top.id} \X (1 .. Top.total))
    BY <1>5 DEF Commit, HandOut
  <2>2. Live(p)' => Live(p)
    BY <1>t, <2>1 DEF Live
  <2>3. Stays
    BY <1>0, <1>5, <1>t, <2>1, CommitBlocks
  <2> QED
    BY <1>t, <2>1, <2>2, <2>3 DEF Mapped
<1>6. ASSUME Abort
      PROVE  /\ progs' = progs /\ \A i \in DOMAIN txs' : txs'[i].id # p
             /\ undercut \subseteq undercut' /\ (Mapped(p)' => Mapped(p)) /\ Stays
  <2>1. /\ InTx /\ progs' = progs /\ status' = status /\ undercut \subseteq undercut'
        /\ txs' = SubSeq(txs, 1, Len(txs) - 1) /\ handles' = handles
        /\ code' = {b \in code : b.prog # Top.id}
    BY <1>6 DEF Abort
  <2>2. Stays
    BY <1>t, <2>1
  <2> QED
    BY <1>t, <2>1, <2>2 DEF Mapped, Live
<1>7. ASSUME NEW h \in handles, Release(h)
      PROVE  progs' = progs /\ txs' = txs /\ undercut' = undercut /\ (Mapped(p)' => Mapped(p) /\ Stays)
  BY <1>0, <1>7, ReleaseKept DEF Mapped, Live
<1>8. ASSUME TryFree \/ Leak \/ UNCHANGED vars
      PROVE  progs' = progs /\ txs' = txs /\ undercut \subseteq undercut' /\ (Mapped(p)' => Mapped(p)) /\ Stays
  BY <1>8 DEF TryFree, Leak, vars, Mapped, Live
<1>9. progs' \in {progs, progs + 1} => p \in 1 .. progs'
  BY <1>0
<1> QED
  BY <1>1, <1>2, <1>3, <1>4, <1>5, <1>6, <1>7, <1>8, <1>9 DEF AnyNext

\* The blocks of the innermost transaction stay while it is open.
LEMMA OpenStays ==
  ASSUME CountInv, InTx,
         \/ \E c, write : Request(c) /\ write \in BOOLEAN /\ TxWrite(c, write)
         \/ \E blocks \in SUBSET code : Patch(blocks)
         \/ \E h \in handles : Release(h)
         \/ UNCHANGED vars
  PROVE  /\ InTx' /\ Top'.id = Top.id /\ Top'.total = Top.total /\ Top'.cursor = Top.cursor
         /\ \A b \in code : b.prog = Top.id =>
              \E e \in code' : e.prog = b.prog /\ e.lo = b.lo /\ e.hi = b.hi
<1>0. TypeOK /\ code \subseteq Block
  BY DEF CountInv, TypeOK
<1>1. ASSUME txs' = txs
      PROVE  InTx' /\ Top'.id = Top.id /\ Top'.total = Top.total /\ Top'.cursor = Top.cursor
  BY <1>1 DEF InTx, Top
<1>2. ASSUME NEW c, NEW write \in BOOLEAN, TxWrite(c, write)
      PROVE  /\ InTx' /\ Top'.id = Top.id /\ Top'.total = Top.total /\ Top'.cursor = Top.cursor
             /\ code \subseteq code'
  <2>1. /\ Len(txs) \in Nat \ {0} /\ Len(txs) \in DOMAIN txs
        /\ Top = txs[Len(txs)] /\ Top \in Tx /\ txs \in Seq(Tx)
    BY <1>0, TopFacts DEF TypeOK
  <2>2. txs' = [txs EXCEPT ![Len(txs)] = [Top EXCEPT !.writes = @ + 1]]
    BY <1>2, <2>1 DEF TxWrite
  <2>3. Len(txs') = Len(txs) /\ txs'[Len(txs)] = [Top EXCEPT !.writes = @ + 1]
    BY <2>1, <2>2
  <2>4. Top'.id = Top.id /\ Top'.total = Top.total /\ Top'.cursor = Top.cursor /\ InTx'
    BY <2>1, <2>3 DEF Top, InTx, Tx
  <2> QED
    BY <1>2, <2>4 DEF TxWrite, Place
<1>3. ASSUME NEW blocks \in SUBSET code, Patch(blocks), NEW b \in code
      PROVE  \E e \in code' : e.prog = b.prog /\ e.lo = b.lo /\ e.hi = b.hi
  <2>1. code' = (code \ blocks) \cup {[d EXCEPT !.flushed = FALSE] : d \in blocks}
    BY <1>3 DEF Patch
  <2>2. CASE b \notin blocks
    BY <2>1, <2>2
  <2>3. CASE b \in blocks
    <3>1. b \in Block /\ [b EXCEPT !.flushed = FALSE] \in code'
      BY <1>0, <2>1, <2>3
    <3> QED
      BY <3>1 DEF Block
  <2> QED
    BY <2>2, <2>3
<1>4. ASSUME NEW h \in handles, Release(h)
      PROVE  txs' = txs /\ \A b \in code : b.prog = Top.id => b \in code'
  BY <1>4, ReleaseKept
<1>5. ASSUME NEW blocks \in SUBSET code, Patch(blocks)
      PROVE  txs' = txs
  BY <1>5 DEF Patch
<1>6. CASE \E c, write : Request(c) /\ write \in BOOLEAN /\ TxWrite(c, write)
  BY <1>2, <1>6
<1>7. CASE \E blocks \in SUBSET code : Patch(blocks)
  BY <1>1, <1>3, <1>5, <1>7
<1>8. CASE \E h \in handles : Release(h)
  BY <1>1, <1>4, <1>8
<1>9. CASE UNCHANGED vars
  BY <1>1, <1>9 DEF vars
<1> QED
  BY <1>6, <1>7, <1>8, <1>9
=============================================================================
