------------------------- MODULE DynamicMemoryProofs -------------------------
(***************************************************************************)
(* What holds of every pool, however many slabs it maps, wherever they     *)
(* land, whatever is asked of it and however releases fall between its     *)
(* steps.                                                                  *)
(*                                                                         *)
(* Five invariants, each with what makes it inductive: types; the init     *)
(* blob, because every mark a roll-back returns to is above it; ownership, *)
(* because swap_remove of a vector without repetitions loses only the slab *)
(* it was asked for; counting, slab by slab, because a program's handles   *)
(* are all made at once, in one slab, under a fresh identity, which makes  *)
(* every step a step of CodeStore; and room, for what a call has yet to    *)
(* write and, above its mark, for all it asked for.                        *)
(***************************************************************************)
EXTENDS DynamicMemory, LayoutProofs, FiniteSetTheorems, FunctionTheorems, SequenceTheorems

SlabRec == [base : Bases, size : Nat, cursor : Nat, stored : 0 .. Word - 1, mapped : BOOLEAN]
Handle  == (1 .. MaxProgs) \X (DOMAIN slabs) \X Nat

TxOp == [kind : {"tx"}, slab : Nat, mark : Nat, total : Totals, writes : Nat,
         todo : Seq(Item), req : Seq(Item), id : 1 .. MaxProgs]
GcOp == [kind : {"gc"}, i : Nat, idle : SUBSET Nat]

\* The types of the call the owner is in, which TypeOK leaves open.
OpOK == op \in {Idle} \cup TxOp \cup GcOp

TypeInv == TypeOK /\ OpOK /\ IsFiniteSet(handles) /\ GcIndexInBounds

\* What the kind of the call says about its other fields.
LEMMA OpFacts ==
  ASSUME TypeInv
  PROVE  /\ Running("tx") =>
              /\ op \in TxOp /\ op.slab \in DOMAIN slabs
              /\ op.mark \in Nat /\ op.writes \in Nat /\ op.total \in Totals
              /\ op.total \in Nat \ {0} /\ op.id \in 1 .. MaxProgs /\ op.todo \in Seq(Item)
         /\ Running("gc") => op \in GcOp /\ op.i \in Nat /\ op.idle \subseteq Nat
         /\ Running("idle") => op = Idle
<1>1. op \in {Idle} \cup TxOp \cup GcOp
  BY DEF TypeInv, OpOK
<1>2. Idle.kind = "idle" /\ (\A o \in TxOp : o.kind = "tx") /\ (\A o \in GcOp : o.kind = "gc")
  BY DEF Idle, TxOp, GcOp
<1>3. \A t \in Totals : t \in Nat \ {0}
  BY PoolAssumption
<1>4. \A o \in TxOp : /\ o.mark \in Nat /\ o.writes \in Nat /\ o.total \in Totals
                     /\ o.total \in Nat \ {0} /\ o.id \in 1 .. MaxProgs /\ o.todo \in Seq(Item)
  BY <1>3 DEF TxOp
<1>5. \A o \in GcOp : o.i \in Nat /\ o.idle \subseteq Nat
  BY DEF GcOp
<1>6. Running("tx") => op \in TxOp /\ op.slab \in DOMAIN slabs
  BY <1>1, <1>2 DEF Running, TypeInv, TypeOK
<1>7. Running("gc") => op \in GcOp
  BY <1>1, <1>2 DEF Running
<1>8. Running("idle") => op = Idle
  BY <1>1, <1>2 DEF Running
<1> QED
  BY <1>4, <1>5, <1>6, <1>7, <1>8

\* The slabs are a sequence of slabs.
LEMMA SlabFacts ==
  ASSUME TypeOK
  PROVE  /\ slabs \in Seq(SlabRec)
         /\ Len(slabs) \in Nat /\ DOMAIN slabs = 1 .. Len(slabs)
         /\ \A s \in DOMAIN slabs :
              /\ slabs[s] \in SlabRec
              /\ slabs[s].base \in Nat /\ slabs[s].size \in Nat /\ slabs[s].cursor \in Nat
              /\ slabs[s].stored \in 0 .. Word - 1 /\ slabs[s].mapped \in BOOLEAN
<1>1. slabs \in Seq(SlabRec)
  BY DEF TypeOK, SlabRec
<1>2. \A s \in DOMAIN slabs : slabs[s] \in SlabRec
  BY <1>1
<1>3. \A r \in SlabRec : /\ r.base \in Nat /\ r.size \in Nat /\ r.cursor \in Nat
                         /\ r.stored \in 0 .. Word - 1 /\ r.mapped \in BOOLEAN
  BY PoolAssumption DEF SlabRec
<1> QED
  BY <1>1, <1>2, <1>3

\* Replacing one slab's record touches no other's.
LEMMA SlabExcept ==
  ASSUME TypeOK, NEW s \in DOMAIN slabs, NEW r \in SlabRec, slabs' = [slabs EXCEPT ![s] = r]
  PROVE  /\ slabs' \in Seq(SlabRec)
         /\ Len(slabs') = Len(slabs) /\ DOMAIN slabs' = DOMAIN slabs
         /\ slabs'[s] = r
         /\ \A x \in DOMAIN slabs \ {s} : slabs'[x] = slabs[x]
<1>1. slabs \in Seq(SlabRec)
  BY SlabFacts
<1> QED
  BY <1>1

\* The vector of the pool and its positions.
LEMMA ExecFacts ==
  ASSUME TypeOK
  PROVE  /\ Len(execs) \in Nat /\ DOMAIN execs = 1 .. Len(execs)
         /\ \A i \in DOMAIN execs : execs[i] \in DOMAIN slabs
<1>1. execs \in Seq(DOMAIN slabs)
  BY DEF TypeOK
<1> QED
  BY <1>1

\* Where the next function goes.
LEMMA StartFacts ==
  ASSUME NEW base \in Nat, NEW cursor \in Nat, NEW align \in Nat \ {0}
  PROVE  /\ StartOffset(base, cursor, align) \in Nat
         /\ cursor <= StartOffset(base, cursor, align)
         /\ StartOffset(base, cursor, align) < cursor + align
<1>1. base + cursor \in Nat
  OBVIOUS
<1>2. /\ AlignUp(base + cursor, align) \in Nat
      /\ base + cursor <= AlignUp(base + cursor, align)
      /\ AlignUp(base + cursor, align) < base + cursor + align
  BY <1>1, AlignUpFacts
<1> QED
  BY <1>2 DEF StartOffset

\* A counter stays in its word.
LEMMA WrapType ==
  ASSUME NEW x \in Int
  PROVE  Wrap(x) \in 0 .. Word - 1
  BY PoolAssumption, Euclid DEF Wrap

\* alloc: the new slab is well-formed, and the init blob fits it wherever it
\* was mapped, so that the cursor is above the blob.
LEMMA FreshFacts ==
  ASSUME NEW need \in Nat, NEW base \in Bases
  PROVE  /\ FreshSlab(base, need) \in SlabRec
         /\ FreshSlab(base, need).base = base
         /\ FreshSlab(base, need).stored = 0
         /\ FreshSlab(base, need).mapped
         /\ FreshSlab(base, need).cursor = StartOffset(base, 0, InitAlign) + InitLen
         /\ FreshSlab(base, need).cursor + need <= FreshSlab(base, need).size
<1> DEFINE want  == need + InitLen + InitAlign
           units == SlabUnits(need, InitLen, InitAlign, Unit)
           start == StartOffset(base, 0, InitAlign)
<1>1. /\ base \in Nat /\ InitLen \in Nat /\ InitAlign \in Nat \ {0}
      /\ Unit \in Nat \ {0} /\ Word \in Nat \ {0}
  BY PoolAssumption
<1>2. want \in Nat \ {0}
  BY <1>1
<1>3. /\ want + Unit - 1 \in Int /\ DivCeil(want, Unit) \in Int
      /\ DivCeil(want, Unit) * Unit = AlignUp(want, Unit)
  BY <1>1, <1>2, Euclid DEF DivCeil, AlignUp
<1>4. AlignUp(want, Unit) \in Nat /\ want <= AlignUp(want, Unit)
  BY <1>1, <1>2, AlignUpFacts
<1>5. DivCeil(want, Unit) >= 1
  <2>1. DivCeil(want, Unit) <= 0 => DivCeil(want, Unit) * Unit <= 0
    BY <1>1, <1>3
  <2> QED
    BY <1>2, <1>3, <1>4, <2>1
<1>6. units = DivCeil(want, Unit)
  BY <1>3, <1>5 DEF SlabUnits
<1>7. Unit * units \in Nat /\ want <= Unit * units
  BY <1>1, <1>3, <1>4, <1>5, <1>6
<1>8. start \in Nat /\ start < InitAlign
  BY <1>1, StartFacts
<1>9. Fits(base, Unit * units, 0, InitAlign, InitLen)
  BY <1>1, <1>7, <1>8 DEF Fits
<1>10. FreshSlab(base, need) = [base |-> base, size |-> Unit * units, stored |-> 0,
                                mapped |-> TRUE, cursor |-> start + InitLen]
  BY <1>9 DEF FreshSlab
<1>11. start + InitLen \in Nat /\ 0 \in 0 .. Word - 1
  BY <1>1, <1>8
<1> QED
  BY <1>1, <1>7, <1>8, <1>10, <1>11 DEF SlabRec

-----------------------------------------------------------------------------
(* What each step does to the slabs, position by position. *)

\* A request's items and what alloc asks for them.
LEMMA RequestFacts ==
  ASSUME NEW req \in Requests
  PROVE  req \in Seq(Item) /\ WorstCase(req) \in Nat
<1>1. req \in Seq(Item)
  BY PoolAssumption DEF Item
<1>2. 0 \in Nat
  OBVIOUS
<1> QED
  BY <1>1, <1>2, LayoutWithinWorstCase

\* A slab is appended: none of the others changes.
LEMMA AllocEffect ==
  ASSUME TypeInv, NEW req \in Requests, NEW t \in Totals, NEW b \in Bases,
         ProcessAlloc(req, t, b)
  PROVE  LET s    == Len(slabs) + 1
             slab == FreshSlab(b, WorstCase(req))
         IN  /\ slabs' \in Seq(SlabRec) /\ Len(slabs') = s
             /\ DOMAIN slabs' = DOMAIN slabs \cup {s} /\ s \notin DOMAIN slabs
             /\ slabs'[s] = slab /\ slab \in SlabRec /\ slab.mapped /\ slab.stored = 0
             /\ \A x \in DOMAIN slabs : slabs'[x] = slabs[x]
             /\ debt' \in [DOMAIN slabs' -> Nat] /\ debt'[s] = 0
             /\ \A x \in DOMAIN slabs : debt'[x] = debt[x]
             /\ execs' \in Seq(DOMAIN slabs') /\ execs' = Append(execs, s)
             /\ op' = Transact(s, slab.cursor, req, t)
             /\ progs' = progs + 1 /\ handles' = handles
<1> DEFINE s    == Len(slabs) + 1
           slab == FreshSlab(b, WorstCase(req))
<1>1. TypeOK /\ slabs \in Seq(SlabRec) /\ Len(slabs) \in Nat /\ DOMAIN slabs = 1 .. Len(slabs)
  BY SlabFacts DEF TypeInv
<1>2. slab \in SlabRec /\ slab.mapped /\ slab.stored = 0
  BY RequestFacts, FreshFacts
<1>3. slabs' = Append(slabs, slab) /\ debt' = Append(debt, 0) /\ execs' = Append(execs, s)
  BY DEF ProcessAlloc
<1>4. /\ slabs' \in Seq(SlabRec) /\ Len(slabs') = s /\ DOMAIN slabs' = 1 .. s
      /\ slabs'[s] = slab /\ \A x \in DOMAIN slabs : slabs'[x] = slabs[x]
  BY <1>1, <1>2, <1>3
<1>5. DOMAIN slabs' = DOMAIN slabs \cup {s} /\ s \notin DOMAIN slabs
  BY <1>1, <1>4
<1>6. debt \in Seq(Nat) /\ Len(debt) = Len(slabs)
  <2>1. debt \in [1 .. Len(slabs) -> Nat]
    BY <1>1 DEF TypeOK
  <2>2. debt \in Seq(Nat)
    BY <1>1, <2>1, SeqDef
  <2> QED
    BY <1>1, <2>1, <2>2, LenProperties
<1>7. /\ debt' \in [DOMAIN slabs' -> Nat] /\ debt'[s] = 0
      /\ \A x \in DOMAIN slabs : debt'[x] = debt[x]
  <2>1. /\ debt' \in Seq(Nat) /\ Len(debt') = s
        /\ debt'[s] = 0 /\ \A x \in 1 .. Len(slabs) : debt'[x] = debt[x]
    BY <1>1, <1>3, <1>6
  <2> QED
    BY <1>1, <1>4, <2>1, LenProperties
<1>8. execs' \in Seq(DOMAIN slabs')
  <2>1. execs \in Seq(DOMAIN slabs')
    BY <1>1, <1>5, ExecFacts DEF TypeOK
  <2> QED
    BY <1>3, <1>5, <2>1
<1> QED
  BY <1>2, <1>3, <1>4, <1>5, <1>7, <1>8 DEF ProcessAlloc

\* One slab's record is replaced by r: what the other steps do.
Becomes(s, r) ==
  /\ slabs' \in Seq(SlabRec) /\ DOMAIN slabs' = DOMAIN slabs
  /\ s \in DOMAIN slabs /\ r \in SlabRec /\ slabs'[s] = r
  /\ \A x \in DOMAIN slabs \ {s} : slabs'[x] = slabs[x]

\* A write in the transaction.
LEMMA TxWriteEffect ==
  ASSUME TypeInv, TxWrite
  PROVE  LET s == op.slab
         IN  \E c \in Nat : /\ slabs[s].cursor <= c
                            /\ Becomes(s, [slabs[s] EXCEPT !.cursor = c])
<1> DEFINE s    == op.slab
           item == Head(op.todo)
           c    == StartOffset(slabs[s].base, slabs[s].cursor, item.align) + item.size
<1>1. TypeOK /\ op \in TxOp /\ s \in DOMAIN slabs
  BY OpFacts DEF TypeInv, TxWrite
<1>2. item \in Item
  <2>1. op.todo \in Seq(Item) /\ op.todo # <<>>
    BY <1>1 DEF TxOp, TxWrite
  <2> QED
    BY <2>1
<1>3. item.size \in Nat /\ item.align \in Nat \ {0}
  BY <1>2 DEF Item
<1>4. slabs[s] \in SlabRec /\ slabs[s].base \in Nat /\ slabs[s].cursor \in Nat
  BY <1>1, SlabFacts
<1>5. c \in Nat /\ slabs[s].cursor <= c
  <2>1. /\ StartOffset(slabs[s].base, slabs[s].cursor, item.align) \in Nat
        /\ slabs[s].cursor <= StartOffset(slabs[s].base, slabs[s].cursor, item.align)
    BY <1>3, <1>4, StartFacts
  <2> QED
    BY <1>3, <1>4, <2>1
<1>6. [slabs[s] EXCEPT !.cursor = c] \in SlabRec
  BY <1>4, <1>5 DEF SlabRec
<1>7. slabs' = [slabs EXCEPT ![s] = [slabs[s] EXCEPT !.cursor = c]]
  BY <1>1, <1>4 DEF TxWrite, SlabRec
<1> QED
  BY <1>1, <1>5, <1>6, <1>7, SlabExcept DEF Becomes

\* A commit.
LEMMA OkEffect ==
  ASSUME TypeInv, ProcessOk
  PROVE  LET s == op.slab
         IN  Becomes(s, [slabs[s] EXCEPT !.stored = Wrap(slabs[s].stored + op.total)])
<1> DEFINE s == op.slab
           n == Wrap(slabs[s].stored + op.total)
<1>1. TypeOK /\ op \in TxOp /\ s \in DOMAIN slabs
  BY OpFacts DEF TypeInv, ProcessOk
<1>2. slabs[s] \in SlabRec /\ slabs[s].stored \in Int
  BY <1>1, SlabFacts
<1>3. op.total \in Int
  BY OpFacts DEF ProcessOk
<1>4. n \in 0 .. Word - 1
  BY <1>2, <1>3, WrapType
<1>5. [slabs[s] EXCEPT !.stored = n] \in SlabRec
  BY <1>2, <1>4 DEF SlabRec
<1>6. slabs' = [slabs EXCEPT ![s] = [slabs[s] EXCEPT !.stored = n]]
  BY <1>1, <1>2 DEF ProcessOk, SlabRec
<1> QED
  BY <1>1, <1>5, <1>6, SlabExcept DEF Becomes

\* A roll-back.
LEMMA ErrEffect ==
  ASSUME TypeInv, ProcessErr
  PROVE  LET s == op.slab
         IN  Becomes(s, [slabs[s] EXCEPT !.cursor = op.mark,
                                         !.stored = Wrap(slabs[s].stored - op.writes)])
<1> DEFINE s == op.slab
           n == Wrap(slabs[s].stored - op.writes)
           r == [slabs[s] EXCEPT !.cursor = op.mark, !.stored = n]
<1>1. TypeOK /\ op \in TxOp /\ s \in DOMAIN slabs
  BY OpFacts DEF TypeInv, ProcessErr
<1>2. slabs[s] \in SlabRec /\ slabs[s].stored \in Int
  BY <1>1, SlabFacts
<1>3. op.writes \in Int /\ op.mark \in Nat
  BY <1>1 DEF TxOp
<1>4. n \in 0 .. Word - 1
  BY <1>2, <1>3, WrapType
<1>5. r \in SlabRec
  BY <1>2, <1>3, <1>4 DEF SlabRec
<1>6. slabs' = [slabs EXCEPT ![s] = r]
  BY <1>1, <1>2 DEF ProcessErr, SlabRec
<1> QED
  BY <1>1, <1>5, <1>6, SlabExcept DEF Becomes

\* A slab that gc unmaps.
LEMMA FreeEffect ==
  ASSUME TypeInv, GcFree, op.i \in DOMAIN execs
  PROVE  LET s == execs[op.i] IN Becomes(s, [slabs[s] EXCEPT !.mapped = FALSE])
<1> DEFINE s == execs[op.i]
<1>1. TypeOK /\ s \in DOMAIN slabs
  BY ExecFacts DEF TypeInv
<1>2. slabs[s] \in SlabRec
  BY <1>1, SlabFacts
<1>3. [slabs[s] EXCEPT !.mapped = FALSE] \in SlabRec
  BY <1>2 DEF SlabRec
<1>4. slabs' = [slabs EXCEPT ![s] = [slabs[s] EXCEPT !.mapped = FALSE]]
  BY <1>1, <1>2 DEF GcFree, SlabRec
<1> QED
  BY <1>1, <1>3, <1>4, SlabExcept DEF Becomes

\* A release.
LEMMA ReleaseEffect ==
  ASSUME TypeInv, NEW h \in handles, Release(h)
  PROVE  LET s == h[2]
         IN  Becomes(s, [slabs[s] EXCEPT !.stored = Wrap(slabs[s].stored - 1)])
<1> DEFINE s == h[2]
           n == Wrap(slabs[s].stored - 1)
<1>1. TypeOK /\ s \in DOMAIN slabs
  BY DEF TypeInv, TypeOK
<1>2. slabs[s] \in SlabRec /\ slabs[s].stored \in Int
  BY <1>1, SlabFacts
<1>3. n \in 0 .. Word - 1
  BY <1>2, WrapType
<1>4. [slabs[s] EXCEPT !.stored = n] \in SlabRec
  BY <1>2, <1>3 DEF SlabRec
<1>5. slabs' = [slabs EXCEPT ![s] = [slabs[s] EXCEPT !.stored = n]]
  BY <1>1, <1>2 DEF Release, SlabRec
<1> QED
  BY <1>1, <1>4, <1>5, SlabExcept DEF Becomes

-----------------------------------------------------------------------------
(* Types, and gc's index. *)

\* swap_remove takes out one element and moves at most the last.
LEMMA SwapRemoveFacts ==
  ASSUME NEW S, NEW seq \in Seq(S), NEW i \in 1 .. Len(seq)
  PROVE  /\ SwapRemove(seq, i) \in Seq(S)
         /\ Len(SwapRemove(seq, i)) = Len(seq) - 1
         /\ \A j \in 1 .. Len(seq) - 1 :
              SwapRemove(seq, i)[j] = IF j = i THEN seq[Len(seq)] ELSE seq[j]
<1> DEFINE n == Len(seq)
           e == [seq EXCEPT ![i] = seq[n]]
<1>1. n \in Nat /\ n >= 1 /\ seq[n] \in S
  BY LenProperties, ElementOfSeq
<1>2. /\ e \in Seq(S) /\ Len(e) = n
      /\ \A j \in 1 .. n : e[j] = IF j = i THEN seq[n] ELSE seq[j]
  BY <1>1, ExceptSeq
<1>3. SwapRemove(seq, i) = SubSeq(e, 1, n - 1)
  BY DEF SwapRemove, Last
<1>4. \A j \in 1 .. n - 1 : e[j] \in S
  BY <1>1, <1>2, ElementOfSeq
<1>5. 1 \in Int /\ n - 1 \in Int
  BY <1>1
<1>6. /\ SubSeq(e, 1, n - 1) \in Seq(S)
      /\ Len(SubSeq(e, 1, n - 1)) = IF 1 <= n - 1 THEN (n - 1) - 1 + 1 ELSE 0
      /\ \A j \in 1 .. (n - 1) - 1 + 1 : SubSeq(e, 1, n - 1)[j] = e[1 + j - 1]
  BY <1>4, <1>5, SubSeqProperties
<1> QED
  BY <1>1, <1>2, <1>3, <1>6

\* What a commit adds to the handles.
LEMMA NewHandles ==
  ASSUME NEW p \in Nat, NEW s \in Nat, NEW n \in Nat
  PROVE  LET new == {p} \X {s} \X (1 .. n)
         IN  IsFiniteSet(new) /\ Cardinality(new) = n
<1> DEFINE new == {p} \X {s} \X (1 .. n)
           f   == [k \in 1 .. n |-> <<p, s, k>>]
<1>1. f \in [1 .. n -> new]
  OBVIOUS
<1>2. \A j, k \in 1 .. n : f[j] = f[k] => j = k
  OBVIOUS
<1>3. \A t \in new : \E k \in 1 .. n : f[k] = t
  <2>1. \A t \in new : t[3] \in 1 .. n /\ t = <<p, s, t[3]>>
    OBVIOUS
  <2> QED
    BY <2>1
<1>4. f \in Bijection(1 .. n, new)
  BY <1>1, <1>2, <1>3, Fun_IsBij
<1>5. ExistsBijection(1 .. n, new)
  BY <1>4, Fun_ExistsBij
<1>6. IsFiniteSet(1 .. n) /\ Cardinality(1 .. n) = n
  BY FS_Interval
<1> QED
  BY <1>5, <1>6, FS_Bijection

\* The initial pool.
LEMMA TypeInit == Init => TypeInv
<1> SUFFICES ASSUME Init PROVE TypeInv
  OBVIOUS
<1>1. OpOK /\ op.kind = "idle"
  BY DEF Init, OpOK, Idle
<1>2. slabs \in Seq([base : Bases, size : Nat, cursor : Nat,
                     stored : 0 .. Word - 1, mapped : BOOLEAN])
  BY DEF Init
<1>3. execs \in Seq(DOMAIN slabs) /\ debt \in [DOMAIN slabs -> Nat]
  BY DEF Init
<1>4. handles = {} /\ progs \in 0 .. MaxProgs
  BY PoolAssumption DEF Init
<1>5. TypeOK
  BY <1>1, <1>2, <1>3, <1>4 DEF TypeOK, Running
<1>6. IsFiniteSet(handles)
  BY <1>4, FS_EmptySet
<1> QED
  BY <1>1, <1>5, <1>6 DEF TypeInv, GcIndexInBounds, Running

\* The types of a new transaction.
LEMMA TransactType ==
  ASSUME TypeInv, progs < MaxProgs, NEW s \in Nat, NEW mark \in Nat,
         NEW req \in Requests, NEW t \in Totals
  PROVE  /\ Transact(s, mark, req, t) \in TxOp
         /\ Transact(s, mark, req, t).kind = "tx"
         /\ Transact(s, mark, req, t).slab = s
         /\ Transact(s, mark, req, t).mark = mark
         /\ Transact(s, mark, req, t).id = progs + 1
<1>1. progs + 1 \in 1 .. MaxProgs
  BY PoolAssumption DEF TypeInv, TypeOK
<1>2. req \in Seq(Item)
  BY RequestFacts
<1> QED
  BY <1>1, <1>2 DEF Transact, TxOp

\* A call takes the first slab with room, and nothing else changes.
LEMMA ReuseEffect ==
  ASSUME TypeInv, NEW req \in Requests, NEW t \in Totals, ProcessReuse(req, t)
  PROVE  \E i \in DOMAIN execs :
           /\ execs[i] \in DOMAIN slabs
           /\ op' = Transact(execs[i], slabs[execs[i]].cursor, req, t) /\ op' \in TxOp
           /\ op'.kind = "tx" /\ op'.slab = execs[i] /\ op'.mark = slabs[execs[i]].cursor
           /\ op'.id = progs + 1
<1>1. PICK i \in Candidates(req) :
        op' = Transact(execs[i], slabs[execs[i]].cursor, req, t)
  BY DEF ProcessReuse
<1>2. i \in DOMAIN execs /\ execs[i] \in DOMAIN slabs
  BY ExecFacts DEF Candidates, TypeInv
<1>3. slabs[execs[i]].cursor \in Nat /\ execs[i] \in Nat
  BY <1>2, SlabFacts DEF TypeInv
<1> QED
  BY <1>1, <1>2, <1>3, TransactType DEF ProcessReuse

\* The types survive a step that replaces slabs by slabs and moves the rest
\* within its type.
LEMMA TypeFrame ==
  ASSUME TypeInv,
         slabs' \in Seq(SlabRec), execs' \in Seq(DOMAIN slabs'),
         op' \in {Idle} \cup TxOp \cup GcOp,
         op'.kind = "tx" => op'.slab \in DOMAIN slabs',
         op'.kind = "gc" => op'.i <= Len(execs'),
         handles' \subseteq (1 .. MaxProgs) \X (DOMAIN slabs') \X Nat, IsFiniteSet(handles'),
         progs' \in 0 .. MaxProgs, debt' \in [DOMAIN slabs' -> Nat]
  PROVE  TypeInv'
<1>1. TypeOK'
  BY DEF TypeOK, SlabRec, Running
<1> QED
  BY <1>1 DEF TypeInv, OpOK, GcIndexInBounds, Running

\* What TypeOK says of the parts most steps leave alone.
LEMMA RestFacts ==
  ASSUME TypeOK
  PROVE  /\ execs \in Seq(DOMAIN slabs)
         /\ handles \subseteq (1 .. MaxProgs) \X (DOMAIN slabs) \X Nat
         /\ progs \in 0 .. MaxProgs /\ debt \in [DOMAIN slabs -> Nat]
BY DEF TypeOK

LEMMA TypeReuse ==
  ASSUME TypeInv, NEW req \in Requests, NEW t \in Totals, ProcessReuse(req, t)
  PROVE  TypeInv'
<1>1. PICK i \in DOMAIN execs :
        execs[i] \in DOMAIN slabs /\ op' \in TxOp /\ op'.kind = "tx" /\ op'.slab = execs[i]
  BY ReuseEffect
<1>2. progs' \in 0 .. MaxProgs
  BY PoolAssumption DEF ProcessReuse, TypeInv, TypeOK
<1>3. TypeOK /\ IsFiniteSet(handles) /\ slabs \in Seq(SlabRec)
  BY SlabFacts DEF TypeInv
<1> QED
  BY <1>1, <1>2, <1>3, TypeFrame DEF ProcessReuse, TypeOK

LEMMA TypeAlloc ==
  ASSUME TypeInv, NEW req \in Requests, NEW t \in Totals, NEW b \in Bases,
         ProcessAlloc(req, t, b)
  PROVE  TypeInv'
<1> DEFINE s    == Len(slabs) + 1
           slab == FreshSlab(b, WorstCase(req))
<1>1. /\ slabs' \in Seq(SlabRec) /\ DOMAIN slabs' = DOMAIN slabs \cup {s}
      /\ slab \in SlabRec /\ execs' \in Seq(DOMAIN slabs')
      /\ debt' \in [DOMAIN slabs' -> Nat] /\ op' = Transact(s, slab.cursor, req, t)
      /\ progs' = progs + 1 /\ handles' = handles
  BY AllocEffect
<1>2. TypeOK /\ IsFiniteSet(handles) /\ s \in Nat /\ s \in DOMAIN slabs' /\ slab.cursor \in Nat
  BY <1>1, SlabFacts DEF TypeInv, SlabRec
<1>3. progs < MaxProgs /\ progs' \in 0 .. MaxProgs
  BY <1>1, <1>2, PoolAssumption DEF ProcessAlloc, TypeOK
<1>4. op' \in TxOp /\ op'.kind = "tx" /\ op'.slab = s
  BY <1>1, <1>2, <1>3, TransactType
<1>5. handles' \subseteq (1 .. MaxProgs) \X (DOMAIN slabs') \X Nat
  BY <1>1, <1>2 DEF TypeOK
<1> QED
  BY <1>1, <1>2, <1>3, <1>4, <1>5, TypeFrame

LEMMA TypeTxWrite ==
  ASSUME TypeInv, TxWrite
  PROVE  TypeInv'
<1>1. /\ TypeOK /\ IsFiniteSet(handles) /\ op \in TxOp /\ op.slab \in DOMAIN slabs
      /\ op.writes \in Nat /\ op.todo \in Seq(Item) /\ op.todo # <<>>
  BY OpFacts DEF TypeInv, TxWrite
<1>2. slabs' \in Seq(SlabRec) /\ DOMAIN slabs' = DOMAIN slabs
  BY TxWriteEffect DEF Becomes
<1>3. Tail(op.todo) \in Seq(Item)
  BY <1>1, HeadTailProperties
<1>4. op' = [op EXCEPT !.writes = op.writes + 1, !.todo = Tail(op.todo)]
  BY DEF TxWrite
<1>5. op' \in TxOp /\ op'.kind = "tx" /\ op'.slab = op.slab
  <2>1. op.writes + 1 \in Nat
    BY <1>1
  <2> QED
    BY <1>1, <1>3, <1>4, <2>1 DEF TxOp
<1> QED
  BY <1>1, <1>2, <1>5, TypeFrame DEF TxWrite, TypeOK

LEMMA TypeOk ==
  ASSUME TypeInv, ProcessOk
  PROVE  TypeInv'
<1> DEFINE new == {op.id} \X {op.slab} \X (1 .. op.total)
<1>1. /\ TypeOK /\ IsFiniteSet(handles) /\ op.slab \in DOMAIN slabs
      /\ op.total \in Nat /\ op.id \in 1 .. MaxProgs
  BY OpFacts DEF TypeInv, ProcessOk
<1>2. slabs' \in Seq(SlabRec) /\ DOMAIN slabs' = DOMAIN slabs
  BY OkEffect DEF Becomes
<1>3. op.id \in Nat /\ op.slab \in Nat
  BY <1>1, SlabFacts, PoolAssumption
<1>4. handles' = handles \cup new /\ IsFiniteSet(new)
  BY <1>1, <1>3, NewHandles DEF ProcessOk
<1>5. IsFiniteSet(handles')
  BY <1>1, <1>4, FS_Union
<1>6. handles' \subseteq (1 .. MaxProgs) \X (DOMAIN slabs') \X Nat
  <2>1. handles \subseteq (1 .. MaxProgs) \X (DOMAIN slabs) \X Nat
    BY <1>1 DEF TypeOK
  <2>2. new \subseteq (1 .. MaxProgs) \X (DOMAIN slabs) \X Nat
    BY <1>1
  <2> QED
    BY <1>2, <1>4, <2>1, <2>2
<1>7. op' = Idle /\ op'.kind = "idle"
  BY DEF ProcessOk, Idle
<1> QED
  BY <1>1, <1>2, <1>5, <1>6, <1>7, TypeFrame DEF ProcessOk, TypeOK

LEMMA TypeErr ==
  ASSUME TypeInv, ProcessErr
  PROVE  TypeInv'
<1>1. /\ TypeOK /\ IsFiniteSet(handles) /\ op.slab \in DOMAIN slabs /\ op.writes \in Nat
  BY OpFacts DEF TypeInv, ProcessErr
<1>2. slabs' \in Seq(SlabRec) /\ DOMAIN slabs' = DOMAIN slabs
  BY ErrEffect DEF Becomes
<1>3. debt' \in [DOMAIN slabs' -> Nat]
  <2>1. debt \in [DOMAIN slabs -> Nat] /\ debt[op.slab] + op.writes \in Nat
    BY <1>1, RestFacts
  <2>2. debt' = [debt EXCEPT ![op.slab] = debt[op.slab] + op.writes]
    BY DEF ProcessErr
  <2> QED
    BY <1>2, <2>1, <2>2
<1>4. op' = Idle /\ op'.kind = "idle"
  BY DEF ProcessErr, Idle
<1>5. execs' = execs /\ handles' = handles /\ progs' = progs
  BY DEF ProcessErr
<1>6. op' \in {Idle} \cup TxOp \cup GcOp /\ op'.kind # "tx" /\ op'.kind # "gc"
  BY <1>4
<1> QED
  BY <1>1, <1>2, <1>3, <1>5, <1>6, RestFacts, TypeFrame

LEMMA TypeGcStart ==
  ASSUME TypeInv, GcStart
  PROVE  TypeInv' /\ op' \in GcOp
<1>1. TypeOK /\ IsFiniteSet(handles) /\ slabs \in Seq(SlabRec) /\ DOMAIN slabs \subseteq Nat
  BY SlabFacts DEF TypeInv
<1>2. Len(execs) \in Nat
  BY <1>1, ExecFacts
<1>3. op' \in GcOp /\ op'.kind = "gc" /\ op'.i = Len(execs)
  BY <1>1, <1>2 DEF GcStart, GcOp, Mapped
<1>4. /\ slabs' = slabs /\ execs' = execs /\ handles' = handles
      /\ progs' = progs /\ debt' = debt
  BY DEF GcStart
<1>5. op'.kind # "tx" /\ op'.i <= Len(execs')
  BY <1>2, <1>3, <1>4
<1> QED
  BY <1>1, <1>3, <1>4, <1>5, RestFacts, TypeFrame

\* A turn of the loop that keeps the slab.
LEMMA TypeGcKeep ==
  ASSUME TypeInv, GcKeep
  PROVE  TypeInv' /\ op' \in GcOp /\ op'.i = op.i - 1 /\ op'.idle = op.idle
<1>1. /\ TypeOK /\ IsFiniteSet(handles) /\ slabs \in Seq(SlabRec)
      /\ op \in GcOp /\ op.i \in Nat \ {0} /\ op.i <= Len(execs) /\ Len(execs) \in Nat
  BY OpFacts, SlabFacts, ExecFacts DEF TypeInv, GcKeep, GcIndexInBounds
<1>2. op' \in GcOp /\ op'.kind = "gc" /\ op'.i = op.i - 1 /\ op'.idle = op.idle
  BY <1>1 DEF GcKeep, GcOp
<1>3. op'.i <= Len(execs')
  BY <1>1, <1>2 DEF GcKeep
<1> QED
  BY <1>1, <1>2, <1>3, TypeFrame DEF GcKeep, TypeOK

\* A turn that unmaps it: the vector shrinks by the element it loses.
LEMMA GcFreeEffect ==
  ASSUME TypeInv, GcFree
  PROVE  /\ op.i \in DOMAIN execs /\ execs[op.i] \in DOMAIN slabs
         /\ Becomes(execs[op.i], [slabs[execs[op.i]] EXCEPT !.mapped = FALSE])
         /\ execs' \in Seq(DOMAIN slabs) /\ Len(execs') = Len(execs) - 1
         /\ \A j \in 1 .. Len(execs) - 1 :
              execs'[j] = IF j = op.i THEN execs[Len(execs)] ELSE execs[j]
         /\ op' \in GcOp /\ op'.i = op.i - 1 /\ op'.idle = op.idle
<1>1. TypeOK /\ op \in GcOp /\ op.i \in Nat \ {0} /\ op.i <= Len(execs)
  BY OpFacts DEF TypeInv, GcFree, GcIndexInBounds
<1>2. op.i \in 1 .. Len(execs) /\ DOMAIN execs = 1 .. Len(execs) /\ execs[op.i] \in DOMAIN slabs
  BY <1>1, ExecFacts
<1>3. execs \in Seq(DOMAIN slabs) /\ execs' = SwapRemove(execs, op.i)
  BY <1>1 DEF TypeOK, GcFree
<1>4. op' \in GcOp /\ op'.i = op.i - 1 /\ op'.idle = op.idle
  BY <1>1 DEF GcFree, GcOp
<1> QED
  BY <1>2, <1>3, <1>4, FreeEffect, SwapRemoveFacts

LEMMA TypeGcFree ==
  ASSUME TypeInv, GcFree
  PROVE  TypeInv'
<1>1. /\ TypeOK /\ IsFiniteSet(handles) /\ op.i \in Nat /\ op.i <= Len(execs)
      /\ Len(execs) \in Nat
  BY OpFacts, ExecFacts DEF TypeInv, GcFree, GcIndexInBounds
<1>2. slabs' \in Seq(SlabRec) /\ DOMAIN slabs' = DOMAIN slabs
  BY GcFreeEffect DEF Becomes
<1>3. /\ execs' \in Seq(DOMAIN slabs) /\ Len(execs') = Len(execs) - 1
      /\ op' \in GcOp /\ op'.i = op.i - 1
  BY GcFreeEffect
<1>4. op'.kind = "gc"
  BY <1>3 DEF GcOp
<1>5. op'.i <= Len(execs')
  BY <1>1, <1>3
<1> QED
  BY <1>1, <1>2, <1>3, <1>4, <1>5, TypeFrame DEF GcFree, TypeOK

LEMMA TypeGcEnd ==
  ASSUME TypeInv, GcEnd
  PROVE  TypeInv'
<1>1. TypeOK /\ IsFiniteSet(handles) /\ slabs \in Seq(SlabRec)
  BY SlabFacts DEF TypeInv
<1>2. op' = Idle /\ op'.kind = "idle"
  BY DEF GcEnd, Idle
<1> QED
  BY <1>1, <1>2, TypeFrame DEF GcEnd, TypeOK

LEMMA TypeRelease ==
  ASSUME TypeInv, NEW h \in handles, Release(h)
  PROVE  TypeInv'
<1>1. TypeOK /\ OpOK /\ IsFiniteSet(handles) /\ IsFiniteSet(handles')
  BY FS_RemoveElement DEF TypeInv, Release
<1>2. slabs' \in Seq(SlabRec) /\ DOMAIN slabs' = DOMAIN slabs
  BY ReleaseEffect DEF Becomes
<1> QED
  BY <1>1, <1>2, TypeFrame DEF Release, TypeOK, OpOK, TypeInv, GcIndexInBounds, Running

\* Every step of the pool, of its callbacks and of its users keeps the types.
LEMMA TypeNext == TypeInv /\ [Next]_vars => TypeInv'
<1> SUFFICES ASSUME TypeInv, [Next]_vars PROVE TypeInv'
  OBVIOUS
<1>1. CASE \E req \in Requests, t \in Totals : ProcessReuse(req, t)
  BY <1>1, TypeReuse
<1>2. CASE \E req \in Requests, t \in Totals, b \in Bases : ProcessAlloc(req, t, b)
  BY <1>2, TypeAlloc
<1>3. CASE TxWrite
  BY <1>3, TypeTxWrite
<1>4. CASE ProcessOk
  BY <1>4, TypeOk
<1>5. CASE ProcessErr
  BY <1>5, TypeErr
<1>6. CASE GcStart
  BY <1>6, TypeGcStart
<1>7. CASE GcKeep
  BY <1>7, TypeGcKeep
<1>8. CASE GcFree
  BY <1>8, TypeGcFree
<1>9. CASE GcEnd
  BY <1>9, TypeGcEnd
<1>10. CASE \E h \in handles : Release(h)
  BY <1>10, TypeRelease
<1>11. CASE UNCHANGED vars
  BY <1>11 DEF TypeInv, TypeOK, OpOK, GcIndexInBounds, Running, vars
<1> QED
  BY <1>1, <1>2, <1>3, <1>4, <1>5, <1>6, <1>7, <1>8, <1>9, <1>10, <1>11 DEF Next

LEMMA TypeInvariant == Spec => []TypeInv
  BY TypeInit, TypeNext, PTL DEF Spec

\* Type correctness of the pool: every index refers to a slab that was
\* mapped, every counter stays in its word.
THEOREM PoolTypeCorrect == Spec => []TypeOK
<1>1. TypeInv => TypeOK
  BY DEF TypeInv
<1> QED
  BY <1>1, TypeInvariant, PTL

\* gc's unchecked index stays inside the vector that it shrinks.
THEOREM GcIndexHolds == Spec => []GcIndexInBounds
<1>1. TypeInv => GcIndexInBounds
  BY DEF TypeInv
<1> QED
  BY <1>1, TypeInvariant, PTL

-----------------------------------------------------------------------------
(* The init blob: every slab's cursor, and every mark that a roll-back     *)
(* would return to, is above it.                                           *)

BlobEnd(base) == StartOffset(base, 0, InitAlign) + InitLen

BlobInv ==
  /\ TypeInv
  /\ \A s \in DOMAIN slabs : slabs[s].cursor >= BlobEnd(slabs[s].base)
  /\ Running("tx") => op.mark >= BlobEnd(slabs[op.slab].base)

LEMMA BlobEndType ==
  ASSUME NEW base \in Bases
  PROVE  BlobEnd(base) \in Nat
<1>1. base \in Nat /\ 0 \in Nat /\ InitAlign \in Nat \ {0} /\ InitLen \in Nat
  BY PoolAssumption
<1>2. StartOffset(base, 0, InitAlign) \in Nat
  BY <1>1, StartFacts
<1> QED
  BY <1>1, <1>2 DEF BlobEnd

\* One slab changes, and stays above its blob.
LEMMA BlobFrame ==
  ASSUME BlobInv, TypeInv', NEW s, NEW r, Becomes(s, r),
         r.base = slabs[s].base, r.cursor >= BlobEnd(r.base),
         op'.kind = "tx" => Running("tx") /\ op'.slab = op.slab /\ op'.mark = op.mark
  PROVE  BlobInv'
<1>1. /\ DOMAIN slabs' = DOMAIN slabs /\ s \in DOMAIN slabs /\ slabs'[s] = r
      /\ \A x \in DOMAIN slabs \ {s} : slabs'[x] = slabs[x]
  BY DEF Becomes
<1>2. \A x \in DOMAIN slabs' : slabs'[x].cursor >= BlobEnd(slabs'[x].base)
  BY <1>1 DEF BlobInv
<1>3. \A x \in DOMAIN slabs : slabs'[x].base = slabs[x].base
  BY <1>1
<1>4. ASSUME op'.kind = "tx"
      PROVE  op'.mark >= BlobEnd(slabs'[op'.slab].base)
  <2>1. Running("tx") /\ op'.slab = op.slab /\ op'.mark = op.mark
    BY <1>4 DEF Running
  <2>2. op.slab \in DOMAIN slabs
    BY <2>1, OpFacts DEF BlobInv
  <2> QED
    BY <1>3, <2>1, <2>2 DEF BlobInv
<1> QED
  BY <1>2, <1>4 DEF BlobInv, Running

LEMMA BlobInit == Init => BlobInv
<1> SUFFICES ASSUME Init PROVE BlobInv
  OBVIOUS
<1>1. DOMAIN slabs = {} /\ ~Running("tx")
  BY DEF Init, Running, Idle
<1> QED
  BY <1>1, TypeInit DEF BlobInv

LEMMA BlobNext == BlobInv /\ [Next]_vars => BlobInv'
<1> SUFFICES ASSUME BlobInv, [Next]_vars PROVE BlobInv'
  OBVIOUS
<1>1. TypeInv /\ TypeOK /\ TypeInv'
  BY TypeNext DEF BlobInv, TypeInv
<1>2. ASSUME NEW req \in Requests, NEW t \in Totals, ProcessReuse(req, t)
      PROVE  BlobInv'
  <2>1. PICK i \in DOMAIN execs :
          /\ execs[i] \in DOMAIN slabs
          /\ op'.slab = execs[i] /\ op'.mark = slabs[execs[i]].cursor
    BY <1>1, <1>2, ReuseEffect
  <2>2. slabs' = slabs
    BY <1>2 DEF ProcessReuse
  <2> QED
    BY <1>1, <2>1, <2>2 DEF BlobInv, Running
<1>3. ASSUME NEW req \in Requests, NEW t \in Totals, NEW b \in Bases, ProcessAlloc(req, t, b)
      PROVE  BlobInv'
  <2> DEFINE s    == Len(slabs) + 1
             slab == FreshSlab(b, WorstCase(req))
  <2>1. /\ DOMAIN slabs' = DOMAIN slabs \cup {s} /\ slabs'[s] = slab
        /\ \A x \in DOMAIN slabs : slabs'[x] = slabs[x]
        /\ op' = Transact(s, slab.cursor, req, t)
    BY <1>1, <1>3, AllocEffect
  <2>2. WorstCase(req) \in Nat
    BY RequestFacts
  <2>3. slab.base = b /\ slab.cursor = BlobEnd(b) /\ BlobEnd(b) \in Nat
    BY <2>2, FreshFacts, BlobEndType DEF BlobEnd
  <2>4. op'.slab = s /\ op'.mark = slab.cursor
    BY <2>1 DEF Transact
  <2>5. \A x \in DOMAIN slabs' : slabs'[x].cursor >= BlobEnd(slabs'[x].base)
    BY <2>1, <2>3 DEF BlobInv
  <2> QED
    BY <1>1, <2>1, <2>3, <2>4, <2>5 DEF BlobInv, Running
<1>4. CASE TxWrite
  <2> DEFINE s == op.slab
  <2>1. PICK c \in Nat : slabs[s].cursor <= c /\ Becomes(s, [slabs[s] EXCEPT !.cursor = c])
    BY <1>1, <1>4, TxWriteEffect
  <2> DEFINE r == [slabs[s] EXCEPT !.cursor = c]
  <2>2. /\ Running("tx") /\ s \in DOMAIN slabs /\ op \in TxOp
    BY <1>1, <1>4, OpFacts DEF TxWrite
  <2>3. slabs[s] \in SlabRec /\ slabs[s].cursor \in Nat /\ slabs[s].base \in Bases
    BY <1>1, <2>2, SlabFacts DEF SlabRec
  <2>4. r.base = slabs[s].base /\ r.cursor = c
    BY <2>3 DEF SlabRec
  <2>5. slabs[s].cursor >= BlobEnd(slabs[s].base) /\ BlobEnd(slabs[s].base) \in Nat
    BY <2>2, <2>3, BlobEndType DEF BlobInv
  <2>6. r.cursor >= BlobEnd(r.base)
    BY <2>1, <2>3, <2>4, <2>5
  <2>7. op'.slab = op.slab /\ op'.mark = op.mark
    BY <1>4, <2>2 DEF TxWrite, TxOp
  <2> QED
    BY <1>1, <2>1, <2>2, <2>4, <2>6, <2>7, BlobFrame
<1>5. CASE ProcessOk
  <2> DEFINE s == op.slab
             r == [slabs[s] EXCEPT !.stored = Wrap(slabs[s].stored + op.total)]
  <2>1. Becomes(s, r) /\ s \in DOMAIN slabs
    BY <1>1, <1>5, OkEffect, OpFacts DEF ProcessOk
  <2>2. slabs[s] \in SlabRec
    BY <1>1, <2>1, SlabFacts
  <2>3. r.base = slabs[s].base /\ r.cursor = slabs[s].cursor
    BY <2>2 DEF SlabRec
  <2>4. r.cursor >= BlobEnd(r.base)
    BY <2>1, <2>3 DEF BlobInv
  <2>5. op'.kind = "idle"
    BY <1>5 DEF ProcessOk, Idle
  <2> QED
    BY <1>1, <2>1, <2>3, <2>4, <2>5, BlobFrame
<1>6. CASE ProcessErr
  <2> DEFINE s == op.slab
             r == [slabs[s] EXCEPT !.cursor = op.mark, !.stored = Wrap(slabs[s].stored - op.writes)]
  <2>1. Becomes(s, r) /\ s \in DOMAIN slabs /\ Running("tx")
    BY <1>1, <1>6, ErrEffect, OpFacts DEF ProcessErr
  <2>2. slabs[s] \in SlabRec
    BY <1>1, <2>1, SlabFacts
  <2>3. r.base = slabs[s].base /\ r.cursor = op.mark
    BY <2>2 DEF SlabRec
  <2>4. r.cursor >= BlobEnd(r.base)
    BY <2>1, <2>3 DEF BlobInv
  <2>5. op'.kind = "idle"
    BY <1>6 DEF ProcessErr, Idle
  <2> QED
    BY <1>1, <2>1, <2>3, <2>4, <2>5, BlobFrame
<1>7. CASE GcFree
  <2> DEFINE s == execs[op.i]
             r == [slabs[s] EXCEPT !.mapped = FALSE]
  <2>1. Becomes(s, r) /\ s \in DOMAIN slabs /\ op' \in GcOp
    BY <1>1, <1>7, GcFreeEffect
  <2>2. slabs[s] \in SlabRec /\ op'.kind = "gc"
    BY <1>1, <2>1, SlabFacts DEF GcOp
  <2>3. r.base = slabs[s].base /\ r.cursor = slabs[s].cursor
    BY <2>2 DEF SlabRec
  <2>4. r.cursor >= BlobEnd(r.base)
    BY <2>1, <2>3 DEF BlobInv
  <2> QED
    BY <1>1, <2>1, <2>2, <2>3, <2>4, BlobFrame
<1>8. ASSUME NEW h \in handles, Release(h)
      PROVE  BlobInv'
  <2> DEFINE s == h[2]
             r == [slabs[s] EXCEPT !.stored = Wrap(slabs[s].stored - 1)]
  <2>1. Becomes(s, r) /\ s \in DOMAIN slabs
    BY <1>1, <1>8, ReleaseEffect DEF Becomes
  <2>2. slabs[s] \in SlabRec
    BY <1>1, <2>1, SlabFacts
  <2>3. r.base = slabs[s].base /\ r.cursor = slabs[s].cursor
    BY <2>2 DEF SlabRec
  <2>4. r.cursor >= BlobEnd(r.base)
    BY <2>1, <2>3 DEF BlobInv
  <2>5. op'.kind = "tx" => Running("tx") /\ op'.slab = op.slab /\ op'.mark = op.mark
    BY <1>8 DEF Release, Running
  <2> QED
    BY <1>1, <2>1, <2>3, <2>4, <2>5, BlobFrame
<1>9. CASE GcStart \/ GcKeep \/ GcEnd
  <2>1. slabs' = slabs /\ op'.kind # "tx"
    <3>1. CASE GcStart
      BY <3>1 DEF GcStart
    <3>2. CASE GcKeep
      <4>1. op' \in GcOp
        BY <1>1, <3>2, TypeGcKeep
      <4> QED
        BY <3>2, <4>1 DEF GcKeep, GcOp
    <3>3. CASE GcEnd
      BY <3>3 DEF GcEnd, Idle
    <3> QED
      BY <1>9, <3>1, <3>2, <3>3
  <2> QED
    BY <1>1, <2>1 DEF BlobInv, Running
<1>10. CASE UNCHANGED vars
  BY <1>1, <1>10 DEF BlobInv, Running, vars
<1> QED
  BY <1>2, <1>3, <1>4, <1>5, <1>6, <1>7, <1>8, <1>9, <1>10 DEF Next

\* The init blob of every slab stays below the cursor, whatever was rolled
\* back and wherever the slab was mapped.
THEOREM InitBlobStays == Spec => []InitBlobIntact
<1>1. BlobInv => InitBlobIntact
  BY DEF BlobInv, InitBlobIntact, BlobEnd
<1> QED
  BY <1>1, BlobInit, BlobNext, PTL DEF Spec

-----------------------------------------------------------------------------
(* Ownership, and what gc has still to visit. *)

\* The vector names each mapped slab once, and a transaction borrows one.
Owned ==
  /\ \A i, j \in DOMAIN execs : execs[i] = execs[j] => i = j
  /\ \A i \in DOMAIN execs : slabs[execs[i]].mapped
  /\ \A s \in DOMAIN slabs : slabs[s].mapped => \E i \in DOMAIN execs : execs[i] = s
  /\ Running("tx") => slabs[op.slab].mapped

\* A slab that nobody used when gc started, and that is still mapped, is
\* unused and at a position that gc has not passed.
Pending ==
  Running("gc") =>
    \A s \in op.idle : s \in DOMAIN slabs /\
      (slabs[s].mapped => /\ slabs[s].stored = 0 /\ HandlesIn(s) = {}
                          /\ \E j \in 1 .. op.i : execs[j] = s)

OwnInv == TypeInv /\ Owned /\ Pending

\* A step that maps and unmaps nothing keeps the ownership.
LEMMA OwnFrame ==
  ASSUME TypeInv, Owned, DOMAIN slabs' = DOMAIN slabs, execs' = execs,
         \A s \in DOMAIN slabs : slabs'[s].mapped = slabs[s].mapped,
         op'.kind = "tx" => op'.slab \in DOMAIN slabs /\ slabs[op'.slab].mapped
  PROVE  Owned'
<1>1. \A i \in DOMAIN execs : execs[i] \in DOMAIN slabs
  BY ExecFacts DEF TypeInv
<1> QED
  BY <1>1 DEF Owned, Running

\* The same for one slab that changes and stays as mapped as it was.
LEMMA OwnBecomes ==
  ASSUME TypeInv, Owned, execs' = execs, NEW s, NEW r, Becomes(s, r),
         r.mapped = slabs[s].mapped,
         op'.kind = "tx" => Running("tx") /\ op'.slab = op.slab
  PROVE  Owned'
<1>1. DOMAIN slabs' = DOMAIN slabs /\ \A x \in DOMAIN slabs : slabs'[x].mapped = slabs[x].mapped
  BY DEF Becomes
<1>2. Running("tx") => op.slab \in DOMAIN slabs /\ slabs[op.slab].mapped
  BY OpFacts DEF Owned
<1> QED
  BY <1>1, <1>2, OwnFrame

LEMMA OwnInit == Init => OwnInv
<1> SUFFICES ASSUME Init PROVE OwnInv
  OBVIOUS
<1>1. DOMAIN slabs = {} /\ DOMAIN execs = {} /\ ~Running("tx") /\ ~Running("gc")
  BY DEF Init, Running, Idle
<1> QED
  BY <1>1, TypeInit DEF OwnInv, Owned, Pending

LEMMA OwnReuse ==
  ASSUME OwnInv, NEW req \in Requests, NEW t \in Totals, ProcessReuse(req, t)
  PROVE  Owned' /\ Pending'
<1>1. PICK i \in DOMAIN execs :
        execs[i] \in DOMAIN slabs /\ op'.kind = "tx" /\ op'.slab = execs[i]
  BY ReuseEffect DEF OwnInv
<1>2. slabs' = slabs /\ execs' = execs
  BY DEF ProcessReuse
<1>3. slabs[op'.slab].mapped
  BY <1>1 DEF OwnInv, Owned
<1>4. Owned'
  BY <1>1, <1>2, <1>3, OwnFrame DEF OwnInv
<1> QED
  BY <1>1, <1>4 DEF Pending, Running

LEMMA OwnAlloc ==
  ASSUME OwnInv, NEW req \in Requests, NEW t \in Totals, NEW b \in Bases,
         ProcessAlloc(req, t, b)
  PROVE  Owned' /\ Pending'
<1> DEFINE s    == Len(slabs) + 1
           slab == FreshSlab(b, WorstCase(req))
           n    == Len(execs) + 1
<1>1. /\ DOMAIN slabs' = DOMAIN slabs \cup {s} /\ s \notin DOMAIN slabs
      /\ slabs'[s] = slab /\ slab.mapped
      /\ \A x \in DOMAIN slabs : slabs'[x] = slabs[x]
      /\ execs' = Append(execs, s) /\ op' = Transact(s, slab.cursor, req, t)
  BY AllocEffect DEF OwnInv
<1>2. /\ Len(execs) \in Nat /\ DOMAIN execs = 1 .. Len(execs) /\ execs \in Seq(DOMAIN slabs)
      /\ \A i \in DOMAIN execs : execs[i] \in DOMAIN slabs
  BY ExecFacts DEF OwnInv, TypeInv, TypeOK
<1>3. /\ DOMAIN execs' = DOMAIN execs \cup {n} /\ n \notin DOMAIN execs /\ execs'[n] = s
      /\ \A i \in DOMAIN execs : execs'[i] = execs[i]
  BY <1>1, <1>2
<1>4. op'.kind = "tx" /\ op'.slab = s
  BY <1>1 DEF Transact
<1>5. \A i, j \in DOMAIN execs' : execs'[i] = execs'[j] => i = j
  BY <1>1, <1>2, <1>3 DEF OwnInv, Owned
<1>6. \A i \in DOMAIN execs' : slabs'[execs'[i]].mapped
  BY <1>1, <1>2, <1>3 DEF OwnInv, Owned
<1>7. \A x \in DOMAIN slabs' : slabs'[x].mapped => \E i \in DOMAIN execs' : execs'[i] = x
  BY <1>1, <1>2, <1>3 DEF OwnInv, Owned
<1> QED
  BY <1>1, <1>4, <1>5, <1>6, <1>7 DEF Owned, Pending, Running

LEMMA OwnTxWrite ==
  ASSUME OwnInv, TxWrite
  PROVE  Owned' /\ Pending'
<1>1. TypeInv /\ Running("tx") /\ op \in TxOp /\ op.slab \in DOMAIN slabs
  BY OpFacts DEF OwnInv, TxWrite
<1>2. PICK c \in Nat : Becomes(op.slab, [slabs[op.slab] EXCEPT !.cursor = c])
  BY <1>1, TxWriteEffect
<1>3. slabs[op.slab] \in SlabRec
  BY <1>1, SlabFacts DEF TypeInv
<1>4. [slabs[op.slab] EXCEPT !.cursor = c].mapped = slabs[op.slab].mapped
  BY <1>3 DEF SlabRec
<1>5. op'.kind = "tx" /\ op'.slab = op.slab
  BY <1>1 DEF TxWrite, TxOp
<1>6. Owned'
  BY <1>1, <1>2, <1>4, <1>5, OwnBecomes DEF OwnInv, TxWrite
<1> QED
  BY <1>5, <1>6 DEF Pending, Running

LEMMA OwnOk ==
  ASSUME OwnInv, ProcessOk
  PROVE  Owned' /\ Pending'
<1> DEFINE s == op.slab
           r == [slabs[s] EXCEPT !.stored = Wrap(slabs[s].stored + op.total)]
<1>1. TypeInv /\ Becomes(s, r) /\ s \in DOMAIN slabs
  BY OpFacts, OkEffect DEF OwnInv, ProcessOk
<1>2. slabs[s] \in SlabRec
  BY <1>1, SlabFacts DEF TypeInv
<1>3. r.mapped = slabs[s].mapped
  BY <1>2 DEF SlabRec
<1>4. op'.kind = "idle" /\ execs' = execs
  BY DEF ProcessOk, Idle
<1>5. Owned'
  BY <1>1, <1>3, <1>4, OwnBecomes DEF OwnInv
<1> QED
  BY <1>4, <1>5 DEF Pending, Running

LEMMA OwnErr ==
  ASSUME OwnInv, ProcessErr
  PROVE  Owned' /\ Pending'
<1> DEFINE s == op.slab
           r == [slabs[s] EXCEPT !.cursor = op.mark, !.stored = Wrap(slabs[s].stored - op.writes)]
<1>1. TypeInv /\ Becomes(s, r) /\ s \in DOMAIN slabs
  BY OpFacts, ErrEffect DEF OwnInv, ProcessErr
<1>2. slabs[s] \in SlabRec
  BY <1>1, SlabFacts DEF TypeInv
<1>3. r.mapped = slabs[s].mapped
  BY <1>2 DEF SlabRec
<1>4. op'.kind = "idle" /\ execs' = execs
  BY DEF ProcessErr, Idle
<1>5. Owned'
  BY <1>1, <1>3, <1>4, OwnBecomes DEF OwnInv
<1> QED
  BY <1>4, <1>5 DEF Pending, Running

LEMMA OwnGcStart ==
  ASSUME OwnInv, GcStart
  PROVE  Owned' /\ Pending'
<1>1. /\ op'.kind = "gc" /\ op'.i = Len(execs)
      /\ op'.idle = {s \in Mapped : slabs[s].stored = 0 /\ HandlesIn(s) = {}}
      /\ slabs' = slabs /\ execs' = execs /\ handles' = handles
  BY DEF GcStart
<1>2. DOMAIN execs = 1 .. Len(execs)
  BY ExecFacts DEF OwnInv, TypeInv
<1>3. Owned'
  BY <1>1, OwnFrame DEF OwnInv
<1>4. ASSUME NEW s \in op'.idle
      PROVE  /\ s \in DOMAIN slabs /\ slabs[s].stored = 0 /\ HandlesIn(s) = {}
             /\ \E j \in 1 .. op'.i : execs[j] = s
  <2>1. s \in DOMAIN slabs /\ slabs[s].mapped /\ slabs[s].stored = 0 /\ HandlesIn(s) = {}
    BY <1>1, <1>4 DEF Mapped
  <2> QED
    BY <1>1, <1>2, <2>1 DEF OwnInv, Owned
<1> QED
  BY <1>1, <1>3, <1>4 DEF Pending, HandlesIn

LEMMA OwnGcKeep ==
  ASSUME OwnInv, GcKeep
  PROVE  Owned' /\ Pending'
<1>1. TypeInv /\ op' \in GcOp /\ op'.i = op.i - 1 /\ op'.idle = op.idle /\ op.i \in Nat
  BY TypeGcKeep, OpFacts DEF OwnInv, GcKeep
<1>2. op'.kind = "gc" /\ slabs' = slabs /\ execs' = execs /\ handles' = handles
  BY <1>1 DEF GcKeep, GcOp
<1>3. Owned'
  BY <1>1, <1>2, OwnFrame DEF OwnInv
<1>4. ASSUME NEW s \in op.idle, slabs[s].mapped
      PROVE  \E j \in 1 .. op'.i : execs[j] = s
  <2>1. slabs[s].stored = 0 /\ \E j \in 1 .. op.i : execs[j] = s
    BY <1>4 DEF OwnInv, Pending, GcKeep
  <2>2. PICK j \in 1 .. op.i : execs[j] = s
    BY <2>1
  <2>3. j # op.i
    BY <2>1, <2>2 DEF GcKeep
  <2> QED
    BY <1>1, <2>2, <2>3
<1> QED
  BY <1>1, <1>2, <1>3, <1>4 DEF OwnInv, Pending, HandlesIn, GcKeep, Running

LEMMA OwnGcFree ==
  ASSUME OwnInv, GcFree
  PROVE  Owned' /\ Pending'
<1> DEFINE s == execs[op.i]
           n == Len(execs)
           r == [slabs[s] EXCEPT !.mapped = FALSE]
<1>1. /\ TypeInv /\ op.i \in DOMAIN execs /\ s \in DOMAIN slabs /\ Becomes(s, r)
      /\ execs' \in Seq(DOMAIN slabs) /\ Len(execs') = n - 1
      /\ \A j \in 1 .. n - 1 : execs'[j] = IF j = op.i THEN execs[n] ELSE execs[j]
      /\ op' \in GcOp /\ op'.i = op.i - 1 /\ op'.idle = op.idle
  BY GcFreeEffect DEF OwnInv
<1>2. /\ n \in Nat /\ DOMAIN execs = 1 .. n /\ n \in DOMAIN execs /\ slabs[s] \in SlabRec
      /\ \A i \in DOMAIN execs : execs[i] \in DOMAIN slabs
  BY <1>1, ExecFacts, SlabFacts DEF TypeInv
<1>3. /\ DOMAIN slabs' = DOMAIN slabs /\ ~slabs'[s].mapped
      /\ \A x \in DOMAIN slabs \ {s} : slabs'[x] = slabs[x]
  BY <1>1, <1>2 DEF Becomes, SlabRec
<1>4. DOMAIN execs' = 1 .. n - 1
  BY <1>1, LenProperties
<1>5. \A i, j \in DOMAIN execs : execs[i] = execs[j] => i = j
  BY DEF OwnInv, Owned
<1>6. \A j \in DOMAIN execs' : execs'[j] \in DOMAIN slabs /\ execs'[j] # s /\ slabs[execs'[j]].mapped
  <2> TAKE j \in DOMAIN execs'
  <2> DEFINE k == IF j = op.i THEN n ELSE j
  <2>1. k \in DOMAIN execs /\ k # op.i /\ execs'[j] = execs[k]
    BY <1>1, <1>2, <1>4
  <2> QED
    BY <1>1, <1>2, <1>5, <2>1 DEF OwnInv, Owned
<1>7. \A i, j \in DOMAIN execs' : execs'[i] = execs'[j] => i = j
  <2> TAKE i, j \in DOMAIN execs'
  <2> DEFINE k == IF i = op.i THEN n ELSE i
             l == IF j = op.i THEN n ELSE j
  <2>1. k \in DOMAIN execs /\ l \in DOMAIN execs /\ execs'[i] = execs[k] /\ execs'[j] = execs[l]
    BY <1>1, <1>2, <1>4
  <2>2. k = l => i = j
    BY <1>2, <1>4
  <2> QED
    BY <1>5, <2>1, <2>2
<1>8. ASSUME NEW x \in DOMAIN slabs', slabs'[x].mapped
      PROVE  \E j \in DOMAIN execs' : execs'[j] = x
  <2>1. x # s /\ x \in DOMAIN slabs /\ slabs[x].mapped
    BY <1>3, <1>8
  <2>2. PICK k \in DOMAIN execs : execs[k] = x
    BY <2>1 DEF OwnInv, Owned
  <2>3. k # op.i
    BY <2>1, <2>2
  <2>4. CASE k = n
    <3>1. op.i \in DOMAIN execs' /\ execs'[op.i] = execs[n]
      BY <1>1, <1>2, <1>4, <2>3, <2>4
    <3> QED
      BY <2>2, <2>4, <3>1
  <2>5. CASE k # n
    <3>1. k \in DOMAIN execs' /\ execs'[k] = execs[k]
      BY <1>1, <1>2, <1>4, <2>3, <2>5
    <3> QED
      BY <2>2, <3>1
  <2> QED
    BY <2>4, <2>5
<1>9. op'.kind = "gc" /\ handles' = handles
  BY <1>1 DEF GcFree, GcOp
<1>10. Owned'
  BY <1>3, <1>6, <1>7, <1>8, <1>9 DEF Owned, Running
<1>11. ASSUME NEW x \in op'.idle
       PROVE  x \in DOMAIN slabs' /\
                (slabs'[x].mapped => /\ slabs'[x].stored = 0 /\ HandlesIn(x) = {}
                                     /\ \E j \in 1 .. op'.i : execs'[j] = x)
  <2>1. x \in DOMAIN slabs
    BY <1>1, <1>11 DEF OwnInv, Pending, GcFree
  <2>2. ASSUME slabs'[x].mapped
        PROVE  /\ slabs'[x].stored = 0 /\ HandlesIn(x) = {}
               /\ \E j \in 1 .. op'.i : execs'[j] = x
    <3>1. x # s /\ slabs'[x] = slabs[x] /\ slabs[x].mapped
      BY <1>3, <2>1, <2>2
    <3>2. slabs[x].stored = 0 /\ HandlesIn(x) = {} /\ \E j \in 1 .. op.i : execs[j] = x
      BY <1>1, <1>11, <3>1 DEF OwnInv, Pending, GcFree
    <3>3. PICK j \in 1 .. op.i : execs[j] = x
      BY <3>2
    <3>4. j \in 1 .. op'.i /\ j \in 1 .. n - 1 /\ j # op.i
      BY <1>1, <1>2, <3>1, <3>3
    <3>5. execs'[j] = x
      BY <1>1, <3>3, <3>4
    <3> QED
      BY <3>1, <3>2, <3>4, <3>5
  <2> QED
    BY <1>3, <2>1, <2>2
<1> QED
  BY <1>9, <1>10, <1>11 DEF Pending, HandlesIn

LEMMA OwnRelease ==
  ASSUME OwnInv, NEW h \in handles, Release(h)
  PROVE  Owned' /\ Pending'
<1> DEFINE s == h[2]
           r == [slabs[s] EXCEPT !.stored = Wrap(slabs[s].stored - 1)]
<1>1. TypeInv /\ Becomes(s, r) /\ s \in DOMAIN slabs
  BY ReleaseEffect DEF OwnInv, Becomes
<1>2. slabs[s] \in SlabRec
  BY <1>1, SlabFacts DEF TypeInv
<1>3. r.mapped = slabs[s].mapped
  BY <1>2 DEF SlabRec
<1>4. op' = op /\ execs' = execs /\ handles' = handles \ {h}
  BY DEF Release
<1>5. Owned'
  BY <1>1, <1>3, <1>4, OwnBecomes DEF OwnInv, Running
<1>6. ASSUME Running("gc"), NEW x \in op.idle
      PROVE  x \in DOMAIN slabs' /\
               (slabs'[x].mapped => /\ slabs'[x].stored = 0 /\ HandlesIn(x)' = {}
                                    /\ \E j \in 1 .. op.i : execs[j] = x)
  <2>1. x \in DOMAIN slabs /\ DOMAIN slabs' = DOMAIN slabs
    BY <1>1, <1>6 DEF OwnInv, Pending, Becomes
  <2>2. CASE x = s
    <3>1. h \in HandlesIn(x)
      BY <2>2 DEF HandlesIn
    <3>2. ~slabs[x].mapped
      BY <1>6, <3>1 DEF OwnInv, Pending
    <3> QED
      BY <1>1, <1>3, <2>1, <2>2, <3>2 DEF Becomes
  <2>3. CASE x # s
    <3>1. slabs'[x] = slabs[x]
      BY <1>1, <2>1, <2>3 DEF Becomes
    <3>2. HandlesIn(x) = {} => HandlesIn(x)' = {}
      BY <1>4 DEF HandlesIn
    <3> QED
      BY <1>6, <2>1, <3>1, <3>2 DEF OwnInv, Pending
  <2> QED
    BY <2>2, <2>3
<1>7. Pending'
  BY <1>4, <1>6 DEF Pending, Running
<1> QED
  BY <1>5, <1>7

LEMMA OwnNext == OwnInv /\ [Next]_vars => OwnInv'
<1> SUFFICES ASSUME OwnInv, [Next]_vars PROVE OwnInv'
  OBVIOUS
<1>1. TypeInv'
  BY TypeNext DEF OwnInv
<1>2. Owned' /\ Pending'
  <2>1. CASE \E req \in Requests, t \in Totals : ProcessReuse(req, t)
    BY <2>1, OwnReuse
  <2>2. CASE \E req \in Requests, t \in Totals, b \in Bases : ProcessAlloc(req, t, b)
    BY <2>2, OwnAlloc
  <2>3. CASE TxWrite
    BY <2>3, OwnTxWrite
  <2>4. CASE ProcessOk
    BY <2>4, OwnOk
  <2>5. CASE ProcessErr
    BY <2>5, OwnErr
  <2>6. CASE GcStart
    BY <2>6, OwnGcStart
  <2>7. CASE GcKeep
    BY <2>7, OwnGcKeep
  <2>8. CASE GcFree
    BY <2>8, OwnGcFree
  <2>9. CASE GcEnd
    <3>1. op'.kind = "idle" /\ slabs' = slabs /\ execs' = execs
      BY <2>9 DEF GcEnd, Idle
    <3> QED
      BY <3>1, OwnFrame DEF OwnInv, Pending, Running
  <2>10. CASE \E h \in handles : Release(h)
    BY <2>10, OwnRelease
  <2>11. CASE UNCHANGED vars
    BY <2>11 DEF OwnInv, Owned, Pending, Running, HandlesIn, vars
  <2> QED
    BY <2>1, <2>2, <2>3, <2>4, <2>5, <2>6, <2>7, <2>8, <2>9, <2>10, <2>11 DEF Next
<1> QED
  BY <1>1, <1>2 DEF OwnInv

LEMMA OwnInvariant == Spec => []OwnInv
  BY OwnInit, OwnNext, PTL DEF Spec

\* The pool owns exactly the mapped slabs, each once, at every step of gc:
\* swap_remove loses the slab it was asked for and no other.
THEOREM OwnershipHolds == Spec => []PoolOwnsMapped
<1>1. OwnInv => PoolOwnsMapped
  <2> SUFFICES ASSUME OwnInv PROVE PoolOwnsMapped
    OBVIOUS
  <2>1. /\ Len(execs) \in Nat /\ DOMAIN execs = 1 .. Len(execs)
        /\ \A i \in DOMAIN execs : execs[i] \in DOMAIN slabs
        /\ execs \in Seq(DOMAIN slabs)
    BY ExecFacts DEF OwnInv, TypeInv, TypeOK
  <2>2. Mapped = {execs[i] : i \in DOMAIN execs}
    BY <2>1 DEF OwnInv, Owned, Mapped
  <2>3. execs \in [1 .. Len(execs) -> Mapped]
    <3>1. execs \in [1 .. Len(execs) -> DOMAIN slabs]
      BY <2>1, LenProperties
    <3> QED
      BY <2>1, <2>2, <3>1
  <2>4. execs \in Bijection(1 .. Len(execs), Mapped)
    <3>1. \A i, j \in 1 .. Len(execs) : execs[i] = execs[j] => i = j
      BY <2>1 DEF OwnInv, Owned
    <3>2. \A s \in Mapped : \E i \in 1 .. Len(execs) : execs[i] = s
      BY <2>1, <2>2
    <3> QED
      BY <2>3, <3>1, <3>2, Fun_IsBij
  <2>5. Cardinality(Mapped) = Len(execs)
    BY <2>1, <2>4, Fun_ExistsBij, FS_CountingElements
  <2> QED
    BY <2>2, <2>5 DEF PoolOwnsMapped
<1> QED
  BY <1>1, OwnInvariant, PTL

\* A gc pass reclaims every slab that was unused when it started, although
\* the vector is reordered under it and releases go on.
THEOREM GcCompletes == Spec => []GcIsComplete
<1>1. OwnInv => GcIsComplete
  BY SlabFacts DEF OwnInv, Pending, GcIsComplete, TypeInv
<1> QED
  BY <1>1, OwnInvariant, PTL

-----------------------------------------------------------------------------
(* Counting, slab by slab. *)

\* What keeps handles from being made twice: an identity that was not handed
\* out yet has no handles, and a program's handles are all in one slab.
Identities ==
  /\ \A h \in handles : h[1] <= progs
  /\ Running("tx") => op.id <= progs /\ \A h \in handles : h[1] # op.id
  /\ \A g, h \in handles : g[1] = h[1] => g[2] = h[2]

Count(s) == Cardinality(HandlesIn(s))

\* The counter of each slab is what its users still hold, less what
\* roll-backs took, in a word that the users alone do not fill.
SlabLedgers ==
  \A s \in DOMAIN slabs :
    Count(s) < Word /\ slabs[s].stored = Wrap(Count(s) - debt[s])

CountInv == OwnInv /\ Identities /\ SlabLedgers /\ UnmapIsSafe

LEMMA CountType ==
  ASSUME TypeInv, NEW s \in DOMAIN slabs
  PROVE  IsFiniteSet(HandlesIn(s)) /\ Count(s) \in Nat /\ debt[s] \in Nat
<1>1. IsFiniteSet(handles) /\ HandlesIn(s) \in SUBSET handles
  BY DEF TypeInv, HandlesIn
<1>2. IsFiniteSet(HandlesIn(s))
  BY <1>1, FS_Subset
<1>3. debt[s] \in Nat
  BY DEF TypeInv, TypeOK
<1> QED
  BY <1>2, <1>3, FS_CardinalityType DEF Count

\* One counter and what it counts move together.
LEMMA LedgerStep ==
  ASSUME NEW x \in Int, NEW n \in Int, NEW stored, stored = Wrap(x)
  PROVE  Wrap(stored + n) = Wrap(x + n)
<1>1. Word \in Nat \ {0}
  BY PoolAssumption
<1> QED
  BY <1>1, WrapAdd DEF Wrap

\* A step that counts nothing and unmaps nothing.
LEMMA CountFrame ==
  ASSUME SlabLedgers, UnmapIsSafe, DOMAIN slabs' = DOMAIN slabs,
         handles' = handles, debt' = debt,
         \A s \in DOMAIN slabs :
           slabs'[s].stored = slabs[s].stored /\ slabs'[s].mapped = slabs[s].mapped
  PROVE  SlabLedgers' /\ UnmapIsSafe'
<1>1. \A s \in DOMAIN slabs : HandlesIn(s)' = HandlesIn(s) /\ Count(s)' = Count(s)
  BY DEF HandlesIn, Count
<1>2. UnmapIsSafe'
  BY <1>1 DEF UnmapIsSafe
<1>3. SlabLedgers'
  BY <1>1 DEF SlabLedgers, Count, HandlesIn
<1> QED
  BY <1>2, <1>3

\* What handles are made of.
LEMMA HandleFacts ==
  ASSUME TypeInv
  PROVE  /\ progs \in Nat
         /\ \A h \in handles : /\ h[1] \in 1 .. MaxProgs /\ h[1] \in Nat
                               /\ h[2] \in DOMAIN slabs /\ h[3] \in Nat
<1>1. MaxProgs \in Nat /\ progs \in 0 .. MaxProgs
  BY PoolAssumption DEF TypeInv, TypeOK
<1>2. \A h \in handles : h \in (1 .. MaxProgs) \X (DOMAIN slabs) \X Nat
  BY DEF TypeInv, TypeOK
<1>3. \A h \in handles : h[1] \in 1 .. MaxProgs /\ h[2] \in DOMAIN slabs /\ h[3] \in Nat
  BY <1>2
<1> QED
  BY <1>1, <1>3

LEMMA CountInit == Init => CountInv
<1> SUFFICES ASSUME Init PROVE CountInv
  OBVIOUS
<1>1. DOMAIN slabs = {} /\ handles = {} /\ ~Running("tx")
  BY DEF Init, Running, Idle
<1> QED
  BY <1>1, OwnInit DEF CountInv, Identities, SlabLedgers, UnmapIsSafe

LEMMA CountReuse ==
  ASSUME CountInv, NEW req \in Requests, NEW t \in Totals, ProcessReuse(req, t)
  PROVE  Identities' /\ SlabLedgers' /\ UnmapIsSafe'
<1>1. op'.kind = "tx" /\ op'.id = progs + 1
  BY ReuseEffect DEF CountInv, OwnInv
<1>2. progs' = progs + 1 /\ progs \in Nat /\ handles' = handles /\ slabs' = slabs /\ debt' = debt
  BY PoolAssumption DEF ProcessReuse, CountInv, OwnInv, TypeInv, TypeOK
<1>3. \A h \in handles : h[1] \in Nat
  BY HandleFacts DEF CountInv, OwnInv
<1>4. Identities'
  BY <1>1, <1>2, <1>3 DEF CountInv, Identities, Running
<1> QED
  BY <1>2, <1>4, CountFrame DEF CountInv

LEMMA CountAlloc ==
  ASSUME CountInv, NEW req \in Requests, NEW t \in Totals, NEW b \in Bases,
         ProcessAlloc(req, t, b)
  PROVE  Identities' /\ SlabLedgers' /\ UnmapIsSafe'
<1> DEFINE s    == Len(slabs) + 1
           slab == FreshSlab(b, WorstCase(req))
<1>1. /\ DOMAIN slabs' = DOMAIN slabs \cup {s} /\ s \notin DOMAIN slabs
      /\ slabs'[s] = slab /\ slab.mapped /\ slab.stored = 0
      /\ \A x \in DOMAIN slabs : slabs'[x] = slabs[x]
      /\ debt'[s] = 0 /\ \A x \in DOMAIN slabs : debt'[x] = debt[x]
      /\ op' = Transact(s, slab.cursor, req, t) /\ progs' = progs + 1 /\ handles' = handles
  BY AllocEffect DEF CountInv, OwnInv
<1>2. progs \in Nat /\ \A h \in handles : h[1] \in Nat /\ h[2] \in DOMAIN slabs
  BY HandleFacts DEF CountInv, OwnInv
<1>3. op'.kind = "tx" /\ op'.id = progs + 1
  BY <1>1 DEF Transact
<1>4. Identities'
  BY <1>1, <1>2, <1>3 DEF CountInv, Identities, Running
<1>5. \A x : HandlesIn(x)' = HandlesIn(x) /\ Count(x)' = Count(x)
  BY <1>1 DEF HandlesIn, Count
<1>6. HandlesIn(s) = {} /\ Count(s) = 0
  <2>1. HandlesIn(s) = {}
    BY <1>1, <1>2 DEF HandlesIn
  <2> QED
    BY <2>1, FS_EmptySet DEF Count
<1>7. Wrap(0) = 0 /\ 0 < Word
  <2>1. Word \in Nat \ {0} /\ 0 \in 0 .. Word - 1
    BY PoolAssumption
  <2>2. (Word * 0 + 0) % Word = 0
    BY <2>1, EuclidUnique
  <2>3. Word * 0 + 0 = 0
    BY <2>1
  <2> QED
    BY <2>1, <2>2, <2>3 DEF Wrap
<1>8. \A x \in DOMAIN slabs : Count(x) < Word /\ slabs[x].stored = Wrap(Count(x) - debt[x])
  BY DEF CountInv, SlabLedgers
<1>9. \A x \in DOMAIN slabs' : Count(x) < Word /\ slabs'[x].stored = Wrap(Count(x) - debt'[x])
  BY <1>1, <1>6, <1>7, <1>8
<1>10. SlabLedgers'
  BY <1>5, <1>9 DEF SlabLedgers
<1>11. UnmapIsSafe'
  BY <1>1, <1>5 DEF CountInv, UnmapIsSafe
<1> QED
  BY <1>4, <1>10, <1>11

LEMMA CountTxWrite ==
  ASSUME CountInv, TxWrite
  PROVE  Identities' /\ SlabLedgers' /\ UnmapIsSafe'
<1> DEFINE s == op.slab
<1>1. TypeInv /\ Running("tx") /\ op \in TxOp /\ s \in DOMAIN slabs
  BY OpFacts DEF CountInv, OwnInv, TxWrite
<1>2. PICK c \in Nat : Becomes(s, [slabs[s] EXCEPT !.cursor = c])
  BY <1>1, TxWriteEffect
<1>3. slabs[s] \in SlabRec
  BY <1>1, SlabFacts DEF TypeInv
<1>4. /\ [slabs[s] EXCEPT !.cursor = c].mapped = slabs[s].mapped
      /\ [slabs[s] EXCEPT !.cursor = c].stored = slabs[s].stored
  BY <1>3 DEF SlabRec
<1>5. op'.kind = "tx" /\ op'.id = op.id
  BY <1>1 DEF TxWrite, TxOp
<1>6. handles' = handles /\ progs' = progs /\ debt' = debt
  BY DEF TxWrite
<1>7. Identities'
  BY <1>1, <1>5, <1>6 DEF CountInv, Identities, Running
<1> QED
  BY <1>2, <1>4, <1>6, <1>7, CountFrame DEF CountInv, Becomes

\* The slab, the identity and the number of a commit, as they are before it.
LEMMA CountOkAt ==
  ASSUME CountInv, ProcessOk,
         NEW s, s = op.slab, NEW p, p = op.id, NEW n, n = op.total
  PROVE  Identities' /\ SlabLedgers' /\ UnmapIsSafe'
<1> DEFINE new == {p} \X {s} \X (1 .. n)
           r   == [slabs[s] EXCEPT !.stored = Wrap(slabs[s].stored + n)]
<1>0. TypeInv /\ TypeOK /\ Running("tx")
  BY DEF CountInv, OwnInv, ProcessOk, TypeInv
<1>1. /\ TypeInv /\ Running("tx") /\ s \in DOMAIN slabs /\ Becomes(s, r)
      /\ n \in Nat /\ p \in Nat /\ s \in Nat
  <2>1. s \in DOMAIN slabs /\ n \in Nat /\ p \in 1 .. MaxProgs
    BY <1>0, OpFacts
  <2>2. s \in Nat /\ p \in Nat
    BY <1>0, <2>1, SlabFacts, PoolAssumption
  <2>3. Becomes(s, r)
    BY <1>0, OkEffect
  <2> QED
    BY <1>0, <2>1, <2>2, <2>3
<1>2. slabs[s] \in SlabRec
  BY <1>1, SlabFacts DEF TypeInv
<1>3. r.mapped = slabs[s].mapped /\ r.stored = Wrap(slabs[s].stored + n)
  BY <1>2 DEF SlabRec
<1>4. /\ DOMAIN slabs' = DOMAIN slabs /\ slabs'[s].mapped = slabs[s].mapped
      /\ slabs'[s].stored = Wrap(slabs[s].stored + n)
      /\ \A x \in DOMAIN slabs \ {s} : slabs'[x] = slabs[x]
  BY <1>1, <1>3 DEF Becomes
<1>5. /\ handles' = handles \cup new /\ op'.kind = "idle" /\ progs' = progs /\ debt' = debt
      /\ Count(s) + n < Word
  BY DEF ProcessOk, Idle, Count
<1>6. \A h \in new : h[1] = p /\ h[2] = s
  OBVIOUS
<1>7. p <= progs /\ \A h \in handles : h[1] # p
  BY <1>1 DEF CountInv, Identities
<1>8. Identities'
  BY <1>5, <1>6, <1>7 DEF CountInv, Identities, Running
<1>9. HandlesIn(s)' = HandlesIn(s) \cup new /\ HandlesIn(s) \cap new = {}
  BY <1>5, <1>6, <1>7 DEF HandlesIn
<1>10. \A x \in DOMAIN slabs \ {s} : HandlesIn(x)' = HandlesIn(x)
  BY <1>5, <1>6 DEF HandlesIn
<1>11. Count(s)' = Count(s) + n
  <2>1. IsFiniteSet(new) /\ Cardinality(new) = n
    BY <1>1, NewHandles
  <2>2. IsFiniteSet(HandlesIn(s)) /\ Count(s) \in Nat
    BY <1>1, CountType
  <2>3. Cardinality(HandlesIn(s) \cup new) = Cardinality(HandlesIn(s)) + n - Cardinality({})
    BY <1>9, <2>1, <2>2, FS_Union
  <2> QED
    BY <1>1, <1>9, <2>2, <2>3, FS_EmptySet DEF Count
<1>12. Count(s) \in Nat /\ debt[s] \in Nat /\ slabs[s].stored = Wrap(Count(s) - debt[s])
  BY <1>1, CountType DEF CountInv, SlabLedgers
<1>13. slabs'[s].stored = Wrap(Count(s)' - debt'[s])
  <2>1. Count(s) - debt[s] \in Int /\ n \in Int
    BY <1>1, <1>12
  <2>2. Wrap(slabs[s].stored + n) = Wrap((Count(s) - debt[s]) + n)
    <3> DEFINE x == Count(s) - debt[s]
    <3>1. x \in Int /\ n \in Int /\ slabs[s].stored = Wrap(x)
      BY <1>12, <2>1
    <3> HIDE DEF x
    <3>2. Wrap(slabs[s].stored + n) = Wrap(x + n)
      BY <3>1, LedgerStep
    <3> QED
      BY <3>2 DEF x
  <2>3. (Count(s) - debt[s]) + n = Count(s)' - debt'[s]
    BY <1>1, <1>5, <1>11, <1>12
  <2> QED
    BY <1>4, <2>2, <2>3
<1>14. ASSUME NEW x \in DOMAIN slabs'
       PROVE  Count(x)' < Word /\ slabs'[x].stored = Wrap(Count(x)' - debt'[x])
  <2>1. CASE x = s
    BY <1>5, <1>11, <1>13, <2>1
  <2>2. CASE x # s
    <3>1. Count(x)' = Count(x) /\ slabs'[x] = slabs[x] /\ x \in DOMAIN slabs
      BY <1>4, <1>10, <1>14, <2>2 DEF Count
    <3> QED
      BY <1>5, <3>1 DEF CountInv, SlabLedgers
  <2> QED
    BY <2>1, <2>2
<1>15. SlabLedgers'
  BY <1>14 DEF SlabLedgers
<1>16. UnmapIsSafe'
  <2>1. slabs[s].mapped
    BY <1>1 DEF CountInv, OwnInv, Owned
  <2> QED
    BY <1>4, <1>5, <1>10, <2>1 DEF CountInv, UnmapIsSafe
<1> QED
  BY <1>8, <1>15, <1>16

LEMMA CountOk ==
  ASSUME CountInv, ProcessOk
  PROVE  Identities' /\ SlabLedgers' /\ UnmapIsSafe'
  BY CountOkAt

LEMMA CountErr ==
  ASSUME CountInv, ProcessErr
  PROVE  Identities' /\ SlabLedgers' /\ UnmapIsSafe'
<1> DEFINE s == op.slab
           w == op.writes
           r == [slabs[s] EXCEPT !.cursor = op.mark, !.stored = Wrap(slabs[s].stored - w)]
<1>1. TypeInv /\ Running("tx") /\ s \in DOMAIN slabs /\ Becomes(s, r) /\ w \in Nat
  BY OpFacts, ErrEffect DEF CountInv, OwnInv, ProcessErr
<1>2. slabs[s] \in SlabRec /\ slabs[s].stored \in Int
  BY <1>1, SlabFacts DEF TypeInv
<1>3. r.mapped = slabs[s].mapped /\ r.stored = Wrap(slabs[s].stored - w)
  BY <1>2 DEF SlabRec
<1>4. /\ DOMAIN slabs' = DOMAIN slabs /\ slabs'[s].mapped = slabs[s].mapped
      /\ slabs'[s].stored = Wrap(slabs[s].stored - w)
      /\ \A x \in DOMAIN slabs \ {s} : slabs'[x] = slabs[x]
  BY <1>1, <1>3 DEF Becomes
<1>5. handles' = handles /\ progs' = progs /\ op'.kind = "idle"
  BY DEF ProcessErr, Idle
<1>6. /\ debt'[s] = debt[s] + w /\ \A x \in DOMAIN slabs \ {s} : debt'[x] = debt[x]
      /\ debt[s] \in Nat
  <2>1. debt \in [DOMAIN slabs -> Nat] /\ debt' = [debt EXCEPT ![s] = debt[s] + w]
    BY <1>1 DEF TypeInv, TypeOK, ProcessErr
  <2> QED
    BY <1>1, <2>1
<1>7. Identities'
  BY <1>5 DEF CountInv, Identities, Running
<1>8. \A x : HandlesIn(x)' = HandlesIn(x) /\ Count(x)' = Count(x)
  BY <1>5 DEF HandlesIn, Count
<1>9. Count(s) \in Nat /\ slabs[s].stored = Wrap(Count(s) - debt[s])
  BY <1>1, CountType DEF CountInv, SlabLedgers
<1>10. slabs'[s].stored = Wrap(Count(s) - debt'[s])
  <2>1. Count(s) - debt[s] \in Int /\ -w \in Int
    BY <1>1, <1>6, <1>9
  <2>2. Wrap(slabs[s].stored + (-w)) = Wrap((Count(s) - debt[s]) + (-w))
    BY <1>9, <2>1, LedgerStep
  <2>3. /\ (Count(s) - debt[s]) + (-w) = Count(s) - debt'[s]
        /\ slabs[s].stored + (-w) = slabs[s].stored - w
    BY <1>1, <1>2, <1>6, <1>9
  <2> QED
    BY <1>4, <2>2, <2>3
<1>11. \A x \in DOMAIN slabs' : Count(x) < Word /\ slabs'[x].stored = Wrap(Count(x) - debt'[x])
  BY <1>1, <1>4, <1>6, <1>10 DEF CountInv, SlabLedgers
<1>12. SlabLedgers'
  BY <1>8, <1>11 DEF SlabLedgers
<1>13. ASSUME NEW x \in DOMAIN slabs', debt'[x] = 0, ~slabs'[x].mapped
       PROVE  HandlesIn(x) = {}
  <2>1. x \in DOMAIN slabs /\ ~slabs[x].mapped /\ debt[x] = 0
    BY <1>1, <1>4, <1>6, <1>13
  <2> QED
    BY <2>1 DEF CountInv, UnmapIsSafe
<1>14. UnmapIsSafe'
  BY <1>8, <1>13 DEF UnmapIsSafe
<1> QED
  BY <1>7, <1>12, <1>14

\* Without debt, a counter of zero means that nobody holds anything.
LEMMA ExactZero ==
  ASSUME CountInv, NEW s \in DOMAIN slabs, debt[s] = 0, slabs[s].stored = 0
  PROVE  HandlesIn(s) = {}
<1>1. Count(s) \in Nat /\ Count(s) < Word /\ IsFiniteSet(HandlesIn(s)) /\ Word \in Nat \ {0}
  BY CountType, PoolAssumption DEF CountInv, OwnInv, SlabLedgers
<1>2. (Word * 0 + Count(s)) % Word = Count(s)
  BY <1>1, EuclidUnique
<1>3. Wrap(Count(s) - debt[s]) = 0
  BY DEF CountInv, SlabLedgers
<1>4. Word * 0 + Count(s) = Count(s) - debt[s]
  BY <1>1
<1>5. Count(s) = 0
  BY <1>2, <1>3, <1>4 DEF Wrap
<1> QED
  BY <1>1, <1>5, FS_EmptySet DEF Count

LEMMA CountGcFree ==
  ASSUME CountInv, GcFree
  PROVE  Identities' /\ SlabLedgers' /\ UnmapIsSafe'
<1> DEFINE s == execs[op.i]
           r == [slabs[s] EXCEPT !.mapped = FALSE]
<1>1. TypeInv /\ Becomes(s, r) /\ s \in DOMAIN slabs /\ op' \in GcOp
  BY GcFreeEffect DEF CountInv, OwnInv
<1>2. slabs[s] \in SlabRec /\ op'.kind = "gc"
  BY <1>1, SlabFacts DEF TypeInv, GcOp
<1>3. r.stored = slabs[s].stored
  BY <1>2 DEF SlabRec
<1>4. /\ DOMAIN slabs' = DOMAIN slabs /\ slabs'[s].stored = slabs[s].stored
      /\ \A x \in DOMAIN slabs \ {s} : slabs'[x] = slabs[x]
  BY <1>1, <1>3 DEF Becomes
<1>5. handles' = handles /\ progs' = progs /\ debt' = debt /\ slabs[s].stored = 0
  BY DEF GcFree
<1>6. Identities'
  BY <1>2, <1>5 DEF CountInv, Identities, Running
<1>7. \A x : HandlesIn(x)' = HandlesIn(x) /\ Count(x)' = Count(x)
  BY <1>5 DEF HandlesIn, Count
<1>8. \A x \in DOMAIN slabs' : Count(x) < Word /\ slabs'[x].stored = Wrap(Count(x) - debt'[x])
  BY <1>1, <1>4, <1>5 DEF CountInv, SlabLedgers
<1>9. SlabLedgers'
  BY <1>7, <1>8 DEF SlabLedgers
<1>10. debt[s] = 0 => HandlesIn(s) = {}
  BY <1>1, <1>5, ExactZero
<1>11. UnmapIsSafe'
  BY <1>4, <1>5, <1>7, <1>10 DEF CountInv, UnmapIsSafe
<1> QED
  BY <1>6, <1>9, <1>11

LEMMA CountRelease ==
  ASSUME CountInv, NEW h \in handles, Release(h)
  PROVE  Identities' /\ SlabLedgers' /\ UnmapIsSafe'
<1> DEFINE s == h[2]
           r == [slabs[s] EXCEPT !.stored = Wrap(slabs[s].stored - 1)]
<1>1. TypeInv /\ Becomes(s, r) /\ s \in DOMAIN slabs
  BY ReleaseEffect DEF CountInv, OwnInv, Becomes
<1>2. slabs[s] \in SlabRec /\ slabs[s].stored \in Int
  BY <1>1, SlabFacts DEF TypeInv
<1>3. r.mapped = slabs[s].mapped /\ r.stored = Wrap(slabs[s].stored - 1)
  BY <1>2 DEF SlabRec
<1>4. /\ DOMAIN slabs' = DOMAIN slabs /\ slabs'[s].mapped = slabs[s].mapped
      /\ slabs'[s].stored = Wrap(slabs[s].stored - 1)
      /\ \A x \in DOMAIN slabs \ {s} : slabs'[x] = slabs[x]
  BY <1>1, <1>3 DEF Becomes
<1>5. handles' = handles \ {h} /\ progs' = progs /\ debt' = debt /\ op' = op
  BY DEF Release
<1>6. Identities'
  BY <1>5 DEF CountInv, Identities, Running
<1>7. HandlesIn(s)' = HandlesIn(s) \ {h} /\ h \in HandlesIn(s)
  BY <1>5 DEF HandlesIn
<1>8. \A x \in DOMAIN slabs \ {s} : HandlesIn(x)' = HandlesIn(x)
  BY <1>5 DEF HandlesIn
<1>9. Count(s) \in Nat /\ debt[s] \in Nat /\ IsFiniteSet(HandlesIn(s))
  BY <1>1, CountType
<1>10. Count(s)' = Count(s) - 1
  BY <1>7, <1>9, FS_RemoveElement DEF Count
<1>11. Count(s) < Word /\ slabs[s].stored = Wrap(Count(s) - debt[s]) /\ Word \in Nat
  BY <1>1, PoolAssumption DEF CountInv, SlabLedgers
<1>12. slabs'[s].stored = Wrap(Count(s)' - debt'[s])
  <2>1. Count(s) - debt[s] \in Int /\ -1 \in Int
    BY <1>9
  <2>2. Wrap(slabs[s].stored + (-1)) = Wrap((Count(s) - debt[s]) + (-1))
    BY <1>11, <2>1, LedgerStep
  <2>3. /\ (Count(s) - debt[s]) + (-1) = Count(s)' - debt'[s]
        /\ slabs[s].stored + (-1) = slabs[s].stored - 1
    BY <1>2, <1>5, <1>9, <1>10
  <2> QED
    BY <1>4, <2>2, <2>3
<1>13. Count(s)' < Word
  BY <1>9, <1>10, <1>11
<1>14. ASSUME NEW x \in DOMAIN slabs'
       PROVE  Count(x)' < Word /\ slabs'[x].stored = Wrap(Count(x)' - debt'[x])
  <2>1. CASE x = s
    BY <1>12, <1>13, <2>1
  <2>2. CASE x # s
    <3>1. Count(x)' = Count(x) /\ slabs'[x] = slabs[x] /\ x \in DOMAIN slabs
      BY <1>4, <1>8, <1>14, <2>2 DEF Count
    <3> QED
      BY <1>5, <3>1 DEF CountInv, SlabLedgers
  <2> QED
    BY <2>1, <2>2
<1>15. SlabLedgers'
  BY <1>14 DEF SlabLedgers
<1>16. \A x \in DOMAIN slabs : HandlesIn(x) = {} => HandlesIn(x)' = {}
  BY <1>5 DEF HandlesIn
<1>17. \A x \in DOMAIN slabs : slabs'[x].mapped = slabs[x].mapped
  BY <1>4
<1>18. UnmapIsSafe'
  BY <1>4, <1>5, <1>16, <1>17 DEF CountInv, UnmapIsSafe
<1> QED
  BY <1>6, <1>15, <1>18

LEMMA CountNext == CountInv /\ [Next]_vars => CountInv'
<1> SUFFICES ASSUME CountInv, [Next]_vars PROVE CountInv'
  OBVIOUS
<1>1. OwnInv'
  BY OwnNext DEF CountInv
<1>2. Identities' /\ SlabLedgers' /\ UnmapIsSafe'
  <2>1. CASE \E req \in Requests, t \in Totals : ProcessReuse(req, t)
    BY <2>1, CountReuse
  <2>2. CASE \E req \in Requests, t \in Totals, b \in Bases : ProcessAlloc(req, t, b)
    BY <2>2, CountAlloc
  <2>3. CASE TxWrite
    BY <2>3, CountTxWrite
  <2>4. CASE ProcessOk
    BY <2>4, CountOk
  <2>5. CASE ProcessErr
    BY <2>5, CountErr
  <2>6. CASE GcStart \/ GcKeep \/ GcEnd
    <3>1. /\ slabs' = slabs /\ handles' = handles /\ progs' = progs /\ debt' = debt
          /\ op'.kind # "tx"
      <4>1. CASE GcStart
        BY <4>1 DEF GcStart
      <4>2. CASE GcKeep
        <5>1. op' \in GcOp
          BY <4>2, TypeGcKeep DEF CountInv, OwnInv
        <5> QED
          BY <4>2, <5>1 DEF GcKeep, GcOp
      <4>3. CASE GcEnd
        BY <4>3 DEF GcEnd, Idle
      <4> QED
        BY <2>6, <4>1, <4>2, <4>3
    <3>2. Identities'
      BY <3>1 DEF CountInv, Identities, Running
    <3> QED
      BY <3>1, <3>2, CountFrame DEF CountInv
  <2>7. CASE GcFree
    BY <2>7, CountGcFree
  <2>8. CASE \E h \in handles : Release(h)
    BY <2>8, CountRelease
  <2>9. CASE UNCHANGED vars
    <3>1. Identities'
      BY <2>9 DEF CountInv, Identities, Running, vars
    <3> QED
      BY <2>9, <3>1, CountFrame DEF CountInv, vars
  <2> QED
    BY <2>1, <2>2, <2>3, <2>4, <2>5, <2>6, <2>7, <2>8, <2>9 DEF Next
<1> QED
  BY <1>1, <1>2 DEF CountInv

\* No slab is unmapped under its users, however releases by other threads
\* fall between the steps of gc, unless a roll-back took counts of theirs.
THEOREM UnmappingIsSafe == Spec => []UnmapIsSafe
<1>1. CountInv => UnmapIsSafe
  BY DEF CountInv
<1> QED
  BY <1>1, CountInit, CountNext, PTL DEF Spec

-----------------------------------------------------------------------------
(* The pool is a code store. *)

CalmInv == CountInv /\ \A s \in DOMAIN slabs : debt[s] = 0

Held   == {<<h[1], h[3]>> : h \in handles}
Intact == {h[1] : h \in {g \in handles : slabs[g[2]].mapped}}
Ids    == {h[1] : h \in handles}

LEMMA CalmInit == Init => CalmInv
  BY CountInit DEF CalmInv, Init

LEMMA CalmStep == CalmInv /\ [CalmNext]_vars => CalmInv'
<1> SUFFICES ASSUME CalmInv, [CalmNext]_vars PROVE CalmInv'
  OBVIOUS
<1>1. CountInv'
  BY CountNext DEF CalmInv, CalmNext
<1>2. CASE CalmNext
  <2>1. DOMAIN debt' = DOMAIN slabs'
    BY <1>1 DEF CountInv, OwnInv, TypeInv, TypeOK
  <2> QED
    BY <1>1, <1>2, <2>1 DEF CalmNext, CalmInv
<1>3. CASE UNCHANGED vars
  BY <1>1, <1>3 DEF CalmInv, vars
<1> QED
  BY <1>2, <1>3

\* The programs in place are the programs in use.
InStep == Intact = Ids /\ Store!InUse(Held) = Ids

\* Without debt every program in use is in a mapped slab.
LEMMA AllIntact == CalmInv => InStep
<1> SUFFICES ASSUME CalmInv PROVE InStep
  OBVIOUS
<1>2. \A h \in handles : h[1] \in 1 .. MaxProgs /\ h[2] \in DOMAIN slabs
  BY HandleFacts DEF CalmInv, CountInv, OwnInv
<1>3. ASSUME NEW h \in handles
      PROVE  slabs[h[2]].mapped
  <2>1. h \in HandlesIn(h[2])
    BY DEF HandlesIn
  <2> QED
    BY <1>2, <2>1 DEF CalmInv, CountInv, UnmapIsSafe
<1>4. Intact = Ids
  BY <1>3 DEF Intact, Ids
<1>5. \A x \in Held : \E h \in handles : x[1] = h[1]
  BY DEF Held
<1>6. \A h \in handles : <<h[1], h[3]>> \in Held /\ <<h[1], h[3]>>[1] = h[1]
  BY DEF Held
<1>7. \A p : (\E x \in Held : x[1] = p) <=> (\E h \in handles : h[1] = p)
  BY <1>5, <1>6
<1>8. Store!InUse(Held) = Ids
  BY <1>2, <1>7 DEF Store!InUse, Ids
<1> QED
  BY <1>4, <1>8 DEF InStep

LEMMA CalmInvariant == CalmSpec => [](CalmInv /\ InStep)
  BY CalmInit, CalmStep, AllIntact, PTL DEF CalmSpec

\* The store's actions, read under the mapping.
LEMMA StoreActions ==
  /\ \A p, n : Store!Load(p, n) <=>
       /\ p \notin Store!InUse(Held) /\ Held' = Held \cup ({p} \X (1 .. n))
       /\ Store!InUse(Held') \subseteq Intact' /\ Intact' \subseteq Intact \cup {p}
  /\ \A h : Store!GiveBack(h) <=>
       /\ Held' = Held \ {h}
       /\ Store!InUse(Held') \subseteq Intact' /\ Intact' \subseteq Intact
  /\ Store!StoreNext <=>
       \/ \E p \in 1 .. MaxProgs, n \in Totals : Store!Load(p, n)
       \/ \E h \in Held : Store!GiveBack(h)
       \/ Store!Reclaim
<1>1. \A p, n : Store!Load(p, n) <=>
        /\ p \notin Store!InUse(Held) /\ Held' = Held \cup ({p} \X (1 .. n))
        /\ Store!InUse(Held') \subseteq Intact' /\ Intact' \subseteq Intact \cup {p}
  BY Zenon DEF Store!Load, Held, Intact
<1>2. \A h : Store!GiveBack(h) <=>
        /\ Held' = Held \ {h}
        /\ Store!InUse(Held') \subseteq Intact' /\ Intact' \subseteq Intact
  BY Zenon DEF Store!GiveBack, Held, Intact
<1>3. Store!StoreNext <=>
        \/ \E p \in 1 .. MaxProgs, n \in Totals : Store!Load(p, n)
        \/ \E h \in Held : Store!GiveBack(h)
        \/ Store!Reclaim
  BY Zenon DEF Store!StoreNext, Held
<1> QED
  BY <1>1, <1>2, <1>3

\* One step of the pool is a step of the store, or none.
LEMMA StoreStep ==
  ASSUME CalmInv, InStep, CalmInv', InStep', [CalmNext]_vars
  PROVE  [Store!StoreNext]_<<Held, Intact>>
<1>1. /\ Intact = Ids /\ Store!InUse(Held) = Ids
      /\ Intact' = Ids' /\ Store!InUse(Held') = Ids'
  BY DEF InStep, Store!InUse
<1>2. TypeInv /\ TypeInv'
  BY DEF CalmInv, CountInv, OwnInv
<1>3. ASSUME ProcessOk, NEW p, p = op.id, NEW n, n = op.total, NEW s, s = op.slab
      PROVE  Store!StoreNext
  <2>1. /\ p \in 1 .. MaxProgs /\ n \in Totals
        /\ \A h \in handles : h[1] # p
    BY <1>2, <1>3, OpFacts DEF ProcessOk, CalmInv, CountInv, Identities
  <2>2. handles' = handles \cup ({p} \X {s} \X (1 .. n))
    BY <1>3 DEF ProcessOk
  <2>3. Held' = Held \cup ({p} \X (1 .. n))
    <3>1. \A h \in handles' : h \in handles \/ (h[1] = p /\ h[3] \in 1 .. n)
      BY <2>2
    <3>2. \A k \in 1 .. n : <<p, s, k>> \in handles'
      BY <2>2
    <3>3. Held' \subseteq Held \cup ({p} \X (1 .. n))
      BY <3>1 DEF Held
    <3>4. Held \subseteq Held'
      BY <2>2 DEF Held
    <3>5. ASSUME NEW k \in 1 .. n
          PROVE  <<p, k>> \in Held'
      <4>1. <<p, s, k>>[1] = p /\ <<p, s, k>>[3] = k
        OBVIOUS
      <4> QED
        BY <3>2, <3>5, <4>1 DEF Held
    <3> QED
      BY <3>3, <3>4, <3>5
  <2>4. Ids' \subseteq Ids \cup {p}
    BY <2>2 DEF Ids
  <2>5. p \notin Ids
    BY <2>1 DEF Ids
  <2>6. Store!Load(p, n)
    BY <1>1, <2>3, <2>4, <2>5, StoreActions
  <2> QED
    BY <2>1, <2>6, StoreActions
<1>4. ASSUME NEW h \in handles, Release(h)
      PROVE  Store!StoreNext
  <2>1. handles' = handles \ {h}
    BY <1>4 DEF Release
  <2>2. \A g \in handles : g[1] = h[1] /\ g[3] = h[3] => g = h
    <3>1. \A g \in handles : g[1] = h[1] => g[2] = h[2]
      BY DEF CalmInv, CountInv, Identities
    <3>2. \A g \in handles : g \in (1 .. MaxProgs) \X (DOMAIN slabs) \X Nat
      BY <1>2 DEF TypeInv, TypeOK
    <3>3. \A g \in handles : g = <<g[1], g[2], g[3]>>
      BY <3>2
    <3> QED
      BY <3>1, <3>3
  <2>3. Held' = Held \ {<<h[1], h[3]>>} /\ <<h[1], h[3]>> \in Held
    <3>1. \A g \in handles : <<g[1], g[3]>> = <<h[1], h[3]>> => g = h
      BY <2>2
    <3> QED
      BY <2>1, <3>1 DEF Held
  <2>4. Ids' \subseteq Ids
    BY <2>1 DEF Ids
  <2>5. Store!GiveBack(<<h[1], h[3]>>)
    BY <1>1, <2>3, <2>4, StoreActions
  <2> QED
    BY <2>3, <2>5, StoreActions
<1>5. CASE handles' = handles
  <2>1. Held' = Held /\ Ids' = Ids
    BY <1>5 DEF Held, Ids
  <2> QED
    BY <1>1, <2>1
<1>6. CASE UNCHANGED vars
  BY <1>5, <1>6 DEF vars
<1>7. CASE CalmNext
  <2>1. Next
    BY <1>7 DEF CalmNext
  <2>2. ASSUME NEW req \in Requests, NEW t \in Totals, ProcessReuse(req, t)
        PROVE  handles' = handles
    BY <2>2 DEF ProcessReuse
  <2>3. ASSUME NEW req \in Requests, NEW t \in Totals, NEW b \in Bases, ProcessAlloc(req, t, b)
        PROVE  handles' = handles
    BY <2>3 DEF ProcessAlloc
  <2>4. TxWrite \/ ProcessErr \/ GcStart \/ GcKeep \/ GcFree \/ GcEnd => handles' = handles
    BY DEF TxWrite, ProcessErr, GcStart, GcKeep, GcFree, GcEnd
  <2> QED
    BY <1>3, <1>4, <1>5, <2>1, <2>2, <2>3, <2>4 DEF Next
<1> QED
  BY <1>6, <1>7

\* For clients whose callbacks give up only before their first write, the
\* pool implements CodeStore: a program that was handed out stays in place
\* until its last reference is given back, whatever the pool maps, unmaps
\* and reorders meanwhile.
THEOREM PoolIsCodeStore == CalmSpec => ImplementsStore
<1>1. Init => Store!StoreInit
  <2> SUFFICES ASSUME Init PROVE Held = {} /\ Intact = {}
    BY DEF Store!StoreInit, Held, Intact
  <2> QED
    BY DEF Init, Held, Intact
<1>2. CalmInv /\ InStep /\ (CalmInv /\ InStep)' /\ [CalmNext]_vars
        => [Store!StoreNext]_<<Held, Intact>>
  BY StoreStep
<1>3. [Store!StoreNext]_<<Held, Intact>>
        = [Store!StoreNext]_<<{<<h[1], h[3]>> : h \in handles},
                              {h[1] : h \in {g \in handles : slabs[g[2]].mapped}}>>
  BY DEF Held, Intact
<1> QED
  BY <1>1, <1>2, <1>3, CalmInvariant, PTL DEF CalmSpec, ImplementsStore, Store!StoreSpec, Held, Intact

-----------------------------------------------------------------------------
(* Room for what was announced. *)

\* What the open call has yet to write, laid out from the cursor on, ends in
\* its slab.  ItemFits of the next item alone is not inductive: it says
\* nothing of the items after it.
TodoFits ==
  Running("tx") =>
    LayoutEnd(slabs[op.slab].base + slabs[op.slab].cursor, op.todo)
      <= slabs[op.slab].base + slabs[op.slab].size

\* The whole request fits above the mark, to which a roll-back returns.
MarkFits ==
  Running("tx") =>
    LET m == slabs[op.slab]
    IN  LayoutEnd(m.base + op.mark, op.req) - (m.base + op.mark) <= m.size - op.mark

RoomInv == TypeInv /\ TodoFits /\ MarkFits

\* The types that the layout of the open call's items needs.
LEMMA TodoTypes ==
  ASSUME TypeInv, Running("tx")
  PROVE  /\ op.slab \in DOMAIN slabs /\ op.todo \in Seq(Item)
         /\ slabs[op.slab].base \in Nat /\ slabs[op.slab].cursor \in Nat
         /\ slabs[op.slab].size \in Nat
<1>1. op.slab \in DOMAIN slabs /\ op.todo \in Seq(Item)
  BY OpFacts
<1>2. slabs[op.slab] \in SlabRec /\ slabs[op.slab].base \in Nat
  BY <1>1, SlabFacts DEF TypeInv
<1> QED
  BY <1>1, <1>2 DEF SlabRec

\* The next item of a layout that ends in the slab fits.
LEMMA FirstFits == RoomInv => PrerequisitesSuffice
<1> SUFFICES ASSUME RoomInv, Running("tx"), op.todo # <<>>
             PROVE  ItemFits(Head(op.todo))
  BY DEF PrerequisitesSuffice
<1> DEFINE m    == slabs[op.slab]
           x    == m.base + m.cursor
           item == Head(op.todo)
           next == AlignUp(x, item.align) + item.size
<1>1. /\ op.todo \in Seq(Item) /\ m.base \in Nat /\ m.cursor \in Nat /\ m.size \in Nat
      /\ x \in Nat
  BY TodoTypes DEF RoomInv
<1>2. next \in Nat /\ LayoutEnd(x, op.todo) = LayoutEnd(next, Tail(op.todo))
  BY <1>1, LayoutOfTail
<1>3. Tail(op.todo) \in Seq(Item)
  BY <1>1
<1>4. next <= LayoutEnd(next, Tail(op.todo)) /\ LayoutEnd(next, Tail(op.todo)) \in Nat
  BY <1>2, <1>3, LayoutAbove
<1>5. LayoutEnd(x, op.todo) <= m.base + m.size
  BY DEF RoomInv, TodoFits
<1>6. next <= m.base + m.size
  BY <1>1, <1>2, <1>4, <1>5
<1>7. item \in Item
  BY <1>1
<1>8. item.size \in Nat /\ item.align \in Nat \ {0}
  BY <1>7 DEF Item
<1>9. AlignUp(x, item.align) \in Nat
  BY <1>1, <1>8, AlignUpFacts
<1>10. (AlignUp(x, item.align) - m.base) + item.size <= m.size
  BY <1>1, <1>6, <1>8, <1>9
<1> QED
  BY <1>10 DEF ItemFits, Fits, StartOffset

\* A slab that under_size_adv accepted.
LEMMA RoomReuse ==
  ASSUME TypeInv, NEW req \in Requests, NEW t \in Totals, ProcessReuse(req, t)
  PROVE  TodoFits' /\ MarkFits'
<1>1. PICK i \in Candidates(req) :
        op' = Transact(execs[i], slabs[execs[i]].cursor, req, t)
  BY DEF ProcessReuse
<1> DEFINE m == slabs[execs[i]]
<1>2. i \in DOMAIN execs /\ execs[i] \in DOMAIN slabs
  BY ExecFacts DEF Candidates, TypeInv
<1>3. m \in SlabRec /\ m.base \in Nat
  BY <1>2, SlabFacts DEF TypeInv
<1>4. m.cursor \in Nat /\ m.size \in Nat
  BY <1>3 DEF SlabRec
<1>5. LayoutEnd(m.base + m.cursor, req) - (m.base + m.cursor) <= m.size - m.cursor
  BY DEF Candidates, HasRoom, UnderSizeAdv
<1>6. LayoutEnd(m.base + m.cursor, req) \in Nat
  <2>1. m.base + m.cursor \in Nat /\ req \in Seq(Item)
    BY <1>3, <1>4, RequestFacts
  <2> QED
    BY <2>1, LayoutAbove
<1>7. LayoutEnd(m.base + m.cursor, req) <= m.base + m.size
  BY <1>3, <1>4, <1>5, <1>6
<1>8. /\ op'.slab = execs[i] /\ op'.todo = req /\ slabs' = slabs
      /\ op'.mark = m.cursor /\ op'.req = req
  BY <1>1 DEF Transact, ProcessReuse
<1> QED
  BY <1>5, <1>7, <1>8 DEF TodoFits, MarkFits

\* A slab that alloc sized for the worst case.
LEMMA RoomAlloc ==
  ASSUME TypeInv, NEW req \in Requests, NEW t \in Totals, NEW b \in Bases,
         ProcessAlloc(req, t, b)
  PROVE  TodoFits' /\ MarkFits'
<1> DEFINE s    == Len(slabs) + 1
           need == WorstCase(req)
           slab == FreshSlab(b, need)
<1>1. slabs'[s] = slab /\ op' = Transact(s, slab.cursor, req, t)
  BY AllocEffect
<1>2. req \in Seq(Item) /\ need \in Nat /\ b \in Nat
  BY RequestFacts, PoolAssumption
<1>3. slab \in SlabRec /\ slab.base = b /\ slab.cursor + need <= slab.size
  BY <1>2, FreshFacts
<1>4. slab.cursor \in Nat /\ slab.size \in Nat
  BY <1>3 DEF SlabRec
<1>5. b + slab.cursor \in Nat
  BY <1>2, <1>4
<1>6. LayoutEnd(b + slab.cursor, req) <= (b + slab.cursor) + need
  BY <1>2, <1>5, LayoutWithinWorstCase
<1>7. LayoutEnd(b + slab.cursor, req) \in Nat
  BY <1>2, <1>5, LayoutAbove
<1> HIDE DEF slab, need
<1>8. LayoutEnd(b + slab.cursor, req) <= b + slab.size
  BY <1>2, <1>3, <1>4, <1>6, <1>7
<1>9. /\ op'.slab = s /\ op'.todo = req /\ op'.mark = slab.cursor /\ op'.req = req
  BY <1>1 DEF Transact
<1>10. LayoutEnd(b + slab.cursor, req) - (b + slab.cursor) <= slab.size - slab.cursor
  BY <1>2, <1>4, <1>7, <1>8
<1> QED
  BY <1>1, <1>3, <1>8, <1>9, <1>10 DEF TodoFits, MarkFits

\* A write lays the first item out, as the announcement did.
LEMMA RoomTxWrite ==
  ASSUME TypeInv, TodoFits, MarkFits, TxWrite
  PROVE  TodoFits' /\ MarkFits'
<1> DEFINE s    == op.slab
           m    == slabs[s]
           x    == m.base + m.cursor
           item == Head(op.todo)
           next == AlignUp(x, item.align) + item.size
<1>1. /\ op.todo \in Seq(Item) /\ op.todo # <<>> /\ s \in DOMAIN slabs
      /\ m.base \in Nat /\ m.cursor \in Nat /\ m.size \in Nat /\ x \in Nat
  BY TodoTypes DEF TxWrite
<1>2. next \in Nat /\ LayoutEnd(x, op.todo) = LayoutEnd(next, Tail(op.todo))
  BY <1>1, LayoutOfTail
<1>3. LayoutEnd(x, op.todo) <= m.base + m.size
  BY DEF TodoFits, TxWrite
<1>4. m \in SlabRec
  BY <1>1, SlabFacts DEF TypeInv
<1>5. item \in Item
  BY <1>1
<1>6. item.size \in Nat /\ item.align \in Nat \ {0}
  BY <1>5 DEF Item
<1>7. AlignUp(x, item.align) \in Nat
  BY <1>1, <1>6, AlignUpFacts
<1> DEFINE c == (AlignUp(x, item.align) - m.base) + item.size
<1>8. slabs'[s] = [m EXCEPT !.cursor = c]
  <2>1. slabs' = [slabs EXCEPT ![s].cursor = StartOffset(m.base, @, item.align) + item.size]
    BY DEF TxWrite
  <2>2. StartOffset(m.base, m.cursor, item.align) + item.size = c
    BY DEF StartOffset
  <2>3. slabs \in Seq(SlabRec)
    BY SlabFacts DEF TypeInv
  <2> QED
    BY <1>1, <1>4, <2>1, <2>2, <2>3 DEF SlabRec
<1>9. slabs'[s].base = m.base /\ slabs'[s].size = m.size /\ slabs'[s].cursor = c
  BY <1>4, <1>8 DEF SlabRec
<1>10. m.base + c = next
  BY <1>1, <1>6, <1>7
<1>11. /\ op'.slab = s /\ op'.todo = Tail(op.todo)
       /\ op'.mark = op.mark /\ op'.req = op.req
  BY OpFacts DEF TxWrite, TxOp
<1>12. TodoFits'
  BY <1>2, <1>3, <1>9, <1>10, <1>11 DEF TodoFits
<1>13. LayoutEnd(m.base + op.mark, op.req) - (m.base + op.mark) <= m.size - op.mark
  BY DEF MarkFits, TxWrite
<1>14. MarkFits'
  BY <1>9, <1>11, <1>13 DEF MarkFits
<1> QED
  BY <1>12, <1>14

\* A release moves no cursor.
LEMMA RoomRelease ==
  ASSUME TypeInv, TodoFits, MarkFits, NEW h \in handles, Release(h)
  PROVE  TodoFits' /\ MarkFits'
<1>1. /\ slabs \in Seq(SlabRec)
      /\ \A s \in DOMAIN slabs : slabs[s] \in SlabRec
  BY SlabFacts DEF TypeInv
<1>2. slabs' = [slabs EXCEPT ![h[2]].stored = Wrap(@ - 1)]
  BY DEF Release
<1>3. \A s \in DOMAIN slabs : /\ slabs'[s].base = slabs[s].base
                              /\ slabs'[s].cursor = slabs[s].cursor
                              /\ slabs'[s].size = slabs[s].size
  BY <1>1, <1>2 DEF SlabRec
<1>4. op' = op
  BY DEF Release
<1>5. Running("tx") => op.slab \in DOMAIN slabs
  BY OpFacts
<1> QED
  BY <1>3, <1>4, <1>5 DEF TodoFits, MarkFits, Running

LEMMA RoomNext == RoomInv /\ [Next]_vars => RoomInv'
<1> SUFFICES ASSUME RoomInv, [Next]_vars PROVE RoomInv'
  OBVIOUS
<1>1. TypeInv /\ TodoFits /\ MarkFits /\ TypeInv'
  BY TypeNext DEF RoomInv
<1>2. CASE UNCHANGED vars
  BY <1>1, <1>2 DEF RoomInv, TodoFits, MarkFits, Running, vars
<1>3. ASSUME NEW req \in Requests, NEW t \in Totals, ProcessReuse(req, t)
      PROVE  TodoFits' /\ MarkFits'
  BY <1>1, <1>3, RoomReuse
<1>4. ASSUME NEW req \in Requests, NEW t \in Totals, NEW b \in Bases, ProcessAlloc(req, t, b)
      PROVE  TodoFits' /\ MarkFits'
  BY <1>1, <1>4, RoomAlloc
<1>5. CASE TxWrite
  BY <1>1, <1>5, RoomTxWrite DEF RoomInv
<1>6. CASE ProcessOk \/ ProcessErr \/ GcEnd
  <2>1. op' = Idle /\ op'.kind = "idle"
    BY <1>6 DEF ProcessOk, ProcessErr, GcEnd, Idle
  <2> QED
    BY <1>1, <2>1 DEF RoomInv, TodoFits, MarkFits, Running
<1>7. CASE GcStart \/ GcKeep \/ GcFree
  <2>1. Running("gc") => op \in GcOp
    BY <1>1, OpFacts
  <2>2. op'.kind = "gc"
    BY <1>7, <2>1 DEF GcStart, GcKeep, GcFree, GcOp
  <2> QED
    BY <1>1, <2>2 DEF RoomInv, TodoFits, MarkFits, Running
<1>8. ASSUME NEW h \in handles, Release(h)
      PROVE  TodoFits' /\ MarkFits'
  BY <1>1, <1>8, RoomRelease
<1> QED
  BY <1>1, <1>2, <1>3, <1>4, <1>5, <1>6, <1>7, <1>8 DEF Next, RoomInv

LEMMA RoomInvariant == Spec => []RoomInv
<1>1. Init => RoomInv
  <2> SUFFICES ASSUME Init PROVE TodoFits /\ MarkFits
    BY TypeInit DEF RoomInv
  <2> QED
    BY DEF Init, Idle, TodoFits, MarkFits, Running
<1> QED
  BY <1>1, RoomNext, PTL DEF Spec

\* A truthful callback never runs out of slab: neither in one that
\* under_size_adv accepted nor in one that alloc sized for the request,
\* wherever it was mapped and whatever the sizes and alignments are.
THEOREM AnnouncedFits == Spec => []PrerequisitesSuffice
BY RoomInvariant, FirstFits, PTL

\* A call that failed, wherever the callback gave up, leaves the pool a slab
\* that under_size_adv accepts for the same request: the next attempt maps
\* none.  An alignment that is no power of two is the exception.
THEOREM RetriesFindRoom == Spec => RetryFindsRoom
<1> DEFINE Room == (Running("tx") /\ op' = Idle /\ handles' = handles /\ Aligned(op.req)) =>
                     LET m == slabs'[op.slab]
                     IN  /\ \E i \in DOMAIN execs' : execs'[i] = op.slab
                         /\ UnderSizeAdv(m.base, m.size, m.cursor, op.req)
<1>1. CountInv /\ RoomInv /\ [Next]_vars => [Room]_vars
  <2> SUFFICES ASSUME CountInv, RoomInv, Next, Running("tx"), op' = Idle, handles' = handles,
                      Aligned(op.req)
               PROVE  LET m == slabs'[op.slab]
                      IN  /\ \E i \in DOMAIN execs' : execs'[i] = op.slab
                          /\ UnderSizeAdv(m.base, m.size, m.cursor, op.req)
    OBVIOUS
  <2> DEFINE s == op.slab
  <2>1. /\ TypeInv /\ Owned /\ Identities
        /\ s \in DOMAIN slabs /\ slabs[s] \in SlabRec
        /\ op.total \in Nat \ {0} /\ op \in TxOp
    BY OpFacts, SlabFacts DEF CountInv, OwnInv, TypeInv
  <2>2. ProcessErr
    <3>1. op'.kind = "idle" /\ op.kind = "tx"
      BY DEF Idle, Running
    <3>2. ~ProcessOk
      <4> SUFFICES ASSUME ProcessOk PROVE FALSE
        OBVIOUS
      <4>1. <<op.id, s, 1>> \in handles'
        BY <2>1 DEF ProcessOk
      <4>2. \A h \in handles : h[1] # op.id
        BY <2>1 DEF Identities
      <4> QED
        BY <4>1, <4>2
    <3>3. ~TxWrite
      <4>1. TxWrite => op'.kind = op.kind
        BY <2>1 DEF TxWrite, TxOp
      <4> QED
        BY <3>1, <4>1
    <3>4. ASSUME NEW h \in handles, Release(h) PROVE FALSE
      BY <3>1, <3>4 DEF Release
    <3> QED
      BY <3>1, <3>2, <3>3, <3>4
      DEF Next, ProcessReuse, ProcessAlloc, GcStart, GcKeep, GcFree, GcEnd, Running
  <2>3. /\ slabs'[s].base = slabs[s].base /\ slabs'[s].size = slabs[s].size
        /\ slabs'[s].cursor = op.mark
    BY <2>1, <2>2, ErrEffect DEF Becomes, SlabRec
  <2>4. \E i \in DOMAIN execs' : execs'[i] = s
    BY <2>1, <2>2 DEF Owned, ProcessErr
  <2>5. /\ LayoutEnd(slabs[s].base + op.mark, op.req) - (slabs[s].base + op.mark)
             <= slabs[s].size - op.mark
    BY DEF RoomInv, MarkFits
  <2> QED
    BY <2>3, <2>4, <2>5 DEF UnderSizeAdv, Aligned
<1>2. Spec => []CountInv
  BY CountInit, CountNext, PTL DEF Spec
<1> QED
  BY <1>1, <1>2, RoomInvariant, PTL DEF Spec, RetryFindsRoom
=============================================================================
