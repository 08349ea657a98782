--------------------------- MODULE DynamicMemory ---------------------------
(***************************************************************************)
(* The pool of slabs, src/memory/mod.rs.  One thread owns the pool: it     *)
(* runs process (pick or map a slab, let the callback write into it under  *)
(* a transaction, commit or roll back) and gc (walk the pool backwards,    *)
(* unmapping slabs whose counter is zero).  The pool hands out a pointer   *)
(* to the slab's counter, and any thread may release through it at any     *)
(* time, also between two steps of the owner.                              *)
(*                                                                         *)
(* The slab itself is detailed in Slab; here a write only moves the        *)
(* cursor.  The callback is truthful: it writes the sizes and alignments   *)
(* it announced as prerequisites, but it may give up after any of them.    *)
(***************************************************************************)
EXTENDS Layout, SequencesExt, FiniteSets

CONSTANTS
  Unit,       \* DEFAULT_SLAB_SIZE
  MaxUnits,   \* u8::MAX
  InitLen,    \* length of the init blob copied to the start of every slab
  InitAlign,  \* its alignment, 32
  Bases,      \* addresses mmap may return
  Requests,   \* prerequisites of a process call: sequences of [size, align]
  Totals,     \* total_functions of a process call
  Word,       \* a counter is modulo Word
  MaxSlabs,   \* bound: slabs mapped in a behaviour
  MaxProgs    \* bound: process calls in a behaviour

ASSUME PoolAssumption ==
  /\ {Unit, MaxUnits, InitAlign, Word} \subseteq Nat \ {0}
  /\ InitLen \in Nat
  /\ Bases \subseteq Nat
  /\ Totals \subseteq Nat \ {0}
  /\ {MaxSlabs, MaxProgs} \subseteq Nat
  /\ Requests \subseteq Seq([size : Nat, align : Nat \ {0}])

VARIABLES
  slabs,    \* every slab ever mapped: [base, size, cursor, stored, mapped]
  execs,    \* DynamicMemory.execs: indices into slabs
  op,       \* the call the owner is in
  handles,  \* <<program, slab, k>>: one for each release still to come
  progs,    \* process calls so far
  debt      \* history: what roll-backs subtracted from each slab's counter

vars == <<slabs, execs, op, handles, progs, debt>>

Idle == [kind |-> "idle"]

HandlesIn(s) == {h \in handles : h[2] = s}
Mapped       == {s \in DOMAIN slabs : slabs[s].mapped}
Running(k)   == op.kind = k

\* Definitions named Bad... are faulty variants of the one that follows.
BadUnwrapped(x) == x

Wrap(x) == x % Word

Init ==
  /\ slabs = <<>>
  /\ execs = <<>>
  /\ op = Idle
  /\ handles = {}
  /\ progs = 0
  /\ debt = <<>>

-----------------------------------------------------------------------------
(* process *)

HasRoom(s, req) ==
  UnderSizeAdv(slabs[s].base, slabs[s].size, slabs[s].cursor, req)

Candidates(req) == {i \in DOMAIN execs : HasRoom(execs[i], req)}

BadRestart(s, mark, req, total) ==
  [kind |-> "tx", slab |-> s, mark |-> 0, total |-> total,
   writes |-> 0, todo |-> req, req |-> req, id |-> progs + 1]

\* transact: a transaction on slab s whose cursor is at mark.  `req' keeps,
\* for the properties only, the whole request.
Transact(s, mark, req, total) ==
  [kind |-> "tx", slab |-> s, mark |-> mark, total |-> total,
   writes |-> 0, todo |-> req, req |-> req, id |-> progs + 1]

\* The first slab with room, in the order of execs.
ProcessReuse(req, total) ==
  /\ Running("idle")
  /\ progs < MaxProgs
  /\ \E i \in Candidates(req) :
       /\ \A j \in Candidates(req) : i <= j
       /\ op' = Transact(execs[i], slabs[execs[i]].cursor, req, total)
  /\ progs' = progs + 1
  /\ UNCHANGED <<slabs, execs, handles, debt>>

\* alloc: new_slab, the init blob (its result is ignored), push.
FreshSlab(base, need) ==
  LET size == Unit * SlabUnits(need, InitLen, InitAlign, Unit)
      room == Fits(base, size, 0, InitAlign, InitLen)
  IN  [base |-> base, size |-> size, stored |-> 0, mapped |-> TRUE,
       cursor |-> IF room THEN StartOffset(base, 0, InitAlign) + InitLen ELSE 0]

\* No slab has room; more than MaxUnits units panic before anything changes.
ProcessAlloc(req, total, base) ==
  LET slab == FreshSlab(base, WorstCase(req))
      s    == Len(slabs) + 1
  IN
  /\ Running("idle")
  /\ progs < MaxProgs
  /\ Len(slabs) < MaxSlabs
  /\ Candidates(req) = {}
  /\ SlabUnits(WorstCase(req), InitLen, InitAlign, Unit) <= MaxUnits
  /\ slabs' = Append(slabs, slab)
  /\ debt' = Append(debt, 0)
  /\ execs' = Append(execs, s)
  /\ op' = Transact(s, slab.cursor, req, total)
  /\ progs' = progs + 1
  /\ UNCHANGED handles

ItemFits(item) ==
  LET m == slabs[op.slab] IN Fits(m.base, m.size, m.cursor, item.align, item.size)

\* The callback writes its next function; not counted in stored (INC unset).
TxWrite ==
  LET item == Head(op.todo)
  IN
  /\ Running("tx")
  /\ op.todo # <<>>
  /\ ItemFits(item)
  /\ slabs' = [slabs EXCEPT ![op.slab].cursor =
                 StartOffset(slabs[op.slab].base, @, item.align) + item.size]
  /\ op' = [op EXCEPT !.writes = @ + 1, !.todo = Tail(@)]
  /\ UNCHANGED <<execs, handles, progs, debt>>

BadUncounted ==
  /\ Running("tx")
  /\ op.todo = <<>>
  /\ handles' = handles \cup ({op.id} \X {op.slab} \X (1 .. op.total))
  /\ op' = Idle
  /\ UNCHANGED <<slabs, execs, progs, debt>>

\* The callback returned Executable: commit, and ExecInfo goes to the caller.
ProcessOk ==
  /\ Running("tx")
  /\ op.todo = <<>>
  /\ Cardinality(HandlesIn(op.slab)) + op.total < Word
  /\ slabs' = [slabs EXCEPT ![op.slab].stored = Wrap(@ + op.total)]
  /\ handles' = handles \cup ({op.id} \X {op.slab} \X (1 .. op.total))
  /\ op' = Idle
  /\ UNCHANGED <<execs, progs, debt>>

BadStaysUp ==
  /\ Running("tx")
  /\ slabs' = [slabs EXCEPT ![op.slab].stored = Wrap(@ - op.writes)]
  /\ debt' = [debt EXCEPT ![op.slab] = @ + op.writes]
  /\ op' = Idle
  /\ UNCHANGED <<execs, handles, progs>>

\* It returned anything else or panicked: the transaction is dropped.  The
\* slab stays in the pool, a freshly mapped one too, and no other is tried.
ProcessErr ==
  /\ Running("tx")
  /\ slabs' = [slabs EXCEPT ![op.slab].cursor = op.mark,
                            ![op.slab].stored = Wrap(@ - op.writes)]
  /\ debt' = [debt EXCEPT ![op.slab] = @ + op.writes]
  /\ op' = Idle
  /\ UNCHANGED <<execs, handles, progs>>

-----------------------------------------------------------------------------
(* gc *)

BadPastEnd ==
  /\ Running("idle")
  /\ execs # <<>>
  /\ op' = [kind |-> "gc", i |-> Len(execs) + 1, idle |-> {}]
  /\ UNCHANGED <<slabs, execs, handles, progs, debt>>

\* `idle' remembers, for the properties only, which slabs nobody used.
GcStart ==
  /\ Running("idle")
  /\ execs # <<>>
  /\ op' = [kind |-> "gc", i |-> Len(execs),
            idle |-> {s \in Mapped : slabs[s].stored = 0 /\ HandlesIn(s) = {}}]
  /\ UNCHANGED <<slabs, execs, handles, progs, debt>>

BadPop(seq, i) == SubSeq(seq, 1, Len(seq) - 1)

\* Vec::swap_remove(i): the last element takes the place of the i-th.
SwapRemove(seq, i) == SubSeq([seq EXCEPT ![i] = Last(seq)], 1, Len(seq) - 1)

\* One turn of the loop: decrement, then try_free at that index.
GcKeep ==
  /\ Running("gc")
  /\ op.i > 0
  /\ slabs[execs[op.i]].stored # 0
  /\ op' = [op EXCEPT !.i = @ - 1]
  /\ UNCHANGED <<slabs, execs, handles, progs, debt>>

BadFreesBlindly ==
  /\ Running("gc")
  /\ op.i > 0
  /\ slabs' = [slabs EXCEPT ![execs[op.i]].mapped = FALSE]
  /\ execs' = SwapRemove(execs, op.i)
  /\ op' = [op EXCEPT !.i = @ - 1]
  /\ UNCHANGED <<handles, progs, debt>>

BadSkipsNext ==
  /\ Running("gc")
  /\ op.i > 0
  /\ slabs[execs[op.i]].stored = 0
  /\ slabs' = [slabs EXCEPT ![execs[op.i]].mapped = FALSE]
  /\ execs' = SwapRemove(execs, op.i)
  /\ op' = [op EXCEPT !.i = IF @ > 1 THEN @ - 2 ELSE 0]
  /\ UNCHANGED <<handles, progs, debt>>

GcFree ==
  /\ Running("gc")
  /\ op.i > 0
  /\ slabs[execs[op.i]].stored = 0
  /\ slabs' = [slabs EXCEPT ![execs[op.i]].mapped = FALSE]
  /\ execs' = SwapRemove(execs, op.i)
  /\ op' = [op EXCEPT !.i = @ - 1]
  /\ UNCHANGED <<handles, progs, debt>>

GcEnd ==
  /\ Running("gc")
  /\ op.i = 0
  /\ op' = Idle
  /\ UNCHANGED <<slabs, execs, handles, progs, debt>>

BadLost(h) ==
  /\ slabs[h[2]].mapped
  /\ handles' = handles \ {h}
  /\ UNCHANGED <<slabs, execs, op, progs, debt>>

\* release_ptr through ExecInfo.recordptr, by any thread.
Release(h) ==
  /\ slabs[h[2]].mapped
  /\ handles' = handles \ {h}
  /\ slabs' = [slabs EXCEPT ![h[2]].stored = Wrap(@ - 1)]
  /\ UNCHANGED <<execs, op, progs, debt>>

Next ==
  \/ \E req \in Requests, t \in Totals : ProcessReuse(req, t)
  \/ \E req \in Requests, t \in Totals, b \in Bases : ProcessAlloc(req, t, b)
  \/ TxWrite
  \/ ProcessOk
  \/ ProcessErr
  \/ GcStart
  \/ GcKeep
  \/ GcFree
  \/ GcEnd
  \/ \E h \in handles : Release(h)

Spec == Init /\ [][Next]_vars

(* A call that was entered returns (its loops are bounded and nothing in   *)
(* it blocks), and the owner calls gc again and again, between its other   *)
(* calls.  Nothing is assumed of the holders.                              *)
Fairness ==
  /\ WF_vars(TxWrite \/ ProcessOk \/ ProcessErr)
  /\ WF_vars(GcKeep \/ GcFree \/ GcEnd)
  /\ SF_vars(GcStart)

FairSpec == Spec /\ Fairness

\* Clients whose callbacks only give up before their first write.
CalmNext == Next /\ \A s \in DOMAIN debt' : debt'[s] = 0
CalmSpec == Init /\ [][CalmNext]_vars /\ Fairness

-----------------------------------------------------------------------------
TypeOK ==
  /\ slabs \in Seq([base : Bases, size : Nat, cursor : Nat,
                    stored : 0 .. Word - 1, mapped : BOOLEAN])
  /\ execs \in Seq(DOMAIN slabs)
  /\ Running("tx") => op.slab \in DOMAIN slabs
  /\ handles \subseteq (1 .. MaxProgs) \X (DOMAIN slabs) \X Nat
  /\ progs \in 0 .. MaxProgs
  /\ debt \in [DOMAIN slabs -> Nat]

\* A truthful callback never runs out of slab: neither in a slab that
\* under_size_adv accepted nor in one alloc sized for the request, wherever
\* the mapping landed.
PrerequisitesSuffice == (Running("tx") /\ op.todo # <<>>) => ItemFits(Head(op.todo))

\* The init blob fits every new slab and no roll-back lets code overwrite it.
InitBlobIntact ==
  \A s \in DOMAIN slabs :
    slabs[s].cursor >= StartOffset(slabs[s].base, 0, InitAlign) + InitLen

\* The pool owns exactly the mapped slabs, each once, also in the middle of
\* gc: nothing is leaked by swap_remove and nothing is unmapped twice.
PoolOwnsMapped ==
  /\ Mapped = {execs[i] : i \in DOMAIN execs}
  /\ Cardinality(Mapped) = Len(execs)

\* gc's get_unchecked_mut(i) stays inside the shrinking vector.
GcIndexInBounds == Running("gc") => op.i <= Len(execs)

\* A gc pass reclaims every slab that was unused when it started, although
\* it reorders the vector it walks and releases go on meanwhile.
GcIsComplete ==
  (Running("gc") /\ op.i = 0) => \A s \in op.idle : ~slabs[s].mapped

\* No slab is unmapped under its users, unless a roll-back took counts that
\* were theirs.
UnmapIsSafe ==
  \A s \in DOMAIN slabs : (debt[s] = 0 /\ ~slabs[s].mapped) => HandlesIn(s) = {}

Aligned(req) == \A i \in DOMAIN req : IsPowerOfTwo(req[i].align)

\* A client that failed and tries again maps no other slab: whatever slab the
\* call was given, reused or mapped for it, and however far the callback got,
\* the pool has it and under_size_adv accepts the same request of it again.
\* So a slab that a failing call leaves empty is not lost.  Fails for an
\* alignment that is no power of two: every slab rejects it, and each such
\* call maps one more.
RetryFindsRoom ==
  [][(Running("tx") /\ op' = Idle /\ handles' = handles /\ Aligned(op.req)) =>
       LET m == slabs'[op.slab]
       IN  /\ \E i \in DOMAIN execs' : execs'[i] = op.slab
           /\ UnderSizeAdv(m.base, m.size, m.cursor, op.req)]_vars

\* The type's doc comment (src/advanced/linux/mod.rs): once all programs of
\* a slab are cleared and the pool is collected, the slab goes away.  Holds
\* of calm clients, fails when a roll-back made a counter wrap.
Unused(s) == s \in Mapped /\ HandlesIn(s) = {}

ReclaimedWhenCleared ==
  \A s \in 1 .. MaxSlabs : Unused(s) ~> ~Unused(s)

\* For clients whose callbacks only give up early, the pool is a code store.
Store == INSTANCE CodeStore WITH
  Programs <- 1 .. MaxProgs,
  Refs     <- Totals,
  held     <- {<<h[1], h[3]>> : h \in handles},
  intact   <- {h[1] : h \in {g \in handles : slabs[g[2]].mapped}}

ImplementsStore == Store!StoreSpec
=============================================================================
