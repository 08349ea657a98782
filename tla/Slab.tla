-------------------------------- MODULE Slab --------------------------------
(***************************************************************************)
(* One MemoryExecutable (src/advanced/linux/mod.rs) and the transactions   *)
(* on it (src/advanced/transaction.rs): a bump allocator over a mapping of *)
(* Size bytes whose RX view starts at Base, with a counter `stored' of the *)
(* functions that are still in use.                                        *)
(*                                                                         *)
(* Two kinds of actors.  The owner of the `&mut MemoryExecutable' writes,  *)
(* opens transactions, commits or drops them, and frees or leaks the slab. *)
(* A transaction lends the slab out again (get_mut), so transactions nest  *)
(* and plain writes can happen inside one: that is how the linkers are     *)
(* used from DynamicMemory::process.  Any thread that holds a function may *)
(* release it, between any two steps of the owner, with one atomic         *)
(* subtraction on `stored'.                                                *)
(*                                                                         *)
(* A program is what one write_fn or one transaction produced.  `code',    *)
(* `handles', `debt' and `undercut' are history: the code keeps no table   *)
(* of what it handed out, which is why its counter has to be right.        *)
(***************************************************************************)
EXTENDS Layout, SequencesExt, FiniteSets

CONSTANTS
  Base,      \* address of the RX view
  Size,      \* bytes in the slab
  Calls,     \* the writes clients make: records [align, cap, len]
  Totals,    \* the total_functions clients open a transaction with
  Word,      \* `stored' counts modulo Word (2^64)
  MaxProgs,  \* bound: programs written in a behaviour
  MaxDepth,  \* bound: transactions open at once
  MaxWrites  \* bound: writes in one transaction

ASSUME SlabAssumption ==
  /\ Base \in Nat
  /\ Size \in Nat \ {0}
  /\ Calls \subseteq [align : Nat \ {0}, cap : Nat, len : Nat]
  /\ Totals \subseteq Nat
  /\ Word \in Nat \ {0}
  /\ MaxProgs \in Nat
  /\ MaxDepth \in Nat
  /\ MaxWrites \in Nat

VARIABLES
  status,    \* "mapped", "freed" or "leaked"
  cursor,    \* offset of the first unused byte
  stored,    \* the AtomicUsize
  txs,       \* open transactions, innermost last
  code,      \* blocks written by open transactions and by live programs
  handles,   \* <<program, k>>: one for each release still to come
  progs,     \* programs begun so far; the next one is progs + 1
  debt,      \* subtractions made by dropped transactions, in total
  undercut   \* programs left above the cursor by a dropped transaction

vars == <<status, cursor, stored, txs, code, handles, progs, debt, undercut>>

Tx == [id : 1 .. MaxProgs, cursor : Nat, total : Totals, writes : Nat]

Block == [prog : 1 .. MaxProgs, lo : Nat, hi : Nat, align : Nat \ {0},
          flushed : BOOLEAN]

Handle == (1 .. MaxProgs) \X (Nat \ {0})

Live(p)  == \E h \in handles : h[1] = p
LiveCode == {b \in code : Live(b.prog)}
Top      == txs[Len(txs)]
InTx     == txs # <<>>

(* The definitions named Bad... here and below are faulty variants of the  *)
(* one that follows them.  No behaviour uses them; each is a slip that one *)
(* of the properties at the end of the module has to notice.               *)
BadUnwrapped(x) == x

Wrap(x) == x % Word

\* new_slab: an empty mapping, nothing stored.
Init ==
  /\ status = "mapped"
  /\ cursor = 0
  /\ stored = 0
  /\ txs = <<>>
  /\ code = {}
  /\ handles = {}
  /\ progs = 0
  /\ debt = 0
  /\ undercut = {}

-----------------------------------------------------------------------------
(* write_fn_iterated<INC, WRITE>: both callers below share this part.  The *)
(* test is on the announced size c.cap, the cursor moves by the bytes      *)
(* really copied, c.len.  With WRITE unset the announced bytes are only    *)
(* reserved: the flush it does has nothing of the final code to flush.     *)

BadIgnoresPadding(c) == cursor + c.cap <= Size

Room(c) == Fits(Base, Size, cursor, c.align, c.cap)

BadCursorUnpadded(p, c, write) ==
  LET lo == StartOffset(Base, cursor, c.align)
  IN  /\ cursor' = cursor + c.len
      /\ code' = code \cup {[prog |-> p, lo |-> lo, hi |-> lo + c.len,
                             align |-> c.align, flushed |-> write]}

Place(p, c, write) ==
  LET lo == StartOffset(Base, cursor, c.align)
      hi == lo + (IF write THEN c.len ELSE c.cap)
  IN  /\ cursor' = hi
      /\ code' = code \cup {[prog |-> p, lo |-> lo, hi |-> hi,
                             align |-> c.align, flushed |-> write]}

BadUncounted(p, n) ==
  /\ stored' = stored
  /\ handles' = handles \cup ({p} \X (1 .. n))

BadCountsPrograms(p, n) ==
  /\ stored' = Wrap(stored + 1)
  /\ handles' = handles \cup ({p} \X (1 .. n))

\* The counter goes up and the caller may from now on release n times.
HandOut(p, n) ==
  /\ Cardinality(handles) + n < Word
  /\ stored' = Wrap(stored + n)
  /\ handles' = handles \cup ({p} \X (1 .. n))

\* write_fn: INC is set, the function is counted at once.  Inside a
\* transaction it is reached through get_mut.
WriteFn(c) ==
  /\ status = "mapped"
  /\ Room(c)
  /\ progs < MaxProgs
  /\ Place(progs + 1, c, TRUE)
  /\ HandOut(progs + 1, 1)
  /\ progs' = progs + 1
  /\ UNCHANGED <<status, txs, debt, undercut>>

BadMarksPadded(total) ==
  /\ status = "mapped"
  /\ progs < MaxProgs
  /\ Len(txs) < MaxDepth
  /\ txs' = Append(txs, [id |-> progs + 1, cursor |-> StartOffset(Base, cursor, 4),
                         total |-> total, writes |-> 0])
  /\ progs' = progs + 1
  /\ UNCHANGED <<status, cursor, stored, code, handles, debt, undercut>>

\* MemoryTransaction::new.
Begin(total) ==
  /\ status = "mapped"
  /\ progs < MaxProgs
  /\ Len(txs) < MaxDepth
  /\ txs' = Append(txs, [id |-> progs + 1, cursor |-> cursor,
                         total |-> total, writes |-> 0])
  /\ progs' = progs + 1
  /\ UNCHANGED <<status, cursor, stored, code, handles, debt, undercut>>

\* MemoryTransaction::write_fn_iterated: INC is not set, so `stored' does
\* not move; the write is counted in the transaction.
TxWrite(c, write) ==
  /\ InTx
  /\ Top.writes < MaxWrites
  /\ Room(c)
  /\ Place(Top.id, c, write)
  /\ txs' = [txs EXCEPT ![Len(txs)].writes = @ + 1]
  /\ UNCHANGED <<status, stored, handles, progs, debt, undercut>>

\* A linker patches or fills blocks of its transaction in the RW view:
\* COFFR's relocations, JITLink's memcpy and fixups.
Patch(blocks) ==
  /\ InTx
  /\ \A b \in blocks : b \in code /\ b.prog = Top.id
  /\ code' = (code \ blocks) \cup {[b EXCEPT !.flushed = FALSE] : b \in blocks}
  /\ UNCHANGED <<status, cursor, stored, txs, handles, progs, debt, undercut>>

\* The icache flush of commit is meant for [lo, cursor).  It starts at
\* rxview.add(lo), which is rxview: Executable is a type of size zero, and a
\* pointer to it does not move when its unit is added.  The length is right,
\* so the first cursor - lo bytes of the slab are flushed.
FlushFrom(lo, blocks) ==
  {IF b.hi <= cursor - lo THEN [b EXCEPT !.flushed = TRUE] ELSE b : b \in blocks}

\* MemoryTransaction::commit, its Drop suppressed by forget.
Commit ==
  LET t == Top
  IN
  /\ InTx
  /\ HandOut(t.id, t.total)
  /\ code' = {b \in FlushFrom(t.cursor, code) : b.prog = t.id => t.total > 0}
  /\ txs' = SubSeq(txs, 1, Len(txs) - 1)
  /\ UNCHANGED <<status, cursor, progs, debt, undercut>>

\* Drop for MemoryTransaction: an error return or a panic before commit.
Abort ==
  LET t    == Top
      kept == {b \in code : b.prog # t.id}
  IN
  /\ InTx
  /\ cursor' = t.cursor
  /\ stored' = Wrap(stored - t.writes)
  /\ code' = kept
  /\ txs' = SubSeq(txs, 1, Len(txs) - 1)
  /\ debt' = debt + t.writes
  /\ undercut' = undercut \cup {b.prog : b \in {k \in kept : k.hi > t.cursor}}
  /\ UNCHANGED <<status, handles, progs>>

\* release / release_ptr, by any thread, once per handle.
Release(h) ==
  /\ status = "mapped"
  /\ handles' = handles \ {h}
  /\ stored' = Wrap(stored - 1)
  /\ code' = {b \in code : b.prog = h[1] => \E g \in handles' : g[1] = h[1]}
  /\ UNCHANGED <<status, cursor, txs, progs, debt, undercut>>

BadFreesBlindly ==
  /\ status = "mapped"
  /\ ~InTx
  /\ status' = "freed"
  /\ UNCHANGED <<cursor, stored, txs, code, handles, progs, debt, undercut>>

\* free / try_free: the views are unmapped when the counter reads zero.
TryFree ==
  /\ status = "mapped"
  /\ ~InTx
  /\ stored = 0
  /\ status' = "freed"
  /\ UNCHANGED <<cursor, stored, txs, code, handles, progs, debt, undercut>>

\* leak: the bookkeeping is forgotten, the mapping stays for ever.
Leak ==
  /\ status = "mapped"
  /\ ~InTx
  /\ status' = "leaked"
  /\ UNCHANGED <<cursor, stored, txs, code, handles, progs, debt, undercut>>

Next ==
  \/ \E c \in Calls : WriteFn(c)
  \/ \E t \in Totals : Begin(t)
  \/ \E c \in Calls, write \in BOOLEAN : TxWrite(c, write)
  \/ \E blocks \in SUBSET code : Patch(blocks)
  \/ Commit
  \/ Abort
  \/ \E h \in handles : Release(h)
  \/ TryFree
  \/ Leak

Spec == Init /\ [][Next]_vars

-----------------------------------------------------------------------------
(* What the code asks of its callers.  write_fn_iterated asserts, in debug *)
(* builds, that the data does not exceed capped_size.                      *)
DataWithinCap == \A c \in Calls : c.len <= c.cap

\* The type invariant.
TypeOK ==
  /\ status \in {"mapped", "freed", "leaked"}
  /\ cursor \in Nat
  /\ stored \in 0 .. Word - 1
  /\ txs \in Seq(Tx)
  /\ code \in SUBSET Block
  /\ handles \in SUBSET Handle
  /\ IsFiniteSet(handles)
  /\ progs \in 0 .. MaxProgs
  /\ debt \in Nat
  /\ undercut \in SUBSET (1 .. MaxProgs)

\* The counter is the number of releases still to come, less what dropped
\* transactions took off it, modulo the word: no interleaving of releases,
\* commits and drops loses or duplicates a count in any other way.
Ledger == stored = Wrap(Cardinality(handles) - debt)

\* A slab on which no transaction was dropped after a write is unmapped only
\* when nobody holds a function in it, whatever releases run concurrently.
FreeIsSafe == (status = "freed" /\ debt = 0) => handles = {}

\* release_ptr's debug_assert!(_old != 0), under the same condition.
ReleaseFindsCount == (handles # {} /\ debt = 0) => stored # 0

\* Every block lies inside the mapping, at an address aligned as asked for:
\* the address in the RX view, which is what a function's alignment means.
WithinSlab ==
  \A b \in code : b.lo <= b.hi /\ b.hi <= Size /\ (Base + b.lo) % b.align = 0

\* No byte belongs to two functions in use, and none of them can be
\* overwritten by the next write; the exception, a program committed inside
\* a transaction that was then dropped, is exactly `undercut'.
Safe(b) == b.prog \notin undercut

LiveCodeIntact ==
  /\ \A b, d \in code :
       (b # d /\ Safe(b) /\ Safe(d)) => (b.hi <= d.lo \/ d.hi <= b.lo)
  /\ \A b \in code : Safe(b) => b.hi <= cursor

\* commit's cur.strict_sub(self.cursor) never panics, and dropping an inner
\* transaction never moves the cursor below its outer one's mark.
Watermarks ==
  \A i \in DOMAIN txs :
    /\ txs[i].cursor <= cursor
    /\ \A j \in 1 .. i : txs[j].cursor <= txs[i].cursor

\* commit's comment "Auto flush it all" (src/advanced/transaction.rs): a
\* program is handed out with every byte of it flushed from the icache after
\* the last patch, what linkers wrote after the reservation included.  Fails
\* for every transaction that does not begin at the start of the slab.
LiveCodeFlushed == \A b \in LiveCode : b.flushed

\* The contract of free (src/advanced/mod.rs): memory goes away only when
\* everything stored in it was released.
FreedOnlyWhenReleased == status = "freed" => handles = {}
=============================================================================
