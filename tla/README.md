# A TLA+ model of SaJIT

SaJIT keeps machine code in executable memory: it maps slabs, places functions
in them, links object files into them, and unmaps a slab when everything in it
was released. The modules here model the part of it where order, concurrency
and roll-back matter, TLC checks them on small instances, and TLAPS proves the
main facts about a slab, about the pool of slabs and about the three linkers for every instance,
among them what code that RELCAR or, on x64 and x86, the COFF linker relocated computes.
Line references are to the repository's `src/` directory unless they begin with another one.

## The system

| Component | State | Operations | Correct when |
|---|---|---|---|
| **MemoryExecutable**, a slab (`advanced/linux/mod.rs`, trait in `advanced/mod.rs`) | two views of one mapping (RW, RX), `size`, `cursor`, the atomic `stored` | `new_slab`, `write_fn_iterated<INC, WRITE>`, `write_fn`, `release`/`release_ptr`, `free`/`try_free`, `leak` | code in use is never overwritten, moved off its alignment, left unflushed or unmapped |
| **MemoryTransaction** (`advanced/transaction.rs`) | the borrowed slab, `cursor` at the start, `total`, `writes` | `new`, `get_mut`, `write_fn_iterated`, `commit`, drop | all of its writes count or none; other code is untouched |
| **Size checks** (`advanced/mod.rs`) | none | `under_size(_adv)`, `next_cursor` | what they accept fits |
| **DynamicMemory**, the pool (`memory/mod.rs`) | `execs`, the init blob | `process`, `alloc`, `gc` | picks or maps a slab with room, owns each mapped slab once, reclaims the unused |
| **COFFR** (`coffr/`) | a transaction, the section views | `link_binary`, three relocators, trampolines, the iterator over the symbols | every relocation reaches its target; a failed link leaves nothing |
| **LinkerTransaction cache** (`coffr/cache.rs`) | two vectors, kept from link to link | `create`, `reserve`, `insert_sorted`, `get`, drop | finds each section's view, none of an earlier link |
| **ObjectFileSizeCalc** (`advanced/sizecalc/`) | none | `sizecalc` | the estimate covers what the linker takes |
| **RELCAR** (`relcar/`), called by each platform's write | none | patches one field, or panics | displacement relative to where the code runs; a panic leaves earlier functions alone |
| **JITLink bridge** (`advanced/llvm/`, `jitlinkc++/`) | `DataJITNote`, shared over the FFI; the symbol pool | allocate, resolve, store, error, finalise | commit only if no call-back reported an error |
| **Windows, macOS slabs** | as on Linux; macOS has one view and a per-thread write protection | as on Linux | as on Linux |
| **platform, build** | none | system bindings, `flush_icache` | – |

How they interact. The pool owns the slabs; `process` lends one of them to a
callback through a transaction, and the callback writes functions or runs a
linker. A linker takes a transaction by value and so opens an inner one on
`tx.get_mut()`: transactions nest, and plain counted writes can happen inside
one. All of this is one thread, the holder of `&mut`. Concurrency comes from the
other side: `commit` returns a pointer to `stored` (`ExecInfo.recordptr`), and
any thread that holds a function subtracts one when it is done, at any moment,
while the owner writes, rolls back or collects.

What is hard: a counter that is the only record of who uses a slab; roll-back
of the cursor and of counts with other programs' releases in between; alignment
of addresses rather than offsets, so that room depends on where a slab was
mapped; a collector that reorders the vector it walks; a linker that counts
trampolines in one pass and takes them in another; instruction fields that hold
part of a distance; code that is patched in one view and runs in another; a link
whose outcome is only known from the errors its call-backs left behind.
`PROJECT.json` lists each such hazard at its line with the properties aimed at it.

## Modules

| Module | Models | Depends on |
|---|---|---|
| `Layout` | `next_multiple_of`, the `OutOfSlab` test, `under_size_adv`, the sizing of a new slab; pure operators | – |
| `Slab` | one MemoryExecutable and its transactions | `Layout` |
| `CodeStore` | what a store of code promises, abstractly | – |
| `DynamicMemory` | the pool: `process`, `gc`, concurrent releases; refines `CodeStore` | `Layout`, `CodeStore` |
| `Relcar` | RELCAR's handlers and the write that calls them on each platform, composed with the slab | `Slab` |
| `SectionMap` | what a link asks of its cache, abstractly | – |
| `LinkerCache` | the cache's two vectors and their capacities; refines `SectionMap` | `SectionMap` |
| `Arm64Fields` | arm64's instruction fields as the relocator reads and patches them, and as the processor reads them; pure operators | – |
| `Coffr` | the COFF linker, composed with the slab and the cache: each linker step is a `Slab` step, where it touches the cache a `LinkerCache` step too, and a change of the linker's state; `sizecalc` | `Slab`, `LinkerCache`, `Arm64Fields` |
| `Jitlink` | a JITLink session over the FFI, composed with the slab in the same way | `Slab` |
| `MCSlab`, `MCDynamicMemory`, `MCRelcar`, `MCCoffr`, `MCJitlink` | calls, requests, functions, object files and link graphs for TLC; `MCCoffr` has TLC evaluate the premises of the theorems on its objects | |
| `LayoutProofs`, `SlabProofs`, `DynamicMemoryProofs`, `JitlinkProofs`, `Arm64FieldsProofs`, `CoffrProofs`, `RelcarProofs` | lemmas and theorems | the module each is named after |
| `CoffrLinkProofs` | what linked code computes | `CoffrProofs` |

Definitions called `Bad…` are faulty variants: nothing uses them; each is a slip
that one property has to detect when it stands in for the definition after it.

**Slab.** `cursor`, `stored` and `txs` are the code's fields (a transaction is
its mark, `total` and `writes`). The code keeps no table of what it handed out;
`code` (blocks: place, owner, alignment asked for, flushed or not) and
`handles` (one per release still to come) are history variables that say what
users hold, `debt` adds up what dropped transactions subtracted, and `undercut`
collects programs left above the cursor by a dropped outer transaction.
Actions: `WriteFn`, `Begin`, `TxWrite` (both values of WRITE), `Patch` (a linker
writes through the RW view), `Commit`, `Abort` (drop), `Release`, `TryFree`,
`Leak`. One action is one call: nothing the owner does in a call can be seen
half-done by a releasing thread, whose only access is the one atomic
subtraction; `fetch_add` and the loads commute with it within each call.
The slab runs for as long as it is mapped: after `free` or `leak` there is
nothing more to do, which is why the runs allow deadlock. `stored` wraps at
`Word`.

**DynamicMemory.** A slab is reduced to base, size, cursor and counter, with the
same arithmetic. `process` is split where other threads can act in between:
choosing the slab (`ProcessReuse`) or mapping one (`ProcessAlloc`, with the init
blob), each write of the callback, and the end (`ProcessOk`, `ProcessErr`). `gc`
takes one turn of its loop per step. The callback writes what it announced, and
may give up after any write; a panic is the same as an error. `CodeStore` says
that a program handed out with n references stays in place until the n-th is
given back. The mapping takes `held` from the handles and `intact` from the
programs whose slab is mapped.

**Relcar.** `WriteRelocated` is one call of `write_fn` or of the transaction's
`write_fn_iterated`: copy, `relocate` for each relocation, flush, cursor.
`WritePanics` is the same call when a handler panics, which leaves bytes above the
cursor, the transactions open (`unwinding`) and, on macOS, the thread's write
permission on (`writable`); `Unwind` drops one transaction. `platform` and `build` are
chosen at the start: the first decides whether the RW view (`RwBase`) is the RX view,
the second which assertions exist. `mem` holds the patched fields; `asked` is a history
variable: the relocations of what is in the slab, at their places, in so far as they lie inside
their function (`Inside`; release builds patch one outside as well). What a field means to the
processor (`Reaches`) is defined apart from how it is patched, and so is what counts as done when
the build does not test that the field can hold it (`Meets`). The
clients are those of `BasicRelocator`; the bits an arm64 branch keeps are in `Arm64Fields`.

**LinkerCache** gives the cache's operations as actions that `Coffr` conjoins to its own.
`caps` are the capacities of both vectors, changed as `Vec` documents it. `reserve` is
called by clients between `create` and the link; `Create` takes the calls with it.

**Arm64Fields.** An instruction word is the set of its one-bits. `Extract`,
`Compact`, `ExtractAdr`, `CompactAdr` and `Scale` are the relocator's; `Immediate`, `Meaning` and
`Opcode` say independently which bits the architecture reads as the immediate and what the
processor computes from it. Fields stand where they are in the real instruction; their
widths are parameters, so that small addresses overflow them.

**Coffr.** `LinkStart`, then per tracked section `TrackData` and `TrackPool` (with
`Insert` into the cache), then `TrackEnd`, one step per relocation (`RelocateNone`,
`RelocateDirect`, `RelocateViaStub`), then `LinkCommit`; `LinkFail` stands for every error
return and for the panic on a non-empty .data. After the commit the client holds the
iterator over the symbols, and with it the cache, until `SymbolsEnd`; the slab is free
meanwhile. Between links, and while the iterator lives, the slab is used otherwise
(`PlainWrite`, `Outer`), and releases happen at any time. Bytes are reduced to
relocatable fields (`mem`, in words of 4 bytes; an 8-byte field is two of them) and trampoline
targets (`stubs`), both by offset, and a write destroys what it overlaps. A field is read as its
relocator reads it: arm64's ADDR32 and ADDR32NB as u32, so that an addend below 0 is one of almost
2^32 (`ReadUnsigned`), everything else signed. What the object file asks for (`AddendOf`) is signed throughout. Relocation types are grouped by formula:
"branch" (REL32, BRANCH26), "near" (REL32_1..5; REL32 elsewhere, no trampoline), "cond", "test"
(BRANCH19, BRANCH14), "adr", "adrp", "pageoff", "pageoffl" (REL21, PAGEBASE_REL21,
PAGEOFFSET_12A and 12L), "addr64", "addr32", "addr32nb", "secrel", "section", "none". The
processor's side is defined separately (`NextIp`, `Reached`, `Leads`): where the linked code
really goes, through trampolines, is compared with what the object file asks for. The
relocatable fields of a section are taken not to overlap (`FieldsApart`).
The resolver answers the same for the same symbol.

**Jitlink.** One call of `write_jitlink` is a `session`, from `JitStart` (the
transaction is opened) to `ReturnOk` or `ReturnErr`. In between LLVM calls back:
`AllocateBlock` and `AllocateFails` are `allocate_jit`, a reservation at a time;
`Fill` copies the blocks; `NotifyResolved` is `store_ptr` for every symbol (LLVM reports local
symbols too, so that a name may come twice: the map keeps the last, in an order left open);
`Lookup` is `get_fn_ptr`; `Failed` is `notifyFailed` with `on_err`. What LLVM does
by itself is external: `Fixup` patches any of the blocks of the session, and
`PassFails` may end it before, between or after. `protected` is the write
protection of the linking thread on macOS, where the slab has one view.

## Runs

All invariants are checked over all reachable states of the bounded instance.

| Run | Checks | Instance |
|---|---|---|
| `slab` | types, counter against handles (`Ledger`), no unmapping and no zero counter under users while no transaction was dropped after writing, blocks in bounds and aligned, apart from one another, nested marks | 7 bytes at address 6, alignments 1, 2, 4; 3 programs, 2 nested transactions, 2 writes each; 2.4 M states |
| `pool` | sizing, init blob, ownership, gc's index and completeness, safe unmapping, room for a second attempt after a call that failed | units of 12 bytes at addresses 4 or 7, four request shapes, 3 slabs, 3 calls; 257 k states |
| `pool_calm` | the pool implements `CodeStore`, and every unused slab is eventually unmapped; for callbacks that give up only before their first write | the same; 177 k states |
| `coff` | linked code does what its relocations say whatever happens around it, down to the bits of arm64's fields; trampolines never overrun the pool; views complete; references between sections always in reach; the estimate suffices on x64 and x86; the cache stays sorted, keeps what a client reserved and implements `SectionMap`; the symbols read after the commit lie in the program | three architectures, one per behaviour; objects with forward and backward references, several far calls, page and bit-field relocations, a branch that is counted but reaches, ragged lengths and eight kinds of failure; one cache for all links, with and without calls of `reserve`; 963 k states |
| `relcar` | every field patched as asked for, measured in the view that is written; earlier functions untouched, also after a panic | three platforms, two builds; ten functions with relocations of every kind, six of which panic somewhere; a slab of 44 bytes, one nested write; 286 k states |
| `jitlink` | a failed session leaves no block and a wrong count (finding 1), a finished one everything, errors are never lost, reported addresses stay right, slices lie together, `__ImageBase` is below them | one and two blocks with padding, no block, a block that never fits, an object no function is asked of; readable, unreadable and repeated names; Windows' `__ImageBase`; 945 k states |
| `slab_early_free` | **fails**: finding 1 | as `slab` |
| `coff_undercut` | **fails**: finding 2 | one x64 object of two sections, linked between other uses of the slab |
| `slab_flush` | **fails**: finding 3 | as `slab` |
| `coff_arm64_stubs` | **fails**: finding 4 | one arm64 section with two far calls |
| `relcar_views` | **fails**: finding 5 | as `relcar` |
| `jitlink_macos` | **fails**: finding 6 | as `jitlink`, one view |

Why the bounds are enough. Two nested transactions are the depth at which roll-back
can undercut; three programs allow one program before, one inside and one after
it. A base address less aligned than the calls gives every padding. The slab is
small enough to be filled, so that the failing paths are taken. `Word` = 8 lets a
counter wrap while the guard of `HandOut` (no 2^64 functions in one slab) still
allows all handles of the instance. Three slabs are what swap_remove needs to move
one that was not yet visited next to one that was; `MaxUnits` stands for u8::MAX,
one request needs two units, another more than it allows. Displacements reach 512 (x64, arm64) or 128 (x86)
so that a slab of 240 bytes is in reach of itself and a resolver's answer may or may
not be. In `coff` no answer lies below the slab at the limit of reach, where the pool may be
counted too small (see "Also seen"); one lies above it. The scaled `Granule` of 64 puts the
image base inside, at and below the slab. arm64's fields have 8 bits (BRANCH26), 6 and 5 (BRANCH19
and 14), 8 (ADR) and 4 (ADRP's pages), wide enough for the slab and too narrow for the resolver's
far answers. `ShrinkThreshold`, `SmallCap` and `MinCap` stand for the cache's three capacities;
a client that reserves 6 sections and then 3 crosses all of them. RELCAR's fields reach
128 bytes (32 for arm64's calls) in a slab of 44 whose views are 64 apart: every displacement
within the slab fits, one far target fits no relative field, and one does not divide by 4.

Fairness (`pool_calm`): a call of the pool that was entered goes on
(`WF`: its loops are finite and nothing in it blocks), and the owner calls `gc`
over and over between its other calls (`SF` on `GcStart`) – an assumption
about clients, the one the slab's documentation makes ("and the clear() method is
called"). Nothing is assumed of releasing threads: the liveness property starts
from a slab all of whose functions were released.

Deadlock is allowed in every run: a freed slab has no next step, and the bounded
instances stop when their programs are used up.

## Findings

1. **A dropped transaction frees other functions' code, or leaks the slab**
   (`advanced/transaction.rs:86`). Drop subtracts the number of writes from `stored`, but
   writes inside a transaction never add to it. With one function live, dropping a
   transaction after one write brings the counter to zero, and `free` or `gc` unmaps the
   function. With fewer live functions than writes the counter wraps, and no later
   release brings it to zero. No misuse is needed: a failed link does it. `AllOrNothing` says by
   how much the counter of a failed JITLink session is off: one for each block reserved.
2. **A committed program is overwritten** (`advanced/transaction.rs:83`). The trace: a
   transaction is opened, an object is linked on its `get_mut()`, and the linker commits its inner
   transaction; the outer one is dropped and sets the cursor back to its own mark, below the
   program, which is still handed out; the next write lands on it.
3. **commit flushes the wrong bytes** (`advanced/transaction.rs:72`). `rxview.add(cursor)`
   is pointer arithmetic in units of `Executable`, a unit struct of size zero: the flush
   starts at the beginning of the slab. What a linker reserved or patched in a
   transaction that began further on is handed out unflushed (on x86 a flush is empty).
4. **arm64 uses only the first trampoline** (`coffr/arch/arm64/mod.rs:92`): the index is
   declared inside the loop, so two far calls in a section both go to the second target.
5. **RELCAR measures displacements from the wrong view** (`relcar/mod.rs:170`). The
   patched address is that of the RW view; on Linux and Windows the code runs in the RX view,
   and a relative call misses by the distance between them.
6. **JITLink writes to a protected slab on macOS** (`advanced/llvm/mod.rs:25`). Every
   reservation turns the protection back on, nothing turns it off for LLVM's copies.

Also seen, each at its line among the hazards or here, without a run:

- The documented contract of `write_fn_iterated` is reversed (`advanced/mod.rs:71`): data longer
  than `capped_size` passes the size test and, in release builds, the mapping.
- `sizecalc`'s estimate falls short on arm64. It asks for a stub of 20 bytes, aligned to 8, for
  each relocation that may need one (`advanced/sizecalc/arch.rs`), while the linker follows every
  section, also one without such relocations, by a pool aligned to 16
  (`coffr/arch/mod.rs:149`); the documentation says "(maximum/conservative)" (`advanced/mod.rs:217`).
- Trampolines are counted from the start of the slab, by the same pointer arithmetic as in 3
  (`coffr/arch/mod.rs:143`): a branch in reach from there and not from its section takes a
  trampoline that was not reserved. It takes an answer exactly at the limit of reach.
- x64 takes a trampoline for every relocation, not for every target (`README.md:143` calls
  the stubs deduplicated).
- RELCAR's relative relocations leave their addend out, and its absolute ones only
  debug-assert that there is none. In the arm64 COFF linker PAGEBASE's
  addend is shifted by a page and its REL32 lacks the 4 bytes of COFF's convention. What the
  models hold these against is the code's own formula: the convention is external.
- Windows' write skips relocations and flush when WRITE is unset; no client relies on either.
- A misaligned arm64 branch target is only a debug assertion.
- arm64's ADDR32 and ADDR32NB zero-extend the addend (`coffr/arch/arm64/mod.rs:108`, `:116`): a
  reference to a place in a section, written as a later symbol and an addend below 0, overflows,
  and the link fails.
- An alignment that is no power of two is rejected by `under_size_adv` on every slab, so that
  `process` maps a new slab at every such call (`memory/mod.rs:105`).
- A relocation that panics on macOS leaves the thread's write permission on (`advanced/macos/mod.rs:112`).
- A symbol whose name is not UTF-8 is bound to 0 (`advanced/llvm/mod.rs:147`).
- A pool that still owns a slab cannot be dropped: every slab's Drop panics
  (`advanced/linux/mod.rs:193`, `windows/mod.rs:219`, `macos/mod.rs:175`).

The passing properties state exactly how far things hold in spite of these: `FreeIsSafe`,
`ReleaseFindsCount` and `UnmapIsSafe` while `debt` is 0, `LiveCodeIntact`,
`LinkedAsWritten` and `ReturnedAddressesValid` outside `undercut`; `AllOrNothing` promises the
flush only to a session at the start of a slab; `SectionRelocsFit` leaves out arm64's ADDR32NB with an
addend below 0, of which `coff` links one; `RetryFindsRoom` leaves out alignments that are no
powers of two; `StubsWithinPool` is for answers away from the limit of reach.

## Proofs

`SlabProofs` proves, for every base, size, set of calls, word and bound
(`SlabAssumption` only says they are naturals, positive where zero would not make
sense, and that the calls are records of naturals):

| Theorem | Property |
|---|---|
| `TypeCorrect` | `TypeOK` |
| `LedgerBalances`, `FreeSafe`, `ReleaseSafe` | `Ledger`, `FreeIsSafe`, `ReleaseFindsCount` |
| `WatermarksHold` | `Watermarks` |
| `StaysWithinSlab` | `WithinSlab`, assuming `DataWithinCap` (the code's debug assertion) |
| `LiveCodeStaysIntact` | `LiveCodeIntact` |

*Counting.* `Ledger` is not inductive: `HandOut` adds n handles only if the program had
none, and `FreeIsSafe` needs the counter's value and not its residue. `CountInv` adds
`Identities` (an identity is given out once, open transactions have distinct ones and no
handles), `Closed` (no transaction on a freed or leaked slab) and that there are
fewer handles than `Word`; then a counter of zero without debt means no handles.
`LayoutProofs!WrapAdd` moves the modulus out of each addition.

*Placement.* `Watermarks` needs the order of all open marks, because each drop
exposes the next. `WithinSlab` follows from `AlignUpFacts` (the multiple is reached, and not
below its argument), itself proved from uniqueness of quotient and remainder.
`LiveCodeIntact` with `Watermarks` is inductive: a write goes above everything safe
(`IntactWrite`); every other step maps each block of the new state to one old block at
the same place (`IntactKeep`), and a drop puts what it leaves above the cursor into
`undercut`.

`DynamicMemoryProofs` proves, for every set of mapping addresses, requests, totals, word and
bound, over `PoolAssumption` (naturals, positive where zero would not make sense, requests are
sequences of sizes and alignments):

| Theorem | Property |
|---|---|
| `PoolTypeCorrect`, `GcIndexHolds` | `TypeOK`, `GcIndexInBounds` |
| `InitBlobStays` | `InitBlobIntact` |
| `OwnershipHolds`, `GcCompletes` | `PoolOwnsMapped`, `GcIsComplete` |
| `UnmappingIsSafe` | `UnmapIsSafe` |
| `PoolIsCodeStore` | `CalmSpec => ImplementsStore`, the refinement |
| `RetriesFindRoom` | `RetryFindsRoom` |
| `AnnouncedFits` | `PrerequisitesSuffice` |

*The init blob* needs the marks: a roll-back sets the cursor to the mark of the transaction, so
the invariant says of an open transaction what it says of every cursor. That the blob fits
a new slab is arithmetic of `AlignUp` and of rounding up to units.

*Ownership* is that `execs` has no repetitions and its range is `Mapped`; `SwapRemove` of such a
vector loses the slab at that index and nothing else. *Completeness of gc* adds that each slab idle
at the start is unmapped or still at a position not above the index: the element that
swap_remove moves down comes from a position already visited.

*Counting* is `Ledger` again, slab by slab. A program's handles are made at once, in one slab,
under an identity no handle has, so a slab's counter is the number of its
handles less its debt modulo the word, and exact without debt.

*Refinement.* Without debt, the programs in place are the programs in use (`InStep`): a slab is
unmapped only at counter zero, where it has no handles. `ProcessOk` is `Load`, `Release`
is `GiveBack`, and every other step leaves the mapped state as it is.

*Room.* `PrerequisitesSuffice` says of the next write that it fits; the invariant `TodoFits` says
it of all that the callback still has to write, laid out one after another from the cursor
(`LayoutEnd`). A write takes the first of them and leaves the end of the rest where it was
(`LayoutOfTail`). In a slab that was reused `under_size_adv` has computed that very end; in one that
was mapped for the request, `LayoutProofs!LayoutWithinWorstCase` has it that the end is within the sum
of all sizes and greatest paddings from any address, so that the init blob in front does not matter.

*A second attempt.* A call that fails brings the cursor back to the mark. From there the whole request
fitted when the call began, in a slab that was reused as in one that was mapped (the same two
arguments), and the invariant `MarkFits` keeps that for as long as the transaction is open.

*Recursion.* `LayoutEnd` and `WorstCase` run through a sequence, and the induction theorems of the
library cannot be used. `LayoutProofs` has its own, about sets: a set that holds 0 and, with each
number below n, the next one, holds all of 0 .. n (`InductionUpTo`, from `LeastNatural`), and
steps given as a function have a function of the values they make (`Recursion`).
`CoffrProofs` uses the first for the calls of `reserve`.

`JitlinkProofs` proves, for every set of link graphs, every answer of the resolver and wherever
LLVM gives up, over `JitlinkAssumption` (a graph's blocks are records of naturals, and
a symbol with a readable name lies in one of them):

| Theorem | Property |
|---|---|
| `SlabKept` | `Ledger`, `FreeIsSafe`, `Watermarks`, `LiveCodeIntact`, in a session too |
| `ErrorsTell` | `NoErrorMeansFinalized` |
| `CallsAreAtomic` | `AllOrNothing`, an action property |
| `AddressesStayValid` | `ReturnedAddressesValid` |
| `OneAllocation` | `SlicesContiguous` |
| `BaseIsBelow` | `ImageBaseBelow` |

*Composition.* The lemmas of `SlabProofs` are about `AnyNext`, the slab's steps with any
well-formed request (`Request`), because the bridge computes its requests from the graph and asks
for others than `Calls`. Every step of the bridge is such a step or leaves the slab alone
(`JitIsSlab`), so that the slab's invariants come for nothing.

*The session.* The invariant `JitInv` says that a session owns the innermost transaction
(`OwnsTop`): everything of others that must stay is below that transaction's mark, everything of its
own below the cursor; and that its blocks lie between the two, in the order they were asked for
(`BlocksOK`). Writes only go up, plain clients wait while the slab is borrowed and
releases take no block of an open transaction (`ReleaseKept`), so that it is inductive. A drop then
brings the cursor back to the address the session began at, and subtracts as many counts as the
session has places; a commit adds those the client asked for and leaves every block in
place (`FinalBlocks`).

*Afterwards.* A returned program is nobody's transaction any more (`ReturnedOK`). Such a
program stays so, and as long as it is in use no step of the slab moves one of its blocks
(`SlabProofs!ProgramStays`).

`CoffrProofs` proves, for every set of object files, every resolver (its answers are part of the
objects), architecture and other use of the slab, over `CoffrAssumption` and
`SlabAssumption` (an object's sections are a finite sequence with natural lengths and positive
alignments, a symbol's section exists, a relocation lies in its section, apart from the others):

| Theorem | Property |
|---|---|
| `LinkerKeepsSlab` | `Ledger`, `FreeIsSafe`, `Watermarks`, `LiveCodeIntact`, through links too |
| `CacheStaysSorted` | `CacheSorted` |
| `CacheIsSectionMap` | `ImplementsSectionMap`, the refinement |
| `ViewsAreThere` | `ViewsComplete` |
| `IteratorStaysTrue` | `SymbolsPointIntoProgram` |
| `CoffrTypesHold` | `CoffrTypeOK` |
| `ReserveKept` | `ReserveHolds` |
| `EstimateIsEnough` | `EstimateSuffices`, with the premise `EvenLayout` |

*The cache.* `CacheSorted` is not inductive: that `Insert` appends a larger number is due to the
linker. `CacheInv` adds that every number in the cache is below the section the link is at;
the section iterator goes to the least tracked section above that (`NextTrackedUp`, from
`LeastNatural`), and a link begins and ends with an empty cache. An insertion above all others
changes no view that was there (`InsertKeeps`), which is the step of `SectionMap`; everything else
empties the cache or leaves it alone.

*Its capacities.* `reserve` reads the capacity of one vector and resizes both. `CapsOK` has the two
always equal, not below what was announced last nor, while the cache is empty, above the
bound of `ReserveHolds`; any sequence of calls of `reserve` keeps that (`ReserveAllFacts`, by
induction over the calls), and so does a push, with room or without.

*The layout.* `Placed` says of every section behind the one the link is at that it has a view, and
that the view tells where the section's block is. `LayoutOK` holds it through the link, whose
transaction is the innermost and loses no block while it is open (`OpenStays`). After the last
section every tracked section has its view (`AllTracked`), and the walk over the relocations only
visits those (`WalkOK`): hence `ViewsComplete`. A commit leaves blocks in place
(`CommitBlocks`), except those of a program nobody asked for, which then is not in use.
`SymbolsOK` says the same of the committed program while the iterator lives;
`ProgramStays` keeps it.

*The estimate.* `sizecalc` and the linker lay the same sections out differently: the estimate
aligns a section at least as strictly as its stubs, takes a larger stub for every relocation that
could need one, counts untracked sections and has nothing for an empty pool, which the
linker still aligns to 16. `EstimateOK` (an invariant checked on `coff`'s instance as well) bounds the
cursor by where the estimate is at the same section: before a section it may be ahead by the
padding to 16 only, which the section's own alignment in the estimate, a multiple of 16, takes
up again (`DataFits`); behind its bytes it is not ahead, and as many stubs as were counted end within
the group of the section (`PoolFits`, `CountedAreStubbed`). That a layout of one list after
another is the layout of both, and that of equal items, are lemmas of `LayoutProofs`
(`LayoutOfConcat`, `LayoutOfEqual`); `FlattenNext` is what the estimate's list is made of. The premise
`EvenLayout` says that alignments are COFF's, 1 to 8192, and that the mapping's end is a multiple of
16, as that of every mapping of whole pages is: an empty pool after the last section is aligned
as well, and would not fit into a slab that ends in between.

`Arm64FieldsProofs` proves, over `Arm64Assumption` (the fields' widths) and for every instruction
word, what the relocator's shifts and masks do to it:

| Theorem | What it says |
|---|---|
| `AddendIsImmediate` | the addend read out of a word is what the processor makes of its immediate |
| `PatchedInstruction` | a word patched for a target computes that target (`adrp`: its page; the 12-bit forms: its offset in the page), and its other bits are kept |

Premises: the target is `Encodable`, which the relocator tests; the target of a branch is a multiple of 4
away, which it does not test (the shift drops the rest); and a load of 128 bits has the size bits that
the architecture gives it (`WellSized`). *How:* a word is a set of bits, and its number a sum over that
set, about which the library has no facts. 2^n is the number of subsets of a set of n
(`PowerNext`), the sum is the value of a recurrence over the bits (`NumberIs`, by `InductionUpTo`), and the low
n bits of x are x modulo 2^n (`NumberOfLow`). Where the architecture has the immediate and where
the relocator looks for it are compared as positions of bits (`ImmediateIs`, `InstructionIs`).

`CoffrLinkProofs` proves what linked code computes, for all objects, resolvers and other uses of
the slab:

| Theorem | Property | Premises |
|---|---|---|
| `LinkedCodeIsRight` | `LinkedAsWritten` | `Covered` and `StubsWithinPool`, at every moment |
| `StubsAreCounted` | `StubsWithinPool` | `WithinReach`, `NoneAtTheLimit`, `Formed` |
| `SectionsWithinReach` | `SectionRelocsFit` | the same |
| `LinkedWithinReach` | `LinkedAsWritten` | the same |

The last three have premises about the objects and the slab's place only. `WithinReach`: a REL32 and
arm64's branch reach the whole slab (it has 16 MB by default, they 2 GB and 128 MB), and what a
relocation asks of a section, by a field wide enough for the slab, is not outside it.
`NoneAtTheLimit`: no resolver's answer is in reach from the slab's start and out of reach from somewhere in
it. Without that, counting really reserves too few trampolines. `Formed` asks something of arm64
only. `LoneCalls`: no section has two far calls, which would share its first trampoline (finding
4); a call is far if it is out of reach from some place in the slab, wherever it ends up.
`WellFormed` is what the relocator takes for granted: code and what it branches to are aligned to
words, words have 32 bits, a load of 128 bits is `WellSized`, a relocation for a section's number
has no addend, which would be dropped, and a field that is read unsigned asks for no address below the
symbol, or at least the section, it refers to (`NotBelow`). `Covered` is `Formed` and, on arm64, `SectionRelocsFit`.
TLC evaluates all premises, and `EvenLayout`, on the objects of `coff` (`MCObjectsInReach`,
`MCLoneCalls`), so the run is an instance of these theorems.

*What it takes.* That a relocated field is right when it is patched is arithmetic (`ValueRight`,
modulo the span on x86). That it stays so is the invariant `FieldsInv`. `OrderOK`: sections and
pools of a link lie one after another between the mark of its transaction and the cursor. `PoolsOK`: the
pools are blocks of that transaction and hold their trampolines. `RawOK`: until relocating begins
every field holds the addend of the object, which is what both counting and relocating compute from.
`DoneOK`: what the walk has been at is `Good`, by itself or through one of the trampolines
taken so far, the rest is untouched; that the next trampoline is free needs `StubsWithinPool`,
for beyond the pool lies the next section. `LoadedOK`: a program that `Stands` has its pools in
place and every relocation `Good`, below whatever is linked meanwhile. Nothing below the cursor, or
below the mark of a link in progress, is written (`FloorKept`), and what a roll-back brings under
the cursor is `undercut`. On arm64 a field is an instruction: it is untouched if it holds the
object's word, and `Good` by `PatchedInstruction`, for which `PlacesOK` keeps sections and pools at
their alignment. The count of trampolines taken is no help there, it stays 0; instead
`Taken` says that the far call has the pool, before and after it is relocated, and nothing else
relies on it.

*Enough trampolines.* Counting and relocating decide by different measures: from the
slab's start, and from the field. `CountsOK` says that a pool has one trampoline for each relocation
that is `Counted`, by number and not by target, and that the walk has taken at most one for each
of those before it. `TakenCounted` shows that what takes one was counted: the two measures
differ by at most the slab's size, and `NoneAtTheLimit` leaves no target between them. On arm64 the
walk never counts what it took, so one trampoline is always enough for it. A
reference to a section takes none because it is in reach (`SectionReached`), for which
`InSlabOK` keeps sections inside the slab and the image base just below the link's start.

`RelcarProofs` proves, over `RelcarAssumption` and `SlabAssumption`, for every platform, build and
set of functions:

| Theorem | Property |
|---|---|
| `PanicsKeepSlab` | `Ledger`, `FreeIsSafe`, `Watermarks`, `LiveCodeIntact`, although a write may panic half-way |
| `RelcarTypesHold` | `RelcarTypeOK` |
| `RelocationsServed` | `RelocatedAsAsked` |

For `RelocatedAsAsked`, `PatchedMeets` is the arithmetic of one field, modulo its span
where the build does not test it; `ServedInv` adds that a field in use lies in a block of its
program, below the cursor, and every write starts above that (`BelowWrite`).

Only model-checked: liveness (`ReclaimedWhenCleared`: temporal properties under fairness are
outside what the prover handles).

## Not modelled

- Failing system calls (`ftruncate`, `mmap`, `munmap`): their results are not tested or panic.
- Weak memory: on Linux and macOS a release is a Relaxed subtraction; the models are
  sequentially consistent.
- Parsing of object files (the `object` crate), decompression, symbol names; and malformed
  ones: a relocation outside its section, which the relocators do not test.
- LLVM itself: its passes and fix-ups are external, its symbol pool a handle; that each of its
  failures reaches `notifyFailed` is its documented interface and assumed.
- A resolver that answers differently when trampolines are counted and when they are taken.
- Dropping the pool, which panics while it owns a slab.
- `next_cursor` and the getters; platform bindings; the build script; examples.

## Plan

Done, in this order: `Layout`, `Slab`, its proofs; `CodeStore` and `DynamicMemory`; `Coffr`;
`Jitlink`; `Relcar`; `SectionMap` and `LinkerCache`; `Arm64Fields`; the proofs about the pool,
about JITLink sessions, about the COFF linker and its cache, and about RELCAR; what relocated
code computes, for RELCAR and for COFF on all three machines; that what a callback announces fits, and
what `sizecalc` estimates for a link; arm64's fields.

Next, most important first:

1. `Slab` without debt implements `CodeStore`.
