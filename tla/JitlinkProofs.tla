--------------------------- MODULE JitlinkProofs ---------------------------
(***************************************************************************)
(* What holds of every JITLink session, for every link graph, every answer *)
(* of the resolver, wherever LLVM gives up and whatever else the slab is   *)
(* used for.                                                               *)
(*                                                                         *)
(* Every step of the bridge is a step of the slab, so that what SlabProofs *)
(* shows of the slab holds here as well.  A session adds that it owns the  *)
(* innermost transaction: everything else that must stay lies below the    *)
(* mark of that transaction, and the blocks of the graph lie above it, in  *)
(* the order in which they were asked for.                                 *)
(***************************************************************************)
EXTENDS Jitlink, SlabProofs

\* Every block belongs to a program that was begun.
Known == \A b \in code : b.prog <= progs

SlabInv == CountInv /\ Watermarks /\ LiveCodeIntact /\ Known

Fields == {"phase", "graph", "root", "places", "resolved", "bound", "errors", "finalized"}

BlockRec == [align : Nat, size : Nat]

Phases == {"graph", "allocate", "resolve", "lookup", "fixup", "finalize", "over"}

\* The blocks are all in place.
Filled == In("resolve") \/ In("lookup") \/ In("fixup") \/ In("finalize")
            \/ (In("over") /\ session.finalized)

\* The session's own record.
SessionOK ==
  ~In("idle") =>
    /\ DOMAIN session = Fields
    /\ session.phase \in Phases
    /\ session.graph \in Graphs
    /\ session.root \in Nat
    /\ session.places \in Seq(Nat)
    /\ Len(session.places) <= Len(Blocks)
    /\ Filled => Placed /\ Blocks # <<>>

\* An outcome is recorded when the session is over and not before.
OutcomeOK ==
  ~In("idle") =>
    /\ ~In("over") => session.errors = {} /\ ~session.finalized
    /\ In("over") => (session.errors = {} <=> session.finalized)

\* The session's transaction: everything of others is below its mark, and
\* it has counted one write for each block reserved.
OwnsTop ==
  ~In("idle") =>
    /\ InTx
    /\ session.root = Base + Top.cursor
    /\ Top.total = session.graph.total
    /\ Top.writes = Len(session.places)
    /\ \A b \in code : IF b.prog = Top.id THEN b.hi <= cursor
                       ELSE Safe(b) => b.hi <= Top.cursor

\* Where the i-th block of the graph is.
IsBlock(b, i) ==
  /\ b.prog = Top.id
  /\ b.lo = session.places[i]
  /\ b.hi = b.lo + Blocks[i].size

\* Its blocks: reserved, in order, between the mark and the cursor.
BlocksOK ==
  ~In("idle") =>
    /\ \A i \in DOMAIN session.places :
         /\ \E b \in code : IsBlock(b, i)
         /\ Top.cursor <= session.places[i] /\ session.places[i] <= cursor
    /\ \A i, j \in DOMAIN session.places : i <= j => session.places[i] <= session.places[j]

\* Where symbol s is said to be: at a symbol of its name.
Told(s) ==
  \E r \in session.graph.symbols :
    /\ r.utf8 /\ r.name = s.name
    /\ session.resolved[s.name] = Base + session.places[r.block] + r.offset

\* What was recorded of the symbols.
NamesOK ==
  /\ (Filled /\ ~In("resolve")) => \A s \in session.graph.symbols : s.utf8 => Told(s)
  /\ (~In("idle") /\ Windows /\ "__ImageBase" \in DOMAIN session.bound) =>
       session.bound["__ImageBase"] \in {0, session.root}

\* A program that was returned is no longer anybody's transaction.
ReturnedOK ==
  \A p \in DOMAIN returned :
    /\ p \in 1 .. progs
    /\ \A i \in DOMAIN txs : txs[i].id # p

JitInv == /\ SlabInv
          /\ SessionOK /\ OutcomeOK /\ OwnsTop /\ BlocksOK /\ NamesOK
          /\ ReturnedOK /\ ReturnedAddressesValid

-----------------------------------------------------------------------------
(* The slab. *)

\* The reservation of the next block is one the slab knows.
LEMMA NextCallFacts ==
  ASSUME SessionOK, In("allocate"), ~Placed
  PROVE  /\ Request(NextCall)
         /\ Len(session.places) \in Nat
         /\ Len(session.places) + 1 \in DOMAIN Blocks
         /\ NextCall.cap = Blocks[Len(session.places) + 1].size
<1>1. session.graph \in Graphs /\ session.places \in Seq(Nat) /\ Len(session.places) <= Len(Blocks)
  BY DEF SessionOK, In
<1>2. Blocks \in Seq(BlockRec)
  BY <1>1, JitlinkAssumption DEF Blocks, BlockRec
<1> DEFINE n == Len(session.places) + 1
<1>3. Len(session.places) \in Nat /\ n \in DOMAIN Blocks
  BY <1>1, <1>2 DEF Placed
<1>4. Blocks[n].align \in Nat /\ Blocks[n].size \in Nat
  <2>1. \A i \in DOMAIN Blocks : Blocks[i] \in BlockRec
    BY <1>2
  <2>2. \A r \in BlockRec : r.align \in Nat /\ r.size \in Nat
    BY DEF BlockRec
  <2> QED
    BY <1>3, <2>1, <2>2
<1>5. Max({1, Blocks[n].align}) \in Nat \ {0}
  <2>1. ASSUME NEW a \in Nat PROVE \E m \in {1, a} : m >= 1 /\ \A y \in {1, a} : m >= y
    <3>1. CASE a >= 1 BY <3>1
    <3>2. CASE ~(a >= 1) BY <3>2
    <3> QED BY <3>1, <3>2
  <2>2. ASSUME NEW a \in Nat PROVE Max({1, a}) \in {1, a} /\ Max({1, a}) >= 1
    BY <2>1 DEF Max
  <2> QED
    BY <1>4, <2>2
<1> QED
  BY <1>3, <1>4, <1>5 DEF NextCall, Request

\* Every step of the bridge is a step of the slab.
LEMMA JitIsSlab ==
  ASSUME SessionOK, [JitNext]_allVars
  PROVE  [AnyNext]_vars
<1>1. ASSUME NEW graph \in Graphs, JitStart(graph)
      PROVE  AnyNext
  BY <1>1, JitlinkAssumption DEF JitStart, AnyNext
<1>2. CASE AllocateBlock
  <2>1. Request(NextCall) /\ TxWrite(NextCall, FALSE) /\ FALSE \in BOOLEAN
    BY <1>2, NextCallFacts DEF AllocateBlock
  <2> QED
    BY <2>1 DEF AnyNext
<1>3. CASE Fill \/ Fixup
  <2>1. Mine \in SUBSET code /\ Patch(Mine)
    BY <1>3 DEF Fill, Fixup, Mine
  <2> QED
    BY <2>1 DEF AnyNext
<1>4. CASE GraphFails \/ ReturnErr \/ ReturnOk
  BY <1>4 DEF GraphFails, ReturnErr, ReturnOk, AnyNext
<1>5. ASSUME NEW c \in Calls, PlainWrite(c)
      PROVE  AnyNext
  BY <1>5, SlabAssumption DEF PlainWrite, AnyNext, Request
<1>6. CASE Outer \/ ReleaseAny
  BY <1>6 DEF Outer, ReleaseAny, AnyNext
<1>7. ASSUME NEW ext \in session.graph.externals, Lookup(ext)
      PROVE  UNCHANGED vars
  BY <1>7 DEF Lookup
<1>8. CASE GraphOk \/ AllocateFails \/ NotifyResolved \/ PassFails \/ Finalize
  BY <1>8 DEF GraphOk, AllocateFails, NotifyResolved, PassFails, Finalize, Failed
<1>9. CASE UNCHANGED allVars
  BY <1>9 DEF allVars
<1> QED
  BY <1>1, <1>2, <1>3, <1>4, <1>5, <1>6, <1>7, <1>8, <1>9 DEF JitNext

\* Writes place blocks of programs that were begun, nothing else does.
LEMMA KnownNext ==
  ASSUME CountInv, Known, [AnyNext]_vars
  PROVE  Known'
<1>t. TypeOK
  BY DEF CountInv
<1>0. code \subseteq Block /\ progs \in Nat /\ \A b \in code : b.prog \in Nat
  BY <1>t, SlabAssumption DEF TypeOK, Block
<1>1. ASSUME NEW c, Request(c), WriteFn(c)
      PROVE  Known'
  <2> DEFINE p == progs + 1
  <2>1. Place(p, c, TRUE) /\ progs' = p /\ progs < MaxProgs
    BY <1>1 DEF WriteFn
  <2>a. p \in 1 .. MaxProgs
    BY <1>0, <2>1, SlabAssumption
  <2>2. \A e \in code' : e \in code \/ e.prog = p
    BY <2>1 DEF Place
  <2> QED
    BY <1>0, <2>1, <2>2 DEF Known
<1>2. ASSUME NEW c, Request(c), NEW write \in BOOLEAN, TxWrite(c, write)
      PROVE  Known'
  <2>1. Len(txs) \in DOMAIN txs /\ Top = txs[Len(txs)] /\ Top.id \in 1 .. MaxProgs
    BY <1>t, <1>2, TopFacts DEF TxWrite, Tx
  <2>2. Top.id <= progs
    BY <2>1 DEF CountInv, Identities
  <2>3. PICK b \in Block : code' = code \cup {b} /\ b.prog = Top.id
    BY <1>t, <1>2, <2>1, PlaceFacts DEF TxWrite
  <2> QED
    BY <1>0, <1>2, <2>2, <2>3 DEF Known, TxWrite
<1>3. ASSUME progs' \in Nat, progs <= progs', \A e \in code' : \E b \in code : e.prog = b.prog
      PROVE  Known'
  BY <1>0, <1>3 DEF Known
<1>4. CASE \E blocks \in SUBSET code : Patch(blocks)
  <2>1. \A e \in code' : \E b \in code : e.prog = b.prog
    BY <1>0, <1>4 DEF Patch, Block
  <2> QED
    BY <1>0, <1>3, <1>4, <2>1 DEF Patch
<1>5. CASE Commit
  <2>1. \A e \in code' : \E b \in code : e.prog = b.prog
    BY <1>0, <1>5, FlushFacts DEF Commit
  <2> QED
    BY <1>0, <1>3, <1>5, <2>1 DEF Commit
<1>6. CASE Abort \/ \E h \in handles : Release(h)
  BY <1>0, <1>3, <1>6 DEF Abort, Release
<1>7. CASE (\E t \in Totals : Begin(t)) \/ TryFree \/ Leak \/ UNCHANGED vars
  <2>1. code' = code /\ progs' \in {progs, progs + 1}
    BY <1>7 DEF Begin, TryFree, Leak, vars
  <2> QED
    BY <1>0, <1>3, <2>1
<1> QED
  BY <1>1, <1>2, <1>4, <1>5, <1>6, <1>7 DEF AnyNext

\* So what is proved of the slab holds of it in the bridge's hands.
LEMMA SlabStep ==
  ASSUME SlabInv, SessionOK, [JitNext]_allVars
  PROVE  SlabInv'
<1>1. [AnyNext]_vars
  BY JitIsSlab
<1>2. TypeOK /\ CountInv /\ Watermarks /\ LiveCodeIntact
  BY DEF SlabInv, CountInv
<1> QED
  BY <1>1, <1>2, CountNext, MarkNext, IntactNext, KnownNext DEF SlabInv, MarkInv

-----------------------------------------------------------------------------
(* The session, while its transaction is open. *)

\* The session goes on with the same graph and the same reservations.
GoesOn ==
  /\ ~In("idle") /\ session'.phase # "idle"
  /\ session'.graph = session.graph
  /\ session'.root = session.root
  /\ session'.places = session.places

\* What the fields of a session that goes on are.
LEMMA SessionFacts ==
  ASSUME SessionOK, ~In("idle")
  PROVE  /\ DOMAIN session = Fields /\ session.phase \in Phases
         /\ session.graph \in Graphs /\ session.root \in Nat
         /\ session.places \in Seq(Nat)
         /\ Len(session.places) \in Nat /\ DOMAIN session.places = 1 .. Len(session.places)
         /\ \A i \in DOMAIN session.places : session.places[i] \in Nat /\ i \in DOMAIN Blocks
         /\ Blocks \in Seq(BlockRec) /\ Len(Blocks) \in Nat /\ DOMAIN Blocks = 1 .. Len(Blocks)
<1>1. /\ DOMAIN session = Fields /\ session.phase \in Phases
      /\ session.graph \in Graphs /\ session.root \in Nat
      /\ session.places \in Seq(Nat) /\ Len(session.places) <= Len(Blocks)
  BY DEF SessionOK
<1>2. Blocks \in Seq(BlockRec)
  BY <1>1, JitlinkAssumption DEF Blocks, BlockRec
<1>3. Len(Blocks) \in Nat /\ DOMAIN Blocks = 1 .. Len(Blocks)
  BY <1>2
<1>4. /\ Len(session.places) \in Nat /\ DOMAIN session.places = 1 .. Len(session.places)
      /\ \A i \in DOMAIN session.places : session.places[i] \in Nat
  BY <1>1
<1> QED
  BY <1>1, <1>2, <1>3, <1>4

\* A step that moves no block and no mark, and loses none of the session's.
LEMMA LayoutKept ==
  ASSUME OwnsTop, BlocksOK, GoesOn,
         txs' = txs, cursor' = cursor, undercut' = undercut,
         \A e \in code' : \E b \in code : e.prog = b.prog /\ e.lo = b.lo /\ e.hi = b.hi,
         \A b \in Mine : \E e \in code' : e.prog = b.prog /\ e.lo = b.lo /\ e.hi = b.hi
  PROVE  OwnsTop' /\ BlocksOK'
<1>1. Top' = Top /\ InTx' = InTx /\ Blocks' = Blocks /\ ~In("idle") /\ ~In("idle")'
  BY DEF GoesOn, Top, InTx, Blocks, In
<1>2. \A b : Safe(b)' <=> Safe(b)
  BY DEF Safe
<1>3. OwnsTop'
  <2>1. \A e \in code' : IF e.prog = Top.id THEN e.hi <= cursor ELSE Safe(e) => e.hi <= Top.cursor
    BY <1>1 DEF OwnsTop, Safe
  <2>2. /\ InTx /\ session.root = Base + Top.cursor
        /\ Top.total = session.graph.total /\ Top.writes = Len(session.places)
    BY <1>1 DEF OwnsTop
  <2> QED
    BY <1>1, <1>2, <2>1, <2>2 DEF OwnsTop, GoesOn
<1>4. BlocksOK'
  <2>1. \A i \in DOMAIN session.places : \E e \in code' :
          /\ e.prog = Top.id /\ e.lo = session.places[i]
          /\ e.hi = e.lo + Blocks[i].size
    BY <1>1 DEF BlocksOK, IsBlock, Mine
  <2>2. \A i \in DOMAIN session.places : \E e \in code' : IsBlock(e, i)'
    BY <1>1, <2>1 DEF IsBlock, GoesOn
  <2>3. \A i \in DOMAIN session.places :
          Top.cursor <= session.places[i] /\ session.places[i] <= cursor
    BY <1>1 DEF BlocksOK
  <2>4. \A i, j \in DOMAIN session.places : i <= j => session.places[i] <= session.places[j]
    BY <1>1 DEF BlocksOK
  <2> QED
    BY <1>1, <2>2, <2>3, <2>4 DEF BlocksOK, GoesOn
<1> QED
  BY <1>3, <1>4

\* Patching the session's blocks moves none.
LEMMA PatchKept ==
  ASSUME TypeOK, Patch(Mine)
  PROVE  /\ txs' = txs /\ cursor' = cursor /\ undercut' = undercut
         /\ progs' = progs /\ handles' = handles /\ status' = status
         /\ \A e \in code' : \E b \in code : e.prog = b.prog /\ e.lo = b.lo /\ e.hi = b.hi
         /\ \A b \in code : \E e \in code' : e.prog = b.prog /\ e.lo = b.lo /\ e.hi = b.hi
<1> DEFINE stale(b) == [b EXCEPT !.flushed = FALSE]
<1>1. \A b \in Block : stale(b).prog = b.prog /\ stale(b).lo = b.lo /\ stale(b).hi = b.hi
  BY DEF Block
<1>2. code \subseteq Block /\ Mine \subseteq code
  BY DEF TypeOK, Mine
<1>3. code' = (code \ Mine) \cup {stale(b) : b \in Mine}
  BY DEF Patch
<1> HIDE DEF stale
<1>4. \A e \in code' : \E b \in code : e.prog = b.prog /\ e.lo = b.lo /\ e.hi = b.hi
  BY <1>1, <1>2, <1>3
<1>5. \A b \in code : \E e \in code' : e.prog = b.prog /\ e.lo = b.lo /\ e.hi = b.hi
  <2>1. ASSUME NEW b \in Mine
        PROVE  stale(b) \in code' /\ stale(b).prog = b.prog
               /\ stale(b).lo = b.lo /\ stale(b).hi = b.hi
    BY <1>1, <1>2, <1>3
  <2> QED
    BY <1>2, <1>3, <2>1
<1> QED
  BY <1>4, <1>5 DEF Patch

SessionInv == SessionOK /\ OutcomeOK /\ OwnsTop /\ BlocksOK /\ NamesOK

\* Nothing is said of a session that is not there.
LEMMA NoSession ==
  ASSUME session' = Idle
  PROVE  SessionInv'
<1>1. session'.phase = "idle"
  BY DEF Idle
<1> QED
  BY <1>1 DEF SessionInv, SessionOK, OutcomeOK, OwnsTop, BlocksOK, NamesOK, Told, Filled, In

\* The same session, while something else happens to the slab.
LEMMA SameSession ==
  ASSUME SessionInv, session' = session, OwnsTop', BlocksOK'
  PROVE  SessionInv'
<1>1. SessionOK'
  BY DEF SessionInv, SessionOK, Filled, In, Placed, Blocks
<1>2. OutcomeOK'
  BY DEF SessionInv, OutcomeOK, In
<1>3. NamesOK'
  BY DEF SessionInv, NamesOK, Told, Filled, In
<1> QED
  BY <1>1, <1>2, <1>3 DEF SessionInv

\* A step of LLVM that leaves the slab alone.
LEMMA SlabIdle ==
  ASSUME SessionInv, GoesOn, UNCHANGED vars
  PROVE  OwnsTop' /\ BlocksOK'
<1>1. txs' = txs /\ cursor' = cursor /\ undercut' = undercut /\ code' = code
  BY DEF vars
<1>2. Mine \subseteq code
  BY DEF Mine
<1>3. OwnsTop /\ BlocksOK
  BY DEF SessionInv
<1>4. \A e \in code' : \E b \in code : e.prog = b.prog /\ e.lo = b.lo /\ e.hi = b.hi
  BY <1>1
<1>5. \A b \in Mine : \E e \in code' : e.prog = b.prog /\ e.lo = b.lo /\ e.hi = b.hi
  BY <1>1, <1>2
<1> QED
  BY <1>1, <1>3, <1>4, <1>5, LayoutKept

\* createLinkGraphFromObject succeeds.
LEMMA SessionGraphOk ==
  ASSUME SessionInv, GraphOk
  PROVE  SessionInv'
<1>1. ~In("idle") /\ In("graph") /\ DOMAIN session = Fields
  BY SessionFacts DEF GraphOk, In, SessionInv
<1>2. /\ session'.phase = "allocate" /\ session'.graph = session.graph
      /\ session'.root = session.root /\ session'.places = session.places
      /\ session'.resolved = session.resolved /\ session'.bound = session.bound
      /\ session'.errors = session.errors /\ session'.finalized = session.finalized
      /\ DOMAIN session' = Fields
  BY <1>1 DEF GraphOk, Fields
<1>3. OwnsTop' /\ BlocksOK'
  BY <1>1, <1>2, SlabIdle DEF GoesOn, GraphOk
<1>4. SessionOK' /\ OutcomeOK' /\ NamesOK'
  BY <1>1, <1>2 DEF SessionInv, SessionOK, OutcomeOK, NamesOK, Told, Filled, In, Phases, Placed, Blocks
<1> QED
  BY <1>3, <1>4 DEF SessionInv

\* notifyFailed, at whatever stage before the end.
LEMMA SessionFailed ==
  ASSUME SessionInv, NEW stage, Failed(stage), ~In("idle"), ~In("over")
  PROVE  SessionInv'
<1>1. DOMAIN session = Fields /\ session.errors = {} /\ ~session.finalized
  BY SessionFacts DEF SessionInv, OutcomeOK
<1>2. /\ session'.phase = "over" /\ session'.graph = session.graph
      /\ session'.root = session.root /\ session'.places = session.places
      /\ session'.bound = session.bound
      /\ session'.errors = {stage} /\ session'.finalized = session.finalized
      /\ DOMAIN session' = Fields
  BY <1>1 DEF Failed, Fields
<1>3. OwnsTop' /\ BlocksOK'
  BY <1>2, SlabIdle DEF GoesOn, Failed
<1>4. SessionOK' /\ OutcomeOK' /\ NamesOK'
  BY <1>1, <1>2 DEF SessionInv, SessionOK, OutcomeOK, NamesOK, Told, Filled, In, Phases, Placed, Blocks
<1> QED
  BY <1>3, <1>4 DEF SessionInv

\* notifyResolved: the table it leaves gives each readable name the address
\* of its own symbol, because names are not repeated.
LEMMA SessionResolved ==
  ASSUME SessionInv, NotifyResolved
  PROVE  SessionInv'
<1> DEFINE named == {s \in session.graph.symbols : s.utf8}
           names == {s.name : s \in named}
           at(s) == BlockAddress(session.places[s.block]) + s.offset
<1>0. PICK last \in [names -> named] :
        /\ \A n \in names : last[n].name = n
        /\ session' = [session EXCEPT
             !.phase = IF session.graph.externals = {} THEN "fixup" ELSE "lookup",
             !.resolved = [n \in names |-> at(last[n])]]
  BY DEF NotifyResolved
<1> DEFINE table == [n \in names |-> at(last[n])]
<1>1. ~In("idle") /\ In("resolve") /\ DOMAIN session = Fields /\ session.graph \in Graphs
  BY SessionFacts DEF NotifyResolved, In, SessionInv
<1>2. /\ session'.phase \in {"fixup", "lookup"} /\ session'.graph = session.graph
      /\ session'.root = session.root /\ session'.places = session.places
      /\ session'.resolved = table /\ session'.bound = session.bound
      /\ session'.errors = session.errors /\ session'.finalized = session.finalized
      /\ DOMAIN session' = Fields
  BY <1>0, <1>1 DEF Fields
<1>3. OwnsTop' /\ BlocksOK'
  BY <1>1, <1>2, SlabIdle DEF GoesOn, NotifyResolved
<1>4. ASSUME NEW s \in session.graph.symbols, s.utf8
      PROVE  \E r \in session.graph.symbols :
               /\ r.utf8 /\ r.name = s.name
               /\ table[s.name] = Base + session.places[r.block] + r.offset
  <2>1. s.name \in names
    BY <1>4
  <2>2. last[s.name] \in named /\ last[s.name].name = s.name
    BY <1>0, <2>1
  <2>3. table[s.name] = at(last[s.name])
    BY <2>1
  <2> QED
    BY <2>2, <2>3 DEF BlockAddress
<1> HIDE DEF table
<1>5. Filled' /\ Filled /\ ~In("idle")' /\ ~In("over")' /\ ~In("over")
  BY <1>1, <1>2 DEF Filled, In
<1>6. SessionOK'
  BY <1>1, <1>2, <1>5 DEF SessionInv, SessionOK, Phases, Placed, Blocks
<1>7. OutcomeOK'
  BY <1>1, <1>2, <1>5 DEF SessionInv, OutcomeOK
<1>8. NamesOK'
  BY <1>1, <1>2, <1>4 DEF SessionInv, NamesOK, Told
<1> QED
  BY <1>3, <1>6, <1>7, <1>8 DEF SessionInv

\* lookup binds one name, __ImageBase to the root or, unreadable, to 0.
LEMMA SessionLookup ==
  ASSUME SessionInv, NEW ext, Lookup(ext)
  PROVE  SessionInv'
<1>1. ~In("idle") /\ In("lookup") /\ DOMAIN session = Fields
  BY SessionFacts DEF Lookup, In, SessionInv
<1>2. PICK a \in AnswersTo(ext) :
        /\ session'.phase \in {"fixup", "lookup"} /\ session'.graph = session.graph
        /\ session'.root = session.root /\ session'.places = session.places
        /\ session'.resolved = session.resolved
        /\ session'.bound = Put(session.bound, ext.name, a)
        /\ session'.errors = session.errors /\ session'.finalized = session.finalized
        /\ DOMAIN session' = Fields
  BY <1>1 DEF Lookup, Fields
<1>3. OwnsTop' /\ BlocksOK'
  BY <1>1, <1>2, SlabIdle DEF GoesOn, Lookup
<1>4. Filled' /\ Filled /\ ~In("idle")' /\ ~In("over")' /\ ~In("over")
      /\ ~In("resolve") /\ ~In("resolve")'
  BY <1>1, <1>2 DEF Filled, In
<1>5. SessionOK'
  BY <1>1, <1>2, <1>4 DEF SessionInv, SessionOK, Phases, Placed, Blocks
<1>6. OutcomeOK'
  BY <1>1, <1>2, <1>4 DEF SessionInv, OutcomeOK
<1>7. ASSUME Windows, "__ImageBase" \in DOMAIN session'.bound
      PROVE  session'.bound["__ImageBase"] \in {0, session.root}
  <2>1. CASE ext.name = "__ImageBase"
    <3>1. a \in {0, session.root}
      BY <1>7, <2>1 DEF AnswersTo
    <3>2. session'.bound["__ImageBase"] = a
      BY <1>2, <2>1 DEF Put
    <3> QED
      BY <3>1, <3>2
  <2>2. CASE ext.name # "__ImageBase"
    <3>1. /\ "__ImageBase" \in DOMAIN session.bound
          /\ session'.bound["__ImageBase"] = session.bound["__ImageBase"]
      BY <1>2, <1>7, <2>2 DEF Put
    <3> QED
      BY <1>1, <1>4, <1>7, <3>1 DEF SessionInv, NamesOK, Told
  <2> QED
    BY <2>1, <2>2
<1>8. NamesOK'
  BY <1>1, <1>2, <1>4, <1>7 DEF SessionInv, NamesOK, Told
<1> QED
  BY <1>3, <1>5, <1>6, <1>8 DEF SessionInv

\* Every pass is through.
LEMMA SessionFinalize ==
  ASSUME SessionInv, Finalize
  PROVE  SessionInv'
<1>1. ~In("idle") /\ In("finalize") /\ DOMAIN session = Fields
  BY SessionFacts DEF Finalize, In, SessionInv
<1>2. /\ session'.phase = "over" /\ session'.graph = session.graph
      /\ session'.root = session.root /\ session'.places = session.places
      /\ session'.resolved = session.resolved /\ session'.bound = session.bound
      /\ session'.errors = session.errors /\ session'.finalized = TRUE
      /\ DOMAIN session' = Fields
  BY <1>1 DEF Finalize, Fields
<1>3. OwnsTop' /\ BlocksOK'
  BY <1>1, <1>2, SlabIdle DEF GoesOn, Finalize
<1>4. Filled /\ ~In("over") /\ ~In("resolve") /\ ~In("resolve")' /\ ~In("idle")'
  BY <1>1, <1>2 DEF Filled, In
<1>5. SessionOK' /\ OutcomeOK' /\ NamesOK'
  BY <1>1, <1>2, <1>4 DEF SessionInv, SessionOK, OutcomeOK, NamesOK, Told, Phases, Placed, Blocks, In, Filled
<1> QED
  BY <1>3, <1>5 DEF SessionInv

\* The bytes are copied, or fixed up, in the RW view.
LEMMA SessionPatched ==
  ASSUME SessionInv, TypeOK, Patch(Mine), GoesOn
  PROVE  OwnsTop' /\ BlocksOK'
<1>1. OwnsTop /\ BlocksOK /\ Mine \subseteq code
  BY DEF SessionInv, Mine
<1>2. \A b \in Mine : \E e \in code' : e.prog = b.prog /\ e.lo = b.lo /\ e.hi = b.hi
  BY <1>1, PatchKept
<1> QED
  BY <1>1, <1>2, PatchKept, LayoutKept

LEMMA SessionFill ==
  ASSUME SessionInv, TypeOK, Fill
  PROVE  SessionInv'
<1>1. ~In("idle") /\ In("allocate") /\ DOMAIN session = Fields /\ Placed /\ Blocks # <<>>
  BY SessionFacts DEF Fill, In, SessionInv
<1>2. /\ session'.phase = "resolve" /\ session'.graph = session.graph
      /\ session'.root = session.root /\ session'.places = session.places
      /\ session'.resolved = session.resolved /\ session'.bound = session.bound
      /\ session'.errors = session.errors /\ session'.finalized = session.finalized
      /\ DOMAIN session' = Fields
  BY <1>1 DEF Fill, Fields
<1>3. OwnsTop' /\ BlocksOK'
  BY <1>1, <1>2, SessionPatched DEF GoesOn, Fill
<1>4. ~In("over") /\ ~In("over")' /\ ~In("idle")' /\ In("resolve")'
  BY <1>1, <1>2 DEF In
<1>5. SessionOK' /\ OutcomeOK' /\ NamesOK'
  BY <1>1, <1>2, <1>4 DEF SessionInv, SessionOK, OutcomeOK, NamesOK, Told, Phases, Placed, Blocks
<1> QED
  BY <1>3, <1>5 DEF SessionInv

LEMMA SessionFixup ==
  ASSUME SessionInv, TypeOK, Fixup
  PROVE  SessionInv'
<1>1. ~In("idle") /\ In("fixup") /\ DOMAIN session = Fields
  BY SessionFacts DEF Fixup, In, SessionInv
<1>2. /\ session'.phase = "finalize" /\ session'.graph = session.graph
      /\ session'.root = session.root /\ session'.places = session.places
      /\ session'.resolved = session.resolved /\ session'.bound = session.bound
      /\ session'.errors = session.errors /\ session'.finalized = session.finalized
      /\ DOMAIN session' = Fields
  BY <1>1 DEF Fixup, Fields
<1>3. OwnsTop' /\ BlocksOK'
  BY <1>1, <1>2, SessionPatched DEF GoesOn, Fixup
<1>4. /\ ~In("over") /\ ~In("over")' /\ ~In("idle")' /\ Filled
      /\ ~In("resolve") /\ ~In("resolve")'
  BY <1>1, <1>2 DEF In, Filled
<1>5. SessionOK' /\ OutcomeOK' /\ NamesOK'
  BY <1>1, <1>2, <1>4 DEF SessionInv, SessionOK, OutcomeOK, NamesOK, Told, Phases, Placed, Blocks
<1> QED
  BY <1>3, <1>5 DEF SessionInv

\* The transaction opens at the cursor, above everything it may not touch.
LEMMA SessionStart ==
  ASSUME SlabInv, NEW graph \in Graphs, JitStart(graph)
  PROVE  SessionInv'
<1>1. TypeOK /\ LiveCodeIntact /\ CountInv
  BY DEF SlabInv, CountInv
<1>2. /\ graph.total \in Totals /\ graph.blocks \in Seq(BlockRec) /\ Base \in Nat /\ cursor \in Nat
  BY <1>1, JitlinkAssumption, SlabAssumption DEF TypeOK, BlockRec
<1>3. session' = [phase |-> "graph", graph |-> graph, root |-> Base + cursor,
                  places |-> <<>>, resolved |-> <<>>, bound |-> <<>>,
                  errors |-> {}, finalized |-> FALSE]
  BY DEF JitStart
<1>4. /\ DOMAIN session' = Fields /\ session'.phase = "graph" /\ session'.graph = graph
      /\ session'.root = Base + cursor /\ session'.places = <<>> /\ session'.bound = <<>>
      /\ session'.errors = {} /\ session'.finalized = FALSE
  BY <1>3 DEF Fields
<1>5. ~In("idle")' /\ ~In("over")' /\ ~Filled'
  BY <1>4 DEF In, Filled
<1>6. /\ Len(txs) \in Nat /\ txs \in Seq(Tx) /\ txs' = Append(txs,
           [id |-> progs + 1, cursor |-> cursor, total |-> graph.total, writes |-> 0])
  BY <1>1 DEF JitStart, Begin, TypeOK
<1>7. InTx' /\ Top' = [id |-> progs + 1, cursor |-> cursor, total |-> graph.total, writes |-> 0]
  BY <1>6 DEF InTx, Top
<1>8. code' = code /\ cursor' = cursor /\ undercut' = undercut
  BY DEF JitStart, Begin
<1>9. \A b \in code : Safe(b) => b.hi <= cursor
  BY <1>1 DEF LiveCodeIntact
<1>10. \A b \in code : b.prog # progs + 1
  <2>1. progs \in Nat /\ \A b \in code : b.prog \in Nat
    BY <1>1, SlabAssumption DEF TypeOK, Block
  <2> QED
    BY <2>1 DEF SlabInv, Known
<1>11. OwnsTop'
  <2>1. Len(<<>>) = 0
    OBVIOUS
  <2> QED
    BY <1>4, <1>7, <1>8, <1>9, <1>10, <2>1 DEF OwnsTop, Safe
<1>12. SessionOK'
  <2>1. Len(<<>>) = 0 /\ <<>> \in Seq(Nat) /\ Len(graph.blocks) \in Nat /\ Blocks' = graph.blocks
    BY <1>2, <1>4 DEF Blocks
  <2> QED
    BY <1>2, <1>4, <1>5, <2>1 DEF SessionOK, Phases
<1>13. OutcomeOK' /\ NamesOK' /\ BlocksOK'
  <2>1. DOMAIN <<>> = {}
    OBVIOUS
  <2> QED
    BY <1>4, <1>5, <2>1 DEF OutcomeOK, NamesOK, Told, BlocksOK
<1> QED
  BY <1>11, <1>12, <1>13 DEF SessionInv

\* What a reservation does to the slab.
LEMMA ReserveFacts ==
  ASSUME TypeOK, NEW p \in 1 .. MaxProgs, NEW c, Request(c),
         NEW lo, lo = StartOffset(Base, cursor, c.align),
         cursor' = lo + c.cap,
         code' = code \cup {[prog |-> p, lo |-> lo, hi |-> lo + c.cap,
                             align |-> c.align, flushed |-> FALSE]}
  PROVE  \E b \in Block :
           /\ code' = code \cup {b} /\ b.prog = p
           /\ b.lo = lo /\ b.hi = b.lo + c.cap
           /\ cursor <= b.lo /\ b.lo <= b.hi /\ cursor' = b.hi
<1> DEFINE b  == [prog |-> p, lo |-> lo, hi |-> lo + c.cap, align |-> c.align, flushed |-> FALSE]
<1>1. c.align \in Nat \ {0} /\ c.cap \in Nat /\ Base + cursor \in Nat
      /\ Base \in Nat /\ cursor \in Nat
  BY SlabAssumption DEF TypeOK, Request
<1>2. AlignUp(Base + cursor, c.align) \in Nat /\ Base + cursor <= AlignUp(Base + cursor, c.align)
  BY <1>1, AlignUpFacts
<1>3. lo \in Nat /\ cursor <= lo
  BY <1>1, <1>2 DEF StartOffset
<1>4. cursor' = lo + c.cap /\ code' = code \cup {b}
  OBVIOUS
<1>5. b \in Block /\ b.lo <= b.hi
  BY <1>1, <1>3 DEF Block
<1> QED
  BY <1>3, <1>4, <1>5

\* A reservation: its block lies above the mark and the last one, and the
\* cursor moves past it.
LEMMA SessionAllocate ==
  ASSUME SessionInv, TypeOK, Watermarks, AllocateBlock
  PROVE  SessionInv'
<1> DEFINE n  == Len(session.places) + 1
           at == StartOffset(Base, cursor, NextCall.align)
<1>1. /\ ~In("idle") /\ In("allocate") /\ ~Filled /\ ~Placed
      /\ SessionOK /\ OutcomeOK /\ OwnsTop /\ BlocksOK
      /\ TxWrite(NextCall, FALSE)
  BY DEF AllocateBlock, In, SessionInv, Filled
<1>2. /\ DOMAIN session = Fields /\ session.graph \in Graphs /\ session.root \in Nat
      /\ session.places \in Seq(Nat) /\ Len(session.places) \in Nat
      /\ DOMAIN session.places = 1 .. Len(session.places)
      /\ \A i \in DOMAIN session.places : session.places[i] \in Nat
      /\ Len(Blocks) \in Nat /\ DOMAIN Blocks = 1 .. Len(Blocks)
  BY <1>1, SessionFacts
<1>3. Request(NextCall) /\ n \in DOMAIN Blocks /\ NextCall.cap = Blocks[n].size
  BY <1>1, NextCallFacts
<1>4. /\ Len(txs) \in Nat \ {0} /\ Len(txs) \in DOMAIN txs
      /\ Top = txs[Len(txs)] /\ Top \in Tx /\ Top.id \in 1 .. MaxProgs
      /\ txs \in Seq(Tx) /\ Top.cursor \in Nat
  BY <1>1, TopFacts DEF TxWrite, TypeOK, Tx
<1>5. PICK b \in Block :
        /\ code' = code \cup {b} /\ b.prog = Top.id
        /\ b.lo = at /\ b.hi = b.lo + Blocks[n].size
        /\ cursor <= b.lo /\ b.lo <= b.hi /\ cursor' = b.hi
  <2>1. /\ cursor' = at + NextCall.cap
        /\ code' = code \cup {[prog |-> Top.id, lo |-> at, hi |-> at + NextCall.cap,
                               align |-> NextCall.align, flushed |-> FALSE]}
    BY <1>1 DEF TxWrite, Place
  <2>2. Request(NextCall) /\ Top.id \in 1 .. MaxProgs
    BY <1>3, <1>4
  <2>3. \E b \in Block :
           /\ code' = code \cup {b} /\ b.prog = Top.id
           /\ b.lo = at /\ b.hi = b.lo + NextCall.cap
           /\ cursor <= b.lo /\ b.lo <= b.hi /\ cursor' = b.hi
    BY <2>1, <2>2, ReserveFacts
  <2> QED
    BY <1>3, <2>3
<1>6. at \in Nat /\ cursor \in Nat /\ cursor <= at /\ at <= cursor' /\ cursor' \in Nat
  BY <1>5 DEF Block, TypeOK
<1>7. /\ session'.phase = "allocate" /\ session'.graph = session.graph
      /\ session'.root = session.root /\ session'.places = Append(session.places, at)
      /\ session'.resolved = session.resolved /\ session'.bound = session.bound
      /\ session'.errors = session.errors /\ session'.finalized = session.finalized
      /\ DOMAIN session' = Fields
  BY <1>1, <1>2 DEF AllocateBlock, Fields, In
<1>8. ~In("idle")' /\ ~In("over")' /\ ~Filled' /\ Blocks' = Blocks
  BY <1>7 DEF In, Filled, Blocks
<1>9. txs' = [txs EXCEPT ![Len(txs)] = [Top EXCEPT !.writes = @ + 1]]
  BY <1>1, <1>4 DEF TxWrite
<1>10. /\ Top' = [Top EXCEPT !.writes = @ + 1] /\ InTx'
  <2>1. Len(txs') = Len(txs)
    BY <1>4, <1>9
  <2>2. txs'[Len(txs)] = [Top EXCEPT !.writes = @ + 1]
    BY <1>4, <1>9
  <2> QED
    BY <1>4, <2>1, <2>2 DEF Top, InTx
<1>11. /\ Top'.id = Top.id /\ Top'.cursor = Top.cursor
       /\ Top'.total = Top.total /\ Top'.writes = Top.writes + 1
  BY <1>4, <1>10 DEF Tx
<1>12. undercut' = undercut
  BY <1>1 DEF TxWrite
<1> HIDE DEF at, n
<1>13. /\ session'.places \in Seq(Nat) /\ Len(session'.places) = n
       /\ DOMAIN session'.places = 1 .. n /\ session'.places[n] = at
       /\ \A i \in 1 .. n : i # n => i \in DOMAIN session.places
                                     /\ session'.places[i] = session.places[i]
  BY <1>2, <1>6, <1>7 DEF n
<1>14. SessionOK'
  <2>1. n <= Len(Blocks)
    BY <1>2, <1>3
  <2> QED
    BY <1>2, <1>7, <1>8, <1>13, <2>1 DEF SessionOK, Phases
<1>15. OutcomeOK' /\ NamesOK'
  BY <1>1, <1>7, <1>8 DEF SessionInv, OutcomeOK, NamesOK, Told, In
<1>16. OwnsTop'
  <2>1. \A d \in code : d.hi \in Nat
    BY DEF TypeOK, Block
  <2>2. \A d \in code' : IF d.prog = Top.id THEN d.hi <= cursor' ELSE Safe(d) => d.hi <= Top.cursor
    BY <1>1, <1>5, <1>6, <2>1 DEF OwnsTop
  <2>3. /\ session.root = Base + Top.cursor /\ Top.total = session.graph.total
        /\ Top.writes = Len(session.places)
    BY <1>1 DEF OwnsTop
  <2>4. Top'.writes = Len(session'.places)
    BY <1>2, <1>11, <1>13, <2>3 DEF n
  <2> QED
    BY <1>7, <1>8, <1>10, <1>11, <1>12, <2>2, <2>3, <2>4 DEF OwnsTop, Safe
<1>17. Top.cursor <= cursor /\ \A i \in DOMAIN session.places : session.places[i] <= cursor
  BY <1>1, <1>4 DEF BlocksOK, Watermarks
<1>18. BlocksOK'
  <2>1. \A i \in 1 .. n : \E d \in code' : IsBlock(d, i)'
    <3>1. ASSUME NEW i \in 1 .. n
          PROVE  \E d \in code' : /\ d.prog = Top.id
                                  /\ d.lo = session'.places[i]
                                  /\ d.hi = d.lo + Blocks[i].size
      <4>1. CASE i = n
        BY <1>5, <1>13, <4>1
      <4>2. CASE i # n
        <5>1. PICK d \in code : IsBlock(d, i)
          BY <1>1, <1>13, <4>2 DEF BlocksOK
        <5> QED
          BY <1>5, <1>13, <4>2, <5>1 DEF IsBlock
      <4> QED
        BY <4>1, <4>2
    <3> QED
      BY <1>8, <1>11, <3>1 DEF IsBlock
  <2>2. \A i \in 1 .. n : Top.cursor <= session'.places[i] /\ session'.places[i] <= cursor'
    <3>1. ASSUME NEW i \in 1 .. n, i # n
          PROVE  Top.cursor <= session'.places[i] /\ session'.places[i] <= cursor'
      <4>1. session'.places[i] = session.places[i] /\ session.places[i] \in Nat
        BY <1>2, <1>13, <3>1
      <4>2. Top.cursor <= session.places[i] /\ session.places[i] <= cursor
        BY <1>1, <1>13, <3>1 DEF BlocksOK
      <4> QED
        BY <1>4, <1>6, <4>1, <4>2
    <3>2. Top.cursor <= at /\ at <= cursor'
      BY <1>4, <1>6, <1>17
    <3> QED
      BY <1>13, <3>1, <3>2
  <2>3. \A i, j \in 1 .. n : i <= j => session'.places[i] <= session'.places[j]
    <3>1. ASSUME NEW i \in 1 .. n, NEW j \in 1 .. n, i <= j
          PROVE  session'.places[i] <= session'.places[j]
      <4>1. CASE j # n
        <5>1. n \in Nat /\ i # n /\ j # n
          BY <1>2, <3>1, <4>1 DEF n
        <5>2. session.places[i] <= session.places[j]
          BY <1>1, <1>13, <3>1, <5>1 DEF BlocksOK
        <5> QED
          BY <1>13, <5>1, <5>2
      <4>2. CASE j = n /\ i # n
        <5>1. session'.places[i] = session.places[i] /\ session.places[i] \in Nat
          BY <1>2, <1>13, <4>2
        <5>2. session.places[i] <= cursor
          BY <1>13, <1>17, <4>2
        <5> QED
          BY <1>6, <1>13, <4>2, <5>1, <5>2
      <4>3. CASE j = n /\ i = n
        BY <1>6, <1>13, <4>3
      <4> QED
        BY <4>1, <4>2, <4>3
    <3> QED
      BY <3>1
  <2> QED
    BY <1>8, <1>11, <1>13, <2>1, <2>2, <2>3 DEF BlocksOK
<1> QED
  BY <1>14, <1>15, <1>16, <1>18 DEF SessionInv

\* Nothing is said of a session that is not there, whoever uses the slab.
LEMMA StillIdle ==
  ASSUME In("idle"), session' = session
  PROVE  SessionInv'
BY DEF SessionInv, SessionOK, OutcomeOK, OwnsTop, BlocksOK, NamesOK, Told, Filled, In

\* Releases by other threads do not disturb a session.
LEMMA SessionRelease ==
  ASSUME SessionInv, CountInv, NEW h \in handles, Release(h), session' = session
  PROVE  SessionInv'
<1>1. CASE In("idle")
  BY <1>1, StillIdle
<1>2. CASE ~In("idle")
  <2>1. OwnsTop /\ BlocksOK /\ InTx /\ GoesOn
    BY <1>2 DEF SessionInv, OwnsTop, GoesOn, In
  <2>2. \A e \in code' : \E b \in code : e.prog = b.prog /\ e.lo = b.lo /\ e.hi = b.hi
    BY ReleaseKept
  <2>3. \A b \in Mine : \E e \in code' : e.prog = b.prog /\ e.lo = b.lo /\ e.hi = b.hi
    BY <2>1, ReleaseKept DEF Mine
  <2>4. OwnsTop' /\ BlocksOK'
    BY <2>1, <2>2, <2>3, ReleaseKept, LayoutKept
  <2> QED
    BY <2>4, SameSession
<1> QED
  BY <1>1, <1>2

\* Every step keeps what holds of the session.
LEMMA SessionNext ==
  ASSUME SlabInv, SessionInv, [JitNext]_allVars
  PROVE  SessionInv'
<1>0. TypeOK /\ CountInv /\ Watermarks
  BY DEF SlabInv, CountInv
<1>1. CASE \E graph \in Graphs : JitStart(graph)
  BY <1>1, SessionStart
<1>2. CASE GraphFails \/ ReturnOk \/ ReturnErr
  BY <1>2, NoSession DEF GraphFails, ReturnOk, ReturnErr
<1>3. CASE GraphOk
  BY <1>3, SessionGraphOk
<1>4. CASE AllocateBlock
  BY <1>0, <1>4, SessionAllocate
<1>5. CASE AllocateFails
  BY <1>5, SessionFailed DEF AllocateFails, In
<1>6. CASE Fill
  BY <1>0, <1>6, SessionFill
<1>7. CASE NotifyResolved
  BY <1>7, SessionResolved
<1>8. CASE In("lookup") /\ \E ext \in session.graph.externals : Lookup(ext)
  BY <1>8, SessionLookup
<1>9. CASE Fixup
  BY <1>0, <1>9, SessionFixup
<1>10. CASE PassFails
  BY <1>10, SessionFailed DEF PassFails, In
<1>11. CASE Finalize
  BY <1>11, SessionFinalize
<1>12. CASE (\E c \in Calls : PlainWrite(c)) \/ Outer
  BY <1>12, StillIdle DEF PlainWrite, Outer, jitVars
<1>13. CASE ReleaseAny
  BY <1>0, <1>13, SessionRelease DEF ReleaseAny, jitVars
<1>14. CASE UNCHANGED allVars
  <2>1. OwnsTop' /\ BlocksOK'
    BY <1>14 DEF SessionInv, OwnsTop, BlocksOK, IsBlock, allVars, vars, jitVars,
                 Top, InTx, In, Safe, Blocks
  <2> QED
    BY <1>14, <2>1, SameSession DEF allVars, jitVars
<1> QED
  BY <1>1, <1>2, <1>3, <1>4, <1>5, <1>6, <1>7, <1>8, <1>9, <1>10, <1>11, <1>12, <1>13, <1>14
  DEF JitNext

-----------------------------------------------------------------------------
(* What a finished session leaves behind. *)

\* The session that ReturnOk commits: all is in place.
LEMMA FinalFacts ==
  ASSUME SessionInv, In("over"), session.errors = {}
  PROVE  /\ session.finalized /\ Placed /\ Blocks # <<>> /\ InTx
         /\ Top.total = session.graph.total /\ session.graph \in Graphs
         /\ DOMAIN Blocks = DOMAIN session.places
         /\ \A s \in session.graph.symbols : s.utf8 => Told(s)
<1>1. ~In("idle") /\ ~In("resolve")
  BY DEF In
<1>2. session.finalized /\ Filled
  BY <1>1 DEF SessionInv, OutcomeOK, Filled
<1>3. Placed /\ Blocks # <<>> /\ session.graph \in Graphs
  BY <1>1, <1>2 DEF SessionInv, SessionOK
<1>4. DOMAIN Blocks = DOMAIN session.places
  BY <1>1, <1>3, SessionFacts DEF SessionInv, Placed
<1>5. InTx /\ Top.total = session.graph.total
  BY <1>1 DEF SessionInv, OwnsTop
<1>6. \A s \in session.graph.symbols : s.utf8 => Told(s)
  BY <1>1, <1>2 DEF SessionInv, NamesOK
<1> QED
  BY <1>2, <1>3, <1>4, <1>5, <1>6

\* After the commit every block of the graph is still there, and flushed when
\* the transaction began with the slab.
LEMMA FinalBlocks ==
  ASSUME SlabInv, SessionInv, In("over"), session.errors = {}, Commit,
         session.graph.total > 0, NEW i \in DOMAIN Blocks
  PROVE  \E b \in code' : /\ IsBlock(b, i)
                          /\ b.hi - b.lo = Blocks[i].size
                          /\ (session.root = Base) => b.flushed
<1>0. TypeOK /\ SessionOK /\ BlocksOK /\ OwnsTop /\ ~In("idle")
  BY DEF SlabInv, CountInv, SessionInv, In
<1>1. i \in DOMAIN session.places /\ InTx /\ Top.total > 0
  BY FinalFacts
<1>2. PICK b \in code : IsBlock(b, i)
  BY <1>0, <1>1 DEF BlocksOK
<1>3. PICK e \in code' : /\ e.prog = b.prog /\ e.lo = b.lo /\ e.hi = b.hi
                         /\ b.hi <= cursor - Top.cursor => e.flushed
  BY <1>0, <1>1, CommitBlocks
<1>4. b \in Block /\ b.lo \in Nat /\ b.hi \in Nat /\ cursor \in Nat /\ Base \in Nat
  BY <1>0, SlabAssumption DEF TypeOK, Block
<1>5. Top.cursor \in Nat
  BY <1>0, <1>1, TopFacts DEF Tx
<1>6. Blocks[i].size \in Nat
  <2>1. Blocks \in Seq(BlockRec)
    BY <1>0, SessionFacts
  <2>2. Blocks[i] \in BlockRec
    BY <2>1
  <2> QED
    BY <2>2 DEF BlockRec
<1>7. session.root = Base => e.flushed
  <2>1. session.root = Base + Top.cursor /\ b.hi <= cursor
    BY <1>0, <1>2 DEF OwnsTop, IsBlock
  <2> QED
    BY <1>3, <1>4, <1>5, <2>1
<1>8. IsBlock(e, i)
  BY <1>2, <1>3 DEF IsBlock
<1> QED
  BY <1>4, <1>6, <1>7, <1>8, <1>2, <1>3 DEF IsBlock

\* A session that ends well returns addresses of its own blocks.
LEMMA ReturnedNew ==
  ASSUME SlabInv, SessionInv, ReturnOk, NEW p, p = Top.id
  PROVE  /\ p \in 1 .. progs'
         /\ \A i \in DOMAIN txs' : txs'[i].id # p
         /\ InUse(p)' =>
              \A s \in session.graph.symbols : s.utf8 =>
                \E r \in session.graph.symbols, b \in code' :
                  /\ r.utf8 /\ r.name = s.name
                  /\ b.prog = p
                  /\ session.resolved[s.name] = Base + b.lo + r.offset
                  /\ b.hi - b.lo = session.graph.blocks[r.block].size
<1>0. TypeOK /\ CountInv /\ Identities /\ InTx /\ Commit
  BY FinalFacts DEF SlabInv, CountInv, ReturnOk
<1>1. /\ Len(txs) \in Nat \ {0} /\ Len(txs) \in DOMAIN txs /\ DOMAIN txs = 1 .. Len(txs)
      /\ Top = txs[Len(txs)] /\ Top \in Tx /\ Top.id \in 1 .. MaxProgs
      /\ txs' = SubSeq(txs, 1, Len(txs) - 1)
      /\ DOMAIN txs' = 1 .. Len(txs) - 1
      /\ \A i \in DOMAIN txs' : i \in DOMAIN txs /\ txs'[i] = txs[i]
  BY <1>0, TopFacts, TxFacts DEF Commit, Tx
<1>2. Top.id <= progs /\ progs' = progs
  BY <1>0, <1>1 DEF Identities, Commit
<1>3. \A i \in DOMAIN txs' : txs'[i].id # p
  <2>1. \A i \in DOMAIN txs' : i # Len(txs)
    BY <1>1
  <2>2. \A i \in DOMAIN txs : i # Len(txs) => txs[i].id # txs[Len(txs)].id
    BY <1>0, <1>1 DEF Identities
  <2> QED
    BY <1>1, <2>1, <2>2
<1>4. ASSUME InUse(p)', NEW s \in session.graph.symbols, s.utf8
      PROVE  \E r \in session.graph.symbols, b \in code' :
                /\ r.utf8 /\ r.name = s.name
                /\ b.prog = p
                /\ session.resolved[s.name] = Base + b.lo + r.offset
                /\ b.hi - b.lo = session.graph.blocks[r.block].size
  <2>1. In("over") /\ session.errors = {}
    BY DEF ReturnOk
  <2>2. PICK r \in session.graph.symbols :
          /\ r.utf8 /\ r.name = s.name
          /\ session.resolved[s.name] = Base + session.places[r.block] + r.offset
    BY <1>4, <2>1, FinalFacts DEF Told
  <2>3. r.block \in DOMAIN Blocks
    BY <2>1, <2>2, FinalFacts, JitlinkAssumption DEF Blocks
  <2>4. session.graph.total > 0
    <3>1. PICK h \in handles' : h[1] = p
      BY <1>4 DEF InUse, Live
    <3>2. handles' = handles \cup ({Top.id} \X (1 .. Top.total)) /\ \A g \in handles : g[1] # Top.id
      BY <1>0, <1>1 DEF Commit, HandOut, Identities
    <3>3. 1 .. Top.total # {}
      BY <3>1, <3>2
    <3>4. Top.total \in Nat
      BY <1>1, SlabAssumption DEF Tx
    <3> QED
      BY <2>1, <3>3, <3>4, FinalFacts
  <2>5. \E b \in code' : IsBlock(b, r.block) /\ b.hi - b.lo = Blocks[r.block].size
    BY <1>0, <2>1, <2>3, <2>4, FinalBlocks
  <2> QED
    BY <2>2, <2>5 DEF IsBlock, Blocks
<1>5. p \in 1 .. progs'
  BY <1>0, <1>1, <1>2, SlabAssumption DEF TypeOK
<1> QED
  BY <1>3, <1>4, <1>5

\* And they stay its addresses.
LEMMA ReturnedKept ==
  ASSUME SlabInv, [AnyNext]_vars, ReturnedOK, ReturnedAddressesValid,
         NEW p \in DOMAIN returned
  PROVE  /\ p \in 1 .. progs' /\ \A i \in DOMAIN txs' : txs'[i].id # p
         /\ InUse(p)' =>
              \A s \in returned[p].graph.symbols : s.utf8 =>
                \E r \in returned[p].graph.symbols, b \in code' :
                  /\ r.utf8 /\ r.name = s.name
                  /\ b.prog = p
                  /\ returned[p].resolved[s.name] = Base + b.lo + r.offset
                  /\ b.hi - b.lo = returned[p].graph.blocks[r.block].size
<1>1. p \in 1 .. progs /\ \A i \in DOMAIN txs : txs[i].id # p
  BY DEF ReturnedOK
<1>2. /\ p \in 1 .. progs' /\ \A i \in DOMAIN txs' : txs'[i].id # p
      /\ InUse(p)' =>
           /\ InUse(p)
           /\ \A b \in code : b.prog = p =>
                \E e \in code' : e.prog = b.prog /\ e.lo = b.lo /\ e.hi = b.hi
  BY <1>1, ProgramStays DEF SlabInv, InUse, Mapped
<1>3. InUse(p) =>
        \A s \in returned[p].graph.symbols : s.utf8 =>
          \E r \in returned[p].graph.symbols, b \in code :
            /\ r.utf8 /\ r.name = s.name
            /\ b.prog = p
            /\ returned[p].resolved[s.name] = Base + b.lo + r.offset
            /\ b.hi - b.lo = returned[p].graph.blocks[r.block].size
  BY DEF ReturnedAddressesValid
<1> QED
  BY <1>2, <1>3

\* Only the end of a good session adds to what was returned.
LEMMA ReturnedNext ==
  ASSUME SlabInv, SessionInv, ReturnedOK, ReturnedAddressesValid, [JitNext]_allVars
  PROVE  ReturnedOK' /\ ReturnedAddressesValid'
<1>1. [AnyNext]_vars
  BY JitIsSlab DEF SessionInv
<1>2. CASE ReturnOk
  <2>1. returned' = Put(returned, Top.id, session)
    BY <1>2 DEF ReturnOk
  <2>2. /\ DOMAIN returned' = DOMAIN returned \cup {Top.id}
        /\ returned'[Top.id] = session
        /\ \A p \in DOMAIN returned : p # Top.id => returned'[p] = returned[p]
    BY <2>1 DEF Put
  <2>3. ReturnedOK'
    BY <1>1, <1>2, <2>2, ReturnedNew, ReturnedKept DEF ReturnedOK
  <2>4. ASSUME NEW p \in DOMAIN returned', InUse(p)',
               NEW s \in returned'[p].graph.symbols, s.utf8
        PROVE  \E r \in returned'[p].graph.symbols, b \in code' :
                 /\ r.utf8 /\ r.name = s.name
                 /\ b.prog = p
                 /\ returned'[p].resolved[s.name] = Base + b.lo + r.offset
                 /\ b.hi - b.lo = returned'[p].graph.blocks[r.block].size
    <3>1. CASE p = Top.id
      <4>1. \E r \in session.graph.symbols, b \in code' :
              /\ r.utf8 /\ r.name = s.name
              /\ b.prog = p
              /\ session.resolved[s.name] = Base + b.lo + r.offset
              /\ b.hi - b.lo = session.graph.blocks[r.block].size
        BY <1>2, <2>2, <2>4, <3>1, ReturnedNew
      <4> QED
        BY <2>2, <3>1, <4>1
    <3>2. CASE p # Top.id
      BY <1>1, <2>2, <2>4, <3>2, ReturnedKept
    <3> QED
      BY <3>1, <3>2
  <2> QED
    BY <2>3, <2>4 DEF ReturnedAddressesValid
<1>3. CASE ~ReturnOk
  <2>1. returned' = returned
    BY <1>3 DEF JitNext, JitStart, GraphFails, GraphOk, AllocateBlock, AllocateFails, Fill,
                NotifyResolved, Lookup, Fixup, PassFails, Failed, Finalize, ReturnErr,
                PlainWrite, Outer, ReleaseAny, jitVars, allVars
  <2>2. ReturnedOK'
    BY <1>1, <2>1, ReturnedKept DEF ReturnedOK
  <2>3. ReturnedAddressesValid'
    BY <1>1, <2>1, ReturnedKept DEF ReturnedAddressesValid
  <2> QED
    BY <2>2, <2>3
<1> QED
  BY <1>2, <1>3

-----------------------------------------------------------------------------
(* The theorems. *)

LEMMA JitInitial == JitInit => JitInv
<1> SUFFICES ASSUME JitInit PROVE JitInv
  OBVIOUS
<1>1. CountInv /\ Watermarks /\ LiveCodeIntact /\ Known
  BY CountInit DEF JitInit, Init, Watermarks, LiveCodeIntact, Known
<1>2. session.phase = "idle" /\ DOMAIN returned = {}
  BY DEF JitInit, Idle
<1> QED
  BY <1>1, <1>2 DEF JitInv, SlabInv, SessionOK, OutcomeOK, OwnsTop, BlocksOK, NamesOK, Told,
                    Filled, In, ReturnedOK, ReturnedAddressesValid

LEMMA JitStep == JitInv /\ [JitNext]_allVars => JitInv'
<1> SUFFICES ASSUME JitInv, [JitNext]_allVars PROVE JitInv'
  OBVIOUS
<1>1. SlabInv /\ SessionInv /\ SessionOK /\ ReturnedOK /\ ReturnedAddressesValid
  BY DEF JitInv, SessionInv
<1>2. SlabInv' /\ SessionInv' /\ ReturnedOK' /\ ReturnedAddressesValid'
  BY <1>1, SlabStep, SessionNext, ReturnedNext
<1> QED
  BY <1>2 DEF JitInv, SessionInv

\* All of it holds at every moment of every history of the bridge.
THEOREM JitInvariant == JitSpec => []JitInv
BY JitInitial, JitStep, PTL DEF JitSpec

\* In the bridge's hands the slab keeps its promises: its counter balances
\* with what was handed out, marks are below the cursor, and no byte belongs
\* to two functions in use.
THEOREM SlabKept == JitSpec => [](Ledger /\ FreeIsSafe /\ Watermarks /\ LiveCodeIntact)
<1>1. JitInv => Ledger /\ FreeIsSafe /\ Watermarks /\ LiveCodeIntact
  BY DEF JitInv, SlabInv, CountInv
<1> QED
  BY <1>1, JitInvariant, PTL

\* write_jitlink may take an empty list of errors for success: whatever fails
\* leaves an error behind, and what is finalised leaves none.
THEOREM ErrorsTell == JitSpec => []NoErrorMeansFinalized
<1>1. JitInv => NoErrorMeansFinalized
  BY DEF JitInv, OutcomeOK, NoErrorMeansFinalized, In
<1> QED
  BY <1>1, JitInvariant, PTL

\* The addresses write_jitlink returned stay addresses of the program's own
\* blocks for as long as the program is in use.
THEOREM AddressesStayValid == JitSpec => []ReturnedAddressesValid
<1>1. JitInv => ReturnedAddressesValid
  BY DEF JitInv
<1> QED
  BY <1>1, JitInvariant, PTL

\* The blocks LLVM is given form one allocation that begins with the first of
\* them and has nobody else's code in it, as jitlink.h promises.
THEOREM OneAllocation == JitSpec => []SlicesContiguous
<1>1. JitInv => SlicesContiguous
  <2> SUFFICES ASSUME JitInv, In("resolve")
               PROVE  /\ Placed /\ Blocks # <<>>
                      /\ \A i \in DOMAIN Blocks : session.places[1] <= session.places[i]
                      /\ \A b \in code \ Mine : Safe(b) => b.hi <= session.places[1]
    BY DEF SlicesContiguous
  <2>1. ~In("idle") /\ Filled /\ SessionOK /\ BlocksOK /\ OwnsTop /\ TypeOK
    BY DEF In, Filled, JitInv, SlabInv, CountInv
  <2>2. Placed /\ Blocks # <<>>
    BY <2>1 DEF SessionOK
  <2>3. /\ Len(session.places) \in Nat /\ DOMAIN session.places = 1 .. Len(session.places)
        /\ \A i \in DOMAIN session.places : session.places[i] \in Nat
        /\ Blocks \in Seq(BlockRec) /\ DOMAIN Blocks = 1 .. Len(Blocks)
    BY <2>1, SessionFacts
  <2>4. Len(session.places) = Len(Blocks) /\ Len(Blocks) # 0
    BY <2>2, <2>3 DEF Placed
  <2>5. DOMAIN Blocks = DOMAIN session.places /\ 1 \in DOMAIN session.places
    BY <2>3, <2>4
  <2>6. \A i \in DOMAIN Blocks : session.places[1] <= session.places[i]
    BY <2>1, <2>3, <2>5 DEF BlocksOK
  <2>7. ASSUME NEW b \in code \ Mine, Safe(b)
        PROVE  b.hi <= session.places[1]
    <3>1. b.hi <= Top.cursor
      BY <2>1, <2>7 DEF OwnsTop, Mine
    <3>2. Top.cursor <= session.places[1]
      BY <2>1, <2>5 DEF BlocksOK
    <3>3. b.hi \in Nat /\ Top.cursor \in Nat /\ session.places[1] \in Nat
      BY <2>1, <2>3, <2>5, <2>7, TopFacts DEF OwnsTop, TypeOK, Block, Tx
    <3> QED
      BY <3>1, <3>2, <3>3
  <2> QED
    BY <2>2, <2>6, <2>7
<1> QED
  BY <1>1, JitInvariant, PTL

\* Windows' image base, once it was looked up, is below every block, so that
\* no image-relative field of the object has to hold a negative number.
THEOREM BaseIsBelow == JitSpec => []ImageBaseBelow
<1>1. JitInv => ImageBaseBelow
  <2> SUFFICES ASSUME JitInv, Windows, ~In("idle"), "__ImageBase" \in DOMAIN session.bound,
                      NEW i \in DOMAIN session.places
               PROVE  session.bound["__ImageBase"] <= Base + session.places[i]
    BY DEF ImageBaseBelow
  <2>1. SessionOK /\ BlocksOK /\ OwnsTop /\ NamesOK /\ TypeOK /\ Base \in Nat
    BY SlabAssumption DEF JitInv, SlabInv, CountInv
  <2>2. session.bound["__ImageBase"] \in {0, Base + Top.cursor}
    BY <2>1 DEF NamesOK, Told, OwnsTop
  <2>3. Top.cursor \in Nat /\ session.places[i] \in Nat /\ Top.cursor <= session.places[i]
    BY <2>1, SessionFacts, TopFacts DEF OwnsTop, BlocksOK, Tx
  <2> QED
    BY <2>1, <2>2, <2>3
<1> QED
  BY <1>1, JitInvariant, PTL

\* A session is over only by GraphFails, ReturnErr or ReturnOk.
LEMMA SessionEnds ==
  ASSUME SessionOK, [JitNext]_allVars, ~In("idle"), session' = Idle
  PROVE  GraphFails \/ ReturnErr \/ ReturnOk
<1>1. session'.phase = "idle" /\ session.phase # "idle" /\ "phase" \in DOMAIN session
  BY SessionFacts DEF Idle, In, Fields
<1>2. session' # session
  BY <1>1
<1>3. ~(\E graph \in Graphs : JitStart(graph)) /\ ~(\E c \in Calls : PlainWrite(c)) /\ ~Outer
  BY DEF JitStart, PlainWrite, Outer
<1>4. ~ReleaseAny /\ allVars' # allVars
  BY <1>2 DEF ReleaseAny, allVars, jitVars
<1>5. ~GraphOk /\ ~AllocateBlock /\ ~AllocateFails /\ ~Fill
  BY <1>1 DEF GraphOk, AllocateBlock, AllocateFails, Failed, Fill, In
<1>6. ~NotifyResolved /\ ~Fixup /\ ~PassFails /\ ~Finalize
  BY <1>1 DEF NotifyResolved, Fixup, PassFails, Failed, Finalize
<1>7. ~(In("lookup") /\ \E ext \in session.graph.externals : Lookup(ext))
  BY <1>1 DEF Lookup
<1> QED
  BY <1>3, <1>4, <1>5, <1>6, <1>7 DEF JitNext

\* A call of write_jitlink that fails leaves the cursor, the code and the
\* handles as it found them, but takes the reservations off the counter; one
\* that succeeds adds its count and has every block in place.
THEOREM CallsAreAtomic == JitSpec => AllOrNothing
<1> DEFINE Undone == /\ cursor' = session.root - Base
                     /\ stored' = Wrap(stored - Len(session.places))
                     /\ \A b \in code' : b.prog # Top.id
                     /\ \A h \in handles' : h[1] # Top.id
           Done == /\ session.finalized
                   /\ stored' = Wrap(stored + session.graph.total)
                   /\ session.graph.total > 0 =>
                        \A i \in DOMAIN Blocks : \E b \in code' :
                          /\ b.prog = Top.id
                          /\ b.lo = session.places[i]
                          /\ b.hi = b.lo + Blocks[i].size
                          /\ (session.root = Base) => b.flushed
<1>1. ASSUME JitInv, Abort, ~In("idle")
      PROVE  Undone
  <2>1. /\ TypeOK /\ Identities /\ InTx
        /\ session.root = Base + Top.cursor /\ Top.writes = Len(session.places)
    BY <1>1 DEF JitInv, SlabInv, CountInv, OwnsTop
  <2>2. Top.cursor \in Nat /\ Base \in Nat /\ Len(txs) \in DOMAIN txs /\ Top = txs[Len(txs)]
    BY <2>1, TopFacts, SlabAssumption DEF Tx
  <2>3. /\ cursor' = Top.cursor /\ handles' = handles
        /\ stored' = Wrap(stored - Top.writes)
        /\ \A b \in code' : b.prog # Top.id
    BY <1>1 DEF Abort
  <2>4. \A h \in handles : h[1] # Top.id
    BY <2>1, <2>2 DEF Identities
  <2>5. (Base + Top.cursor) - Base = Top.cursor
    BY <2>2
  <2> QED
    BY <2>1, <2>3, <2>4, <2>5
<1>2. ASSUME JitInv, ReturnOk
      PROVE  Done
  <2>1. SlabInv /\ SessionInv /\ In("over") /\ session.errors = {} /\ Commit
    BY <1>2 DEF JitInv, SessionInv, ReturnOk
  <2>2. session.finalized /\ Top.total = session.graph.total
    BY <2>1, FinalFacts DEF SessionInv, OwnsTop, In
  <2>4. stored' = Wrap(stored + session.graph.total)
    BY <2>1, <2>2 DEF Commit, HandOut
  <2> DEFINE There(i) == \E b \in code' :
               /\ b.prog = Top.id
               /\ b.lo = session.places[i]
               /\ b.hi = b.lo + Blocks[i].size
               /\ (session.root = Base) => b.flushed
  <2>3. ASSUME session.graph.total > 0, NEW i \in DOMAIN Blocks
        PROVE  There(i)
    BY <2>1, <2>3, FinalBlocks DEF IsBlock
  <2> QED
    BY <2>2, <2>3, <2>4 DEF IsBlock
<1>3. JitInv /\ [JitNext]_allVars =>
        [(~In("idle") /\ session' = Idle) => Undone \/ Done]_allVars
  <2> SUFFICES ASSUME JitInv, [JitNext]_allVars, ~In("idle"), session' = Idle
               PROVE  Undone \/ Done
    OBVIOUS
  <2>1. GraphFails \/ ReturnErr \/ ReturnOk
    BY SessionEnds DEF JitInv
  <2> QED
    BY <1>1, <1>2, <2>1 DEF GraphFails, ReturnErr
<1> QED
  BY <1>3, JitInvariant, PTL DEF JitSpec, AllOrNothing
=============================================================================
