------------------------------ MODULE Jitlink ------------------------------
(***************************************************************************)
(* The bridge to LLVM's JITLink: write_jitlink (src/advanced/llvm/mod.rs)  *)
(* opens a transaction, and LLVM, driven by jitlinkc++/jitlink.cpp, calls  *)
(* back into it: to allocate the blocks of the link graph, to report the   *)
(* addresses of its symbols, to look up the external ones, to report       *)
(* errors.  Everything happens in one call; its outcome is known only      *)
(* from the errors that the call-backs have left behind.                   *)
(*                                                                         *)
(* As in Coffr, each step is a step of the slab together with a change of  *)
(* the session.  LLVM is external: which of its passes fail is left open.  *)
(* Definitions named Bad... are faulty variants, as in Slab.               *)
(***************************************************************************)
EXTENDS Slab

CONSTANTS
  OneView,   \* the slab has one view under a write protection (macOS)
  RwBase,    \* address of the RW view
  Windows,   \* __ImageBase is answered by the bridge
  Answers,   \* what the client's resolver answers
  Graphs     \* link graphs: [total, blocks, symbols, externals]

ASSUME JitlinkAssumption ==
  /\ {OneView, Windows} \subseteq BOOLEAN
  /\ RwBase \in Nat
  /\ Answers \subseteq Nat
  /\ OneView => RwBase = Base
  /\ \A graph \in Graphs :
       /\ graph.total \in Totals
       /\ graph.blocks \in Seq([align : Nat, size : Nat])
       /\ \A s \in graph.symbols : s.utf8 => s.block \in DOMAIN graph.blocks

VARIABLES
  session,   \* DataJITNote and the progress of LLVM's link, or Idle
  protected, \* the linking thread may not write to the slab
  returned   \* history: program -> the session it was committed from

jitVars == <<session, protected, returned>>
allVars == <<vars, jitVars>>

Idle == [phase |-> "idle"]

\* HashMap::insert.
Put(f, x, y) == [z \in DOMAIN f \cup {x} |-> IF z = x THEN y ELSE f[z]]

In(phase) == session.phase = phase

JitInit ==
  /\ Init
  /\ session = Idle
  /\ protected \in {FALSE, OneView}
  /\ returned = <<>>

-----------------------------------------------------------------------------
Blocks  == session.graph.blocks
Placed  == Len(session.places) = Len(Blocks)
Mine    == {b \in code : b.prog = Top.id}

\* allocate passes an alignment of at least 1; nothing is copied yet.
NextCall ==
  LET b == Blocks[Len(session.places) + 1]
  IN  [align |-> Max({1, b.align}), cap |-> b.size, len |-> b.size]

\* write_jitlink: on Windows the image base is where the cursor stands.
JitStart(graph) ==
  /\ In("idle")
  /\ Begin(graph.total)
  /\ session' = [phase |-> "graph", graph |-> graph, root |-> Base + cursor,
                 places |-> <<>>, resolved |-> <<>>, bound |-> <<>>,
                 errors |-> {}, finalized |-> FALSE]
  /\ UNCHANGED <<protected, returned>>

\* createLinkGraphFromObject refuses the object: link_consume_linkctx
\* returns 1 and the note is dropped with its errors and its transaction.
GraphFails ==
  /\ In("graph")
  /\ Abort
  /\ session' = Idle
  /\ UNCHANGED <<protected, returned>>

GraphOk ==
  /\ In("graph")
  /\ session' = [session EXCEPT !.phase = "allocate"]
  /\ UNCHANGED <<vars, protected, returned>>

\* allocate_jit: one uncounted reservation per block.  On macOS each write
\* ends by protecting the slab again.
AllocateBlock ==
  /\ In("allocate")
  /\ ~Placed
  /\ TxWrite(NextCall, FALSE)
  /\ session' = [session EXCEPT !.places =
                   Append(@, StartOffset(Base, cursor, NextCall.align))]
  /\ protected' = OneView
  /\ UNCHANGED returned

BadSilent(stage) ==
  /\ session' = [session EXCEPT !.phase = "over"]
  /\ UNCHANGED <<vars, protected, returned>>

\* notifyFailed: LLVM hands its error to on_err and gives up.
Failed(stage) ==
  /\ session' = [session EXCEPT !.phase = "over", !.errors = @ \cup {stage}]
  /\ UNCHANGED <<vars, protected, returned>>

BadPartial ==
  /\ In("allocate")
  /\ Blocks = <<>> \/ (~Placed /\ ~Room(NextCall))
  /\ session' = [session EXCEPT !.phase = "resolve"]
  /\ UNCHANGED <<vars, protected, returned>>

\* A block that does not fit, or a graph without blocks: no list is returned.
AllocateFails ==
  /\ In("allocate")
  /\ Blocks = <<>> \/ (~Placed /\ ~Room(NextCall))
  /\ Failed("allocate")

\* The bytes are copied through the RW view, and the list is freed.
Fill ==
  /\ In("allocate")
  /\ Placed /\ Blocks # <<>>
  /\ Patch(Mine)
  /\ session' = [session EXCEPT !.phase = "resolve"]
  /\ UNCHANGED <<protected, returned>>

BadRwAddress(place) == RwBase + place

\* Block->setAddress takes the RX view's address.
BlockAddress(place) == Base + place

\* notifyResolved, store_ptr: names that are not UTF-8 are left out; of the
\* symbols with one name the map keeps the last, in an order LLVM chooses.
NotifyResolved ==
  LET named == {s \in session.graph.symbols : s.utf8}
      names == {s.name : s \in named}
      at(s) == BlockAddress(session.places[s.block]) + s.offset
  IN
  /\ In("resolve")
  /\ \E last \in [names -> named] :
       /\ \A n \in names : last[n].name = n
       /\ session' = [session EXCEPT
            !.phase = IF session.graph.externals = {} THEN "fixup" ELSE "lookup",
            !.resolved = [n \in names |-> at(last[n])]]
  /\ UNCHANGED <<vars, protected, returned>>

BadRootLate(ext) == IF Windows /\ ext.name = "__ImageBase" THEN {Base + cursor} ELSE Answers

\* get_fn_ptr: a name that is not UTF-8 is bound to 0.
AnswersTo(ext) ==
  IF ~ext.utf8 THEN {0}
  ELSE IF Windows /\ ext.name = "__ImageBase" THEN {session.root} ELSE Answers

\* lookup asks for one external symbol after the other.
Lookup(ext) ==
  LET left == {e \in session.graph.externals : e.name \notin DOMAIN session.bound}
  IN
  /\ In("lookup")
  /\ ext \in left
  /\ \E a \in AnswersTo(ext) :
       session' = [session EXCEPT
         !.phase = IF left = {ext} THEN "fixup" ELSE "lookup",
         !.bound = Put(@, ext.name, a)]
  /\ UNCHANGED <<vars, protected, returned>>

\* fixUpBlocks patches the blocks in the RW view.
Fixup ==
  /\ In("fixup")
  /\ Patch(Mine)
  /\ session' = [session EXCEPT !.phase = "finalize"]
  /\ UNCHANGED <<protected, returned>>

\* A pass before the allocation or after it, or a fix-up, fails.
PassFails ==
  /\ (In("allocate") /\ session.places = <<>>) \/ In("resolve") \/ In("fixup")
  /\ Failed("pass")

Finalize ==
  /\ In("finalize")
  /\ session' = [session EXCEPT !.phase = "over", !.finalized = TRUE]
  /\ UNCHANGED <<vars, protected, returned>>

\* The end of write_jitlink.
ReturnOk ==
  /\ In("over")
  /\ session.errors = {}
  /\ Commit
  /\ returned' = Put(returned, Top.id, session)
  /\ session' = Idle
  /\ UNCHANGED protected

BadKeepsPart ==
  /\ In("over")
  /\ session.errors # {}
  /\ Commit
  /\ session' = Idle
  /\ UNCHANGED <<protected, returned>>

ReturnErr ==
  /\ In("over")
  /\ session.errors # {}
  /\ Abort
  /\ session' = Idle
  /\ UNCHANGED <<protected, returned>>

-----------------------------------------------------------------------------
(* The slab's other users, and releases by other threads. *)

PlainWrite(c) ==
  /\ In("idle")
  /\ WriteFn(c)
  /\ protected' = OneView
  /\ UNCHANGED <<session, returned>>

Outer ==
  /\ In("idle")
  /\ (\E t \in Totals : Begin(t)) \/ Commit \/ Abort \/ TryFree
  /\ UNCHANGED jitVars

ReleaseAny ==
  /\ \E h \in handles : Release(h)
  /\ UNCHANGED jitVars

JitNext ==
  \/ \E graph \in Graphs : JitStart(graph)
  \/ GraphFails
  \/ GraphOk
  \/ AllocateBlock
  \/ AllocateFails
  \/ Fill
  \/ NotifyResolved
  \/ (In("lookup") /\ \E ext \in session.graph.externals : Lookup(ext))
  \/ Fixup
  \/ PassFails
  \/ Finalize
  \/ ReturnOk
  \/ ReturnErr
  \/ \E c \in Calls : PlainWrite(c)
  \/ Outer
  \/ ReleaseAny

JitSpec == JitInit /\ [][JitNext]_allVars

-----------------------------------------------------------------------------
\* write_jitlink takes an empty list of errors for success.  It is: whatever
\* fails at whatever point of the session leaves an error, so that nothing
\* half linked is committed, and a link that was finalised left none.
NoErrorMeansFinalized == In("over") => (session.errors = {} <=> session.finalized)

\* A call ends in one of two ways.  It fails: the cursor is where the call
\* found it, nothing of the object is in the slab and nothing handed out; but
\* the counter is not as it was, whatever the other threads released: it is
\* less by one for each block that had been reserved, counts that belong to
\* other functions (see Abort).  Or it succeeds: the counter is up by what the
\* client asked for, and every block of the object is there, at the place LLVM
\* linked it for (if the client asked for a function in it, or nothing holds
\* them); and, if the call was the first on the slab, flushed after the last
\* fix-up (see FlushFrom for the others).
AllOrNothing ==
  [][(~In("idle") /\ session' = Idle) =>
       \/ /\ cursor' = session.root - Base
          /\ stored' = Wrap(stored - Len(session.places))
          /\ \A b \in code' : b.prog # Top.id
          /\ \A h \in handles' : h[1] # Top.id
       \/ /\ session.finalized
          /\ stored' = Wrap(stored + session.graph.total)
          /\ session.graph.total > 0 =>
               \A i \in DOMAIN Blocks : \E b \in code' :
                 /\ b.prog = Top.id
                 /\ b.lo = session.places[i]
                 /\ b.hi = b.lo + Blocks[i].size
                 /\ (session.root = Base) => b.flushed]_allVars

InUse(p) == status = "mapped" /\ Live(p) /\ p \notin undercut

\* The addresses write_jitlink returned stay addresses of the program's own
\* code, in the view that can be executed, until it is released: each name's
\* is that of a symbol of this name.
ReturnedAddressesValid ==
  \A p \in DOMAIN returned : InUse(p) =>
    \A s \in returned[p].graph.symbols : s.utf8 =>
      \E r \in returned[p].graph.symbols, b \in code :
        /\ r.utf8 /\ r.name = s.name
        /\ b.prog = p
        /\ returned[p].resolved[s.name] = Base + b.lo + r.offset
        /\ b.hi - b.lo = returned[p].graph.blocks[r.block].size

\* jitlink.h: all returned slices refer to a single contiguous allocation,
\* of which the first is the base; nobody else's code lies among them.  A
\* link without blocks, or with some of them left out, never gets here.
SlicesContiguous ==
  In("resolve") =>
    /\ Placed /\ Blocks # <<>>
    /\ \A i \in DOMAIN Blocks : session.places[1] <= session.places[i]
    /\ \A b \in code \ Mine : Safe(b) => b.hi <= session.places[1]

\* Windows' image-relative fields are unsigned: __ImageBase is below every
\* block of the object.
ImageBaseBelow ==
  (Windows /\ ~In("idle") /\ "__ImageBase" \in DOMAIN session.bound) =>
    \A i \in DOMAIN session.places :
      session.bound["__ImageBase"] <= Base + session.places[i]

\* README.md lists JITLink as supported on macOS: the bridge writes to the
\* slab only while the thread may.
WritesPermitted ==
  (In("fixup") \/ (In("allocate") /\ Placed /\ Blocks # <<>>)) => ~protected
=============================================================================
