------------------------------ MODULE MCCoffr ------------------------------
(* Instances of Coffr for TLC: objects that refer forwards and backwards    *)
(* between sections, that branch to near and far addresses, several to the  *)
(* same and to different far ones, and that fail in each of the ways a link *)
(* can fail.                                                                *)
EXTENDS Coffr

Far(x)   == [kind |-> "absolute", address |-> x]
Local(i, o) == [kind |-> "section", idx |-> i, offset |-> o]

R(typ, offset, symbol, addend, tail) ==
  [typ |-> typ, offset |-> offset, symbol |-> symbol, addend |-> addend,
   tail |-> tail, word |-> {}]

\* A relocation of an arm64 instruction: bits of its opcode, its immediate.
I(typ, offset, symbol, opcode, imm) ==
  [R(typ, offset, symbol, 0, 0) EXCEPT !.word = Instruction(typ, opcode, imm)]

Bl   == {26, 28, 31}
Beq  == {26, 28, 30}
Adr  == {28}
Adrp == {28, 31}
AddI == {24, 28, 31}
Tbz  == {25, 26, 28, 29}
Ldr  == {24, 27, 28, 29, 30, 31}  \* eight bytes

Sect(name, align, len, relocs) ==
  [name |-> name, align |-> align, len |-> len, relocs |-> relocs]

Obj(total, sections) == [data |-> FALSE, total |-> total, sections |-> sections]

For(arch, objects) == {[arch |-> arch] @@ obj : obj \in objects}

\* .text calls two far functions and one near, .rdata points back and
\* forward; a section that is not linked lies between them.
Calls3 == Obj(1, <<
  Sect("exact", 4, 16, <<R("branch", 0, Far(2000), 0, 0), R("branch", 4, Local(3, 4), 2, 0),
                         R("branch", 8, Far(3000), -4, 0), R("near", 12, Local(1, 4), 0, 5)>>),
  Sect("other", 4, 8, <<>>),
  Sect("exact", 8, 20, <<R("addr64", 0, Local(1, 0), 0, 0), R("addr32nb", 8, Local(1, 8), 0, 0),
                         R("addr32", 12, Local(1, 4), 0, 0), R("secrel", 16, Local(1, 4), 2, 0)>>)>>)

\* Two calls of the same far function; image- and section-relative data.
SameTwice == Obj(1, <<
  Sect("suffixed", 2, 8, <<R("branch", 0, Far(2000), 0, 0), R("branch", 4, Far(2000), 0, 0)>>),
  Sect("exact", 4, 8, <<R("none", 0, Far(0), 0, 0), R("section", 4, Local(2, 0), 0, 0)>>)>>)

\* Near references and data of x86.
Plain == Obj(1, <<
  Sect("exact", 4, 8, <<R("near", 0, Local(2, 0), 0, 0), R("near", 4, Far(40), 0, 0)>>),
  Sect("exact", 4, 8, <<R("addr32", 0, Local(1, 4), 0, 0), R("secrel", 4, Local(1, 4), 2, 0)>>)>>)

\* Lengths that leave every section and pool in need of padding; a branch
\* that is in reach from its section but not from the start of the slab.
Ragged == Obj(1, <<
  Sect("exact", 1, 5, <<R("branch", 1, Far(2000), 0, 0)>>),
  Sect("exact", 2, 11, <<R("near", 2, Local(1, 1), 0, 1), R("branch", 6, Far(556), 0, 0)>>)>>)

\* arm64.  One far call per section, with an addend: what its linker gets
\* right; a near one, a local one forwards, and data fields.
OneFar == Obj(1, <<
  Sect("exact", 4, 16, <<I("branch", 0, Far(2000), Bl, 2), I("branch", 4, Far(40), Bl, 0),
                         I("branch", 8, Local(2, 4), Bl, -1), R("near", 12, Local(2, 4), 4, 0)>>),
  Sect("exact", 4, 28, <<R("addr32nb", 0, Local(1, 4), 0, 0), R("addr32", 4, Local(1, 4), 0, 0),
                         R("section", 8, Local(1, 0), 0, 0), R("addr64", 12, Local(2, 0), 2, 0),
                         I("branch", 20, Far(3000), Bl, 0)>>)>>)

\* An address in pages, a load and short branches.
Pages == Obj(1, <<
  Sect("exact", 4, 24, <<I("adrp", 0, Local(2, 4), Adrp, 1), I("pageoff", 4, Local(2, 4), AddI, 7),
                         I("pageoffl", 8, Local(2, 0), Ldr, 1), I("cond", 12, Local(1, 4), Beq, -1),
                         I("test", 16, Local(1, 20), Tbz, -2), I("adr", 20, Local(2, 3), Adr, -30)>>),
  Sect("exact", 8, 8, <<R("addr32nb", 0, Local(1, 8), 0, 0), I("adrp", 4, Far(8), Adrp, -1)>>)>>)

\* Each fails in its way: a symbol in a suffixed section, an unknown type,
\* a near reference out of reach, a non-empty .data.
NamesSuffixed(r) == Obj(1, <<Sect("suffixed", 4, 4, <<r>>)>>)
OneReloc(r)      == Obj(1, <<Sect("exact", 4, 4, <<r>>)>>)
HasData          == [OneReloc(R("none", 0, Far(0), 0, 0)) EXCEPT !.data = TRUE]

Failures(near) ==
  {NamesSuffixed([near EXCEPT !.symbol = Local(1, 0)]), OneReloc(near),
   OneReloc(R("token", 0, Far(0), 0, 0)), HasData}

\* On arm64 also a scaled offset with a remainder, narrow fields, and an
\* image-relative field with an addend below 0.
Failures4 ==
  Failures(R("near", 0, Far(2000), 0, 0))
    \cup {OneReloc(R("addr32nb", 0, Local(1, 4), -4, 0))}
    \cup {OneReloc(r) : r \in {I("pageoffl", 0, Far(36), Ldr, 0), I("cond", 0, Far(2000), Beq, 0),
                               I("adr", 0, Far(2000), Adr, 0)}}

X64Objects   == For("x64", {Calls3, SameTwice, Ragged}
                             \cup Failures(R("near", 0, Far(2000), 0, 1)))
Arm64Objects == For("arm64", {OneFar, Pages} \cup Failures4)
X86Objects   == For("x86", {Plain, OneReloc(R("token", 0, Far(0), 0, 0)),
                            NamesSuffixed(R("near", 0, Local(1, 0), 0, 0))})

AllObjects == X64Objects \cup Arm64Objects \cup X86Objects

\* Two far calls of different functions, on arm64.
TwoFar == Obj(1, <<
  Sect("exact", 4, 8, <<I("branch", 0, Far(2000), Bl, 0), I("branch", 4, Far(3000), Bl, 0)>>)>>)

ArmFarObjects == For("arm64", {TwoFar})

\* One object is enough to be linked under a transaction that is dropped.
UndercutObjects == For("x64", {SameTwice})

\* The objects are such as what is proved of them asks for.
ASSUME MCObjectsInReach == WithinReach /\ NoneAtTheLimit /\ EvenLayout /\ WellFormed

\* Two far calls share a trampoline (README.md, finding 4): those objects are
\* checked in a run of their own.
ASSUME MCLoneCalls == Objects \cap ArmFarObjects = {} => LoneCalls

MCReach == [m \in Machines |-> IF m = "x86" THEN 128 ELSE 512]

\* No call of reserve; a client that announces many sections, then fewer.
MCReserves == {<<>>, <<6, 3>>}

\* write_fn aligns to 16.
MCCalls  == {[align |-> 16, cap |-> 5, len |-> 5]}
=============================================================================
