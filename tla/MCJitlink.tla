----------------------------- MODULE MCJitlink -----------------------------
(* Instances of Jitlink for TLC: graphs of one and of two blocks with more *)
(* and less padding, with two symbols of one name, without blocks, one     *)
(* that never fits and one of which no function is asked for; external     *)
(* symbols with readable and unreadable names.                             *)
EXTENDS Jitlink

Blk(align, size) == [align |-> align, size |-> size]
Sym(name, utf8, block, offset) == [name |-> name, utf8 |-> utf8, block |-> block, offset |-> offset]
Ext(name, utf8) == [name |-> name, utf8 |-> utf8]

Graph(total, blocks, symbols, externals) ==
  [total |-> total, blocks |-> blocks, symbols |-> symbols, externals |-> externals]

MCGraphs == {
  Graph(2, <<Blk(4, 2), Blk(2, 3)>>, {Sym("f", TRUE, 1, 0), Sym("g", TRUE, 2, 1)},
        {Ext("__ImageBase", TRUE), Ext("puts", TRUE)}),
  Graph(1, <<Blk(0, 2)>>,
        {Sym("f", TRUE, 1, 0), Sym("f", TRUE, 1, 1), Sym("raw", FALSE, 1, 0)},
        {Ext("raw", FALSE)}),
  Graph(1, <<Blk(2, 3), Blk(1, 20)>>, {Sym("f", TRUE, 1, 0)}, {}),
  Graph(1, <<>>, {}, {}),
  Graph(0, <<Blk(1, 1)>>, {Sym("f", TRUE, 1, 0)}, {})}

MCCalls == {[align |-> 4, cap |-> 3, len |-> 3]}
=============================================================================
