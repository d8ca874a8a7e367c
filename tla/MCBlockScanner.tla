--------------------------- MODULE MCBlockScanner ---------------------------
(* Small instances of BlockScanner for TLC.                                *)
EXTENDS BlockScanner

Tx(n, kind, client, from, to) ==
  [n |-> n, kind |-> kind, client |-> client, from |-> from, to |-> to,
   value |-> n, first |-> TRUE, late |-> FALSE]

Own1 == Tx(1, "token", 1, "a", "b")
Own2 == Tx(2, "stp", 1, "b", "c")
Ext1 == Tx(3, "external", 1, "a", "c")
Ext2 == Tx(4, "external", 2, "contract", "a")
Ext3 == [Tx(5, "external", 2, "c", "a") EXCEPT !.first = FALSE]
Ext4 == [Tx(7, "external", 3, "a", "c") EXCEPT !.first = FALSE]
Own3 == Tx(8, "token", 2, "c", "a")
Foreign == Tx(6, "foreign", 1, "a", "c")

Calm(blocks) ==
  [blocks |-> blocks, procs |-> {1, 2}, nodes |-> 2, min |-> 1, max |-> 2,
   may |-> {}, failures |-> 0, delegations |-> 0, deaths |-> 0]

(* Blocks cut in different ways by two nodes; each case has its trouble.   *)
Troubles ==
  {Calm(<<<<Own1, Ext1, Foreign>>, <<>>, <<Ext2, Own2>>>>),
   [Calm(<<<<Ext1, Ext2, Ext3>>, <<Own1>>>>) EXCEPT !.min = 2, !.max = 3],
   [Calm(<<<<Own1, Ext1, Ext2, Ext4>>>>) EXCEPT !.nodes = 1, !.max = 4],
   [Calm(<<<<Own1, Ext1, Ext3>>, <<Own2>>>>) EXCEPT
      !.may = {"publish", "block"}, !.failures = 1],
   [Calm(<<<<Own1, Ext1>>, <<Own2>>>>) EXCEPT !.delegations = 1],
   [Calm(<<<<Own1, Ext3>>, <<Own2, Ext1>>>>) EXCEPT !.nodes = 1,
      !.may = {"lock", "receipts", "pay", "insert", "settle", "update",
               "release"},
      !.failures = 1],
   [Calm(<<<<Own1, Own2>>, <<Own3>>>>) EXCEPT !.nodes = 1,
      !.may = {"publish", "lock", "release"}, !.failures = 3],
   [Calm(<<<<Own1, Ext1>>, <<Own2>>>>) EXCEPT !.nodes = 1, !.deaths = 2],
   [Calm(<<<<Own1, Own2>>>>) EXCEPT !.procs = {1, 10}],
   Calm(<<<<[Own1 EXCEPT !.late = TRUE], Ext3>>>>)}
=============================================================================
