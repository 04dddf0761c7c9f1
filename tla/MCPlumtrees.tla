------------------------------ MODULE MCPlumtrees ------------------------------
EXTENDS Plumtrees

CONSTANT t

Both(ls) == ls \cup {<<l[2], l[1]>> : l \in ls}

Triangle == Both({<<1, 2>>, <<2, 3>>, <<1, 3>>})

Own(n, key, h) ==
  [topic |-> t, node |-> n, key |-> key, hlc |-> h, tomb |-> FALSE, sig |-> h,
   observer |-> NoNode, observedAt |-> 0]

Att(n, o, h, at) ==
  [topic |-> t, node |-> n, key |-> EmptyKey, hlc |-> h, tomb |-> TRUE, sig |-> 9,
   observer |-> o, observedAt |-> at]

(* Node 1 publishes, nodes 2 and 3 declare it dead. *)
Gossiped == {Own(1, 0, 1), Att(1, 2, 3, 1), Att(1, 3, 3, 1)}
================================================================================
