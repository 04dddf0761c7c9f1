----------------------------- MODULE MCRecordStore -----------------------------
(***************************************************************************)
(* Small instances of RecordStore for TLC.                                 *)
(***************************************************************************)
EXTENDS RecordStore, TLC

CONSTANTS t1, t2, n1, n2, o1, o2, o3, e, k, l

(* An owner record; a signature identifies the contents, so 2 stands for a *)
(* tombstone and 1 and 3 for live bodies that order below and above it.    *)
Own(t, n, key, h, g) ==
  [topic |-> t, node |-> n, key |-> key, hlc |-> h, tomb |-> (g = 2), sig |-> g,
   observer |-> NoNode, observedAt |-> 0]

Att(t, n, o, h, at) ==
  [topic |-> t, node |-> n, key |-> EmptyKey, hlc |-> h, tomb |-> TRUE, sig |-> 4,
   observer |-> o, observedAt |-> at]

(* A live record and a tombstone with one stamp; a third key, past the     *)
(* per-node cap; a second topic, past the cap on topics.                   *)
OwnerRecords ==
  {Own(t1, n1, e, 1, 1), Own(t1, n1, e, 4, 1), Own(t1, n1, k, 2, 1), Own(t1, n1, k, 2, 2)} \cup
  {Own(t1, n1, l, 3, 1), Own(t2, n1, e, 2, 1)}

(* Three trusted observers and n2, which is not one. *)
Attestations ==
  {Att(t1, n1, o, 2, at) : o \in {o1, o2}, at \in {1, 3}} \cup
  {Att(t1, n1, o1, 4, 4), Att(t1, n1, o2, 4, 5), Att(t1, n1, o3, 2, 3), Att(t1, n1, n2, 3, 3)}

QuorumSettings == {<<1, 2>>, <<0, 1>>, <<2, 0>>}

ShortTTL == [t \in Topic |-> IF t = t1 THEN 1 ELSE 0]
===============================================================================
