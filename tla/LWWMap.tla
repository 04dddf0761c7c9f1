-------------------------------- MODULE LWWMap ---------------------------------
(***************************************************************************)
(* What the record store promises a reader, without witness sets, fences,  *)
(* caps or clocks: a map from slots to entries that changes in three ways. *)
(* A slot is raised to one offered record; one node dies in one topic, all *)
(* its slots at once; slots are forgotten.                                 *)
(***************************************************************************)
EXTENDS Naturals

CONSTANTS
  Topic, NodeID, Key,
  Offer,       \* the records owners sign
  Stamp,       \* the stamps entries carry
  NoEntry,
  NoSig        \* the signature of an entry no owner signed

VARIABLE entry   \* topic -> slot -> record, or NoEntry

Slot == NodeID \X Key

Init == entry = [t \in Topic |-> [s \in Slot |-> NoEntry]]

Above(r, cur) == cur = NoEntry \/ r.hlc > cur.hlc \/ (r.hlc = cur.hlc /\ r.sig > cur.sig)

Raise(r) ==
  /\ Above(r, entry[r.topic][<<r.node, r.key>>])
  /\ entry' = [entry EXCEPT ![r.topic][<<r.node, r.key>>] = r]

DeadAt(r, h) == r # NoEntry /\ r.tomb /\ r.sig = NoSig /\ r.hlc = h

(* Node n dies in topic t at stamp h: what changes becomes a tombstone     *)
(* stamped h above what it replaces, and no entry of n stays below h.      *)
Die(t, n, h) ==
  /\ \A u \in Topic, s \in Slot :
       entry'[u][s] # entry[u][s] =>
         /\ u = t /\ s[1] = n /\ DeadAt(entry'[u][s], h)
         /\ entry[u][s] # NoEntry => entry[u][s].hlc < h
  /\ \E s \in Slot : s[1] = n /\ entry'[t][s] # NoEntry
  /\ \A s \in Slot : s[1] = n /\ entry'[t][s] # NoEntry => entry'[t][s].hlc >= h

Forget ==
  \A t \in Topic, s \in Slot : entry'[t][s] \in {entry[t][s], NoEntry}

Next ==
  \/ \E r \in Offer : Raise(r)
  \/ \E t \in Topic, n \in NodeID, h \in Stamp : Die(t, n, h)
  \/ Forget

Spec == Init /\ [][Next]_entry

===============================================================================
