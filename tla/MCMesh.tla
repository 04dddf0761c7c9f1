-------------------------------- MODULE MCMesh --------------------------------
EXTENDS Mesh, MCPlumtrees

Pair == Both({<<1, 2>>})

(* Node 3 has two keys, so that half of three records ends inside its      *)
(* group; it is declared dead after its records came in, or before.        *)
Records == {Own(3, 0, 2), Own(3, 1, 3), Own(4, 0, 1)}
Deaths(at) == {Att(3, 4, 5, at), Att(3, 5, 6, at)}
Before == <<{}, {Own(4, 0, 1)}, Records, {Own(3, 0, 2), Own(3, 1, 3)} \cup Deaths(1), Deaths(0)>>
Apart == UNION {{<<Before[i], Before[j]>> : j \in (i + 1)..5} : i \in 1..5}

(* In the session before, node 2 announced the record of node 4. *)
Heard == [slot |-> <<4, 0>>, hlc |-> 1, announcer |-> 2, grafted |-> FALSE]

Backlogs ==
  [held : Apart, heard : {<<{}, {}>>}]
    \cup [held : {<<{}, {Own(4, 0, 1)}>>}, heard : {<<{Heard}, {}>>}]

(* Node 2 may publish as well, as long as it holds only that record. *)
Exchanged == Records \cup Deaths(0) \cup Deaths(1) \cup {Own(2, 0, 2)}
===============================================================================
