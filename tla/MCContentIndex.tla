----------------------------- MODULE MCContentIndex -----------------------------
EXTENDS ContentIndex

ThreeBytes == <<1, 2, 3>>

(* A signed manifest whose chunks are in the wrong order, and the genuine  *)
(* manifest with a signature that does not verify.                         *)
WrongOrder ==
  [blob |-> ThreeBytes, total |-> 3, signed |-> TRUE, chunks |-> <<<<3>>, <<1, 2>>>>]
Unsigned ==
  [blob |-> ThreeBytes, total |-> 3, signed |-> FALSE, chunks |-> <<<<1, 2>>, <<3>>>>]
Stored == {WrongOrder, Unsigned}
===============================================================================
