---------------------------- MODULE MCContentFetch ----------------------------
EXTENDS ContentFetch, TLC

CONSTANTS f1, f2, h1, c1, c2, x, y, n1, n2

(* Calls, channels and hashes are interchangeable. *)
Symmetry ==
  Permutations(Fetcher) \cup Permutations(Chan) \cup Permutations(Hash)
===============================================================================
