-------------------------------- MODULE Manifest --------------------------------
(***************************************************************************)
(* Blobs in chunks (manifest.go).  A body is a sequence of bytes; SHA-256  *)
(* has no collision here, so a hash is the content it addresses.           *)
(***************************************************************************)
EXTENDS Integers, Sequences, FiniteSetsExt

(* 1 << 20 in the code, scaled to the bodies at hand. *)
defaultChunkSize == 2

(* Bug: the tail shorter than a chunk is cut off. *)
BugChunkBlob(body, size) ==
  IF size = 0 THEN <<>>
  ELSE [i \in 1 .. Len(body) \div size |-> SubSeq(body, (i - 1) * size + 1, i * size)]

(* Fixed-size pieces in order, the last one possibly shorter. *)
ChunkBlob(body, size) ==
  IF size = 0 THEN <<>>
  ELSE [i \in 1 .. (Len(body) + size - 1) \div size |->
          SubSeq(body, (i - 1) * size + 1, Min({i * size, Len(body)}))]

EffectiveSize(size) == IF size = 0 THEN defaultChunkSize ELSE size

(* signed: the signature the manifest carries verifies. *)
BuildSignedManifest(body, size) ==
  [blob |-> body, total |-> Len(body), signed |-> TRUE,
   chunks |-> ChunkBlob(body, EffectiveSize(size))]

===============================================================================
