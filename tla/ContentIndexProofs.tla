-------------------------- MODULE ContentIndexProofs --------------------------
(***************************************************************************)
(* The advert index and FetchBlob, for any blob, chunk size, set of stored *)
(* manifests, lifetime and number of adverts.                              *)
(*                                                                         *)
(* The inductive invariant ties an entry, listed or not, to the advert it  *)
(* came from, and what the writer received to the number of chunks         *)
(* fetched.                                                                *)
(***************************************************************************)
EXTENDS ContentIndex, SequenceTheorems, WellFoundedInduction, TLAPS

(* The index entry of a hash is an announcement of it. *)
EntryWasAnnounced ==
  \A h \in ContentHash : holders[h] # 0 => \E a \in Announced(h) : a.expiresAt = holders[h]

LastSeen(h, i) == i \in AdvertsSeen(h) /\ \A j \in AdvertsSeen(h) : j <= i

(* Handled in order, it is the last one; or it is gone and that one is     *)
(* over.                                                                   *)
EntryIsLast ==
  InOrder =>
    \A h \in ContentHash :
      /\ AdvertsSeen(h) = {} => holders[h] = 0
      /\ \A i \in 1 .. slot : LastSeen(h, i) =>
           holders[h] = sent[i].expiresAt \/ (holders[h] = 0 /\ sent[i].expiresAt <= now)

Genuine == BuildSignedManifest(Blob, ChunkSize)
Size == EffectiveSize(ChunkSize)

(* Bytes of the blob in its first k chunks. *)
Covered(k) == IF k * Size <= Len(Blob) THEN k * Size ELSE Len(Blob)

Beginning(out) == Len(out) <= Len(Blob) /\ out = SubSeq(Blob, 1, Len(out))

BlobInv ==
  /\ fetch.pc = "idle" => fetch = NoFetch
  /\ fetch.pc = "chunk" =>
       fetch.manifest.signed /\ fetch.next \in 1 .. Len(fetch.manifest.chunks) + 1
  /\ fetch.pc = "ok" => fetch.out = fetch.manifest.blob /\ fetch.manifest.signed
  /\ fetch.manifest = Genuine =>
       /\ Beginning(fetch.out) /\ fetch.pc # "mismatch"
       /\ fetch.pc = "chunk" => fetch.out = SubSeq(Blob, 1, Covered(fetch.next - 1))

IndexInv == IndexTypeOK /\ EntryWasAnnounced /\ EntryIsLast /\ BlobInv

-------------------------------------------------------------------------------
(***************************************************************************)
(* The chunks of a blob.                                                   *)
(***************************************************************************)

LEMMA SizeIsPositive == Size \in Nat \ {0}
BY IndexAssumption DEF Size, EffectiveSize, defaultChunkSize

(* Chunks are adjacent pieces, each but the last of the same size, and     *)
(* together they cover the blob.                                           *)
LEMMA ChunksAreAdjacent ==
  \E n \in Nat :
    /\ Genuine.chunks = [k \in 1 .. n |-> SubSeq(Blob, Covered(k - 1) + 1, Covered(k))]
    /\ Covered(n) = Len(Blob)
    /\ \A k \in 0 .. n : Covered(k) \in 0 .. Len(Blob)
    /\ \A k \in 1 .. n : Covered(k - 1) < Covered(k)
<1> DEFINE len == Len(Blob)
           n == (len + Size - 1) \div Size
<1>1. Size \in Nat \ {0} /\ len \in Nat /\ Blob \in Seq(Byte)
  BY SizeIsPositive, IndexAssumption
<1>2. n \in Nat /\ len <= n * Size /\ n * Size <= len + Size - 1
  <2> HIDE DEF len
  <2>1. PICK x \in Nat : x = len + Size - 1
    BY <1>1
  <2>2. PICK q \in Int, r \in 0 .. Size - 1 : q = x \div Size /\ x = Size * q + r
    BY <1>1, <2>1
  <2>3. q >= 0
    BY <1>1, <2>1, <2>2
  <2>4. Size * q = q * Size
    BY <1>1
  <2> QED
    BY <1>1, <2>1, <2>2, <2>3, <2>4
<1>3. ASSUME NEW k \in 1 .. n
      PROVE  (k - 1) * Size < len
  <2> HIDE DEF n, len
  <2>1. (n - k) * Size >= 0
    BY <1>1, <1>2
  <2>2. (n - k) * Size = n * Size - (k - 1) * Size - Size
    BY <1>1, <1>2
  <2> QED
    BY <1>1, <1>2, <2>1, <2>2
<1>4. ASSUME NEW k \in 0 .. n
      PROVE  Covered(k) \in 0 .. len
  BY <1>1, <1>2 DEF Covered
<1>5. Covered(n) = len
  BY <1>1, <1>2 DEF Covered
<1>6. ASSUME NEW k \in 1 .. n
      PROVE  Covered(k - 1) = (k - 1) * Size /\ Covered(k - 1) < Covered(k)
  <2>1. Covered(k - 1) = (k - 1) * Size /\ (k - 1) * Size < len
    BY <1>1, <1>2, <1>3 DEF Covered
  <2>2. k * Size = (k - 1) * Size + Size
    BY <1>1, <1>2
  <2>3. (k - 1) * Size \in Int
    BY <1>1, <1>2
  <2> HIDE DEF n, len
  <2> QED
    BY <1>1, <2>1, <2>2, <2>3 DEF Covered, len
<1>7. ASSUME NEW k \in 1 .. n
      PROVE  Min({k * Size, len}) = Covered(k)
  <2>1. k * Size \in Int
    BY <1>1, <1>2
  <2> QED
    BY <1>1, <2>1 DEF Min, Covered
<1>8. Genuine.chunks = [k \in 1 .. n |-> SubSeq(Blob, (k - 1) * Size + 1, Min({k * Size, len}))]
  BY <1>1 DEF Genuine, BuildSignedManifest, ChunkBlob, Size
<1>9. Genuine.chunks = [k \in 1 .. n |-> SubSeq(Blob, Covered(k - 1) + 1, Covered(k))]
  <2> HIDE DEF n
  <2> QED
    BY <1>6, <1>7, <1>8
<1> HIDE DEF n
<1> QED
  BY <1>2, <1>4, <1>5, <1>6, <1>9

(* A part of the blob. *)
LEMMA PartType ==
  ASSUME NEW p \in 0 .. Len(Blob), NEW q \in p .. Len(Blob)
  PROVE  SubSeq(Blob, p + 1, q) \in Seq(Byte) /\ Len(SubSeq(Blob, p + 1, q)) = q - p
BY IndexAssumption

LEMMA PrefixType ==
  ASSUME NEW p \in 0 .. Len(Blob)
  PROVE  Beginning(SubSeq(Blob, 1, p))
<1>1. Len(SubSeq(Blob, 1, p)) = p
  BY IndexAssumption
<1> QED
  BY <1>1, IndexAssumption DEF Beginning

Adjacent(p, q) == SubSeq(Blob, 1, p) \o SubSeq(Blob, p + 1, q) = SubSeq(Blob, 1, q)

LEMMA AdjacentParts ==
  ASSUME NEW p \in 0 .. Len(Blob), NEW q \in p .. Len(Blob)
  PROVE  Adjacent(p, q)
<1>1. Blob \in Seq(Byte) /\ Len(Blob) \in Nat
  BY IndexAssumption
<1>2. 1 \in 1 .. Len(Blob) + 1 /\ p \in 1 - 1 .. Len(Blob)
  BY <1>1
<1> QED
  BY <1>1, <1>2, ConcatAdjacentSubSeq DEF Adjacent

(* Everything fetched as a manifest has the shape of one. *)
LEMMA ManifestShapes ==
  \A m \in Manifests \cup {None} : m \in ManifestShape
<1>1. None \in ManifestShape
  BY DEF None, ManifestShape
<1>2. Genuine \in ManifestShape
  <2>1. PICK n \in Nat :
          /\ Genuine.chunks = [k \in 1 .. n |-> SubSeq(Blob, Covered(k - 1) + 1, Covered(k))]
          /\ \A k \in 0 .. n : Covered(k) \in 0 .. Len(Blob)
          /\ \A k \in 1 .. n : Covered(k - 1) < Covered(k)
    BY ChunksAreAdjacent
  <2>2. ASSUME NEW k \in 1 .. n
        PROVE  SubSeq(Blob, Covered(k - 1) + 1, Covered(k)) \in Seq(Byte)
    <3>1. k - 1 \in 0 .. n /\ k \in 0 .. n
      BY <2>1
    <3>2. Covered(k - 1) \in 0 .. Len(Blob) /\ Covered(k) \in Covered(k - 1) .. Len(Blob)
      BY <2>1, <3>1, IndexAssumption
    <3> QED
      BY <3>2, PartType
  <2>3. Genuine.chunks \in Seq(Seq(Byte))
    <3>1. Genuine.chunks \in [1 .. n -> Seq(Byte)]
      BY <2>1, <2>2
    <3> QED
      BY <2>1, <3>1, SeqDef
  <2>4. Genuine = [blob |-> Blob, total |-> Len(Blob), signed |-> TRUE, chunks |-> Genuine.chunks]
    BY DEF Genuine, BuildSignedManifest
  <2>5. Blob \in Seq(Byte) /\ Len(Blob) \in Nat
    BY IndexAssumption
  <2>6. PICK c \in Seq(Seq(Byte)) : c = Genuine.chunks
    BY <2>3
  <2>7. Genuine = [blob |-> Blob, total |-> Len(Blob), signed |-> TRUE, chunks |-> c]
    BY <2>4, <2>6, Zenon
  <2> QED
    BY <2>5, <2>7 DEF ManifestShape
<1> QED
  BY <1>1, <1>2, IndexAssumption DEF Manifests, Genuine

LEMMA GenuineIsNotNone == None # Genuine
BY DEF None, Genuine, BuildSignedManifest

(* Writing chunk k, or a part of it, after the k - 1 before it leaves a    *)
(* beginning of the blob.                                                  *)
LEMMA ChunkExtends ==
  ASSUME NEW k \in 1 .. Len(Genuine.chunks)
  PROVE  /\ SubSeq(Blob, 1, Covered(k - 1)) \o Genuine.chunks[k] = SubSeq(Blob, 1, Covered(k))
         /\ Covered(k) \in 0 .. Len(Blob)
         /\ \A j \in Nat : j < Len(Genuine.chunks[k]) =>
              /\ Covered(k - 1) + j \in 0 .. Len(Blob)
              /\ SubSeq(Blob, 1, Covered(k - 1)) \o SubSeq(Genuine.chunks[k], 1, j)
                   = SubSeq(Blob, 1, Covered(k - 1) + j)
<1>1. PICK n \in Nat :
        /\ Genuine.chunks = [i \in 1 .. n |-> SubSeq(Blob, Covered(i - 1) + 1, Covered(i))]
        /\ \A i \in 0 .. n : Covered(i) \in 0 .. Len(Blob)
        /\ \A i \in 1 .. n : Covered(i - 1) < Covered(i)
  BY ChunksAreAdjacent
<1>2. Len(Genuine.chunks) = n
  BY <1>1
<1>3. k \in 1 .. n /\ k - 1 \in 0 .. n /\ k \in 0 .. n
  BY <1>1, <1>2
<1>4. PICK p \in 0 .. Len(Blob), q \in 0 .. Len(Blob) : p = Covered(k - 1) /\ q = Covered(k) /\ p < q
  BY <1>1, <1>3
<1>5. Genuine.chunks[k] = SubSeq(Blob, p + 1, q)
  BY <1>1, <1>3, <1>4
<1>6. Blob \in Seq(Byte) /\ Len(Blob) \in Nat
  BY IndexAssumption
<1>7. Adjacent(p, q)
  BY <1>4, <1>6, AdjacentParts
<1>8. ASSUME NEW j \in Nat, j < Len(Genuine.chunks[k])
      PROVE  /\ p + j \in 0 .. Len(Blob)
             /\ SubSeq(Blob, 1, p) \o SubSeq(Genuine.chunks[k], 1, j) = SubSeq(Blob, 1, p + j)
  <2>1. j < q - p
    <3>1. q \in p .. Len(Blob)
      BY <1>4, <1>6
    <3>2. Len(SubSeq(Blob, p + 1, q)) = q - p
      BY <3>1, PartType
    <3> QED
      BY <1>5, <1>8, <3>2
  <2>2. p + j \in p .. Len(Blob)
    BY <1>4, <1>6, <2>1
  <2>3. SubSeq(SubSeq(Blob, p + 1, q), 1, j) = SubSeq(Blob, p + 1, p + j)
    <3>1. CASE j = 0
      BY <1>4, <1>6, <3>1, SubSeqEmpty
    <3>2. CASE j # 0
      <4>1. /\ p + 1 \in 1 .. Len(Blob) /\ q \in 1 .. Len(Blob)
            /\ 1 \in 1 .. q - (p + 1) + 1 /\ j \in 1 .. q - (p + 1) + 1
        BY <1>4, <1>6, <2>1, <3>2
      <4>2. SubSeq(SubSeq(Blob, p + 1, q), 1, j) = SubSeq(Blob, (p + 1) + 1 - 1, (p + 1) + j - 1)
        BY <1>6, <4>1, SubSeqOfSubSeq
      <4>3. (p + 1) + 1 - 1 = p + 1 /\ (p + 1) + j - 1 = p + j
        BY <1>4
      <4> QED
        BY <4>2, <4>3
    <3> QED
      BY <3>1, <3>2
  <2>4. Adjacent(p, p + j)
    BY <1>4, <2>2, AdjacentParts
  <2>5. p + j \in 0 .. Len(Blob)
    BY <1>4, <1>6, <2>2
  <2> QED
    BY <1>5, <2>3, <2>4, <2>5, Zenon DEF Adjacent
<1> QED
  BY <1>4, <1>5, <1>7, <1>8 DEF Adjacent

-------------------------------------------------------------------------------
(***************************************************************************)
(* The invariant holds at first.                                           *)
(***************************************************************************)

LEMMA IndexInitially == IndexInit => IndexInv
<1> SUFFICES ASSUME IndexInit PROVE IndexInv
  OBVIOUS
<1>1. fetch = NoFetch /\ fetch.manifest = None /\ fetch.pc = "idle"
  BY DEF IndexInit, NoFetch
<1>2. IndexTypeOK
  <2>1. fetch \in [pc : {"idle", "chunk", "ok", "error", "mismatch"},
                   manifest : Manifests \cup {None}, next : Nat, out : Seq(Byte)]
    BY <1>1 DEF NoFetch
  <2>2. now \in 1 .. MaxTime
    BY IndexAssumption DEF IndexInit
  <2>3. holders \in [ContentHash -> Nat]
    BY DEF IndexInit
  <2>4. sent \in Seq(Advert) /\ seen \in Seq(1 .. slot) /\ DOMAIN sent = {} /\ Len(sent) = 0
    BY DEF IndexInit
  <2>5. slot \in 0 .. Len(sent) /\ waiting \subseteq 1 .. slot
    BY <2>4 DEF IndexInit
  <2>7. subscribed \in BOOLEAN
    BY Zenon DEF IndexInit
  <2>6. \A i \in DOMAIN sent : sent[i].tombstone \/ sent[i].hash \in ContentHash
    BY <2>4
  <2> QED
    BY <2>1, <2>2, <2>3, <2>4, <2>5, <2>6, <2>7, Zenon DEF IndexTypeOK
<1>3. EntryWasAnnounced
  BY DEF EntryWasAnnounced, IndexInit
<1>4. EntryIsLast
  BY DEF EntryIsLast, IndexInit
<1>5. BlobInv
  BY <1>1, GenuineIsNotNone DEF BlobInv
<1> QED
  BY <1>2, <1>3, <1>4, <1>5 DEF IndexInv

-------------------------------------------------------------------------------
(***************************************************************************)
(* What a step that touches only one side leaves of the other.             *)
(***************************************************************************)

LEMMA SentTypes ==
  ASSUME IndexTypeOK
  PROVE  /\ slot \in Nat /\ Len(sent) \in Nat /\ slot <= Len(sent) /\ DOMAIN sent = 1 .. Len(sent)
         /\ \A i \in 1 .. slot :
              /\ i \in DOMAIN sent /\ sent[i] \in Advert
              /\ sent[i].expiresAt \in Nat /\ sent[i].tombstone \in BOOLEAN
              /\ sent[i].tombstone \/ sent[i].hash \in ContentHash
<1>1. sent \in Seq(Advert) /\ slot \in 0 .. Len(sent)
  BY DEF IndexTypeOK
<1>2. slot \in Nat /\ Len(sent) \in Nat /\ slot <= Len(sent) /\ DOMAIN sent = 1 .. Len(sent)
  BY <1>1
<1>3. \A i \in 1 .. slot : i \in DOMAIN sent /\ sent[i] \in Advert
  BY <1>1, <1>2, ElementOfSeq
<1>4. \A a \in Advert : a.expiresAt \in Nat /\ a.tombstone \in BOOLEAN
  BY DEF Advert
<1> QED
  BY <1>2, <1>3, <1>4, Zenon DEF IndexTypeOK

(* What was seen was taken. *)
LEMMA SeenTypes ==
  ASSUME IndexTypeOK
  PROVE  /\ seen \in Seq(1 .. slot) /\ Len(seen) \in Nat /\ DOMAIN seen = 1 .. Len(seen)
         /\ Range(seen) \subseteq 1 .. slot
<1>1. seen \in Seq(1 .. slot)
  BY DEF IndexTypeOK
<1>2. Len(seen) \in Nat /\ DOMAIN seen = 1 .. Len(seen)
  BY <1>1
<1>3. \A k \in DOMAIN seen : seen[k] \in 1 .. slot
  BY <1>1, <1>2, ElementOfSeq
<1> QED
  BY <1>1, <1>2, <1>3, Zenon DEF Range

LEMMA FetchUntouched ==
  ASSUME BlobInv, UNCHANGED fetch
  PROVE  BlobInv'
BY DEF BlobInv, Beginning, Genuine, Covered, Size, NoFetch, None

LEMMA EntriesUntouched ==
  ASSUME IndexTypeOK, EntryWasAnnounced, EntryIsLast,
         UNCHANGED <<sent, seen, slot, holders>>, now' \in Nat, now <= now'
  PROVE  EntryWasAnnounced' /\ EntryIsLast'
<1>1. EntryWasAnnounced'
  BY DEF EntryWasAnnounced, Announced
<1>2. EntryIsLast'
  <2>1. InOrder' = InOrder /\ \A h : AdvertsSeen(h)' = AdvertsSeen(h)
    BY DEF InOrder, AdvertsSeen
  <2>2. \A i \in 1 .. slot : sent[i].expiresAt \in Nat
    BY SentTypes, Zenon
  <2>3. now \in Nat
    BY DEF IndexTypeOK
  <2>4. \A h, i : LastSeen(h, i)' = LastSeen(h, i)
    BY <2>1, Zenon DEF LastSeen
  <2>5. slot' = slot /\ sent' = sent /\ holders' = holders
    OBVIOUS
  <2>6. \A n \in Nat : n <= now => n <= now'
    BY <2>3
  <2> QED
    BY <2>1, <2>2, <2>4, <2>5, <2>6, Zenon DEF EntryIsLast
<1> QED
  BY <1>1, <1>2

(* Dropping an entry found expired. *)
LEMMA SweepKeeps ==
  ASSUME IndexTypeOK, EntryWasAnnounced, EntryIsLast, NEW h \in ContentHash,
         UNCHANGED <<now, sent, seen, slot>>, holders' = Swept(h)
  PROVE  /\ holders' \in [ContentHash -> Nat]
         /\ EntryWasAnnounced' /\ EntryIsLast'
<1>1. holders \in [ContentHash -> Nat] /\ now \in Nat
  BY DEF IndexTypeOK
<1>2. holders' \in [ContentHash -> Nat]
  BY <1>1 DEF Swept
<1>3. \A g \in ContentHash : holders'[g] = holders[g] \/ (holders'[g] = 0 /\ holders[g] <= now)
  BY <1>1 DEF Swept, Listed
<1>4. EntryWasAnnounced'
  BY <1>1, <1>3 DEF EntryWasAnnounced, Announced
<1>5. EntryIsLast'
  <2>1. InOrder' = InOrder /\ \A g : AdvertsSeen(g)' = AdvertsSeen(g)
    BY DEF InOrder, AdvertsSeen
  <2>2. \A g, i : LastSeen(g, i)' = LastSeen(g, i)
    BY <2>1 DEF LastSeen
  <2> QED
    BY <1>3, <2>1, <2>2 DEF EntryIsLast
<1> QED
  BY <1>2, <1>4, <1>5

-------------------------------------------------------------------------------
(***************************************************************************)
(* Publishing: what was sent stays, and nothing new has been seen yet.     *)
(***************************************************************************)

LEMMA PublishStep ==
  ASSUME IndexInv, NEW a \in Advert, a.tombstone \/ a.hash \in ContentHash, Publish(a)
  PROVE  IndexInv'
<1>1. IndexTypeOK /\ EntryWasAnnounced /\ EntryIsLast /\ BlobInv
  BY DEF IndexInv
<1>2. /\ sent' = Append(sent, a)
      /\ UNCHANGED <<now, slot, subscribed, waiting, seen, holders, fetch>>
  BY DEF Publish, index
<1>3. /\ sent \in Seq(Advert) /\ Len(sent) \in Nat /\ DOMAIN sent = 1 .. Len(sent)
      /\ slot \in Nat /\ slot <= Len(sent)
  BY <1>1, SentTypes DEF IndexTypeOK
<1>4. /\ sent' \in Seq(Advert) /\ Len(sent') = Len(sent) + 1 /\ DOMAIN sent' = 1 .. Len(sent) + 1
      /\ sent'[Len(sent) + 1] = a /\ \A i \in 1 .. Len(sent) : sent'[i] = sent[i]
  BY <1>2, <1>3
<1>5. \A i \in 1 .. slot : sent'[i] = sent[i]
  BY <1>3, <1>4
<1>6. Range(seen) \subseteq 1 .. slot
  BY <1>1, SeenTypes
<1>7. IndexTypeOK'
  <2>1. \A i \in DOMAIN sent' : sent'[i].tombstone \/ sent'[i].hash \in ContentHash
    <3>1. \A i \in DOMAIN sent : sent[i].tombstone \/ sent[i].hash \in ContentHash
      BY <1>1 DEF IndexTypeOK
    <3>2. \A i \in DOMAIN sent' : i = Len(sent) + 1 \/ i \in 1 .. Len(sent)
      BY <1>3, <1>4
    <3> QED
      BY <1>3, <1>4, <3>1, <3>2, Zenon
  <2>2. slot' \in 0 .. Len(sent')
    BY <1>2, <1>3, <1>4
  <2> QED
    BY <1>1, <1>2, <1>4, <2>1, <2>2, Zenon DEF IndexTypeOK
<1>8. EntryWasAnnounced'
  <2>1. Range(sent) \subseteq Range(sent')
    <3>1. \A i \in DOMAIN sent : i \in DOMAIN sent' /\ sent'[i] = sent[i]
      BY <1>3, <1>4
    <3> QED
      BY <3>1, Zenon DEF Range
  <2> QED
    BY <1>1, <1>2, <2>1, Zenon DEF EntryWasAnnounced, Announced
<1>9. EntryIsLast'
  <2>1. InOrder' = InOrder
    BY <1>2 DEF InOrder
  <2>2. \A h : AdvertsSeen(h)' = AdvertsSeen(h)
    <3>1. Range(seen') = Range(seen) /\ \A i \in Range(seen) : sent'[i] = sent[i]
      BY <1>2, <1>5, <1>6, Zenon
    <3> QED
      BY <3>1, Zenon DEF AdvertsSeen
  <2>3. \A h, i : LastSeen(h, i)' = LastSeen(h, i)
    BY <2>2, Zenon DEF LastSeen
  <2> QED
    BY <1>1, <1>2, <1>5, <2>1, <2>2, <2>3, Zenon DEF EntryIsLast
<1> QED
  BY <1>1, <1>2, <1>7, <1>8, <1>9, FetchUntouched DEF IndexInv

LEMMA AnnounceStep ==
  ASSUME IndexInv, NEW h \in ContentHash, Announce(h) \/ Withdraw(h)
  PROVE  IndexInv'
<1>1. now \in Nat /\ now - 1 \in Nat /\ now + advertTTL \in Nat
  BY IndexAssumption DEF IndexInv, IndexTypeOK
<1>2. PICK e \in Nat : Publish([hash |-> h, expiresAt |-> e, tombstone |-> FALSE])
  BY <1>1, Zenon DEF Announce, Withdraw
<1>3. [hash |-> h, expiresAt |-> e, tombstone |-> FALSE] \in Advert
  BY DEF Advert
<1> QED
  BY <1>2, <1>3, PublishStep

LEMMA TombstoneStep == ASSUME IndexInv, PublishTombstone PROVE IndexInv'
<1>1. [hash |-> None, expiresAt |-> 0, tombstone |-> TRUE] \in Advert
  BY DEF Advert
<1> QED
  BY <1>1, PublishStep DEF PublishTombstone

-------------------------------------------------------------------------------
(***************************************************************************)
(* The store takes records, and callbacks index them.                      *)
(***************************************************************************)

LEMMA TakeStep == ASSUME IndexInv, NEW i \in 1 .. MaxAdverts, Take(i) PROVE IndexInv'
<1>1. IndexTypeOK /\ EntryWasAnnounced /\ EntryIsLast /\ BlobInv
  BY DEF IndexInv
<1>2. /\ i \in DOMAIN sent /\ i > slot /\ slot' = i
      /\ UNCHANGED <<now, sent, subscribed, seen, holders, fetch>>
      /\ waiting' \subseteq waiting \cup {i}
  BY DEF Take
<1>3. /\ slot \in Nat /\ Len(sent) \in Nat /\ slot <= Len(sent) /\ DOMAIN sent = 1 .. Len(sent)
      /\ seen \in Seq(1 .. slot) /\ Range(seen) \subseteq 1 .. slot
  BY <1>1, SentTypes, SeenTypes
<1>4. IndexTypeOK'
  <2>1. slot' \in 0 .. Len(sent') /\ 1 .. slot \subseteq 1 .. slot' /\ i \in 1 .. slot'
    BY <1>2, <1>3
  <2>2. waiting' \subseteq 1 .. slot'
    BY <1>1, <1>2, <2>1, Zenon DEF IndexTypeOK
  <2>3. seen' \in Seq(1 .. slot')
    BY <1>2, <1>3, <2>1
  <2> QED
    BY <1>1, <1>2, <2>1, <2>2, <2>3, Zenon DEF IndexTypeOK
<1>5. EntryWasAnnounced'
  BY <1>1, <1>2 DEF EntryWasAnnounced, Announced
<1>6. EntryIsLast'
  <2>1. InOrder' = InOrder /\ \A h : AdvertsSeen(h)' = AdvertsSeen(h)
    BY <1>2 DEF InOrder, AdvertsSeen
  <2>2. \A h, j : LastSeen(h, j)' = LastSeen(h, j)
    BY <2>1, Zenon DEF LastSeen
  <2>3. \A h, j : LastSeen(h, j) => j \in 1 .. slot
    BY <1>3, Zenon DEF LastSeen, AdvertsSeen
  <2> QED
    BY <1>1, <1>2, <2>1, <2>2, <2>3, Zenon DEF EntryIsLast
<1> QED
  BY <1>1, <1>2, <1>4, <1>5, <1>6, FetchUntouched DEF IndexInv

LEMMA SubscribeStep == ASSUME IndexInv, ensureSubscribed PROVE IndexInv'
<1>1. IndexTypeOK /\ EntryWasAnnounced /\ EntryIsLast /\ BlobInv
  BY DEF IndexInv
<1>2. /\ UNCHANGED <<now, sent, slot, seen, holders, fetch>>
      /\ subscribed' = TRUE /\ waiting' = {slot} \ {0}
  BY DEF ensureSubscribed
<1>3. IndexTypeOK'
  <2>1. waiting' \subseteq 1 .. slot'
    BY <1>1, <1>2, SentTypes
  <2>2. subscribed' \in BOOLEAN
    BY <1>2, Zenon
  <2> QED
    BY <1>1, <1>2, <2>1, <2>2, Zenon DEF IndexTypeOK
<1>4. now' \in Nat /\ now <= now'
  BY <1>1, <1>2 DEF IndexTypeOK
<1> QED
  BY <1>1, <1>2, <1>3, <1>4, FetchUntouched, EntriesUntouched DEF IndexInv

(* The entry the callback touches becomes the advert's; when the callbacks *)
(* so far ran in order, that advert is the last of its hash.               *)
LEMMA AdvertStep == ASSUME IndexInv, NEW i \in 1 .. MaxAdverts, onAdvertRecord(i) PROVE IndexInv'
<1>1. IndexTypeOK /\ EntryWasAnnounced /\ EntryIsLast /\ BlobInv
  BY DEF IndexInv
<1>2. /\ i \in waiting /\ waiting' = waiting \ {i} /\ seen' = Append(seen, i)
      /\ holders' = Indexed(sent[i]) /\ UNCHANGED <<now, sent, slot, subscribed, fetch>>
  BY DEF onAdvertRecord
<1>3. i \in 1 .. slot /\ holders \in [ContentHash -> Nat] /\ now \in Nat
  BY <1>1, <1>2 DEF IndexTypeOK
<1>4. PICK a \in Advert : a = sent[i]
  BY <1>1, <1>3, SentTypes
<1>5. /\ a \in Range(sent) /\ a.expiresAt \in Nat
      /\ a.tombstone \in BOOLEAN /\ (a.tombstone \/ a.hash \in ContentHash)
  BY <1>1, <1>3, <1>4, SentTypes, Zenon DEF Range
<1>6. /\ holders' \in [ContentHash -> Nat]
      /\ \A h \in ContentHash : ~a.tombstone /\ a.hash = h =>
           holders'[h] = IF a.expiresAt <= now THEN 0 ELSE a.expiresAt
      /\ \A h \in ContentHash : ~(~a.tombstone /\ a.hash = h) => holders'[h] = holders[h]
  <2>1. holders' = IF a.tombstone THEN holders
                   ELSE [holders EXCEPT ![a.hash] = IF a.expiresAt <= now THEN 0 ELSE a.expiresAt]
    BY <1>2, <1>4 DEF Indexed
  <2>2. PICK e \in Nat : e = IF a.expiresAt <= now THEN 0 ELSE a.expiresAt
    BY <1>5
  <2>3. holders' = IF a.tombstone THEN holders ELSE [holders EXCEPT ![a.hash] = e]
    BY <2>1, <2>2, Zenon
  <2>4. CASE a.tombstone
    BY <1>3, <2>3, <2>4
  <2>5. CASE ~a.tombstone
    BY <1>3, <1>5, <2>2, <2>3, <2>5
  <2> QED
    BY <1>5, <2>4, <2>5
<1>7. /\ Len(seen) \in Nat /\ DOMAIN seen = 1 .. Len(seen)
      /\ DOMAIN seen' = 1 .. Len(seen) + 1 /\ seen'[Len(seen) + 1] = i
      /\ \A k \in 1 .. Len(seen) : seen'[k] = seen[k]
      /\ seen' \in Seq(1 .. slot) /\ Range(seen) \subseteq 1 .. slot
  BY <1>1, <1>2, <1>3, SeenTypes
<1>8. Range(seen') = Range(seen) \cup {i}
  <2>1. \A k : k \in DOMAIN seen' <=> k \in DOMAIN seen \/ k = Len(seen) + 1
    BY <1>7
  <2> QED
    BY <1>7, <2>1, Zenon DEF Range
<1>9. IndexTypeOK'
  <2>1. waiting' \subseteq 1 .. slot'
    BY <1>1, <1>2, Zenon DEF IndexTypeOK
  <2> QED
    BY <1>1, <1>2, <1>6, <1>7, <2>1, Zenon DEF IndexTypeOK
<1>10. EntryWasAnnounced'
  <2> SUFFICES ASSUME NEW h \in ContentHash, holders'[h] # 0
               PROVE  \E b \in Announced(h) : b.expiresAt = holders'[h]
    BY <1>2 DEF EntryWasAnnounced, Announced
  <2>1. CASE ~a.tombstone /\ a.hash = h
    BY <1>5, <1>6, <2>1, Zenon DEF Announced
  <2>2. CASE ~(~a.tombstone /\ a.hash = h)
    BY <1>1, <1>6, <2>2, Zenon DEF EntryWasAnnounced
  <2> QED
    BY <2>1, <2>2, Zenon
<1>11. EntryIsLast'
  <2> SUFFICES ASSUME InOrder', NEW h \in ContentHash
               PROVE  /\ AdvertsSeen(h)' = {} => holders'[h] = 0
                      /\ \A j \in 1 .. slot : LastSeen(h, j)' =>
                           \/ holders'[h] = sent[j].expiresAt
                           \/ holders'[h] = 0 /\ sent[j].expiresAt <= now
    BY <1>2, Zenon DEF EntryIsLast
  <2>1. InOrder
    BY <1>7 DEF InOrder
  <2>2. \A k \in Range(seen) : k < i
    <3>1. \A k \in DOMAIN seen : seen[k] < i
      BY <1>7 DEF InOrder
    <3> QED
      BY <3>1, Zenon DEF Range
  <2>3. CASE ~a.tombstone /\ a.hash = h
    <3>1. i \in AdvertsSeen(h)'
      BY <1>2, <1>4, <1>8, <2>3, Zenon DEF AdvertsSeen
    <3>2. AdvertsSeen(h)' \subseteq Range(seen) \cup {i}
      BY <1>8, Zenon DEF AdvertsSeen
    <3>3. ASSUME NEW j \in 1 .. slot, LastSeen(h, j)' PROVE j = i
      <4>1. i <= j /\ j \in Range(seen) \cup {i}
        BY <3>1, <3>2, <3>3, Zenon DEF LastSeen
      <4> QED
        BY <1>3, <2>2, <4>1
    <3>4. holders'[h] = a.expiresAt \/ (holders'[h] = 0 /\ a.expiresAt <= now)
      BY <1>6, <2>3, Zenon
    <3> QED
      BY <1>4, <3>1, <3>3, <3>4, Zenon
  <2>4. CASE ~(~a.tombstone /\ a.hash = h)
    <3>1. AdvertsSeen(h)' = AdvertsSeen(h)
      BY <1>2, <1>4, <1>8, <2>4, Zenon DEF AdvertsSeen
    <3>2. \A j : LastSeen(h, j)' = LastSeen(h, j)
      BY <3>1, Zenon DEF LastSeen
    <3>3. holders'[h] = holders[h]
      BY <1>6, <2>4, Zenon
    <3> QED
      BY <1>1, <2>1, <3>1, <3>2, <3>3, Zenon DEF EntryIsLast
  <2> QED
    BY <2>3, <2>4, Zenon
<1> QED
  BY <1>1, <1>2, <1>9, <1>10, <1>11, FetchUntouched DEF IndexInv

LEMMA HoldersStep == ASSUME IndexInv, NEW h \in ContentHash, Holders(h) PROVE IndexInv'
<1>1. IndexTypeOK /\ EntryWasAnnounced /\ EntryIsLast /\ BlobInv
  BY DEF IndexInv
<1>2. holders' = Swept(h) /\ UNCHANGED <<now, sent, slot, subscribed, waiting, seen, fetch>>
  BY DEF Holders
<1>3. holders' \in [ContentHash -> Nat] /\ EntryWasAnnounced' /\ EntryIsLast'
  BY <1>1, <1>2, SweepKeeps
<1>4. IndexTypeOK'
  BY <1>1, <1>2, <1>3, Zenon DEF IndexTypeOK
<1> QED
  BY <1>1, <1>2, <1>3, <1>4, FetchUntouched DEF IndexInv

-------------------------------------------------------------------------------
(***************************************************************************)
(* FetchBlob.                                                              *)
(***************************************************************************)

Fetching == [pc : {"idle", "chunk", "ok", "error", "mismatch"},
             manifest : Manifests \cup {None}, next : Nat, out : Seq(Byte)]

(* A step of FetchBlob alone. *)
LEMMA BlobAlone ==
  ASSUME IndexInv, UNCHANGED <<now, sent, slot, index>>, fetch' \in Fetching, BlobInv'
  PROVE  IndexInv'
<1>1. IndexTypeOK /\ EntryWasAnnounced /\ EntryIsLast
  BY DEF IndexInv
<1>2. UNCHANGED <<now, sent, slot, subscribed, waiting, seen, holders>>
  BY DEF index
<1>3. now' \in Nat /\ now <= now'
  BY <1>1, <1>2 DEF IndexTypeOK
<1>4. IndexTypeOK'
  BY <1>1, <1>2, Zenon DEF IndexTypeOK, Fetching
<1> QED
  BY <1>1, <1>2, <1>3, <1>4, EntriesUntouched DEF IndexInv

(* Fetch also sweeps, and fails or gets the content. *)
LEMMA FetchOutcome ==
  ASSUME IndexInv, NEW h \in ContentHash, NEW Got, FetchContent(h, Got)
  PROVE  /\ fetch' = [fetch EXCEPT !.pc = "error"] \/ fetch' = Got
         /\ fetch' \in Fetching /\ BlobInv' => IndexInv'
<1>1. IndexTypeOK /\ EntryWasAnnounced /\ EntryIsLast
  BY DEF IndexInv
<1>2. /\ holders' = Swept(h) /\ UNCHANGED <<now, sent, slot, subscribed, waiting, seen>>
      /\ fetch' = [fetch EXCEPT !.pc = "error"] \/ fetch' = Got
  BY DEF FetchContent
<1>3. holders' \in [ContentHash -> Nat] /\ EntryWasAnnounced' /\ EntryIsLast'
  BY <1>1, <1>2, SweepKeeps
<1>4. fetch' \in Fetching => IndexTypeOK'
  BY <1>1, <1>2, <1>3, Zenon DEF IndexTypeOK, Fetching
<1> QED
  BY <1>2, <1>3, <1>4, Zenon DEF IndexInv

(* Giving up, with what was written so far. *)
LEMMA GivingUp ==
  ASSUME IndexInv, fetch' = [fetch EXCEPT !.pc = "error"]
  PROVE  fetch' \in Fetching /\ BlobInv'
<1>1. fetch \in Fetching /\ BlobInv
  BY DEF IndexInv, IndexTypeOK, Fetching
<1>2. /\ fetch' \in Fetching /\ fetch'.pc = "error"
      /\ fetch'.manifest = fetch.manifest /\ fetch'.out = fetch.out
  BY <1>1 DEF Fetching
<1>3. Genuine' = Genuine /\ (Beginning(fetch.out))' = Beginning(fetch'.out)
  BY DEF Genuine, Beginning
<1> QED
  BY <1>1, <1>2, <1>3 DEF BlobInv

LEMMA FetchManifestStep ==
  ASSUME IndexInv, NEW m \in Manifests, FetchManifest(m)
  PROVE  IndexInv'
<1>1. fetch = NoFetch /\ fetch \in Fetching
  BY DEF IndexInv, IndexTypeOK, BlobInv, FetchManifest, Fetching
<1> DEFINE Got == [fetch EXCEPT !.manifest = m, !.next = 1,
                                !.pc = IF verifyManifestSig(m) THEN "chunk" ELSE "error"]
<1>2. m \in ContentHash /\ FetchContent(m, Got)
  BY DEF ContentHash, FetchManifest
<1>3. CASE fetch' = Got
  <2>1. /\ fetch'.manifest = m /\ fetch'.next = 1 /\ fetch'.out = <<>>
        /\ fetch'.pc = IF m.signed THEN "chunk" ELSE "error"
    BY <1>1, <1>3 DEF NoFetch, verifyManifestSig
  <2>2. fetch' \in Fetching
    <3>1. fetch' = [pc |-> IF m.signed THEN "chunk" ELSE "error", manifest |-> m,
                    next |-> 1, out |-> <<>>]
      BY <1>1, <1>3 DEF NoFetch, verifyManifestSig
    <3> QED
      BY <3>1 DEF Fetching
  <2>3. Len(m.chunks) \in Nat /\ m.signed \in BOOLEAN
    BY ManifestShapes DEF ManifestShape
  <2>4. Covered(0) = 0 /\ SubSeq(Blob, 1, 0) = <<>> /\ Beginning(<<>>)
    <3>1. Covered(0) = 0
      BY SizeIsPositive, IndexAssumption DEF Covered
    <3>2. SubSeq(Blob, 1, 0) = <<>>
      BY SubSeqEmpty
    <3>3. 0 \in 0 .. Len(Blob)
      BY IndexAssumption
    <3> QED
      BY <3>1, <3>2, <3>3, PrefixType
  <2>5. Genuine' = Genuine /\ (Beginning(fetch.out))' = Beginning(fetch'.out)
        /\ (Covered(fetch.next - 1))' = Covered(fetch'.next - 1)
    BY DEF Genuine, Beginning, Covered, Size
  <2>6. fetch'.next - 1 = 0 /\ fetch'.next \in 1 .. Len(m.chunks) + 1
    BY <2>1, <2>3
  <2>7. BlobInv'
    BY <2>1, <2>4, <2>5, <2>6 DEF BlobInv
  <2> QED
    BY <1>2, <2>2, <2>7, FetchOutcome
<1>4. CASE fetch' = [fetch EXCEPT !.pc = "error"]
  BY <1>2, <1>4, GivingUp, FetchOutcome
<1> QED
  BY <1>2, <1>3, <1>4, FetchOutcome

(* The chunk FetchBlob is at. *)
LEMMA AtAChunk ==
  ASSUME IndexInv, fetch.pc = "chunk", fetch.next <= Len(fetch.manifest.chunks)
  PROVE  /\ fetch \in Fetching /\ fetch.manifest \in Manifests /\ fetch.manifest.signed
         /\ Len(fetch.manifest.chunks) \in Nat
         /\ fetch.next \in 1 .. Len(fetch.manifest.chunks)
         /\ fetch.manifest.chunks[fetch.next] \in Seq(Byte)
         /\ Chunk(fetch.manifest.chunks[fetch.next]) \in ContentHash
<1>1. /\ fetch \in Fetching /\ fetch.manifest.signed
      /\ fetch.next \in 1 .. Len(fetch.manifest.chunks) + 1
  BY DEF IndexInv, IndexTypeOK, BlobInv, Fetching
<1>2. fetch.manifest \in Manifests
  BY <1>1 DEF Fetching, None
<1>3. PICK m \in Manifests, k \in Nat : m = fetch.manifest /\ k = fetch.next
  BY <1>1, <1>2 DEF Fetching
<1>4. m.chunks \in Seq(Seq(Byte))
  BY ManifestShapes DEF ManifestShape
<1>5. Len(m.chunks) \in Nat /\ k \in 1 .. Len(m.chunks) /\ DOMAIN m.chunks = 1 .. Len(m.chunks)
  BY <1>1, <1>3, <1>4
<1>6. m.chunks[k] \in Seq(Byte) /\ m.chunks[k] \in Range(m.chunks)
  BY <1>4, <1>5, ElementOfSeq DEF Range
<1>7. Chunk(m.chunks[k]) \in ContentHash
  BY <1>6, Zenon DEF ContentHash
<1> QED
  BY <1>1, <1>2, <1>3, <1>5, <1>6, <1>7, Zenon

(* The rewritten call, where the prime of a constant is that constant. *)
LEMMA BlobInvAfter ==
  ASSUME fetch'.pc # "idle",
         fetch'.pc = "chunk" =>
           fetch'.manifest.signed /\ fetch'.next \in 1 .. Len(fetch'.manifest.chunks) + 1,
         fetch'.pc = "ok" => fetch'.out = fetch'.manifest.blob /\ fetch'.manifest.signed,
         fetch'.manifest = Genuine =>
           /\ Beginning(fetch'.out) /\ fetch'.pc # "mismatch"
           /\ fetch'.pc = "chunk" => fetch'.out = SubSeq(Blob, 1, Covered(fetch'.next - 1))
  PROVE  BlobInv'
<1>1. Genuine' = Genuine /\ (Beginning(fetch.out))' = Beginning(fetch'.out)
  BY DEF Genuine, Beginning
<1>2. (Covered(fetch.next - 1))' = Covered(fetch'.next - 1)
  BY DEF Covered, Size
<1> QED
  BY <1>1, <1>2, Zenon DEF BlobInv

LEMMA FetchChunkStep == ASSUME IndexInv, FetchChunk PROVE IndexInv'
<1>1. fetch.pc = "chunk" /\ fetch.next <= Len(fetch.manifest.chunks)
  BY DEF FetchChunk
<1>2. PICK m \in Manifests, k \in 1 .. Len(fetch.manifest.chunks), bytes \in Seq(Byte) :
        /\ m = fetch.manifest /\ k = fetch.next /\ bytes = m.chunks[k] /\ m.signed
        /\ Len(m.chunks) \in Nat /\ Chunk(bytes) \in ContentHash
  BY <1>1, AtAChunk
<1>3. fetch \in Fetching /\ BlobInv
  BY <1>1, AtAChunk DEF IndexInv
<1> DEFINE Got == [fetch EXCEPT !.next = @ + 1, !.out = @ \o bytes]
<1>4. FetchContent(Chunk(bytes), Got)
  BY <1>2 DEF FetchChunk
<1>5. CASE fetch' = Got
  <2>1. /\ fetch'.pc = "chunk" /\ fetch'.manifest = m /\ fetch'.next = k + 1
        /\ fetch'.out = fetch.out \o bytes
    BY <1>1, <1>2, <1>3, <1>5 DEF Fetching
  <2>2. fetch.out \in Seq(Byte) /\ fetch.out \o bytes \in Seq(Byte) /\ k + 1 \in Nat
    BY <1>2, <1>3 DEF Fetching
  <2>3. fetch' \in Fetching
    BY <1>2, <1>3, <1>5, <2>2 DEF Fetching
  <2>4. fetch'.next \in 1 .. Len(fetch'.manifest.chunks) + 1 /\ fetch'.next - 1 = k
    BY <1>2, <2>1
  <2>5. ASSUME m = Genuine
        PROVE  Beginning(fetch'.out) /\ fetch'.out = SubSeq(Blob, 1, Covered(k))
    <3>1. fetch.out = SubSeq(Blob, 1, Covered(k - 1))
      BY <1>1, <1>2, <1>3, <2>5 DEF BlobInv
    <3>2. k \in 1 .. Len(Genuine.chunks) /\ bytes = Genuine.chunks[k]
      BY <1>2, <2>5
    <3>3. fetch'.out = SubSeq(Blob, 1, Covered(k)) /\ Covered(k) \in 0 .. Len(Blob)
      BY <2>1, <3>1, <3>2, ChunkExtends
    <3> QED
      BY <3>3, PrefixType
  <2>6. BlobInv'
    BY <1>2, <2>1, <2>4, <2>5, BlobInvAfter
  <2> QED
    BY <1>2, <1>4, <2>3, <2>6, FetchOutcome
<1>6. CASE fetch' = [fetch EXCEPT !.pc = "error"]
  BY <1>2, <1>4, <1>6, GivingUp, FetchOutcome
<1> QED
  BY <1>2, <1>4, <1>5, <1>6, FetchOutcome

LEMMA WriteFailsStep ==
  ASSUME IndexInv, NEW n \in 0 .. Len(Blob), WriteFails(n)
  PROVE  IndexInv'
<1>1. fetch.pc = "chunk" /\ fetch.next <= Len(fetch.manifest.chunks) /\ n \in Nat
  BY IndexAssumption DEF WriteFails
<1>2. PICK m \in Manifests, k \in 1 .. Len(fetch.manifest.chunks), bytes \in Seq(Byte) :
        m = fetch.manifest /\ k = fetch.next /\ bytes = m.chunks[k]
  BY <1>1, AtAChunk
<1>3. fetch \in Fetching /\ BlobInv
  BY <1>1, AtAChunk DEF IndexInv
<1>4. /\ n < Len(bytes) /\ UNCHANGED <<now, sent, slot, index>>
      /\ fetch' = [fetch EXCEPT !.pc = "error", !.out = @ \o SubSeq(bytes, 1, n)]
  BY <1>2 DEF WriteFails
<1>5. fetch'.pc = "error" /\ fetch'.manifest = m /\ fetch'.out = fetch.out \o SubSeq(bytes, 1, n)
  BY <1>2, <1>3, <1>4 DEF Fetching
<1>6. SubSeq(bytes, 1, n) \in Seq(Byte)
  BY <1>1, <1>2, <1>4
<1>7. fetch' \in Fetching
  <2>1. fetch.out \o SubSeq(bytes, 1, n) \in Seq(Byte)
    BY <1>3, <1>6 DEF Fetching
  <2> QED
    BY <1>3, <1>4, <2>1 DEF Fetching
<1>8. ASSUME m = Genuine PROVE Beginning(fetch'.out)
  <2>1. fetch.out = SubSeq(Blob, 1, Covered(k - 1))
    BY <1>1, <1>2, <1>3, <1>8 DEF BlobInv
  <2>2. k \in 1 .. Len(Genuine.chunks) /\ bytes = Genuine.chunks[k]
    BY <1>2, <1>8
  <2>3. /\ Covered(k - 1) + n \in 0 .. Len(Blob)
        /\ fetch'.out = SubSeq(Blob, 1, Covered(k - 1) + n)
    BY <1>1, <1>4, <1>5, <2>1, <2>2, ChunkExtends
  <2> QED
    BY <2>3, PrefixType
<1>9. BlobInv'
  BY <1>5, <1>8, BlobInvAfter
<1> QED
  BY <1>4, <1>7, <1>9, BlobAlone

(* After the last chunk of a manifest of BuildSignedManifest, the writer   *)
(* has the blob.                                                           *)
LEMMA CompareStep == ASSUME IndexInv, Compare PROVE IndexInv'
<1>1. /\ fetch.pc = "chunk" /\ fetch.next > Len(fetch.manifest.chunks)
      /\ fetch' = [fetch EXCEPT !.pc = IF fetch.out = fetch.manifest.blob THEN "ok" ELSE "mismatch"]
      /\ UNCHANGED <<now, sent, slot, index>>
  BY DEF Compare
<1>2. fetch \in Fetching /\ BlobInv
  BY DEF IndexInv, IndexTypeOK, Fetching
<1>3. /\ fetch'.pc = IF fetch.out = fetch.manifest.blob THEN "ok" ELSE "mismatch"
      /\ fetch'.manifest = fetch.manifest /\ fetch'.out = fetch.out
      /\ fetch' \in Fetching
  BY <1>1, <1>2 DEF Fetching
<1>4. fetch.manifest.signed /\ fetch.next \in 1 .. Len(fetch.manifest.chunks) + 1
  BY <1>1, <1>2 DEF BlobInv
<1>5. ASSUME fetch.manifest = Genuine PROVE Beginning(fetch.out) /\ fetch.out = Genuine.blob
  <2>1. PICK n \in Nat : /\ Len(Genuine.chunks) = n /\ Covered(n) = Len(Blob)
    BY ChunksAreAdjacent
  <2>2. fetch.next - 1 = n
    BY <1>1, <1>2, <1>4, <1>5, <2>1 DEF Fetching
  <2>3. fetch.out = SubSeq(Blob, 1, Len(Blob)) /\ Beginning(fetch.out)
    BY <1>1, <1>2, <1>5, <2>1, <2>2 DEF BlobInv
  <2>4. SubSeq(Blob, 1, Len(Blob)) = Blob
    BY IndexAssumption, SubSeqFull
  <2> QED
    BY <2>3, <2>4 DEF Genuine, BuildSignedManifest
<1>6. BlobInv'
  BY <1>3, <1>4, <1>5, BlobInvAfter
<1> QED
  BY <1>1, <1>3, <1>6, BlobAlone

LEMMA CancelStep == ASSUME IndexInv, Cancel PROVE IndexInv'
<1>1. fetch' = [fetch EXCEPT !.pc = "error"] /\ UNCHANGED <<now, sent, slot, index>>
  BY DEF Cancel
<1> QED
  BY <1>1, GivingUp, BlobAlone

LEMMA IndexTickStep == ASSUME IndexInv, Tick PROVE IndexInv'
<1>1. IndexTypeOK /\ EntryWasAnnounced /\ EntryIsLast /\ BlobInv
  BY DEF IndexInv
<1>2. /\ now < MaxTime /\ now' = now + 1
      /\ UNCHANGED <<sent, slot, subscribed, waiting, seen, holders, fetch>>
  BY DEF Tick, index
<1>3. now' \in 1 .. MaxTime /\ now' \in Nat /\ now <= now'
  BY <1>1, <1>2, IndexAssumption DEF IndexTypeOK
<1>4. IndexTypeOK'
  BY <1>1, <1>2, <1>3, Zenon DEF IndexTypeOK
<1> QED
  BY <1>1, <1>2, <1>3, <1>4, EntriesUntouched, FetchUntouched DEF IndexInv

-------------------------------------------------------------------------------
(***************************************************************************)
(* The theorems.                                                           *)
(***************************************************************************)

LEMMA IndexInduction == IndexInv /\ [IndexNext]_indexVars => IndexInv'
<1> SUFFICES ASSUME IndexInv, [IndexNext]_indexVars PROVE IndexInv'
  OBVIOUS
<1>1. ASSUME NEW h \in ContentHash, Announce(h) \/ Withdraw(h) PROVE IndexInv'
  BY <1>1, AnnounceStep
<1>2. ASSUME NEW h \in ContentHash, Holders(h) PROVE IndexInv'
  BY <1>2, HoldersStep
<1>3. CASE PublishTombstone
  BY <1>3, TombstoneStep
<1>4. ASSUME NEW i \in 1 .. MaxAdverts, Take(i) PROVE IndexInv'
  BY <1>4, TakeStep
<1>5. ASSUME NEW i \in 1 .. MaxAdverts, onAdvertRecord(i) PROVE IndexInv'
  BY <1>5, AdvertStep
<1>6. CASE ensureSubscribed
  BY <1>6, SubscribeStep
<1>7. CASE FetchBlob
  <2>1. ASSUME NEW m \in Manifests, FetchManifest(m) PROVE IndexInv'
    BY <2>1, FetchManifestStep
  <2>2. CASE FetchChunk
    BY <2>2, FetchChunkStep
  <2>3. ASSUME NEW n \in 0 .. Len(Blob), WriteFails(n) PROVE IndexInv'
    BY <2>3, WriteFailsStep
  <2>4. CASE Compare
    BY <2>4, CompareStep
  <2>5. CASE Cancel
    BY <2>5, CancelStep
  <2> QED
    BY <1>7, <2>1, <2>2, <2>3, <2>4, <2>5, Zenon DEF FetchBlob
<1>8. CASE Tick
  BY <1>8, IndexTickStep
<1>9. CASE UNCHANGED indexVars
  <2>1. UNCHANGED <<now, sent, slot, index>> /\ fetch' = fetch
    BY <1>9 DEF indexVars, index
  <2>2. fetch' \in Fetching /\ BlobInv'
    BY <2>1, FetchUntouched DEF IndexInv, IndexTypeOK, Fetching
  <2> QED
    BY <2>1, <2>2, BlobAlone
<1> QED
  BY <1>1, <1>2, <1>3, <1>4, <1>5, <1>6, <1>7, <1>8, <1>9, Zenon DEF IndexNext

(* The invariant holds of every reachable state of the index and FetchBlob. *)
THEOREM IndexSafe == IndexSpec => []IndexInv
BY IndexInitially, IndexInduction, PTL DEF IndexSpec

(* The index, the store's slot, the adverts on their way and the FetchBlob *)
(* call keep their types, whatever the blob, the chunk size and the        *)
(* manifests stored.                                                       *)
THEOREM IndexTypes == IndexSpec => []IndexTypeOK
<1>1. IndexInv => IndexTypeOK
  BY DEF IndexInv
<1> QED
  BY <1>1, IndexSafe, PTL

(* Adverts missed, replayed or overtaken: Holders lists a holder only      *)
(* within advertTTL of an announcement of that very hash.                  *)
THEOREM HoldersWereAnnounced == IndexSpec => []ListedWasAnnounced
<1>1. IndexInv => ListedWasAnnounced
  <2> SUFFICES ASSUME IndexInv, NEW h \in ContentHash, Listed(h)
               PROVE  \E a \in Announced(h) : a.expiresAt = holders[h]
    BY DEF ListedWasAnnounced
  <2>1. holders[h] # 0
    BY DEF IndexInv, IndexTypeOK, Listed
  <2> QED
    BY <2>1 DEF IndexInv, EntryWasAnnounced
<1> QED
  BY <1>1, IndexSafe, PTL

(* Finitely many stamps have a greatest. *)
LEMMA LastOfSeen ==
  ASSUME IndexTypeOK, NEW h, AdvertsSeen(h) # {}
  PROVE  LastSeen(h, Max(AdvertsSeen(h)))
<1>1. AdvertsSeen(h) \subseteq 1 .. slot /\ slot \in Nat
  BY SeenTypes, SentTypes, Zenon DEF AdvertsSeen
<1>2. PICK S : S = AdvertsSeen(h)
  OBVIOUS
<1> DEFINE Gaps == {slot - i : i \in S}
<1>3. Gaps # {} /\ Gaps \subseteq Nat
  BY <1>1, <1>2
<1>4. PICK g \in Gaps : \A y \in Nat : <<y, g>> \in OpToRel(<, Nat) => y \notin Gaps
  BY <1>3, NatLessThanWellFounded, WFMin
<1>5. PICK i \in S : g = slot - i
  BY <1>4
<1>6. \A j \in S : j <= i
  <2> SUFFICES ASSUME NEW j \in S, j > i PROVE FALSE
    BY <1>1, <1>2
  <2>1. slot - j \in Gaps /\ g \in Nat
    BY <1>3
  <2>3. slot - j \in Nat /\ slot - j < g
    BY <1>1, <1>2, <1>5
  <2>2. <<slot - j, g>> \in OpToRel(<, Nat)
    BY <2>1, <2>3 DEF OpToRel
  <2> QED
    BY <1>4, <2>1, <2>2, <2>3
<1>7. \A j \in S : i >= j
  BY <1>1, <1>2, <1>6
<1>8. Max(S) \in S /\ \A j \in S : Max(S) >= j
  BY <1>7, Zenon DEF Max
<1>9. \A j \in S : j <= Max(S)
  BY <1>1, <1>2, <1>8
<1> QED
  BY <1>2, <1>8, <1>9, Zenon DEF LastSeen

(* Callbacks run in stamp order: Holders answers what the last advert seen *)
(* for the hash says, and an advert for another hash touches nothing.      *)
THEOREM LastAdvertDecides == IndexSpec => []LastAdvertCounts
<1>1. IndexInv => LastAdvertCounts
  <2> SUFFICES ASSUME IndexInv, InOrder, NEW h \in ContentHash
               PROVE  Listed(h) <=> /\ AdvertsSeen(h) # {}
                                    /\ sent[Max(AdvertsSeen(h))].expiresAt > now
    BY DEF LastAdvertCounts
  <2>1. IndexTypeOK /\ EntryIsLast /\ now \in Nat \ {0}
    BY DEF IndexInv, IndexTypeOK
  <2>2. CASE AdvertsSeen(h) = {}
    BY <2>1, <2>2 DEF EntryIsLast, Listed
  <2>3. CASE AdvertsSeen(h) # {}
    <3>1. PICK i : i = Max(AdvertsSeen(h))
      OBVIOUS
    <3>2. LastSeen(h, i) /\ i \in 1 .. slot
      BY <2>1, <2>3, <3>1, LastOfSeen, SeenTypes, Zenon DEF LastSeen, AdvertsSeen
    <3>3. holders[h] = sent[i].expiresAt \/ (holders[h] = 0 /\ sent[i].expiresAt <= now)
      BY <2>1, <3>2, Zenon DEF EntryIsLast
    <3>4. sent[i].expiresAt \in Nat
      BY <2>1, <3>2, SentTypes
    <3> QED
      BY <2>1, <2>3, <3>1, <3>3, <3>4 DEF Listed
  <2> QED
    BY <2>2, <2>3
<1> QED
  BY <1>1, IndexSafe, PTL

(* FetchBlob returns nil only with the whole blob written, in order; with  *)
(* a manifest of BuildSignedManifest, whatever fails, what was written is  *)
(* a beginning of the blob and the final hash never differs.               *)
THEOREM BlobStaysIntact == IndexSpec => []BlobIntact
<1>1. IndexInv => BlobIntact
  BY DEF IndexInv, BlobInv, BlobIntact, Beginning, Genuine
<1> QED
  BY <1>1, IndexSafe, PTL

===============================================================================
