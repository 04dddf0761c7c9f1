------------------------------ MODULE ContentIndex ------------------------------
(***************************************************************************)
(* Who holds what, and blobs in chunks (content_impl.go, manifest.go).  A  *)
(* holder announces and withdraws hashes; every advert is a record of the  *)
(* same keyless slot of the advert topic.  A fetching node merges those    *)
(* records, hands each one it takes to onAdvertRecord, answers Holders     *)
(* from the index that builds, and reassembles blobs with FetchBlob.       *)
(*                                                                         *)
(* The topic subscription delivers what the store took, on goroutines of   *)
(* its own: two records may reach onAdvertRecord in either order.  SHA-256 *)
(* has no collision here: a hash is the content it addresses.  Fetch is    *)
(* taken from the module ContentFetch, which shows that what it returns    *)
(* verifies against the hash: it needs a listed holder, and may fail.      *)
(***************************************************************************)
EXTENDS Manifest

CONSTANTS
  Blob,        \* bytes of the blob published, a sequence
  ChunkSize,   \* chunk size passed to BuildSignedManifest
  Crooked,     \* further manifests a holder may store
  advertTTL,   \* lifetime of an advert
  MaxTime,     \* bound on the clock
  MaxAdverts   \* bound on the records the holder publishes

Byte == 0 .. 255

(* Whatever a holder stores has the shape of a manifest. *)
ManifestShape == [blob : Seq(Byte), total : Nat, signed : BOOLEAN, chunks : Seq(Seq(Byte))]

Chunk(bytes) == [bytes |-> bytes]
Manifests == {BuildSignedManifest(Blob, ChunkSize)} \cup Crooked
ContentHash == Manifests \cup {Chunk(c) : c \in UNION {Range(m.chunks) : m \in Manifests}}

ASSUME IndexAssumption ==
  /\ ChunkSize \in Nat /\ advertTTL \in Nat \ {0} /\ MaxTime \in Nat \ {0} /\ MaxAdverts \in Nat
  /\ Blob \in Seq(Byte) /\ \A m \in Crooked : m \in ManifestShape

VARIABLES
  now,       \* wall clock of both nodes
  sent,      \* adverts published so far, in stamp order
  slot,      \* stamp the fetching node's store holds for the advert slot
  subscribed,\* the index is subscribed to the topic
  waiting,   \* stamps taken by the store, not yet handed to onAdvertRecord
  seen,      \* stamps handed to onAdvertRecord, in order
  holders,   \* hash -> expiry of the holder's entry, 0 if none
  fetch      \* the FetchBlob call

index == <<subscribed, waiting, seen, holders>>
indexVars == <<now, sent, slot, subscribed, waiting, seen, holders, fetch>>

None == [blob |-> <<>>, total |-> 0, signed |-> FALSE, chunks |-> <<>>]
NoFetch == [pc |-> "idle", manifest |-> None, next |-> 0, out |-> <<>>]

IndexInit ==
  /\ now = 1
  /\ sent = <<>>
  /\ slot = 0
  /\ subscribed = FALSE
  /\ waiting = {}
  /\ seen = <<>>
  /\ holders = [h \in ContentHash |-> 0]
  /\ fetch = NoFetch

-------------------------------------------------------------------------------
(***************************************************************************)
(* The holder.                                                             *)
(***************************************************************************)

(* Announce promises advertTTL from now, Withdraw an expiry already past;  *)
(* a tombstone of the slot (PublishTombstone, SetTenant) names no hash.    *)
Publish(advert) ==
  /\ Len(sent) < MaxAdverts
  /\ sent' = Append(sent, advert)
  /\ UNCHANGED <<now, slot, index, fetch>>

Announce(h) == Publish([hash |-> h, expiresAt |-> now + advertTTL, tombstone |-> FALSE])
Withdraw(h) == Publish([hash |-> h, expiresAt |-> now - 1, tombstone |-> FALSE])
PublishTombstone == Publish([hash |-> None, expiresAt |-> 0, tombstone |-> TRUE])

-------------------------------------------------------------------------------
(***************************************************************************)
(* The index.                                                              *)
(***************************************************************************)

(* The store takes a record newer than the slot's; one it never saw before *)
(* a newer one came is lost to it.  A subscriber is told of what is taken. *)
Take(i) ==
  /\ i \in DOMAIN sent /\ i > slot
  /\ slot' = i
  /\ waiting' = IF subscribed THEN waiting \cup {i} ELSE waiting
  /\ UNCHANGED <<now, sent, subscribed, seen, holders, fetch>>

(* Subscribe, which replays the record the slot holds. *)
ensureSubscribed ==
  /\ ~subscribed
  /\ subscribed' = TRUE
  /\ waiting' = {slot} \ {0}
  /\ UNCHANGED <<now, sent, slot, seen, holders, fetch>>

(* Bug: a withdrawal leaves the entry to its own expiry. *)
BugIndexed(a) ==
  IF a.tombstone \/ a.expiresAt <= now THEN holders
  ELSE [holders EXCEPT ![a.hash] = a.expiresAt]

(* Bug: the lifetime of an advert starts when it arrives. *)
BugIndexedFromNow(a) ==
  IF a.tombstone THEN holders
  ELSE [holders EXCEPT ![a.hash] = IF a.expiresAt <= now THEN 0 ELSE now + advertTTL]

(* The index after an advert: an expired one removes the entry, any other  *)
(* one sets its expiry, whatever the entry said before.                    *)
Indexed(a) ==
  IF a.tombstone THEN holders
  ELSE [holders EXCEPT ![a.hash] = IF a.expiresAt <= now THEN 0 ELSE a.expiresAt]

onAdvertRecord(i) ==
  /\ i \in waiting
  /\ waiting' = waiting \ {i}
  /\ seen' = Append(seen, i)
  /\ holders' = Indexed(sent[i])
  /\ UNCHANGED <<now, sent, slot, subscribed, fetch>>

Listed(h) == holders[h] > now

(* Holders drops the entry it finds expired. *)
Swept(h) == IF Listed(h) THEN holders ELSE [holders EXCEPT ![h] = 0]

Holders(h) ==
  /\ holders' = Swept(h)
  /\ UNCHANGED <<now, sent, slot, subscribed, waiting, seen, fetch>>

-------------------------------------------------------------------------------
(***************************************************************************)
(* FetchBlob.                                                              *)
(***************************************************************************)

(* Fetch starts with Holders; without a listed holder it returns           *)
(* ErrNoHolders, with one it returns the content or an error.              *)
FetchContent(h, Got) ==
  /\ holders' = Swept(h)
  /\ fetch' \in {[fetch EXCEPT !.pc = "error"]} \cup (IF Listed(h) THEN {Got} ELSE {})
  /\ UNCHANGED <<now, sent, slot, subscribed, waiting, seen>>

verifyManifestSig(m) == m.signed

FetchManifest(m) ==
  /\ fetch.pc = "idle"
  /\ FetchContent(m, [fetch EXCEPT !.manifest = m, !.next = 1,
                                   !.pc = IF verifyManifestSig(m) THEN "chunk" ELSE "error"])

(* The chunk is written as soon as it verifies; a write may fail after     *)
(* taking any part of it.                                                  *)
FetchChunk ==
  /\ fetch.pc = "chunk" /\ fetch.next <= Len(fetch.manifest.chunks)
  /\ LET bytes == fetch.manifest.chunks[fetch.next]
     IN FetchContent(Chunk(bytes), [fetch EXCEPT !.next = @ + 1, !.out = @ \o bytes])

WriteFails(n) ==
  /\ fetch.pc = "chunk" /\ fetch.next <= Len(fetch.manifest.chunks)
  /\ LET bytes == fetch.manifest.chunks[fetch.next]
     IN /\ Listed(Chunk(bytes)) /\ n < Len(bytes)
        /\ fetch' = [fetch EXCEPT !.pc = "error", !.out = @ \o SubSeq(bytes, 1, n)]
  /\ UNCHANGED <<now, sent, slot, index>>

(* Bug: the reassembled stream is not hashed. *)
BugCompare ==
  /\ fetch.pc = "chunk" /\ fetch.next > Len(fetch.manifest.chunks)
  /\ fetch' = [fetch EXCEPT !.pc = "ok"]
  /\ UNCHANGED <<now, sent, slot, index>>

(* The running hash against the manifest's. *)
Compare ==
  /\ fetch.pc = "chunk" /\ fetch.next > Len(fetch.manifest.chunks)
  /\ fetch' = [fetch EXCEPT !.pc = IF fetch.out = fetch.manifest.blob THEN "ok"
                                   ELSE "mismatch"]
  /\ UNCHANGED <<now, sent, slot, index>>

(* The context ends between two chunks. *)
Cancel ==
  /\ fetch.pc = "chunk" /\ fetch.next <= Len(fetch.manifest.chunks)
  /\ fetch' = [fetch EXCEPT !.pc = "error"]
  /\ UNCHANGED <<now, sent, slot, index>>

FetchBlob ==
  \/ \E m \in Manifests : FetchManifest(m)
  \/ FetchChunk
  \/ \E n \in 0 .. Len(Blob) : WriteFails(n)
  \/ Compare
  \/ Cancel

Tick ==
  /\ now < MaxTime
  /\ now' = now + 1
  /\ UNCHANGED <<sent, slot, index, fetch>>

IndexNext ==
  \/ \E h \in ContentHash : Announce(h) \/ Withdraw(h) \/ Holders(h)
  \/ PublishTombstone
  \/ \E i \in 1 .. MaxAdverts : Take(i) \/ onAdvertRecord(i)
  \/ ensureSubscribed
  \/ FetchBlob
  \/ Tick

IndexSpec == IndexInit /\ [][IndexNext]_indexVars

-------------------------------------------------------------------------------

Advert == [hash : ContentHash \cup {None}, expiresAt : Nat, tombstone : BOOLEAN]

IndexTypeOK ==
  /\ now \in 1 .. MaxTime
  /\ sent \in Seq(Advert) /\ \A i \in DOMAIN sent : sent[i].tombstone \/ sent[i].hash \in ContentHash
  /\ slot \in 0 .. Len(sent)
  /\ subscribed \in BOOLEAN
  /\ waiting \subseteq 1 .. slot
  /\ seen \in Seq(1 .. slot)
  /\ holders \in [ContentHash -> Nat]
  /\ fetch \in [pc : {"idle", "chunk", "ok", "error", "mismatch"},
               manifest : Manifests \cup {None}, next : Nat, out : Seq(Byte)]

Announced(h) ==
  {a \in Range(sent) : ~a.tombstone /\ a.hash = h}

(* Adverts may be missed, replayed or overtaken, and a withdrawal may      *)
(* reach onAdvertRecord before the announcement it cancels.  A wrong entry *)
(* is bounded all the same: the index lists the holder for a hash only     *)
(* within advertTTL of an announcement of that very hash.                  *)
ListedWasAnnounced ==
  \A h \in ContentHash : Listed(h) => \E a \in Announced(h) : a.expiresAt = holders[h]

InOrder == \A i, j \in DOMAIN seen : i < j => seen[i] < seen[j]

AdvertsSeen(h) == {i \in Range(seen) : ~sent[i].tombstone /\ sent[i].hash = h}

(* As long as the callbacks ran in stamp order, Holders answers for a hash *)
(* what the last advert seen for that hash says: a withdrawal or an expiry *)
(* takes effect at once, an announcement renews an entry, and an advert    *)
(* for another hash, though it replaced the record, touches nothing.       *)
LastAdvertCounts ==
  InOrder =>
    \A h \in ContentHash :
      Listed(h) <=> AdvertsSeen(h) # {} /\ sent[Max(AdvertsSeen(h))].expiresAt > now

(* FetchBlob returns nil only if the writer received the blob the signed   *)
(* manifest names, whole and in order; for a manifest of                   *)
(* BuildSignedManifest the writer never receives anything but a beginning  *)
(* of the blob, and the call never ends in ErrHashMismatch.                *)
BlobIntact ==
  /\ fetch.pc = "ok" => fetch.out = fetch.manifest.blob /\ fetch.manifest.signed
  /\ fetch.manifest = BuildSignedManifest(Blob, ChunkSize) =>
       /\ Len(fetch.out) <= Len(Blob) /\ fetch.out = SubSeq(Blob, 1, Len(fetch.out))
       /\ fetch.pc # "mismatch"

===============================================================================
