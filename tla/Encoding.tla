-------------------------------- MODULE Encoding --------------------------------
(***************************************************************************)
(* What a node signs and what a peer lets in: the canonical bytes of       *)
(* records and manifests (sig.go), NodeIDs as hex keys, the wire encoding  *)
(* (codec.go), the inbound gate (harden.go), the publishing operations     *)
(* that feed them (node.go) and the topic names (topics.go).               *)
(*                                                                         *)
(* A job is one call with its inputs: a publication by an author, followed *)
(* to the gate of a peer; a manifest to build; a topic to name.  Widths    *)
(* are scaled: a byte is two digits of radix Radix, every integer field is *)
(* one byte and a length wraps in it, a public key is one byte.  A         *)
(* signature is the key that made it and the bytes it covers.  A stamp is  *)
(* its wall part.                                                          *)
(***************************************************************************)
EXTENDS Manifest, SequencesExt

CONSTANTS
  Radix,                     \* of a hex digit
  defaultMaxRecordBytes,     \* 16384
  defaultMaxSkew,            \* ten minutes
  Jobs                       \* the calls to follow

Base == Radix * Radix
PublicKeySize == 1
MaxKeyBytes == Base - 1

Byte == 0 .. Base - 1
Bytes == Seq(Byte)

ASSUME EncodingAssumption ==
  /\ Radix \in Nat \ {0, 1}
  /\ defaultMaxRecordBytes \in 1 .. Base - 1
  /\ defaultMaxSkew \in Nat \ {0}

VARIABLES job, rec, stage

vars == <<job, rec, stage>>

Init == job \in Jobs /\ rec = <<>> /\ stage = "call"

-------------------------------------------------------------------------------
(***************************************************************************)
(* NodeIDs.  Characters below Radix are the canonical digits; those from   *)
(* Radix on, as many as there are letters among the digits, are the upper  *)
(* case of the last digits; any other character is no digit.               *)
(***************************************************************************)

Letters == 1
hexNibble(c) ==
  CASE c < Radix -> c
    [] c \in Radix .. Radix + Letters - 1 -> c - Letters
    [] OTHER -> -1

nodeIDFromPub(pub) == FlattenSeq([i \in DOMAIN pub |-> <<pub[i] \div Radix, pub[i] % Radix>>])

NoKey == <<>>
pubFromNodeID(id) ==
  IF Len(id) # 2 * PublicKeySize \/ \E i \in DOMAIN id : hexNibble(id[i]) < 0 THEN NoKey
  ELSE [i \in 1 .. PublicKeySize |-> hexNibble(id[2 * i - 1]) * Radix + hexNibble(id[2 * i])]

-------------------------------------------------------------------------------
(***************************************************************************)
(* Canonical bytes.                                                        *)
(***************************************************************************)

Uint(n) == <<n % Base>>
Prefixed(s) == Uint(Len(s)) \o s

(* The key comes last and only if there is one. *)
signableBytes(r) ==
  Prefixed(r.topic) \o r.node \o Uint(r.hlc) \o Uint(IF r.tombstone THEN 1 ELSE 0)
    \o Prefixed(r.body) \o r.pub \o Prefixed(r.observer) \o Uint(r.observedAt)
    \o (IF r.key = <<>> THEN <<>> ELSE Prefixed(r.key))

Hash(bytes) == Uint(FoldSeq(+, Len(bytes), bytes))

signableManifestBytes(m) ==
  m.blobHash \o Uint(m.totalSize) \o Uint(m.chunkSize)
    \o Uint(Len(m.chunks)) \o FlattenSeq(m.chunks)
    \o Prefixed(m.filename) \o Prefixed(m.mime)
    \o Uint(m.publishedAt) \o Prefixed(m.publisher)

Sign(priv, bytes) == [by |-> priv, over |-> bytes]

signRecord(r, priv) ==
  LET keyed == [r EXCEPT !.pub = priv]
  IN [keyed EXCEPT !.sig = Sign(priv, signableBytes(keyed))]

verifyRecord(r, pub) == r.sig = Sign(pub, signableBytes(r))

(* The exported verifier takes the key from the NodeID. *)
VerifyRecord(r) ==
  LET pub == pubFromNodeID(r.node)
  IN pub # NoKey /\ r.pub \in {<<>>, pub} /\ verifyRecord(r, pub)

-------------------------------------------------------------------------------
(***************************************************************************)
(* Publishing: New's defaults, then one of the three operations.           *)
(***************************************************************************)

AuthorID == IF job.author.id = <<>> THEN nodeIDFromPub(job.author.priv) ELSE job.author.id
MaxRecordBytes(n) == IF n <= 0 THEN defaultMaxRecordBytes ELSE n

Blank ==
  [topic |-> <<>>, node |-> <<>>, key |-> <<>>, hlc |-> 0, body |-> <<>>,
   tombstone |-> FALSE, pub |-> <<>>, sig |-> <<>>, observer |-> <<>>, observedAt |-> 0]

Signed(r) == rec' = signRecord(r, job.author.priv) /\ stage' = "signed" /\ UNCHANGED job
Refused(why) == stage' = why /\ UNCHANGED <<job, rec>>

(* Bug: the length of the key is not tested. *)
BugPublishKeyed ==
  /\ stage = "call" /\ job.op = "publish"
  /\ IF Len(job.body) > MaxRecordBytes(job.author.maxBytes)
     THEN Refused("too large")
     ELSE Signed([Blank EXCEPT !.topic = job.topic, !.node = AuthorID, !.key = job.key,
                               !.hlc = job.hlc, !.body = job.body])

PublishKeyed ==
  /\ stage = "call" /\ job.op = "publish"
  /\ IF Len(job.body) > MaxRecordBytes(job.author.maxBytes) \/ Len(job.key) > MaxKeyBytes
     THEN Refused("too large")
     ELSE Signed([Blank EXCEPT !.topic = job.topic, !.node = AuthorID, !.key = job.key,
                               !.hlc = job.hlc, !.body = job.body])

PublishKeyedTombstone ==
  /\ stage = "call" /\ job.op = "tombstone"
  /\ IF Len(job.key) > MaxKeyBytes
     THEN Refused("too large")
     ELSE Signed([Blank EXCEPT !.topic = job.topic, !.node = AuthorID, !.key = job.key,
                               !.hlc = job.hlc, !.tombstone = TRUE])

PublishObserverTombstone ==
  /\ stage = "call" /\ job.op = "observe"
  /\ IF job.target \in {<<>>, AuthorID}
     THEN Refused("no target")
     ELSE Signed([Blank EXCEPT !.topic = job.topic, !.node = job.target, !.hlc = job.hlc,
                               !.tombstone = TRUE, !.observer = AuthorID,
                               !.observedAt = job.hlc])

-------------------------------------------------------------------------------
(***************************************************************************)
(* The wire and the peer.                                                  *)
(***************************************************************************)

(* Protobuf strings must be UTF-8; the last byte value stands for bytes    *)
(* that are not.  Topic and key are strings, all else is bytes or numbers. *)
Encodable(r) == Base - 1 \notin ToSet(r.topic) \cup ToSet(r.key)

encodeFrame ==
  /\ stage = "signed" /\ job.op \in {"publish", "tombstone", "observe"}
  /\ stage' = IF Encodable(rec) THEN "wire" ELSE "unsent"
  /\ UNCHANGED <<job, rec>>

IsObserverAttestation(r) == r.tombstone /\ r.observer # <<>>

(* Bug: the target of an attestation is bound to the observer's key. *)
BugBindID(r) == r.node

BindID(r) == IF IsObserverAttestation(r) THEN r.observer ELSE r.node

maxSkew(gate) == IF gate.skew <= 0 THEN defaultMaxSkew ELSE gate.skew

(* The reason Admit rejects r for; now is the peer's wall clock. *)
Admit(gate, r) ==
  CASE Len(r.key) > MaxKeyBytes -> "size"
    [] gate.maxBytes > 0 /\ Len(r.body) > gate.maxBytes -> "size"
    [] r.hlc > gate.now + maxSkew(gate) -> "skew"
    [] gate.binding /\ (Len(r.pub) # PublicKeySize \/ BindID(r) # nodeIDFromPub(r.pub))
         -> "binding"
    [] ~gate.trusts -> "trust"
    [] OTHER -> "admitted"

handleEager ==
  /\ stage = "wire"
  /\ stage' = IF Len(rec.pub) # PublicKeySize \/ ~verifyRecord(rec, rec.pub) THEN "forged"
              ELSE Admit(job.gate, rec)
  /\ UNCHANGED <<job, rec>>

-------------------------------------------------------------------------------
(***************************************************************************)
(* Manifests and topic names.                                              *)
(***************************************************************************)

(* BuildSignedManifest at the level of bytes. *)
BuildManifest ==
  /\ stage = "call" /\ job.op = "manifest"
  /\ LET built == BuildSignedManifest(job.body, job.size)
     IN rec' = [blobHash |-> Hash(job.body), totalSize |-> built.total, chunkSize |-> EffectiveSize(job.size),
                chunks |-> [i \in DOMAIN built.chunks |-> Hash(built.chunks[i])],
                filename |-> job.filename, mime |-> <<>>, publishedAt |-> 1,
                publisher |-> nodeIDFromPub(<<0>>)]
  /\ stage' = "signed"
  /\ UNCHANGED job

(* The helpers that take a tenant, and those that take a qualifier too. *)
TenantTopic ==
  [AgentPolicyTopic |-> "agent.policy.", AgentTrustTopic |-> "agent.trust.",
   AgentKeysTopic |-> "agent.keys.", AgentBlocklistsTopic |-> "agent.blocklists.",
   AgentAssetsTopic |-> "agent.assets.", AgentVouchersTopic |-> "agent.vouchers.",
   AgentTUFMetaTopic |-> "agent.tuf-meta.", AgentOSQueryPacksTopic |-> "agent.osquery-packs.",
   AgentLiveQueryCacheTopic |-> "agent.livequery-cache.",
   AgentForensicIndexTopic |-> "agent.forensic-index.",
   AgentContentAdvertTopic |-> "agent.content.advert.", AgentDDNSTopic |-> "agent.ddns.",
   AgentQuarantineTopic |-> "agent.quarantine.",
   AgentDiscoveredAssetsTopic |-> "agent.discovered-assets.",
   AgentPrintersTopic |-> "agent.printers.", AgentServiceStateTopic |-> "agent.service-state.",
   AgentInventoryDeltasTopic |-> "agent.inventory-deltas.",
   AgentRevokedKeysTopic |-> "agent.revoked-keys.", AgentTrustPinsTopic |-> "agent.trust-pins.",
   AgentIntegrityAlertTopic |-> "agent.integrity-alert.",
   AgentRemoteSessionsTopic |-> "agent.remote-sessions.",
   AgentTunnelsTopic |-> "agent.tunnels.", AgentHealthTopic |-> "agent.health.",
   AgentThreatSignalTopic |-> "agent.threat-signal.", AgentDNSCacheTopic |-> "agent.dns-cache."]

QualifiedTopic ==
  [AgentRulesTopic |-> "agent.rules.", AgentDriversTopic |-> "agent.drivers.",
   AgentFIMBaselinesTopic |-> "agent.fim-baselines.", AgentDHCPTopic |-> "agent.dhcp.",
   AgentTLSPinsTopic |-> "agent.tls-pins.", AgentSessionTopic |-> "agent.session.",
   AgentConsentTopic |-> "agent.consent.", AgentEventTopic |-> "agent.event."]

Digits == <<"0", "1", "2", "3", "4", "5", "6", "7", "8", "9">>

(* Decimal digits, least significant first in the loop, written backwards. *)
uint64ToDec(v) ==
  LET dec[n \in Nat] ==
        IF n = 0 THEN <<>> ELSE Append(dec[n \div 10], Digits[(n % 10) + 1])
  IN IF v = 0 THEN <<"0">> ELSE dec[v]

(* Bug: nothing between tenant and qualifier. *)
BugTopicName(helper, tenant, arg) ==
  CASE helper \in DOMAIN TenantTopic -> <<TenantTopic[helper]>> \o tenant
    [] helper \in DOMAIN QualifiedTopic -> <<QualifiedTopic[helper]>> \o tenant \o arg
    [] helper = "AgentNetworkPSKTopic" ->
         <<"agent.network-psk.">> \o tenant \o <<".">> \o uint64ToDec(arg)

(* A topic is a prefix followed by characters. *)
TopicName(helper, tenant, arg) ==
  CASE helper \in DOMAIN TenantTopic -> <<TenantTopic[helper]>> \o tenant
    [] helper \in DOMAIN QualifiedTopic ->
         <<QualifiedTopic[helper]>> \o tenant \o <<".">> \o arg
    [] helper = "AgentNetworkPSKTopic" ->
         <<"agent.network-psk.">> \o tenant \o <<".">> \o uint64ToDec(arg)

NameTopic ==
  /\ stage = "call" /\ job.op = "topic"
  /\ rec' = TopicName(job.helper, job.tenant, job.arg)
  /\ stage' = "signed"
  /\ UNCHANGED job

Next ==
  \/ PublishKeyed \/ PublishKeyedTombstone \/ PublishObserverTombstone
  \/ encodeFrame \/ handleEager
  \/ BuildManifest \/ NameTopic

Spec == Init /\ [][Next]_vars

-------------------------------------------------------------------------------
(***************************************************************************)
(* Reference readers: what a reader of the documented layouts recovers.    *)
(***************************************************************************)

At(b, i) == IF i \in DOMAIN b THEN b[i] ELSE 0
Piece(b, i, n) == [j \in 1 .. n |-> At(b, i + j - 1)]

ReadRecord(b, idLen) ==
  LET n == 2 + At(b, 1)                          \* the NodeID starts here
      h == n + idLen                             \* the stamp
      p == h + 3 + At(b, h + 2)                  \* the public key
      o == p + PublicKeySize                     \* the observer
      a == o + 1 + At(b, o)                      \* the time of observation
  IN [topic |-> Piece(b, 2, n - 2), node |-> Piece(b, n, idLen), hlc |-> At(b, h),
      tombstone |-> At(b, h + 1) = 1, body |-> Piece(b, h + 3, p - h - 3),
      pub |-> Piece(b, p, PublicKeySize), observer |-> Piece(b, o + 1, a - o - 1),
      observedAt |-> At(b, a), key |-> Piece(b, a + 2, At(b, a + 1)),
      size |-> a + (IF Len(b) = a THEN 0 ELSE 1 + At(b, a + 1))]

ReadManifest(b) ==
  LET f == 5 + At(b, 4)                          \* the file name starts here
      m == f + 1 + At(b, f)                      \* the MIME type
      t == m + 1 + At(b, m)                      \* the time of publication
  IN [blobHash |-> Piece(b, 1, 1), totalSize |-> At(b, 2), chunkSize |-> At(b, 3),
      chunks |-> [i \in 1 .. At(b, 4) |-> Piece(b, 4 + i, 1)],
      filename |-> Piece(b, f + 1, m - f - 1), mime |-> Piece(b, m + 1, t - m - 1),
      publishedAt |-> At(b, t), publisher |-> Piece(b, t + 2, At(b, t + 1))]

Prefix(helper) ==
  CASE helper \in DOMAIN TenantTopic -> TenantTopic[helper]
    [] helper \in DOMAIN QualifiedTopic -> QualifiedTopic[helper]
    [] OTHER -> "agent.network-psk."
Helpers == DOMAIN TenantTopic \cup DOMAIN QualifiedTopic \cup {"AgentNetworkPSKTopic"}

Dots(t) == {i \in DOMAIN t : t[i] = "."}
Value(digits) ==
  FoldLeft(LAMBDA v, d : 10 * v + (CHOOSE k \in 0 .. 9 : Digits[k + 1] = d), 0, digits)

ReadTopic(t) ==
  LET helper == CHOOSE h \in Helpers : Prefix(h) = t[1]
      end == IF helper \in DOMAIN TenantTopic THEN Len(t) + 1 ELSE Min(Dots(t) \cup {Len(t) + 1})
      rest == SubSeq(t, end + 1, Len(t))
  IN [helper |-> helper, tenant |-> SubSeq(t, 2, end - 1),
      arg |-> IF helper = "AgentNetworkPSKTopic" THEN Value(rest) ELSE rest]

-------------------------------------------------------------------------------

IsRecord == job.op \in {"publish", "tombstone", "observe"}
Judged == stage \in {"forged", "size", "skew", "binding", "trust", "admitted"}

TypeOK ==
  /\ job \in Jobs
  /\ stage \in {"call", "too large", "no target", "signed", "unsent", "wire"} \/ Judged
  /\ IsRecord /\ rec # <<>> => rec.sig.over \in Bytes /\ rec.node \in Bytes
  /\ job.op = "manifest" /\ rec # <<>> => signableManifestBytes(rec) \in Bytes

Covered == {"topic", "node", "key", "hlc", "body", "tombstone", "pub", "observer", "observedAt"}

(* "The conditional suffix is still unambiguous": the bytes a record is    *)
(* signed over determine every field the signature covers, the key, its    *)
(* absence and the observer included, for NodeIDs of one length and every  *)
(* key PublishKeyed lets through; no field can be relabelled under the     *)
(* same signature.                                                         *)
SignedBytesReadBack ==
  IsRecord /\ rec # <<>> =>
    LET b == rec.sig.over
        read == ReadRecord(b, Len(rec.node))
    IN read.size = Len(b) /\ \A f \in Covered : read[f] = rec[f]

(* The same for what a manifest is signed over, as long as its sizes fit   *)
(* their fields, and for topic names: helper, tenant and qualifier are     *)
(* determined by the topic if the tenant has no dot, though a qualifier    *)
(* (a domain) may, so no two tenants share a topic.                        *)
NamesReadBack ==
  /\ job.op = "manifest" /\ rec # <<>> /\ Len(job.body) < Base =>
       ReadManifest(signableManifestBytes(rec)) = rec
  /\ job.op = "topic" /\ rec # <<>> =>
       ReadTopic(rec) = [helper |-> job.helper, tenant |-> job.tenant, arg |-> job.arg]

(* ChunkBlob loses nothing: the chunks are the body, every chunk but the   *)
(* last is full and none is empty, for any body and any chunk size.        *)
ChunksCoverBody ==
  job.op = "manifest" =>
    LET size == EffectiveSize(job.size)
        chunks == ChunkBlob(job.body, size)
    IN /\ FlattenSeq(chunks) = job.body
       /\ \A i \in DOMAIN chunks :
            IF i < Len(chunks) THEN Len(chunks[i]) = size ELSE Len(chunks[i]) \in 1 .. size

(* What an honest node publishes others accept.  Beyond the trust hook, a  *)
(* peer rejects a record that was published without error only for a stamp *)
(* out of its skew, a body over its own smaller limit, or, with binding    *)
(* required, an author whose NodeID is not the hex of its key; the three   *)
(* publishing operations and the gate test the same bounds.  VerifyRecord, *)
(* "stricter than the internal path", accepts exactly the records whose    *)
(* NodeID spells the key that signed them, in either case of hex, so every *)
(* owner record of a node that left its NodeID to New.                     *)
PublishedIsAdmitted ==
  /\ Judged =>
       \/ stage = "admitted"
       \/ stage = "trust" /\ ~job.gate.trusts
       \/ stage = "skew" /\ rec.hlc > job.gate.now + maxSkew(job.gate)
       \/ stage = "size" /\ job.gate.maxBytes < MaxRecordBytes(job.author.maxBytes)
       \/ stage = "binding" /\ AuthorID # nodeIDFromPub(job.author.priv)
  /\ IsRecord /\ rec # <<>> =>
       /\ VerifyRecord(rec) <=> pubFromNodeID(rec.node) = job.author.priv
       /\ job.author.id = <<>> /\ rec.observer = <<>> => VerifyRecord(rec)

===============================================================================
