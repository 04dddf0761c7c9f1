------------------------------- MODULE Delivery -------------------------------
(***************************************************************************)
(* How an applied record reaches a subscriber of its topic (node.go):      *)
(* local publishers and inbound handlers apply records to the store and    *)
(* fan them out through recordAccepted, while Subscribe registers a gate,  *)
(* replays a snapshot of the store and drains what the gate queued.  The   *)
(* store's lock, the subscription table's lock and the gate's lock are     *)
(* taken one after the other, never together, so each critical section is  *)
(* one step and anything may happen in between.                            *)
(*                                                                         *)
(* A record is its slot and its stamp.  The merge is HLC-max; local stamps *)
(* come from the node's HLC and are unique.  SetTenant runs beside it all  *)
(* and tombstones the node's own slots.  delivered is a history: the       *)
(* records handed to the subscriber, in order.                             *)
(***************************************************************************)
EXTENDS Integers, Sequences, Functions

CONSTANTS
  LocalPublisher,  \* goroutines calling PublishKeyed on this node
  Receiver,        \* goroutines running an inbound handler
  Tenant,          \* the goroutine calling SetTenant
  OwnSlot,         \* slots of this node
  RemoteRecord,    \* signed records of other nodes on the wire
  MaxStamp         \* bound on the stamps the HLC issues

Worker == LocalPublisher \cup Receiver \cup {Tenant}
Slot == OwnSlot \cup {r.slot : r \in RemoteRecord}
Record == [slot : OwnSlot, hlc : 1 .. MaxStamp] \cup RemoteRecord

ASSUME DeliveryAssumption ==
  /\ LocalPublisher \cap Receiver = {} /\ Tenant \notin LocalPublisher \cup Receiver
  /\ MaxStamp \in Nat
  /\ RemoteRecord \subseteq [slot : Slot \ OwnSlot, hlc : Nat \ {0}]

VARIABLES
  slots,      \* the store: stamp held by each slot, 0 if empty
  stamp,      \* last stamp the node's HLC issued
  tenant,     \* the SetTenant call, see TenantCall
  wpc,        \* worker control: see WorkerStates
  rec,        \* the record a worker carries
  spc,        \* Subscribe control: see SubscribeStates
  registered, \* the gate is in the subscription table
  replaying,  \* subGate.replaying
  queue,      \* subGate.queue
  snapshot,   \* records of the snapshot not replayed yet
  replayed,   \* stamp replayed per slot, 0 if none
  batch,      \* records of the current drain round
  delivered

store == <<slots, stamp, tenant>>
gate == <<spc, registered, replaying, snapshot, replayed, batch>>
vars == <<slots, stamp, tenant, wpc, rec, spc, registered, replaying, queue, snapshot,
          replayed, batch, delivered>>

(* idle; stamped: a local record is signed; accepted: in recordAccepted;   *)
(* holding: the callbacks were copied; open: the gate was found open;      *)
(* inside: in the subscriber.                                              *)
WorkerStates == {"idle", "stamped", "accepted", "holding", "open", "inside"}

(* none; registered; replay: handing over the snapshot; drain: handing     *)
(* over a batch; live: Subscribe has returned; gone: unsubscribed.         *)
SubscribeStates == {"none", "registered", "replay", "drain", "live", "gone"}

(* swap: the last stamp issued when the tenant changed; mine: the slots of *)
(* the snapshot, todo those not retired yet; tombs: stamps of tombstones.  *)
TenantCall ==
  [pc : {"idle", "swapped", "retire", "done"}, swap : 0 .. MaxStamp,
   mine : SUBSET OwnSlot, todo : SUBSET OwnSlot, tombs : SUBSET (1 .. MaxStamp)]

NoRec == [slot |-> "none", hlc |-> 0]

Init ==
  /\ slots = [s \in Slot |-> 0]
  /\ stamp = 0
  /\ tenant = [pc |-> "idle", swap |-> 0, mine |-> {}, todo |-> {}, tombs |-> {}]
  /\ wpc = [w \in Worker |-> "idle"]
  /\ rec = [w \in Worker |-> NoRec]
  /\ spc = "none"
  /\ registered = FALSE
  /\ replaying = TRUE
  /\ queue = <<>>
  /\ snapshot = {}
  /\ replayed = [s \in Slot |-> 0]
  /\ batch = <<>>
  /\ delivered = <<>>

-------------------------------------------------------------------------------
(***************************************************************************)
(* Workers.                                                                *)
(***************************************************************************)

(* PublishKeyed up to signRecord. *)
SignRecord(w, s) ==
  /\ w \in LocalPublisher /\ wpc[w] = "idle" /\ stamp < MaxStamp
  /\ stamp' = stamp + 1
  /\ rec' = [rec EXCEPT ![w] = [slot |-> s, hlc |-> stamp + 1]]
  /\ wpc' = [wpc EXCEPT ![w] = "stamped"]
  /\ UNCHANGED <<slots, tenant, gate, queue, delivered>>

Take(r) == slots' = [slots EXCEPT ![r.slot] = r.hlc]

(* plumtrees.Publish returns nothing: PublishKeyed goes on to              *)
(* recordAccepted whether or not the store took the record.                *)
ApplyLocal(w) ==
  /\ w \in LocalPublisher /\ wpc[w] = "stamped"
  /\ IF rec[w].hlc > slots[rec[w].slot] THEN Take(rec[w]) ELSE UNCHANGED slots
  /\ wpc' = [wpc EXCEPT ![w] = "accepted"]
  /\ UNCHANGED <<stamp, tenant, rec, gate, queue, delivered>>

(* handleEager and HandleRange reach recordAccepted only for a record the  *)
(* store took; any other reception leaves this state alone.                *)
ApplyRemote(w, r) ==
  /\ w \in Receiver /\ wpc[w] = "idle"
  /\ r.hlc > slots[r.slot]
  /\ Take(r)
  /\ rec' = [rec EXCEPT ![w] = r]
  /\ wpc' = [wpc EXCEPT ![w] = "accepted"]
  /\ UNCHANGED <<stamp, tenant, gate, queue, delivered>>

(***************************************************************************)
(* SetTenant: the Swap, a snapshot of the node's own slots under the read  *)
(* lock, then a tombstone for each slot, stamped one by one, and fanned    *)
(* out only if the store took it.                                          *)
(***************************************************************************)

SwapTenant ==
  /\ tenant.pc = "idle"
  /\ tenant' = [tenant EXCEPT !.pc = "swapped", !.swap = stamp]
  /\ UNCHANGED <<slots, stamp, wpc, rec, gate, queue, delivered>>

SnapshotOwn ==
  /\ tenant.pc = "swapped"
  /\ LET mine == {s \in OwnSlot : slots[s] # 0}
     IN tenant' = [tenant EXCEPT !.pc = "retire", !.mine = mine, !.todo = mine]
  /\ UNCHANGED <<slots, stamp, wpc, rec, gate, queue, delivered>>

(* Bug: the tombstone carries the stamp of the record it retires. *)
BugSignTombstone(s) ==
  /\ tenant.pc = "retire" /\ wpc[Tenant] = "idle" /\ s \in tenant.todo
  /\ tenant' = [tenant EXCEPT !.todo = @ \ {s}]
  /\ rec' = [rec EXCEPT ![Tenant] = [slot |-> s, hlc |-> slots[s]]]
  /\ wpc' = [wpc EXCEPT ![Tenant] = "stamped"]
  /\ UNCHANGED <<slots, stamp, gate, queue, delivered>>

SignTombstone(s) ==
  /\ tenant.pc = "retire" /\ wpc[Tenant] = "idle" /\ s \in tenant.todo
  /\ stamp < MaxStamp
  /\ stamp' = stamp + 1
  /\ tenant' = [tenant EXCEPT !.todo = @ \ {s}, !.tombs = @ \cup {stamp + 1}]
  /\ rec' = [rec EXCEPT ![Tenant] = [slot |-> s, hlc |-> stamp + 1]]
  /\ wpc' = [wpc EXCEPT ![Tenant] = "stamped"]
  /\ UNCHANGED <<slots, gate, queue, delivered>>

ApplyTombstone ==
  /\ wpc[Tenant] = "stamped"
  /\ IF rec[Tenant].hlc > slots[rec[Tenant].slot]
     THEN Take(rec[Tenant]) /\ wpc' = [wpc EXCEPT ![Tenant] = "accepted"]
     ELSE UNCHANGED slots /\ wpc' = [wpc EXCEPT ![Tenant] = "idle"]
  /\ UNCHANGED <<stamp, tenant, rec, gate, queue, delivered>>

TenantReturns ==
  /\ tenant.pc = "retire" /\ tenant.todo = {} /\ wpc[Tenant] = "idle"
  /\ tenant' = [tenant EXCEPT !.pc = "done"]
  /\ UNCHANGED <<slots, stamp, wpc, rec, gate, queue, delivered>>

SetTenant ==
  \/ SwapTenant \/ SnapshotOwn \/ ApplyTombstone \/ TenantReturns
  \/ \E s \in OwnSlot : SignTombstone(s)

-------------------------------------------------------------------------------
(***************************************************************************)
(* The way to the subscribers.                                             *)
(***************************************************************************)

(* OnAccepted, then deliverToSubs copies the callbacks under subsMu. *)
CopyCallbacks(w) ==
  /\ wpc[w] = "accepted"
  /\ wpc' = [wpc EXCEPT ![w] = IF registered THEN "holding" ELSE "idle"]
  /\ UNCHANGED <<store, rec, gate, queue, delivered>>

(* subGate.deliver: queue behind the replay, or go on to the subscriber. *)
EnterGate(w) ==
  /\ wpc[w] = "holding"
  /\ IF replaying
     THEN /\ queue' = Append(queue, rec[w])
          /\ wpc' = [wpc EXCEPT ![w] = "idle"]
     ELSE /\ wpc' = [wpc EXCEPT ![w] = "open"]
          /\ UNCHANGED queue
  /\ UNCHANGED <<store, rec, gate, delivered>>

CallSubscriber(w) ==
  /\ wpc[w] = "open"
  /\ delivered' = Append(delivered, rec[w])
  /\ wpc' = [wpc EXCEPT ![w] = "inside"]
  /\ UNCHANGED <<store, rec, gate, queue>>

SubscriberReturns(w) ==
  /\ wpc[w] = "inside"
  /\ wpc' = [wpc EXCEPT ![w] = "idle"]
  /\ UNCHANGED <<store, rec, gate, queue, delivered>>

WorkerStep(w) ==
  \/ ApplyLocal(w) \/ CopyCallbacks(w) \/ EnterGate(w)
  \/ CallSubscriber(w) \/ SubscriberReturns(w)

-------------------------------------------------------------------------------
(***************************************************************************)
(* Subscribe, finishReplay and the unsubscribe closure.                    *)
(***************************************************************************)

Register ==
  /\ spc = "none"
  /\ registered' = TRUE
  /\ spc' = "registered"
  /\ UNCHANGED <<store, wpc, rec, replaying, queue, snapshot, replayed, batch,
                 delivered>>

TakeSnapshot ==
  /\ spc = "registered"
  /\ snapshot' = {[slot |-> s, hlc |-> slots[s]] : s \in {x \in Slot : slots[x] # 0}}
  /\ spc' = "replay"
  /\ UNCHANGED <<store, wpc, rec, registered, replaying, queue, replayed, batch,
                 delivered>>

(* One record of the snapshot; its order does not matter here. *)
ReplayOne(r) ==
  /\ spc = "replay" /\ r \in snapshot
  /\ snapshot' = snapshot \ {r}
  /\ replayed' = [replayed EXCEPT ![r.slot] = r.hlc]
  /\ delivered' = Append(delivered, r)
  /\ UNCHANGED <<store, wpc, rec, spc, registered, replaying, queue, batch>>

(* Bug: the gate opens when the batch is taken, before it is handed over. *)
BugOpenBeforeDrain ==
  /\ spc \in {"replay", "drain"}
  /\ snapshot = {} /\ batch = <<>>
  /\ replaying' = FALSE
  /\ batch' = queue /\ queue' = <<>>
  /\ spc' = IF queue = <<>> THEN "live" ELSE "drain"
  /\ UNCHANGED <<store, wpc, rec, registered, snapshot, replayed, delivered>>

(* Bug: the loop tests for an empty queue only after a batch. *)
BugAwaitFirstBatch ==
  /\ spc = "drain" \/ (spc = "replay" /\ queue # <<>>)
  /\ snapshot = {} /\ batch = <<>>
  /\ batch' = queue /\ queue' = <<>>
  /\ replaying' = (queue # <<>>)
  /\ spc' = IF queue = <<>> THEN "live" ELSE "drain"
  /\ UNCHANGED <<store, wpc, rec, registered, snapshot, replayed, delivered>>

(* finishReplay under the lock, the previous batch handed over: take the   *)
(* next batch, or open the gate when there is none.                        *)
NextBatch ==
  /\ spc \in {"replay", "drain"}
  /\ snapshot = {} /\ batch = <<>>
  /\ IF queue # <<>>
     THEN /\ batch' = queue /\ queue' = <<>>
          /\ spc' = "drain"
          /\ UNCHANGED replaying
     ELSE /\ replaying' = FALSE
          /\ spc' = "live"
          /\ UNCHANGED <<batch, queue>>
  /\ UNCHANGED <<store, wpc, rec, registered, snapshot, replayed, delivered>>

(* Bug: replayed stamps are remembered per node, not per slot. *)
BugCoveredByNode(r) == \E s \in Slot : r.hlc <= replayed[s]

(* Bug: an equal stamp counts as newer. *)
BugCoveredStrict(r) == r.hlc < replayed[r.slot]

(* Same slot, not newer than what was replayed. *)
Covered(r) == replayed[r.slot] # 0 /\ r.hlc <= replayed[r.slot]

DrainOne ==
  /\ spc = "drain" /\ batch # <<>>
  /\ batch' = Tail(batch)
  /\ delivered' = IF Covered(Head(batch)) THEN delivered ELSE Append(delivered, Head(batch))
  /\ UNCHANGED <<store, wpc, rec, spc, registered, replaying, queue, snapshot, replayed>>

unsubscribe ==
  /\ spc = "live"
  /\ registered' = FALSE
  /\ spc' = "gone"
  /\ UNCHANGED <<store, wpc, rec, replaying, queue, snapshot, replayed, batch,
                 delivered>>

SubscribeStep ==
  Register \/ TakeSnapshot \/ (\E r \in snapshot : ReplayOne(r)) \/ NextBatch \/ DrainOne

Next ==
  \/ \E w \in Worker :
       \/ \E s \in OwnSlot : SignRecord(w, s)
       \/ \E r \in RemoteRecord : ApplyRemote(w, r)
       \/ WorkerStep(w)
  \/ SetTenant
  \/ SubscribeStep
  \/ unsubscribe

Spec == Init /\ [][Next]_vars

(* Goroutines keep running; subscribers return (their documented contract). *)
FairSpec ==
  /\ Spec
  /\ \A w \in Worker : WF_vars(WorkerStep(w))
  /\ WF_vars(SubscribeStep)

-------------------------------------------------------------------------------

TypeOK ==
  /\ slots \in [Slot -> Nat]
  /\ stamp \in 0 .. MaxStamp /\ tenant \in TenantCall
  /\ wpc \in [Worker -> WorkerStates]
  /\ rec \in [Worker -> Record \cup {NoRec}]
  /\ spc \in SubscribeStates
  /\ registered \in BOOLEAN /\ replaying \in BOOLEAN
  /\ queue \in Seq(Record) /\ batch \in Seq(Record) /\ delivered \in Seq(Record)
  /\ snapshot \subseteq Record
  /\ replayed \in [Slot -> Nat]

InTransition == spc \in {"registered", "replay", "drain"}

(* finishReplay: "A subscriber is never entered concurrently because only  *)
(* this goroutine calls g.inner while replaying is still set": no worker   *)
(* is in the subscriber, or past the gate, before Subscribe has handed     *)
(* over the snapshot and everything queued behind it.                      *)
TransitionIsSerial ==
  InTransition => \A w \in Worker : wpc[w] \notin {"open", "inside"}

(* The replay and the drained queue hand over no record twice.             *)
TransitionHasNoDuplicate == InTransition => IsInjective(delivered)

(* No gap: once Subscribe has returned, the newest record of every slot    *)
(* was handed to the subscriber or is carried by a worker on its way in,   *)
(* however applies, registration, snapshot and drain interleaved.          *)
NoGap ==
  spc = "live" =>
    \A s \in Slot : slots[s] # 0 =>
      LET r == [slot |-> s, hlc |-> slots[s]]
      IN \/ r \in Range(delivered)
         \/ \E w \in Worker : rec[w] = r /\ wpc[w] \in {"accepted", "holding", "open"}

(* Subscribe returns once the publishers pause: the drain catches up.      *)
SubscribeReturns == spc = "registered" ~> spc \in {"live", "gone"}

(* SetTenant "must retire all of them": once it has returned, every slot   *)
(* of its snapshot holds a tombstone or a record stamped after the tenant  *)
(* changed, whichever publishers were between stamping and storing.        *)
TenantRetires ==
  tenant.pc = "done" =>
    \A s \in tenant.mine : slots[s] \in tenant.tombs \/ slots[s] > tenant.swap

===============================================================================
