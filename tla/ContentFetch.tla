------------------------------ MODULE ContentFetch ------------------------------
(***************************************************************************)
(* The content fetch RPC (content_impl.go): Fetch, requestFromHolder and   *)
(* its deferred cleanup, the serving side handleFetchRequest, and the      *)
(* routing of answers by handleFetchResponse.  Concurrent Fetch calls of   *)
(* one node share the pending map, the request counter and the pool of     *)
(* one-element channels.                                                   *)
(*                                                                         *)
(* A body is the hash it verifies against; Rot is bytes that verify        *)
(* against no hash asked for, Refusal an answer carrying an error.  The    *)
(* advert index is any set of holders.  A channel the pool would allocate  *)
(* is a clean channel waiting in it.  A frame may be delayed, repeated or  *)
(* never delivered.                                                        *)
(***************************************************************************)
EXTENDS Integers, FiniteSets, FiniteSetsExt

CONSTANTS
  Fetcher,     \* goroutines calling Fetch
  Handler,     \* transport goroutines delivering answers
  Chan,        \* channels of the pool
  Hash,        \* content hashes
  Holder,      \* nodes in the advert index, Self possibly among them
  Self,        \* this node
  Rotten,      \* holders whose provider may read other bytes
  Rot, Refusal,
  Nothing,     \* an empty channel, an absent map entry
  MaxReq       \* bound on the requests sent

ASSUME FetchAssumption ==
  /\ MaxReq \in Nat \ {0}
  /\ {Rot, Refusal, Nothing} \cap Hash = {}
  /\ Rot # Refusal /\ Nothing \notin {Rot, Refusal} \cup Chan
  /\ Rotten \subseteq Holder /\ IsFiniteSet(Holder)

ReqID == 1..MaxReq
Body == Hash \cup {Rot, Refusal}
Response == [id : ReqID, body : Body]
Request == [id : ReqID, to : Holder, hash : Hash]

VARIABLES
  call,        \* the Fetch call of each fetcher
  reqCount,    \* reqCount
  pending,     \* request id -> channel
  chan,        \* the buffered answer of each channel
  pool,        \* chanPool
  requests, responses,  \* frames in flight
  routed       \* per handler: the channel found for an answer, before the send

fetchVars == <<call, reqCount, pending, chan, pool, requests, responses, routed>>
net == <<requests, responses>>

Idle ==
  [pc |-> "idle", hash |-> Nothing, todo |-> {}, id |-> 0, ch |-> Nothing,
   answer |-> Nothing, last |-> "none", expired |-> FALSE]

Call ==
  [pc : {"idle", "choose", "await", "unregister", "drain", "judge", "done"},
   hash : Hash \cup {Nothing}, todo : SUBSET Holder, id : 0..MaxReq,
   ch : Chan \cup {Nothing}, answer : Response \cup {Nothing},
   last : {"none", "ok", "mismatch", "refused", "send", "ctx"}, expired : BOOLEAN]

FetchInit ==
  /\ call = [f \in Fetcher |-> Idle]
  /\ reqCount = 0
  /\ pending = [i \in ReqID |-> Nothing]
  /\ chan = [c \in Chan |-> Nothing]
  /\ pool = Chan
  /\ requests = {} /\ responses = {}
  /\ routed = [h \in Handler |-> Nothing]

At(f, pc) == call[f].pc = pc

Finish(f, result) == call' = [call EXCEPT ![f].pc = "done", ![f].last = result]

-------------------------------------------------------------------------------
(***************************************************************************)
(* The fetching side.                                                      *)
(***************************************************************************)

(* Requests the running calls may still send. *)
Promised == MapThenSumSet(LAMBDA f : Cardinality(call[f].todo \ {Self}), Fetcher)

(* Fetch(hash): the holders are a snapshot of the index; none is an error. *)
(* A call begins only when MaxReq leaves it a request for every holder.    *)
Fetch(f, hash, hs) ==
  /\ At(f, "idle")
  /\ reqCount + Promised + Cardinality(hs \ {Self}) <= MaxReq
  /\ call' = [call EXCEPT ![f] =
       [Idle EXCEPT !.pc = IF hs = {} THEN "done" ELSE "choose", !.hash = hash, !.todo = hs]]
  /\ UNCHANGED <<reqCount, pending, chan, pool, net, routed>>

(* The context's deadline, the caller's or fetchTimeoutDefault. *)
Deadline(f) ==
  /\ call[f].pc \notin {"idle", "done"}
  /\ ~call[f].expired
  /\ call' = [call EXCEPT ![f].expired = TRUE]
  /\ UNCHANGED <<reqCount, pending, chan, pool, net, routed>>

(* This node is a holder: its provider is read in place, a failed read is skipped. *)
LocalRead(f, found) ==
  /\ At(f, "choose")
  /\ Self \in call[f].todo
  /\ IF found
     THEN Finish(f, "ok")
     ELSE call' = [call EXCEPT ![f].todo = @ \ {Self}]
  /\ UNCHANGED <<reqCount, pending, chan, pool, net, routed>>

NextID == reqCount + 1

(* Bug: the holder is asked again after its answer was judged. *)
BugRequestKeepsHolder(f, n, c, accepted) ==
  /\ At(f, "choose")
  /\ n \in call[f].todo \ {Self}
  /\ c \in pool
  /\ reqCount < MaxReq
  /\ reqCount' = reqCount + 1
  /\ pool' = pool \ {c}
  /\ pending' = [pending EXCEPT ![NextID] = c]
  /\ call' = [call EXCEPT ![f] =
       [call[f] EXCEPT !.id = NextID, !.ch = c, !.answer = Nothing,
                       !.pc = IF accepted THEN "await" ELSE "unregister",
                       !.last = IF accepted THEN "none" ELSE "send"]]
  /\ UNCHANGED <<chan, net, routed>>

(* Register the request under a fresh id on a pooled channel and send it.  *)
(* When the transport refuses the frame the call goes to its cleanup.      *)
requestFromHolder(f, n, c, accepted) ==
  /\ At(f, "choose")
  /\ n \in call[f].todo \ {Self}
  /\ c \in pool
  /\ reqCount' = reqCount + 1
  /\ pool' = pool \ {c}
  /\ pending' = [pending EXCEPT ![NextID] = c]
  /\ call' = [call EXCEPT ![f] =
       [call[f] EXCEPT !.todo = @ \ {n}, !.id = NextID, !.ch = c, !.answer = Nothing,
                       !.pc = IF accepted THEN "await" ELSE "unregister",
                       !.last = IF accepted THEN "none" ELSE "send"]]
  /\ requests' = IF accepted
                 THEN requests \cup {[id |-> NextID, to |-> n, hash |-> call[f].hash]}
                 ELSE requests
  /\ UNCHANGED <<chan, responses, routed>>

(* select: an answer in the channel ... *)
ReceiveAnswer(f) ==
  /\ At(f, "await")
  /\ chan[call[f].ch] # Nothing
  /\ call' = [call EXCEPT ![f].pc = "unregister", ![f].answer = chan[call[f].ch]]
  /\ chan' = [chan EXCEPT ![call[f].ch] = Nothing]
  /\ UNCHANGED <<reqCount, pending, pool, net, routed>>

(* Bug: the wait does not watch the context. *)
BugTimeOutNever(f) == FALSE /\ UNCHANGED fetchVars

(* ... or the context. *)
TimeOut(f) ==
  /\ At(f, "await")
  /\ call[f].expired
  /\ call' = [call EXCEPT ![f].pc = "unregister", ![f].last = "ctx"]
  /\ UNCHANGED <<reqCount, pending, chan, pool, net, routed>>

(* Bug: the entry stays in pending. *)
BugUnregisterLeaks(f) ==
  /\ At(f, "unregister")
  /\ call' = [call EXCEPT ![f].pc = "drain"]
  /\ UNCHANGED <<reqCount, pending, chan, pool, net, routed>>

(* The deferred cleanup: delete the entry under pendingMu ... *)
Unregister(f) ==
  /\ At(f, "unregister")
  /\ pending' = [pending EXCEPT ![call[f].id] = Nothing]
  /\ call' = [call EXCEPT ![f].pc = "drain"]
  /\ UNCHANGED <<reqCount, chan, pool, net, routed>>

(* ... then, without the lock, drain the channel and give it back. *)
DrainAndPool(f) ==
  /\ At(f, "drain")
  /\ chan' = [chan EXCEPT ![call[f].ch] = Nothing]
  /\ pool' = pool \cup {call[f].ch}
  /\ call' = [call EXCEPT ![f].pc = "judge", ![f].ch = Nothing]
  /\ UNCHANGED <<reqCount, pending, net, routed>>

(* Bug: whatever bytes came back are returned. *)
BugOutcomeUnverified(c) ==
  IF c.answer = Nothing THEN c.last
  ELSE IF c.answer.body = Refusal THEN "refused" ELSE "ok"

(* What the holder's answer amounts to, after verifyContentHash. *)
Outcome(c) ==
  IF c.answer = Nothing THEN c.last
  ELSE CASE c.answer.body = Refusal -> "refused"
         [] c.answer.body = c.hash -> "ok"
         [] OTHER -> "mismatch"

(* Verified bytes end the call, and so does an expired context; otherwise  *)
(* the next holder is tried.                                               *)
Judge(f) ==
  /\ At(f, "judge")
  /\ LET out == Outcome(call[f]) IN
     IF out = "ok" \/ call[f].expired
     THEN Finish(f, IF out = "ok" THEN "ok" ELSE "ctx")
     ELSE call' = [call EXCEPT ![f] =
            [call[f] EXCEPT !.pc = "choose", !.last = out, !.id = 0, !.answer = Nothing]]
  /\ UNCHANGED <<reqCount, pending, chan, pool, net, routed>>

(* Every holder was tried: the last error, or ErrNoHolders. *)
Exhausted(f) ==
  /\ At(f, "choose")
  /\ call[f].todo = {}
  /\ Finish(f, call[f].last)
  /\ UNCHANGED <<reqCount, pending, chan, pool, net, routed>>

Return(f) ==
  /\ At(f, "done")
  /\ call' = [call EXCEPT ![f] = Idle]
  /\ UNCHANGED <<reqCount, pending, chan, pool, net, routed>>

-------------------------------------------------------------------------------
(***************************************************************************)
(* The serving side, and the routing of its answers.                       *)
(***************************************************************************)

(* What a holder's provider may answer: the content, an error, or, when    *)
(* its storage is damaged, other bytes.                                    *)
Served(n, hash) == {hash, Refusal} \cup (IF n \in Rotten THEN {Rot} ELSE {})

handleFetchRequest(q, body) ==
  /\ q \in requests
  /\ body \in Served(q.to, q.hash)
  /\ requests' = requests \ {q}
  /\ responses' = responses \cup {[id |-> q.id, body |-> body]}
  /\ UNCHANGED <<call, reqCount, pending, chan, pool, routed>>

(* Look the request id up under pendingMu; an unknown id is dropped.  The  *)
(* transport may deliver the frame again.                                  *)
LookUp(h, r, again) ==
  /\ r \in responses
  /\ routed[h] = Nothing
  /\ responses' = IF again THEN responses ELSE responses \ {r}
  /\ routed' = IF pending[r.id] = Nothing THEN routed
               ELSE [routed EXCEPT ![h] = [ch |-> pending[r.id], answer |-> r]]
  /\ UNCHANGED <<call, reqCount, pending, chan, pool, requests>>

(* The send after the unlock: never blocks, a full channel drops the answer. *)
Deposit(h) ==
  /\ routed[h] # Nothing
  /\ chan' = IF chan[routed[h].ch] = Nothing
             THEN [chan EXCEPT ![routed[h].ch] = routed[h].answer]
             ELSE chan
  /\ routed' = [routed EXCEPT ![h] = Nothing]
  /\ UNCHANGED <<call, reqCount, pending, pool, net>>

-------------------------------------------------------------------------------

Finishing(f) ==
  \/ ReceiveAnswer(f) \/ TimeOut(f) \/ Unregister(f) \/ DrainAndPool(f)
  \/ Judge(f) \/ Exhausted(f) \/ Return(f)

Asking(f) ==
  \/ \E found \in BOOLEAN : LocalRead(f, found)
  \/ \E n \in Holder, c \in Chan, accepted \in BOOLEAN : requestFromHolder(f, n, c, accepted)

FetchNext ==
  \/ \E f \in Fetcher, hash \in Hash, hs \in SUBSET Holder : Fetch(f, hash, hs)
  \/ \E f \in Fetcher : Deadline(f) \/ Asking(f) \/ Finishing(f)
  \/ \E q \in requests, body \in Body : handleFetchRequest(q, body)
  \/ \E h \in Handler : Deposit(h)
  \/ \E h \in Handler, r \in responses, again \in BOOLEAN : LookUp(h, r, again)

FetchSpec == FetchInit /\ [][FetchNext]_fetchVars

-------------------------------------------------------------------------------

FetchTypeOK ==
  /\ call \in [Fetcher -> Call]
  /\ reqCount \in 0..MaxReq
  /\ pending \in [ReqID -> Chan \cup {Nothing}]
  /\ chan \in [Chan -> Response \cup {Nothing}]
  /\ pool \subseteq Chan
  /\ requests \subseteq Request /\ responses \subseteq Response
  /\ routed \in [Handler -> [ch : Chan, answer : Response] \cup {Nothing}]

(* Each channel is either pooled or held by one call; an entry of pending  *)
(* belongs to a call that is still waiting (or about to clean up) under    *)
(* that id.  requestFromHolder's deferred cleanup therefore leaks neither  *)
(* entries nor channels, whatever answers arrive when.                     *)
ChannelHasOneOwner ==
  /\ \A c \in Chan :
       Cardinality({f \in Fetcher : call[f].ch = c}) = (IF c \in pool THEN 0 ELSE 1)
  /\ \A i \in ReqID : pending[i] # Nothing =>
       \E f \in Fetcher : /\ call[f].id = i /\ call[f].ch = pending[i]
                          /\ call[f].pc \in {"await", "unregister"}

(* A call that succeeds with an answer got bytes of the hash it asked for, *)
(* even when the channel it waited on carried an answer meant for another  *)
(* call or a damaged holder answered.                                      *)
BytesVerify ==
  \A f \in Fetcher :
    call[f].pc = "done" /\ call[f].last = "ok" /\ call[f].answer # Nothing
      => call[f].answer.body = call[f].hash

(* Nobody can hold a call up: once its context has expired, a call has a   *)
(* step of its own to take, with no answer, no holder and no handler.      *)
CallNeverStuck ==
  \A f \in Fetcher : call[f].expired => ENABLED (Asking(f) \/ Finishing(f))

(* How much of a call is left: the holders to try, then the stage. *)
Stage == [done |-> 0, choose |-> 1, judge |-> 2, drain |-> 3, unregister |-> 4, await |-> 5]
Remaining(c) == 8 * Cardinality(c.todo) + Stage[c.pc]

(* Every step of a call brings it nearer to its return: no holder is asked *)
(* twice and no stage is repeated.  With CallNeverStuck, a goroutine that  *)
(* is scheduled and a context that has a deadline, every Fetch returns.    *)
CallAdvances ==
  [][\A f \in Fetcher :
       /\ call[f].pc \notin {"idle", "done"}
       /\ call'[f] # [call[f] EXCEPT !.expired = call'[f].expired]
       => Remaining(call'[f]) < Remaining(call[f])]_fetchVars
=================================================================================
