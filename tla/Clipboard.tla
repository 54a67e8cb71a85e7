------------------------------ MODULE Clipboard ------------------------------
(***************************************************************************)
(* Two peers redirect their clipboards to each other: on each side a        *)
(* ClipboardModuleBase (src/src/modules/clipboard), the runtime service     *)
(* that announces local copies and the remote reader whose calls block the  *)
(* paste that makes them (src/src/runtime/feature).  A blocked call pumps   *)
(* the event loop, so packets, timers and further pastes run inside it: the *)
(* calls of one peer form a stack, and only the innermost one polls.        *)
(*                                                                          *)
(* peer[p] is one side; wire[p] and bulk[p] are the packets on their way to *)
(* p over small_data and large_data, each in order.  Requests are numbered  *)
(* by the tracker from 1 on both sides.  The code numbers responses and     *)
(* locks too; a response, the window bytes it holds and a lock are named    *)
(* here by the request they belong to, and every range fills one unit of    *)
(* the window.  policy[p] is the part of ClipboardPolicy that decides       *)
(* whether an operation is made or served at all.                           *)
(***************************************************************************)
EXTENDS ClipboardRegistry, Sequences

CONSTANTS Peers,          \* the two sides of the session
          Policies,       \* assignments of permitted operations to the peers
          FileOffers,     \* offer numbers whose content is a file list
          Pastes,         \* peer -> kinds of remote call its pastes make
          MaxOffers,      \* bound: peer -> copies its user makes
          MaxCalls,       \* bound: peer -> remote calls
          MaxDepth,       \* bound: remote calls blocked inside one another
          WindowMax,      \* maxInFlightBytes of the large-data window
          MaxDisruptions  \* bound: losses of the connection, module stops

ASSUME ClipboardAssumption ==
  /\ IsFiniteSet(Peers) /\ Cardinality(Peers) = 2
  /\ WindowMax \in Nat /\ MaxDepth \in Nat /\ MaxDisruptions \in Nat

VARIABLES peer, wire, bulk, policy, up, disruptions

vars == <<peer, wire, bulk, policy, up, disruptions>>

Other(p) == CHOOSE q \in Peers : q # p
Kinds == {"read", "range", "lock", "unlock"}
NoBundle == [from |-> "nobody", offer |-> 0]
Bundles == [from : Peers, offer : 1 .. 2]
Full == {"announce", "receive", "send", "files"}

(* std::map insertion of a key that is new. *)
With(f, key, value) == [k \in DOMAIN f \cup {key} |-> IF k = key THEN value ELSE f[k]]

(* A handler's effect: the side it leaves and the packets it sends.         *)
Does(s) == [s |-> s, out |-> << >>, heavy |-> << >>]
Sends(s, m) == [s |-> s, out |-> <<m>>, heavy |-> << >>]
SendsBulk(s, m) == [s |-> s, out |-> << >>, heavy |-> <<m>>]

Init ==
  /\ peer = [p \in Peers |->
       [state |-> "Running", paused |-> FALSE,
        native |-> NoBundle, changed |-> FALSE, announced |-> NoBundle, offers |-> 0,
        local |-> NoBundle, remote |-> NoBundle, entries |-> {},
        nextId |-> 1, pending |-> << >>,
        slot |-> [k \in Kinds |-> [to |-> 0, result |-> << >>]],
        reserved |-> {}, inFlight |-> 0,
        calls |-> << >>, done |-> << >>, answered |-> {}, overlapped |-> {}]]
  /\ wire = [p \in Peers |-> << >>]
  /\ bulk = [p \in Peers |-> << >>]
  /\ policy \in Policies
  /\ up = TRUE
  /\ disruptions = 0

(* sendPacket() succeeds while the connection is up. *)
Acts(p, effect) ==
  /\ peer' = [peer EXCEPT ![p] = effect.s]
  /\ wire' = IF up THEN [wire EXCEPT ![Other(p)] = @ \o effect.out] ELSE wire
  /\ bulk' = IF up THEN [bulk EXCEPT ![Other(p)] = @ \o effect.heavy] ELSE bulk
  /\ UNCHANGED <<policy, up, disruptions>>
-----------------------------------------------------------------------------
(* Announcing *)

(* The user copies on p: the change monitor raises its flag. *)
Copy(p) ==
  /\ peer[p].offers < MaxOffers[p]
  /\ LET n == peer[p].offers + 1
     IN Acts(p, Does([peer[p] EXCEPT !.offers = n, !.changed = TRUE,
                                     !.native = [from |-> p, offer |-> n]]))

(* announceLocalBundle(): the entry is stored before the packet is sent and *)
(* taken back when it cannot be.  A blocked offer number refuses the bundle *)
(* but has retired the entry that blocks it.                                *)
AnnounceLocalBundle(p, s, b) ==
  LET stored == [s EXCEPT !.entries = Store(@, b)]
  IN IF s.state # "Running" \/ "announce" \notin policy[p] THEN Does(s)
     ELSE IF Blocked(s.entries, b) THEN Does(stored)
     ELSE IF ~up THEN Does([stored EXCEPT !.entries = ClearOffer(@, b.offer)])
     ELSE Sends([stored EXCEPT !.local = b], [type |-> "list", bundle |-> b])

(* ClipboardRuntimeService::pumpOnce(): the change is consumed before the   *)
(* announcement is attempted.  What a remote offer put into the native      *)
(* clipboard carries the owner marker and is not announced back.            *)
Pump(p) ==
  LET s == [peer[p] EXCEPT !.changed = FALSE]
      b == s.native
  IN /\ peer[p].changed
     /\ IF b.from # p \/ b = s.announced THEN Acts(p, Does(s))
        ELSE LET e == AnnounceLocalBundle(p, s, b)
             IN Acts(p, IF e.out = << >> THEN e ELSE [e EXCEPT !.s = [@ EXCEPT !.announced = b]])

(* handleFormatList(): the endpoint may fail to publish the bundle.         *)
HandleFormatList(p, s, m, published) ==
  LET stored == [s EXCEPT !.entries = Store(@, m.bundle)]
  IN IF "receive" \notin policy[p] THEN Does(s)
     ELSE IF Blocked(s.entries, m.bundle) THEN Does(stored)
     ELSE IF published
     THEN Does([stored EXCEPT !.remote = m.bundle, !.native = m.bundle])
     ELSE Does([stored EXCEPT !.remote = NoBundle,
                              !.entries = ClearOffer(@, m.bundle.offer)])
-----------------------------------------------------------------------------
(* Serving the peer's requests *)

Answer(m, status) ==
  [type |-> "response", kind |-> m.kind, to |-> m.id, status |-> status]

(* readLocal(): the current local offer only, and only while the registry   *)
(* still has it under that number.                                          *)
ReadStatus(s, b) == IF s.local # b THEN "Conflict" ELSE LookupStatus(s.entries, b)

HandleRead(p, s, m) ==
  Sends(s, Answer(m, IF "send" \notin policy[p] THEN "DeniedByPolicy"
                     ELSE ReadStatus(s, m.bundle)))

(* Fault: only sending is asked for. *)
Faulty_MayServeFiles(p) == "send" \in policy[p]

MayServeFiles(p) == {"send", "files"} \subseteq policy[p]

(* Fault: the window is charged but the response is not tracked, so that    *)
(* its acknowledgement finds nothing to release.                            *)
Faulty_HandleRange(p, s, m) ==
  IF MayServeFiles(p) /\ s.local = m.bundle /\ ~WindowFull(WindowMax, s.inFlight, 1)
  THEN SendsBulk([s EXCEPT !.inFlight = @ + 1], Answer(m, "Ok"))
  ELSE Sends(s, Answer(m, "BackPressure"))

(* readLocalFileRange() and sendFileRangeResponse(): large_data is up.      *)
HandleRange(p, s, m) ==
  IF ~MayServeFiles(p) THEN Sends(s, Answer(m, "DeniedByPolicy"))
  ELSE IF s.local # m.bundle THEN Sends(s, Answer(m, "Conflict"))
  ELSE IF WindowFull(WindowMax, s.inFlight, 1) THEN Sends(s, Answer(m, "BackPressure"))
  ELSE SendsBulk([s EXCEPT !.inFlight = @ + 1, !.reserved = @ \cup {m.id}],
                 Answer(m, "Ok"))

HandleLock(p, s, m) ==
  LET files  == {b \in Bundles : b.from = p /\ b.offer \in FileOffers}
      status == IF MayServeFiles(p) THEN LockStatus(s.entries, m.bundle, files)
                ELSE "DeniedByPolicy"
  IN Sends(IF status = "Ok" THEN [s EXCEPT !.entries = Locked(@, m.bundle, m.id)] ELSE s,
           Answer(m, status))

HandleUnlock(p, s, m) ==
  LET status == IF MayServeFiles(p) THEN UnlockStatus(s.entries, m.bundle, m.lock)
                ELSE "DeniedByPolicy"
  IN Sends(IF status = "Ok" THEN [s EXCEPT !.entries = Unlocked(@, m.bundle, m.lock)] ELSE s,
           Answer(m, status))

(* handleLargeDataAck(): the reservation is released once. *)
HandleAck(s, m) ==
  IF m.to \in s.reserved
  THEN Does([s EXCEPT !.reserved = @ \ {m.to}, !.inFlight = Released(@, 1)])
  ELSE Does(s)
-----------------------------------------------------------------------------
(* Hearing about one's own requests *)

(* RequestTracker::complete(), expire() and cancelByChannel() with the      *)
(* handlers of the requests they end, in the order of the ids: the newest   *)
(* result of each kind is kept in one place.                                *)
Ended(s, ids, status) ==
  LET last(k) == {i \in ids : s.pending[i].kind = k /\ \A j \in ids : s.pending[j].kind = k => j <= i}
  IN [s EXCEPT
        !.pending = [i \in DOMAIN s.pending \ ids |-> s.pending[i]],
        !.slot = [k \in Kinds |-> IF last(k) = {} THEN s.slot[k]
                                  ELSE [to |-> CHOOSE i \in last(k) : TRUE,
                                        result |-> <<[status |-> status,
                                                      of |-> CHOOSE i \in last(k) : TRUE]>>]]]

Settled(s, id, status) == Ended(s, {id}, status)

(* Fault: a late answer clears the slot. *)
Faulty_HandleResponse(s, m, large) ==
  IF m.to \in DOMAIN s.pending
  THEN Does([Settled(s, m.to, m.status) EXCEPT !.answered = @ \cup {m.to}, !.slot["read"].to = 0])
  ELSE Does(s)

(* handleReadResponse(): the id is noted for reads whatever the response    *)
(* answers, also when no request is waiting for it.  A range that came over *)
(* large_data is acknowledged by the handler of the request.                *)
HandleResponse(s, m, large) ==
  LET noted == [to |-> m.to, result |-> s.slot["read"].result]
      seen  == [s EXCEPT !.slot = [s.slot EXCEPT !["read"] = noted]]
  IN IF m.to \notin DOMAIN s.pending THEN Does(seen)
     ELSE LET t == [Settled(seen, m.to, m.status) EXCEPT !.answered = @ \cup {m.to}]
          IN IF large THEN Sends(t, [type |-> "ack", to |-> m.to]) ELSE Does(t)

(* handleCancel(): the id is looked up among this side's own requests. *)
HandleCancel(s, m) ==
  IF m.to \in DOMAIN s.pending THEN Does(Settled(s, m.to, "Cancelled")) ELSE Does(s)

HandlePacket(p, s, m, large, published) ==
  IF s.state # "Running" THEN Does(s)
  ELSE CASE m.type = "list"     -> HandleFormatList(p, s, m, published)
         [] m.type = "ack"      -> HandleAck(s, m)
         [] m.type = "cancel"   -> HandleCancel(s, m)
         [] m.type = "response" -> HandleResponse(s, m, large)
         [] m.type = "request" /\ m.kind = "read"   -> HandleRead(p, s, m)
         [] m.type = "request" /\ m.kind = "range"  -> HandleRange(p, s, m)
         [] m.type = "request" /\ m.kind = "lock"   -> HandleLock(p, s, m)
         [] m.type = "request" /\ m.kind = "unlock" -> HandleUnlock(p, s, m)

Receive(p) ==
  /\ wire[p] # << >>
  /\ \E published \in BOOLEAN :
       LET e == HandlePacket(p, peer[p], Head(wire[p]), FALSE, published)
       IN /\ Head(wire[p]).type # "list" => published
          /\ peer' = [peer EXCEPT ![p] = e.s]
          /\ wire' = [wire EXCEPT ![p] = Tail(@), ![Other(p)] = @ \o e.out]
          /\ bulk' = [bulk EXCEPT ![Other(p)] = @ \o e.heavy]
  /\ UNCHANGED <<policy, up, disruptions>>

ReceiveBulk(p) ==
  /\ bulk[p] # << >>
  /\ LET e == HandlePacket(p, peer[p], Head(bulk[p]), TRUE, TRUE)
     IN /\ peer' = [peer EXCEPT ![p] = e.s]
        /\ bulk' = [bulk EXCEPT ![p] = Tail(@)]
        /\ wire' = [wire EXCEPT ![Other(p)] = @ \o e.out]
  /\ UNCHANGED <<policy, up, disruptions>>
-----------------------------------------------------------------------------
(* The remote reader: readRemoteFormat, readRemoteFileRange,                *)
(* lockRemoteObject, unlockRemoteObject                                     *)

(* The checks of the four request functions before anything is sent.  A     *)
(* format read is not compared with the current remote offer.               *)
MayRequest(p, s, kind, b) ==
  /\ s.state = "Running"
  /\ "receive" \in policy[p]
  /\ kind # "read" => "files" \in policy[p]
  /\ kind \in {"range", "lock"} => s.remote = b /\ b.offer \in FileOffers

Held(s, b) == {i \in DOMAIN s.done : s.done[i] = [status |-> "Ok", of |-> i, kind |-> "lock", bundle |-> b]}

(* The calls that have run inside one another, this one included. *)
Overlap(s, id) ==
  IF s.calls = << >> THEN s.overlapped
  ELSE s.overlapped \cup {id} \cup {s.calls[i].id : i \in DOMAIN s.calls}

(* A paste asks for a remote bundle it was offered, perhaps not the latest, *)
(* from the event loop or from inside another blocked call.  A request that *)
(* cannot be sent is completed at once and the call fails without blocking. *)
Begin(p, kind, b, lock) ==
  LET s  == peer[p]
      id == s.nextId
      t  == [s EXCEPT !.nextId = @ + 1, !.pending = With(@, id, [kind |-> kind])]
      m  == [type |-> "request", kind |-> kind, id |-> id, bundle |-> b, lock |-> lock]
  IN /\ kind \in Pastes[p]
     /\ id <= MaxCalls[p]
     /\ Len(s.calls) < MaxDepth
     /\ b.from # p /\ b.offer <= s.remote.offer
     /\ kind = "unlock" => lock \in Held(s, b)
     /\ kind # "unlock" => lock = 0
     /\ MayRequest(p, s, kind, b)
     /\ IF ~up
        THEN Acts(p, Does([Settled(t, id, "ChannelUnavailable") EXCEPT
               !.done = With(@, id, [status |-> "ChannelUnavailable", of |-> id,
                                     kind |-> kind, bundle |-> b]),
               !.overlapped = Overlap(s, id)]))
        ELSE Acts(p, Sends([t EXCEPT
               !.calls = Append(@, [id |-> id, kind |-> kind, bundle |-> b,
                                    before |-> Cardinality(DOMAIN s.pending)]),
               !.overlapped = Overlap(s, id)], m))

(* expirePendingReads(): the callers of one peer use one timeout, so that   *)
(* deadlines pass in the order of the ids.                                  *)
Expire(p, id) ==
  /\ id \in DOMAIN peer[p].pending
  /\ \A i \in DOMAIN peer[p].pending : id <= i
  /\ Acts(p, Does(Settled(peer[p], id, "Timeout")))

Top(s) == s.calls[Len(s.calls)]
(* Fault: whatever the slot holds is taken. *)
Faulty_HasResult(s, c) == s.slot[c.kind].result # << >>

HasResult(s, c) == s.slot[c.kind].to = c.id /\ s.slot[c.kind].result # << >>

(* The call on top returns; a timeout is reported to the peer as a cancel.  *)
Returned(s, c, result) ==
  LET t == [s EXCEPT !.calls = SubSeq(@, 1, Len(@) - 1),
                     !.done = With(@, c.id, [status |-> result.status, of |-> result.of,
                                             kind |-> c.kind, bundle |-> c.bundle])]
  IN IF result.status = "Timeout" /\ s.state = "Running"
     THEN Sends(t, [type |-> "cancel", to |-> c.id]) ELSE Does(t)

(* One iteration of the loop finds the result of its own request. *)
Return(p) ==
  /\ peer[p].calls # << >>
  /\ LET c == Top(peer[p])
     IN /\ HasResult(peer[p], c)
        /\ Acts(p, Returned(peer[p], c, peer[p].slot[c.kind].result[1]))

(* Fault: fewer requests than before the call have to be pending. *)
Faulty_StopsEarly(s, c) == Cardinality(DOMAIN s.pending) < c.before

StopsEarly(s, c) == Cardinality(DOMAIN s.pending) <= c.before

(* The loop stops early when no more requests are pending than before the   *)
(* call; everything due by the call's own deadline is then expired, and the *)
(* call times out.                                                          *)
GiveUp(p) ==
  /\ peer[p].calls # << >>
  /\ LET s == peer[p]
         c == Top(s)
     IN /\ ~HasResult(s, c)
        /\ StopsEarly(s, c)
        /\ LET t == Ended(s, {i \in DOMAIN s.pending : i <= c.id}, "Timeout")
           IN Acts(p, Returned(t, c, [status |-> "Timeout", of |-> c.id]))
-----------------------------------------------------------------------------
(* Disruptions *)

(* The reservations, locks and offers a module gives up when it stops or    *)
(* its channels are lost.                                                   *)
LetGo(s) ==
  [s EXCEPT !.reserved = {}, !.inFlight = Released(@, Cardinality(s.reserved)),
            !.entries = ClearAll(ReleaseAllLocks(@))]

(* The connection is lost with what was on it. *)
Lose ==
  /\ up
  /\ disruptions < MaxDisruptions
  /\ up' = FALSE
  /\ disruptions' = disruptions + 1
  /\ wire' = [p \in Peers |-> << >>]
  /\ bulk' = [p \in Peers |-> << >>]
  /\ UNCHANGED <<peer, policy>>

(* pauseForReconnect(): requests on small_data are cancelled.               *)
PauseForReconnect(p) ==
  /\ ~up
  /\ ~peer[p].paused
  /\ Acts(p, Does([Ended(LetGo(peer[p]), DOMAIN peer[p].pending, "ChannelUnavailable") EXCEPT !.paused = TRUE]))

(* The session has paused its modules on both sides before it rebinds. *)
Rebind ==
  /\ ~up
  /\ \A p \in Peers : peer[p].paused
  /\ up' = TRUE
  /\ UNCHANGED <<peer, wire, bulk, policy, disruptions>>

(* resumeAfterReconnect() with requestFreshState: the bundle announced last *)
(* is announced again.                                                      *)
ResumeAfterReconnect(p) ==
  LET s == [peer[p] EXCEPT !.paused = FALSE]
  IN /\ up
     /\ peer[p].paused
     /\ Acts(p, IF s.state = "Running" /\ s.local # NoBundle
                THEN AnnounceLocalBundle(p, s, s.local) ELSE Does(s))

(* stop(): the requests stay with the tracker. *)
Stop(p) ==
  /\ peer[p].state = "Running"
  /\ disruptions < MaxDisruptions
  /\ disruptions' = disruptions + 1
  /\ peer' = [peer EXCEPT ![p] = [LetGo(@) EXCEPT !.state = "Stopped"]]
  /\ UNCHANGED <<wire, bulk, policy, up>>

Start(p) ==
  /\ peer[p].state = "Stopped"
  /\ Acts(p, Does([peer[p] EXCEPT !.state = "Running"]))

Running ==
  \/ \E p \in Peers : Pump(p) \/ Receive(p) \/ ReceiveBulk(p) \/ Return(p) \/ GiveUp(p)
  \/ \E p \in Peers : \E id \in 1 .. MaxCalls[p] : Expire(p, id)
  \/ \E p \in Peers : PauseForReconnect(p) \/ ResumeAfterReconnect(p)
  \/ Rebind

Environment ==
  \/ \E p \in Peers : Copy(p) \/ Stop(p) \/ Start(p)
  \/ \E p \in Peers, kind \in Kinds, b \in Bundles : \E lock \in 0 .. MaxCalls[p] : Begin(p, kind, b, lock)
  \/ Lose

Next == Running \/ Environment
Spec == Init /\ [][Next]_vars
-----------------------------------------------------------------------------
(* A remote call that succeeds hands over the answer to its own request,    *)
(* although every handler writes its result to the same place and calls run *)
(* inside one another (the loop of readRemoteFormat and its siblings).      *)
ReadReturnsOwnContent ==
  \A p \in Peers : \A i \in DOMAIN peer[p].done :
    peer[p].done[i].status = "Ok" => peer[p].done[i].of = i

(* The large-data window counts exactly the responses that wait for an      *)
(* acknowledgement, through late answers, stops and lost connections        *)
(* (sendFileRangeResponse, handleLargeDataAck,                              *)
(* releaseAllLargeDataReservations), and never exceeds its size.            *)
WindowMatchesReservations ==
  \A p \in Peers : /\ peer[p].inFlight = Cardinality(peer[p].reserved)
                   /\ WindowMax # 0 => peer[p].inFlight <= WindowMax

(* Two peers number their offers alike and share the registry: it holds one *)
(* entry per number, and a retired one only while it is locked (store,      *)
(* clearOffer, unlockObject, releaseAllLocks).                              *)
RegistryIsSound ==
  \A p \in Peers : \A e, f \in peer[p].entries :
    /\ e.retired => e.locks # {}
    /\ e.bundle.offer = f.bundle.offer => e = f

(* A call succeeds only when the asking side may receive and the side that  *)
(* is asked may send, files on top where files are concerned.               *)
ContentRespectsPolicy ==
  \A p \in Peers : \A i \in DOMAIN peer[p].done :
    peer[p].done[i].status = "Ok" =>
      /\ "receive" \in policy[p] /\ "send" \in policy[Other(p)]
      /\ peer[p].done[i].kind # "read" => "files" \in policy[p] \cap policy[Other(p)]

(* A call that times out although its answer had arrived ran inside or      *)
(* around another call, or follows one that ended without success and whose *)
(* answer came late (lastReadResponseTo is noted for every response).       *)
AnswerLostOnlyToOverlap ==
  \A p \in Peers : \A i \in DOMAIN peer[p].done :
    peer[p].done[i].status = "Timeout" /\ i \in peer[p].answered =>
      \/ i \in peer[p].overlapped
      \/ \E j \in DOMAIN peer[p].done : j < i /\ peer[p].done[j].status # "Ok"

(* A blocked paste never spins: once its own request has ended, by answer,  *)
(* cancel, timeout or a lost channel, inside whatever other calls, its loop *)
(* finds the result or stops early; a request that is pending will expire.  *)
PasteNeverSpins ==
  \A p \in Peers : peer[p].calls # << >> =>
    LET c == Top(peer[p])
    IN c.id \in DOMAIN peer[p].pending \/ HasResult(peer[p], c) \/ StopsEarly(peer[p], c)

(* When a request has timed out and the peer has had the cancel, no lock    *)
(* taken for the request is left (handleCancel).                            *)
LocksEndWithTheirRequest ==
  \A p \in Peers : \A i \in DOMAIN peer[p].done :
    peer[p].done[i].status = "Timeout" /\ wire[Other(p)] = << >> =>
      \A e \in peer[Other(p)].entries : i \notin e.locks
=============================================================================
