--------------------------- MODULE ClipboardProofs ---------------------------
(***************************************************************************)
(* Proofs about Clipboard: for any number of offers, calls and disruptions  *)
(* the registry of either side holds what it should, the large-data window  *)
(* is neither leaked nor overrun, and a call that succeeds was permitted on *)
(* both sides.  However pastes nest, one whose own request has ended leaves *)
(* its loop, the answer of one is lost only to another, and while one side  *)
(* pastes alone a success is the answer to its own request.                 *)
(***************************************************************************)
EXTENDS Clipboard, FiniteSetTheorems, SequenceTheorems, WellFoundedInduction, TLAPS

LEMMA OtherSide ==
  ASSUME NEW p \in Peers
  PROVE  /\ Other(p) \in Peers /\ Other(p) # p /\ Other(Other(p)) = p
         /\ Peers = {p, Other(p)}
<1>1. IsFiniteSet(Peers \ {p}) /\ Cardinality(Peers \ {p}) = 1
  BY ClipboardAssumption, FS_RemoveElement
<1>2. PICK q : Peers \ {p} = {q}
  BY <1>1, FS_Singleton
<1>3. q \in Peers /\ q # p
  BY <1>2
<1>4. Peers = {p, q}
  BY <1>2
<1>5. Other(p) = q /\ Other(q) = p
  BY <1>3, <1>4 DEF Other
<1>. QED
  BY <1>3, <1>4, <1>5

(***************************************************************************)
(* Queues of packets                                                        *)
(***************************************************************************)

Packets(w) == {w[i] : i \in 1 .. Len(w)}
IsQueue(w) == w \in Seq(Packets(w))

(* Requests arrive in the order of their numbers. *)
Ascending(w) ==
  \A i, j \in 1 .. Len(w) :
    i < j /\ w[i].type = "request" /\ w[j].type = "request" => w[i].id < w[j].id

LEMMA Retyped ==
  ASSUME NEW S, NEW T, NEW s \in Seq(S), \A i \in 1 .. Len(s) : s[i] \in T
  PROVE  s \in Seq(T)
  OBVIOUS

LEMMA EmptyQueue == IsQueue(<< >>) /\ Packets(<< >>) = {} /\ Ascending(<< >>)
  BY DEF IsQueue, Packets, Ascending

LEMMA OnePacket ==
  ASSUME NEW m
  PROVE  IsQueue(<<m>>) /\ Packets(<<m>>) = {m} /\ Len(<<m>>) = 1 /\ <<m>>[1] = m
  BY DEF IsQueue, Packets

LEMMA TakenQueue ==
  ASSUME NEW w, IsQueue(w), w # << >>, Ascending(w)
  PROVE  /\ IsQueue(Tail(w)) /\ Packets(Tail(w)) \subseteq Packets(w)
         /\ Head(w) \in Packets(w) /\ Ascending(Tail(w))
         /\ \A m \in Packets(Tail(w)) :
              Head(w).type = "request" /\ m.type = "request" => Head(w).id < m.id
<1>1. /\ Tail(w) \in Seq(Packets(w)) /\ Len(Tail(w)) = Len(w) - 1
      /\ \A i \in 1 .. Len(Tail(w)) : Tail(w)[i] = w[i + 1]
  BY HeadTailProperties DEF IsQueue
<1>2. Len(w) \in Nat /\ Len(w) > 0 /\ Head(w) = w[1]
  BY DEF IsQueue
<1>3. Packets(Tail(w)) \subseteq Packets(w)
  BY <1>1, <1>2 DEF Packets
<1>4. IsQueue(Tail(w))
  <2>1. \A i \in 1 .. Len(Tail(w)) : Tail(w)[i] \in Packets(Tail(w))
    BY DEF Packets
  <2>. QED
    BY <1>1, <2>1, Retyped DEF IsQueue
<1>5. Head(w) \in Packets(w)
  BY <1>2 DEF Packets
<1>6. Ascending(Tail(w))
  BY <1>1, <1>2 DEF Ascending
<1>7. \A m \in Packets(Tail(w)) :
        Head(w).type = "request" /\ m.type = "request" => Head(w).id < m.id
  <2>. SUFFICES ASSUME NEW i \in 1 .. Len(Tail(w)), Head(w).type = "request",
                       Tail(w)[i].type = "request"
                PROVE  Head(w).id < Tail(w)[i].id
    BY DEF Packets
  <2>1. Tail(w)[i] = w[i + 1] /\ i + 1 \in 1 .. Len(w) /\ 1 \in 1 .. Len(w) /\ 1 < i + 1
    BY <1>1, <1>2
  <2>. QED
    BY <1>2, <2>1 DEF Ascending
<1>. QED
  BY <1>3, <1>4, <1>5, <1>6, <1>7

LEMMA JoinedQueue ==
  ASSUME NEW w, NEW v, IsQueue(w), IsQueue(v)
  PROVE  IsQueue(w \o v) /\ Packets(w \o v) = Packets(w) \cup Packets(v)
<1>. DEFINE S == Packets(w) \cup Packets(v)
<1>1. w \in Seq(S) /\ v \in Seq(S)
  <2>1. \A i \in 1 .. Len(w) : w[i] \in S
    BY DEF Packets
  <2>2. \A i \in 1 .. Len(v) : v[i] \in S
    BY DEF Packets
  <2>. HIDE DEF S
  <2>. QED
    BY <2>1, <2>2 DEF IsQueue
<1>2. /\ w \o v \in Seq(S) /\ Len(w \o v) = Len(w) + Len(v)
      /\ \A i \in 1 .. Len(w) + Len(v) :
           (w \o v)[i] = IF i <= Len(w) THEN w[i] ELSE v[i - Len(w)]
  BY <1>1, ConcatProperties, Zenon
<1>3. Len(w) \in Nat /\ Len(v) \in Nat
  BY <1>1
<1>4. Packets(w \o v) \subseteq S
  BY <1>2, <1>3 DEF Packets
<1>5. Packets(w) \subseteq Packets(w \o v)
  BY <1>2, <1>3 DEF Packets
<1>6. Packets(v) \subseteq Packets(w \o v)
  <2>. SUFFICES ASSUME NEW i \in 1 .. Len(v)
                PROVE  v[i] \in Packets(w \o v)
    BY DEF Packets
  <2>1. (w \o v)[i + Len(w)] = v[i] /\ i + Len(w) \in 1 .. Len(w \o v)
    BY <1>2, <1>3
  <2>. QED
    BY <2>1 DEF Packets
<1>7. Packets(w \o v) = S
  BY <1>4, <1>5, <1>6
<1>. QED
  BY <1>2, <1>7 DEF IsQueue

(* A packet that is no request, or one with a number larger than all        *)
(* before it, keeps the order.                                              *)
LEMMA JoinedInOrder ==
  ASSUME NEW w, IsQueue(w), Ascending(w), NEW m,
         m.type = "request" =>
           \A n \in Packets(w) : n.type = "request" => n.id < m.id
  PROVE  Ascending(w \o <<m>>)
<1>. DEFINE S == Packets(w) \cup {m}
            v == <<m>>
<1>1. w \in Seq(S) /\ v \in Seq(S) /\ Len(v) = 1 /\ v[1] = m
  <2>1. \A i \in 1 .. Len(w) : w[i] \in S
    BY DEF Packets
  <2>2. m \in S
    OBVIOUS
  <2>. HIDE DEF S
  <2>. QED
    BY <2>1, <2>2 DEF IsQueue
<1>. HIDE DEF v
<1>2. /\ Len(w \o v) = Len(w) + Len(v)
      /\ \A i \in 1 .. Len(w) + Len(v) :
           (w \o v)[i] = IF i <= Len(w) THEN w[i] ELSE v[i - Len(w)]
  BY <1>1, ConcatProperties, Zenon
<1>3. Len(w) \in Nat
  BY <1>1
<1>4. Ascending(w \o v)
  <2>. SUFFICES ASSUME NEW i \in 1 .. Len(w) + 1, NEW j \in 1 .. Len(w) + 1, i < j,
                       (w \o v)[i].type = "request", (w \o v)[j].type = "request"
                PROVE  (w \o v)[i].id < (w \o v)[j].id
    BY <1>1, <1>2 DEF Ascending
  <2>1. i \in 1 .. Len(w) /\ (w \o v)[i] = w[i]
    BY <1>1, <1>2, <1>3
  <2>2. CASE j <= Len(w)
    <3>1. (w \o v)[j] = w[j] /\ j \in 1 .. Len(w)
      BY <1>1, <1>2, <1>3, <2>2
    <3>. QED
      BY <2>1, <3>1 DEF Ascending
  <2>3. CASE j = Len(w) + 1
    <3>1. (w \o v)[j] = m
      BY <1>1, <1>2, <1>3, <2>3
    <3>2. w[i] \in Packets(w) /\ w[i].type = "request" /\ m.type = "request"
      BY <2>1, <3>1 DEF Packets
    <3>3. w[i].id < m.id
      BY <3>2
    <3>. QED
      BY <2>1, <3>1, <3>3
  <2>4. j <= Len(w) \/ j = Len(w) + 1
    BY <1>3
  <2>. QED
    BY <2>2, <2>3, <2>4
<1>. QED
  BY <1>4 DEF v

(***************************************************************************)
(* The registry                                                             *)
(***************************************************************************)

Entry(e) == DOMAIN e = {"bundle", "retired", "locks"} /\ e.retired \in BOOLEAN

Sound(entries) ==
  /\ \A e \in entries : Entry(e) /\ (e.retired => e.locks # {})
  /\ \A e, f \in entries : e.bundle.offer = f.bundle.offer => e = f

LEMMA ClearOfferSound ==
  ASSUME NEW entries, Sound(entries), NEW offer
  PROVE  /\ Sound(ClearOffer(entries, offer))
         /\ \A e \in ClearOffer(entries, offer) :
              \E f \in entries : e.bundle = f.bundle
<1>. DEFINE cleared(e) == IF e.bundle.offer = offer THEN [e EXCEPT !.retired = TRUE] ELSE e
<1>1. \A e \in entries : Entry(cleared(e)) /\ cleared(e).bundle = e.bundle
  BY DEF Sound, Entry
<1>. HIDE DEF cleared
<1>2. ClearOffer(entries, offer) =
        {e \in {cleared(e) : e \in entries} : ~(e.retired /\ e.locks = {})}
  BY DEF ClearOffer, Erased, cleared
<1>3. \A e \in ClearOffer(entries, offer) :
        /\ e.retired => e.locks # {}
        /\ \E f \in entries : e = cleared(f)
  BY <1>2
<1>4. ASSUME NEW d \in ClearOffer(entries, offer), NEW e \in ClearOffer(entries, offer),
             d.bundle.offer = e.bundle.offer
      PROVE  d = e
  <2>1. PICK f \in entries : d = cleared(f)
    BY <1>3
  <2>2. PICK g \in entries : e = cleared(g)
    BY <1>3
  <2>3. f.bundle.offer = g.bundle.offer
    BY <1>1, <1>4, <2>1, <2>2
  <2>4. f = g
    BY <2>3 DEF Sound
  <2>. QED
    BY <2>1, <2>2, <2>4
<1>5. \A e \in ClearOffer(entries, offer) : Entry(e)
  BY <1>1, <1>3
<1>. QED
  BY <1>1, <1>3, <1>4, <1>5 DEF Sound

LEMMA StoreSound ==
  ASSUME NEW entries, Sound(entries), NEW bundle
  PROVE  Sound(Store(entries, bundle))
<1>. DEFINE cleared == ClearOffer(entries, bundle.offer)
            new == [bundle |-> bundle, retired |-> FALSE, locks |-> {}]
<1>1. Sound(cleared)
  BY ClearOfferSound
<1>2. Blocked(entries, bundle) => Store(entries, bundle) = cleared
  BY DEF Store
<1>3. ~Blocked(entries, bundle) => Store(entries, bundle) = cleared \cup {new}
  BY DEF Store
<1>4. ASSUME ~Blocked(entries, bundle)
      PROVE  \A e \in cleared : e.bundle.offer # bundle.offer
  BY <1>4 DEF Blocked
<1>5. Entry(new) /\ new.retired = FALSE /\ new.bundle = bundle
  BY DEF Entry
<1>. HIDE DEF cleared, new
<1>6. CASE ~Blocked(entries, bundle)
  BY <1>1, <1>3, <1>4, <1>5, <1>6 DEF Sound
<1>. QED
  BY <1>1, <1>2, <1>6

(* What a side does with the entries when it stops or loses its channels. *)
LEMMA ClearAllSound ==
  ASSUME NEW entries, Sound(entries)
  PROVE  Sound(ClearAll(ReleaseAllLocks(entries)))
<1>. DEFINE freed == {[e EXCEPT !.locks = {}] : e \in entries}
            kept == Erased(freed)
            retired == {[e EXCEPT !.retired = TRUE] : e \in kept}
<1>1. \A e \in freed : DOMAIN e = {"bundle", "retired", "locks"} /\ e.locks = {}
  BY DEF Sound, Entry
<1>2. kept \subseteq freed
  BY DEF Erased
<1>. HIDE DEF freed, kept
<1>3. \A e \in retired : e.retired = TRUE /\ e.locks = {}
  BY <1>1, <1>2
<1>4. ClearAll(ReleaseAllLocks(entries)) = {}
  <2>. HIDE DEF retired
  <2>1. Erased(retired) = {}
    BY <1>3 DEF Erased
  <2>. QED
    BY <2>1 DEF ClearAll, ReleaseAllLocks, retired, kept, freed
<1>. QED
  BY <1>4 DEF Sound

LEMMA LockedSound ==
  ASSUME NEW entries, Sound(entries), NEW bundle, NEW lock
  PROVE  Sound(Locked(entries, bundle, lock))
<1>. DEFINE locked(e) == IF e.bundle = bundle THEN [e EXCEPT !.locks = @ \cup {lock}] ELSE e
<1>1. \A e \in entries :
        /\ Entry(locked(e)) /\ locked(e).bundle = e.bundle
        /\ locked(e).retired => locked(e).locks # {}
  BY DEF Sound, Entry
<1>2. Locked(entries, bundle, lock) = {locked(e) : e \in entries}
  BY DEF Locked
<1>. HIDE DEF locked
<1>3. ASSUME NEW e \in entries, NEW f \in entries,
             locked(e).bundle.offer = locked(f).bundle.offer
      PROVE  locked(e) = locked(f)
  <2>1. e = f
    BY <1>1, <1>3 DEF Sound
  <2>. QED
    BY <2>1
<1>. QED
  BY <1>1, <1>2, <1>3 DEF Sound

LEMMA UnlockedSound ==
  ASSUME NEW entries, Sound(entries), NEW bundle, NEW lock
  PROVE  Sound(Unlocked(entries, bundle, lock))
<1>. DEFINE freed(e) == IF e.bundle = bundle THEN [e EXCEPT !.locks = @ \ {lock}] ELSE e
<1>1. \A e \in entries : Entry(freed(e)) /\ freed(e).bundle = e.bundle
  BY DEF Sound, Entry
<1>. HIDE DEF freed
<1>2. Unlocked(entries, bundle, lock) =
        {e \in {freed(e) : e \in entries} : ~(e.retired /\ e.locks = {})}
  BY DEF Unlocked, Erased, freed
<1>3. ASSUME NEW e \in entries, NEW f \in entries,
             freed(e).bundle.offer = freed(f).bundle.offer
      PROVE  freed(e) = freed(f)
  <2>1. e = f
    BY <1>1, <1>3 DEF Sound
  <2>. QED
    BY <2>1
<1>. QED
  BY <1>1, <1>2, <1>3 DEF Sound

(***************************************************************************)
(* The inductive invariant                                                  *)
(***************************************************************************)

Fields == {"state", "paused", "native", "changed", "announced", "offers", "local",
           "remote", "entries", "nextId", "pending", "slot", "reserved", "inFlight",
           "calls", "done", "answered", "overlapped"}

(* What policy asks of the side that calls and of the side that serves. *)
MayAsk(p, k) == "receive" \in policy[p] /\ (k # "read" => "files" \in policy[p])
MayServe(p, k) == "send" \in policy[p] /\ (k # "read" => "files" \in policy[p])
Permitted(p, k) == MayAsk(p, k) /\ MayServe(Other(p), k)

(* A request that waits is one the side may make, and the newest result of  *)
(* a kind, like every call that has returned, succeeded only if permitted.  *)
PendingOk(p, s) ==
  /\ s.nextId \in Nat
  /\ \A i \in DOMAIN s.pending :
       i \in Nat /\ i < s.nextId /\ s.pending[i].kind \in Kinds
         /\ MayAsk(p, s.pending[i].kind)

ResultsOk(p, s) ==
  /\ DOMAIN s.slot = Kinds
  /\ \A k \in Kinds : s.slot[k].result # << >> /\ s.slot[k].result[1].status = "Ok"
                        => Permitted(p, k)
  /\ IsQueue(s.calls) /\ \A c \in Packets(s.calls) : c.kind \in Kinds
  /\ \A i \in DOMAIN s.done : s.done[i].status = "Ok" => Permitted(p, s.done[i].kind)

(* The window holds one unit for each request of the peer that is reserved. *)
WindowOk(s, peerNext) ==
  /\ peerNext \in Nat
  /\ s.reserved \subseteq Nat /\ \A r \in s.reserved : r < peerNext
  /\ s.inFlight = Cardinality(s.reserved)
  /\ WindowMax # 0 => s.inFlight <= WindowMax

SideOk(p) ==
  /\ DOMAIN peer[p] = Fields /\ Sound(peer[p].entries)
  /\ PendingOk(p, peer[p]) /\ ResultsOk(p, peer[p])
  /\ WindowOk(peer[p], peer[Other(p)].nextId)

(* Packets on their way to p: requests of the other side that are newer     *)
(* than those p has answered, and answers to its own.                       *)
RequestOk(p, m) ==
  /\ m.id \in Nat /\ m.id < peer[Other(p)].nextId /\ m.kind \in Kinds
  /\ m.id \in DOMAIN peer[Other(p)].pending => peer[Other(p)].pending[m.id].kind = m.kind
  /\ \A r \in peer[p].reserved : r < m.id

ResponseOk(p, m) ==
  /\ m.to \in Nat /\ m.to < peer[p].nextId /\ m.kind \in Kinds
  /\ m.to \in DOMAIN peer[p].pending => peer[p].pending[m.to].kind = m.kind
  /\ m.status = "Ok" => MayServe(Other(p), m.kind)

Types == {"list", "request", "response", "ack", "cancel"}

PacketOk(p, m) ==
  /\ m.type \in Types
  /\ m.type = "request" => RequestOk(p, m)
  /\ m.type = "response" => ResponseOk(p, m)

QueuesOk(p) ==
  /\ IsQueue(wire[p]) /\ Ascending(wire[p]) /\ \A m \in Packets(wire[p]) : PacketOk(p, m)
  /\ IsQueue(bulk[p]) /\ Ascending(bulk[p])
  /\ \A m \in Packets(bulk[p]) : m.type = "response" /\ PacketOk(p, m)

Inv ==
  /\ DOMAIN peer = Peers /\ DOMAIN wire = Peers /\ DOMAIN bulk = Peers
  /\ \A p \in Peers : SideOk(p) /\ QueuesOk(p)

LEMMA InitInv == Init => Inv
<1>. SUFFICES ASSUME Init PROVE Inv
  OBVIOUS
<1>1. DOMAIN peer = Peers /\ DOMAIN wire = Peers /\ DOMAIN bulk = Peers
  BY DEF Init
<1>2. ASSUME NEW p \in Peers
      PROVE  SideOk(p) /\ QueuesOk(p)
  <2>1. /\ wire[p] = << >> /\ bulk[p] = << >>
        /\ DOMAIN peer[p] = Fields /\ peer[p].entries = {} /\ peer[p].nextId = 1
        /\ peer[p].pending = << >> /\ peer[p].calls = << >> /\ peer[p].done = << >>
        /\ peer[p].reserved = {} /\ peer[p].inFlight = 0
    BY DEF Init, Fields
  <2>2. DOMAIN peer[p].slot = Kinds /\ \A k \in Kinds : peer[p].slot[k].result = << >>
    BY DEF Init
  <2>3. Sound({}) /\ DOMAIN << >> = {}
    BY DEF Sound
  <2>4. PendingOk(p, peer[p])
    BY <2>1, <2>3 DEF PendingOk
  <2>5. ResultsOk(p, peer[p])
    BY <2>1, <2>2, <2>3, EmptyQueue DEF ResultsOk
  <2>6. WindowOk(peer[p], peer[Other(p)].nextId)
    <3>1. peer[Other(p)].nextId = 1
      BY OtherSide DEF Init
    <3>. QED
      BY <2>1, <3>1, FS_EmptySet, ClipboardAssumption DEF WindowOk
  <2>. QED
    BY <2>1, <2>3, <2>4, <2>5, <2>6, EmptyQueue DEF SideOk, QueuesOk
<1>. QED
  BY <1>1, <1>2 DEF Inv

(***************************************************************************)
(* Effects                                                                  *)
(***************************************************************************)

(* A packet that p may send when it becomes t: its next request, or an      *)
(* answer that policy and the request allow.                                *)
GoodRequest(p, t, m) ==
  /\ m.id = peer[p].nextId /\ m.id < t.nextId /\ m.kind \in Kinds
  /\ m.id \in DOMAIN t.pending => t.pending[m.id].kind = m.kind

GoodPacket(p, t, m) ==
  /\ m.type \in Types
  /\ m.type = "request" => GoodRequest(p, t, m)
  /\ m.type = "response" => ResponseOk(Other(p), m)

(* A side of p that its steps may lead to, with the requests it answers     *)
(* taken from fresh.                                                        *)
GoodSide(p, t, fresh) ==
  /\ DOMAIN t = Fields /\ Sound(t.entries)
  /\ PendingOk(p, t) /\ ResultsOk(p, t) /\ peer[p].nextId <= t.nextId
  /\ \A i \in DOMAIN t.pending :
       i < peer[p].nextId => i \in DOMAIN peer[p].pending
                              /\ t.pending[i].kind = peer[p].pending[i].kind
  /\ WindowOk(t, peer[Other(p)].nextId)
  /\ t.reserved \subseteq peer[p].reserved \cup fresh

GoodEffect(p, e, fresh) ==
  /\ GoodSide(p, e.s, fresh)
  /\ e.out = << >> \/ \E m : e.out = <<m>> /\ GoodPacket(p, e.s, m)
  /\ e.heavy = << >> \/ \E m : e.heavy = <<m>> /\ m.type = "response" /\ GoodPacket(p, e.s, m)

(* A step of p leads to such a side, takes packets off its own queues and   *)
(* appends such packets to the other's.                                     *)
Leads(p, t, fresh) ==
  /\ GoodSide(p, t, fresh)
  /\ peer' = [peer EXCEPT ![p] = t] /\ policy' = policy
  /\ DOMAIN wire' = Peers /\ DOMAIN bulk' = Peers

TakesOff(p, fresh) ==
  /\ IsQueue(wire'[p]) /\ Ascending(wire'[p]) /\ IsQueue(bulk'[p]) /\ Ascending(bulk'[p])
  /\ Packets(wire'[p]) \subseteq Packets(wire[p])
  /\ Packets(bulk'[p]) \subseteq Packets(bulk[p])
  /\ \A m \in Packets(wire'[p]) : m.type = "request" => \A r \in fresh : r < m.id

Appends(p, t) ==
  LET q == Other(p)
  IN /\ IsQueue(wire'[q]) /\ Ascending(wire'[q]) /\ IsQueue(bulk'[q]) /\ Ascending(bulk'[q])
     /\ \A m \in Packets(wire'[q]) : m \in Packets(wire[q]) \/ GoodPacket(p, t, m)
     /\ \A m \in Packets(bulk'[q]) :
          m \in Packets(bulk[q]) \/ (m.type = "response" /\ GoodPacket(p, t, m))

LEMMA StepKeeps ==
  ASSUME Inv, NEW p \in Peers, NEW t, NEW fresh,
         Leads(p, t, fresh), TakesOff(p, fresh), Appends(p, t)
  PROVE  Inv'
<1>. DEFINE q == Other(p)
<1>1. q \in Peers /\ q # p /\ Other(q) = p /\ Peers = {p, q}
  BY OtherSide
<1>2. SideOk(p) /\ SideOk(q) /\ QueuesOk(p) /\ QueuesOk(q) /\ DOMAIN peer = Peers
  BY <1>1 DEF Inv
<1>3. DOMAIN peer' = Peers /\ peer'[p] = t /\ peer'[q] = peer[q]
  BY <1>1, <1>2 DEF Leads
<1>. HIDE DEF q
<1>4. /\ peer[p].nextId \in Nat /\ t.nextId \in Nat /\ peer[p].nextId <= t.nextId
      /\ peer[q].nextId \in Nat
      /\ \A i \in DOMAIN t.pending :
           i < peer[p].nextId => i \in DOMAIN peer[p].pending
                                  /\ t.pending[i].kind = peer[p].pending[i].kind
  BY <1>2 DEF Leads, GoodSide, PendingOk, SideOk
<1>5. SideOk(p)'
  <2>1. /\ DOMAIN t = Fields /\ Sound(t.entries) /\ PendingOk(p, t) /\ ResultsOk(p, t)
        /\ WindowOk(t, peer[q].nextId)
    BY DEF Leads, GoodSide, q
  <2>2. PendingOk(p, t)'
    BY <2>1 DEF PendingOk, MayAsk, Leads
  <2>. QED
    BY <1>3, <2>1 DEF Leads, SideOk, PendingOk, ResultsOk, WindowOk, MayAsk, MayServe, Permitted, q
<1>6. SideOk(q)'
  <2>1. /\ DOMAIN peer[q] = Fields /\ Sound(peer[q].entries) /\ PendingOk(q, peer[q])
        /\ ResultsOk(q, peer[q]) /\ WindowOk(peer[q], peer[p].nextId)
    BY <1>1, <1>2 DEF SideOk
  <2>2. WindowOk(peer[q], t.nextId)
    BY <1>4, <2>1 DEF WindowOk
  <2>. QED
    BY <1>1, <1>3, <2>1, <2>2
       DEF Leads, SideOk, PendingOk, ResultsOk, WindowOk, MayAsk, MayServe, Permitted
<1>7. ASSUME NEW m, PacketOk(p, m),
             m.type = "request" => \A r \in fresh : r < m.id
      PROVE  PacketOk(p, m)'
  <2>1. CASE m.type = "request"
    <3>1. RequestOk(p, m)
      BY <1>7, <2>1 DEF PacketOk
    <3>2. t.reserved \subseteq peer[p].reserved \cup fresh
      BY DEF Leads, GoodSide
    <3>3. RequestOk(p, m)'
      BY <1>3, <1>7, <2>1, <3>1, <3>2 DEF RequestOk, q
    <3>. QED
      BY <1>7, <2>1, <3>3 DEF PacketOk
  <2>2. CASE m.type = "response"
    <3>1. ResponseOk(p, m)
      BY <1>7, <2>2 DEF PacketOk
    <3>2. ResponseOk(p, m)'
      BY <1>3, <1>4, <3>1 DEF Leads, ResponseOk, MayServe
    <3>. QED
      BY <1>7, <2>2, <3>2 DEF PacketOk
  <2>. QED
    BY <1>7, <2>1, <2>2 DEF PacketOk
<1>8. ASSUME NEW m, PacketOk(q, m)
      PROVE  PacketOk(q, m)'
  <2>1. RequestOk(q, m) => RequestOk(q, m)'
    BY <1>1, <1>3, <1>4 DEF RequestOk
  <2>2. ResponseOk(q, m) => ResponseOk(q, m)'
    BY <1>1, <1>3 DEF Leads, ResponseOk, MayServe
  <2>. QED
    BY <1>8, <2>1, <2>2 DEF PacketOk
<1>9. ASSUME NEW m, GoodPacket(p, t, m)
      PROVE  PacketOk(q, m)'
  <2>1. m.type = "request" => RequestOk(q, m)'
    <3>1. \A r \in peer[q].reserved : r < peer[p].nextId
      BY <1>1, <1>2 DEF SideOk, WindowOk
    <3>. QED
      BY <1>1, <1>3, <1>4, <1>9, <3>1 DEF GoodPacket, GoodRequest, RequestOk
  <2>2. ResponseOk(q, m) => ResponseOk(q, m)'
    BY <1>1, <1>3 DEF Leads, ResponseOk, MayServe
  <2>. QED
    BY <1>9, <2>1, <2>2 DEF GoodPacket, PacketOk, q
<1>10. QueuesOk(p)'
  <2>1. \A m \in Packets(wire[p]) : PacketOk(p, m)
    BY <1>2 DEF QueuesOk
  <2>2. \A m \in Packets(bulk[p]) : m.type = "response" /\ PacketOk(p, m)
    BY <1>2 DEF QueuesOk
  <2>3. \A m \in Packets(wire'[p]) : PacketOk(p, m)'
    BY <1>7, <2>1 DEF TakesOff
  <2>4. \A m \in Packets(bulk'[p]) : m.type = "response" /\ PacketOk(p, m)'
    BY <1>7, <2>2 DEF TakesOff
  <2>. QED
    BY <2>3, <2>4 DEF QueuesOk, TakesOff
<1>11. QueuesOk(q)'
  <2>1. \A m \in Packets(wire[q]) : PacketOk(q, m)
    BY <1>2 DEF QueuesOk
  <2>2. \A m \in Packets(bulk[q]) : m.type = "response" /\ PacketOk(q, m)
    BY <1>2 DEF QueuesOk
  <2>3. \A m \in Packets(wire'[q]) : PacketOk(q, m)'
    BY <1>8, <1>9, <2>1 DEF Appends, q
  <2>4. \A m \in Packets(bulk'[q]) : m.type = "response" /\ PacketOk(q, m)'
    BY <1>8, <1>9, <2>2 DEF Appends, q
  <2>. QED
    BY <2>3, <2>4 DEF QueuesOk, Appends, q
<1>12. \A r \in Peers : SideOk(r)' /\ QueuesOk(r)'
  BY <1>1, <1>5, <1>6, <1>10, <1>11
<1>. QED
  BY <1>3, <1>12 DEF Inv, Leads

(* What an effect appends to the queues of the other side. *)
LEMMA SentQueues ==
  ASSUME Inv, NEW p \in Peers, NEW e, NEW fresh, GoodEffect(p, e, fresh)
  PROVE  /\ IsQueue(wire[Other(p)] \o e.out) /\ Ascending(wire[Other(p)] \o e.out)
         /\ \A m \in Packets(wire[Other(p)] \o e.out) :
              m \in Packets(wire[Other(p)]) \/ GoodPacket(p, e.s, m)
         /\ IsQueue(bulk[Other(p)] \o e.heavy) /\ Ascending(bulk[Other(p)] \o e.heavy)
         /\ \A m \in Packets(bulk[Other(p)] \o e.heavy) :
              \/ m \in Packets(bulk[Other(p)])
              \/ m.type = "response" /\ GoodPacket(p, e.s, m)
<1>. DEFINE w == wire[Other(p)]
            v == bulk[Other(p)]
<1>1. Other(p) \in Peers /\ Other(Other(p)) = p
  BY OtherSide
<1>2. /\ IsQueue(w) /\ Ascending(w) /\ IsQueue(v) /\ Ascending(v)
      /\ \A m \in Packets(w) : m.type = "request" => m.id < peer[p].nextId
  BY <1>1 DEF Inv, QueuesOk, PacketOk, RequestOk
<1>. HIDE DEF w, v
<1>3. w \o << >> = w /\ v \o << >> = v
  BY <1>2, ConcatEmptySeq DEF IsQueue
<1>4. /\ IsQueue(w \o e.out) /\ Ascending(w \o e.out)
      /\ \A m \in Packets(w \o e.out) : m \in Packets(w) \/ GoodPacket(p, e.s, m)
  <2>1. CASE e.out = << >>
    BY <1>2, <1>3, <2>1
  <2>2. ASSUME NEW m, e.out = <<m>>, GoodPacket(p, e.s, m)
        PROVE  /\ IsQueue(w \o e.out) /\ Ascending(w \o e.out)
               /\ \A n \in Packets(w \o e.out) : n \in Packets(w) \/ GoodPacket(p, e.s, n)
    <3>1. IsQueue(<<m>>) /\ Packets(<<m>>) = {m}
      BY OnePacket
    <3>2. IsQueue(w \o <<m>>) /\ Packets(w \o <<m>>) = Packets(w) \cup {m}
      BY <1>2, <3>1, JoinedQueue
    <3>3. m.type = "request" => \A n \in Packets(w) : n.type = "request" => n.id < m.id
      BY <1>2, <2>2 DEF GoodPacket, GoodRequest
    <3>4. Ascending(w \o <<m>>)
      BY <1>2, <3>3, JoinedInOrder
    <3>. QED
      BY <2>2, <3>2, <3>4
  <2>. QED
    BY <2>1, <2>2 DEF GoodEffect
<1>5. /\ IsQueue(v \o e.heavy) /\ Ascending(v \o e.heavy)
      /\ \A m \in Packets(v \o e.heavy) :
           m \in Packets(v) \/ (m.type = "response" /\ GoodPacket(p, e.s, m))
  <2>1. CASE e.heavy = << >>
    BY <1>2, <1>3, <2>1
  <2>2. ASSUME NEW m, e.heavy = <<m>>, m.type = "response", GoodPacket(p, e.s, m)
        PROVE  /\ IsQueue(v \o e.heavy) /\ Ascending(v \o e.heavy)
               /\ \A n \in Packets(v \o e.heavy) :
                    n \in Packets(v) \/ (n.type = "response" /\ GoodPacket(p, e.s, n))
    <3>1. IsQueue(<<m>>) /\ Packets(<<m>>) = {m}
      BY OnePacket
    <3>2. IsQueue(v \o <<m>>) /\ Packets(v \o <<m>>) = Packets(v) \cup {m}
      BY <1>2, <3>1, JoinedQueue
    <3>3. m.type # "request"
      BY <2>2
    <3>4. Ascending(v \o <<m>>)
      BY <1>2, <3>3, JoinedInOrder
    <3>. QED
      BY <2>2, <3>2, <3>4
  <2>. QED
    BY <2>1, <2>2 DEF GoodEffect
<1>. QED
  BY <1>4, <1>5 DEF w, v

LEMMA ActsKeeps ==
  ASSUME Inv, NEW p \in Peers, NEW e, GoodEffect(p, e, {}), Acts(p, e)
  PROVE  Inv'
<1>. DEFINE q == Other(p)
<1>1. q \in Peers /\ q # p /\ DOMAIN wire = Peers /\ DOMAIN bulk = Peers
  BY OtherSide DEF Inv
<1>2. /\ QueuesOk(p) /\ QueuesOk(q)
  BY <1>1 DEF Inv
<1>3. /\ peer' = [peer EXCEPT ![p] = e.s] /\ policy' = policy
      /\ wire' = IF up THEN [wire EXCEPT ![q] = @ \o e.out] ELSE wire
      /\ bulk' = IF up THEN [bulk EXCEPT ![q] = @ \o e.heavy] ELSE bulk
  BY DEF Acts
<1>. HIDE DEF q
<1>4. /\ DOMAIN wire' = Peers /\ DOMAIN bulk' = Peers
      /\ wire'[p] = wire[p] /\ bulk'[p] = bulk[p]
      /\ wire'[q] \in {wire[q], wire[q] \o e.out}
      /\ bulk'[q] \in {bulk[q], bulk[q] \o e.heavy}
  BY <1>1, <1>3
<1>5. /\ IsQueue(wire'[q]) /\ Ascending(wire'[q])
      /\ \A m \in Packets(wire'[q]) : m \in Packets(wire[q]) \/ GoodPacket(p, e.s, m)
  <2>1. CASE wire'[q] = wire[q]
    BY <1>2, <2>1 DEF QueuesOk
  <2>2. CASE wire'[q] = wire[q] \o e.out
    BY <2>2, SentQueues DEF q
  <2>. QED
    BY <1>4, <2>1, <2>2
<1>6. /\ IsQueue(bulk'[q]) /\ Ascending(bulk'[q])
      /\ \A m \in Packets(bulk'[q]) :
           m \in Packets(bulk[q]) \/ (m.type = "response" /\ GoodPacket(p, e.s, m))
  <2>1. CASE bulk'[q] = bulk[q]
    BY <1>2, <2>1 DEF QueuesOk
  <2>2. CASE bulk'[q] = bulk[q] \o e.heavy
    BY <2>2, SentQueues DEF q
  <2>. QED
    BY <1>4, <2>1, <2>2
<1>7. TakesOff(p, {})
  BY <1>2, <1>4 DEF QueuesOk, TakesOff
<1>8. Appends(p, e.s)
  BY <1>5, <1>6 DEF Appends, q
<1>9. Leads(p, e.s, {})
  BY <1>3, <1>4 DEF GoodEffect, Leads
<1>. QED
  BY <1>7, <1>8, <1>9, StepKeeps

(***************************************************************************)
(* Sides                                                                    *)
(***************************************************************************)

LEMMA OwnSide ==
  ASSUME Inv, NEW p \in Peers, NEW fresh
  PROVE  GoodSide(p, peer[p], fresh)
<1>1. SideOk(p)
  BY DEF Inv
<1>. QED
  BY <1>1 DEF SideOk, GoodSide, PendingOk

(* A side that differs in what the invariant does not speak of, or in a     *)
(* sound registry.                                                          *)
LEMMA SameElse ==
  ASSUME NEW p, NEW s, NEW t, NEW fresh, GoodSide(p, s, fresh),
         DOMAIN t = Fields, Sound(t.entries), t.nextId = s.nextId,
         t.pending = s.pending, t.slot = s.slot, t.calls = s.calls, t.done = s.done,
         t.reserved = s.reserved, t.inFlight = s.inFlight
  PROVE  GoodSide(p, t, fresh)
<1>1. PendingOk(p, t)
  BY DEF GoodSide, PendingOk
<1>2. ResultsOk(p, t)
  BY DEF GoodSide, ResultsOk
<1>3. WindowOk(t, peer[Other(p)].nextId)
  BY DEF GoodSide, WindowOk
<1>. QED
  BY <1>1, <1>2, <1>3 DEF GoodSide

LEMMA WiderFresh ==
  ASSUME NEW p, NEW s, NEW fresh, GoodSide(p, s, {})
  PROVE  GoodSide(p, s, fresh)
  BY DEF GoodSide

(* The requests that end leave the table, and a success among them was      *)
(* permitted.                                                               *)
LEMMA EndedSide ==
  ASSUME NEW p, NEW s, NEW fresh, GoodSide(p, s, fresh),
         NEW ids \in SUBSET DOMAIN s.pending, NEW status,
         status = "Ok" => \A i \in ids : MayServe(Other(p), s.pending[i].kind)
  PROVE  GoodSide(p, Ended(s, ids, status), fresh)
<1>. DEFINE last(k) == {i \in ids : s.pending[i].kind = k
                                  /\ \A j \in ids : s.pending[j].kind = k => j <= i}
            pending == [i \in DOMAIN s.pending \ ids |-> s.pending[i]]
            slot == [k \in Kinds |->
                      IF last(k) = {} THEN s.slot[k]
                      ELSE [to |-> CHOOSE i \in last(k) : TRUE,
                            result |-> <<[status |-> status,
                                          of |-> CHOOSE i \in last(k) : TRUE]>>]]
            t == Ended(s, ids, status)
<1>1. t = [s EXCEPT !.pending = pending, !.slot = slot]
  BY DEF Ended
<1>2. ASSUME NEW k \in Kinds, slot[k].result # << >>, slot[k].result[1].status = "Ok"
      PROVE  Permitted(p, k)
  <2>1. CASE last(k) = {}
    <3>1. slot[k] = s.slot[k]
      BY <2>1
    <3>. HIDE DEF slot
    <3>. QED
      BY <1>2, <3>1 DEF GoodSide, ResultsOk
  <2>2. CASE last(k) # {}
    <3>1. PICK i \in ids : s.pending[i].kind = k
      BY <2>2
    <3>2. slot[k].result[1].status = status
      BY <2>2
    <3>3. MayAsk(p, k)
      BY <3>1 DEF GoodSide, PendingOk
    <3>. HIDE DEF slot
    <3>. QED
      BY <1>2, <3>1, <3>2, <3>3 DEF Permitted
  <2>. QED
    BY <2>1, <2>2
<1>3. DOMAIN slot = Kinds
  OBVIOUS
<1>4. DOMAIN pending \subseteq DOMAIN s.pending
      /\ \A i \in DOMAIN pending : pending[i] = s.pending[i]
  OBVIOUS
<1>5. DOMAIN s = Fields
  BY DEF GoodSide
<1>. HIDE DEF pending, slot
<1>6. /\ DOMAIN t = Fields /\ t.pending = pending /\ t.slot = slot
      /\ t.entries = s.entries /\ t.nextId = s.nextId /\ t.calls = s.calls
      /\ t.done = s.done /\ t.reserved = s.reserved /\ t.inFlight = s.inFlight
  BY <1>1, <1>5 DEF Fields
<1>. HIDE DEF t
<1>7. PendingOk(p, t)
  BY <1>4, <1>6 DEF GoodSide, PendingOk
<1>8. ResultsOk(p, t)
  BY <1>2, <1>3, <1>6 DEF GoodSide, ResultsOk
<1>9. WindowOk(t, peer[Other(p)].nextId)
  BY <1>6 DEF GoodSide, WindowOk
<1>10. GoodSide(p, t, fresh)
  BY <1>4, <1>6, <1>7, <1>8, <1>9 DEF GoodSide
<1>. QED
  BY <1>10 DEF t

LEMMA LetGoSide ==
  ASSUME NEW p, NEW s, NEW fresh, GoodSide(p, s, fresh)
  PROVE  GoodSide(p, LetGo(s), fresh)
<1>. DEFINE t == LetGo(s)
            c == Cardinality(s.reserved)
            entries == ClearAll(ReleaseAllLocks(s.entries))
<1>1. DOMAIN s = Fields /\ Sound(s.entries) /\ s.inFlight = c
  BY DEF GoodSide, WindowOk
<1>2. Sound(entries)
  BY <1>1, ClearAllSound
<1>3. IsFiniteSet(s.reserved)
  <2>1. s.reserved \in SUBSET Nat /\ \A r \in s.reserved : r < peer[Other(p)].nextId
    BY DEF GoodSide, WindowOk
  <2>2. peer[Other(p)].nextId \in Nat /\ \A r \in s.reserved : r <= peer[Other(p)].nextId
    BY <2>1 DEF GoodSide, WindowOk
  <2>. QED
    BY <2>1, <2>2, FS_BoundedSetOfNaturals
<1>4. c \in Nat
  BY <1>3, FS_CardinalityType
<1>5. Released(s.inFlight, c) = 0
  BY <1>1, <1>4 DEF Released
<1>. HIDE DEF c, entries
<1>6. /\ DOMAIN t = Fields /\ t.pending = s.pending /\ t.slot = s.slot
      /\ t.entries = entries /\ t.nextId = s.nextId /\ t.calls = s.calls
      /\ t.done = s.done /\ t.reserved = {} /\ t.inFlight = 0
  BY <1>1, <1>5 DEF LetGo, Fields, c, entries
<1>. HIDE DEF t
<1>7. WindowOk(t, peer[Other(p)].nextId)
  BY <1>6, FS_EmptySet, ClipboardAssumption DEF GoodSide, WindowOk
<1>8. PendingOk(p, t)
  BY <1>6 DEF GoodSide, PendingOk
<1>9. ResultsOk(p, t)
  BY <1>6 DEF GoodSide, ResultsOk
<1>10. GoodSide(p, t, fresh)
  BY <1>2, <1>6, <1>7, <1>8, <1>9 DEF GoodSide
<1>. QED
  BY <1>10 DEF t

(***************************************************************************)
(* Handlers                                                                 *)
(***************************************************************************)

LEMMA EffectForms ==
  ASSUME NEW p, NEW s, NEW fresh, GoodSide(p, s, fresh)
  PROVE  /\ GoodEffect(p, Does(s), fresh)
         /\ \A m : GoodPacket(p, s, m) => GoodEffect(p, Sends(s, m), fresh)
         /\ \A m : GoodPacket(p, s, m) /\ m.type = "response"
                   => GoodEffect(p, SendsBulk(s, m), fresh)
<1>1. GoodEffect(p, Does(s), fresh)
  BY DEF GoodEffect, Does
<1>2. ASSUME NEW m, GoodPacket(p, s, m)
      PROVE  GoodEffect(p, Sends(s, m), fresh)
  BY <1>2 DEF GoodEffect, Sends
<1>3. ASSUME NEW m, GoodPacket(p, s, m), m.type = "response"
      PROVE  GoodEffect(p, SendsBulk(s, m), fresh)
  BY <1>3 DEF GoodEffect, SendsBulk
<1>. QED
  BY <1>1, <1>2, <1>3

LEMMA AnswerGood ==
  ASSUME NEW p \in Peers, NEW t, NEW m, RequestOk(p, m), NEW status,
         status = "Ok" => MayServe(p, m.kind)
  PROVE  GoodPacket(p, t, Answer(m, status)) /\ Answer(m, status).type = "response"
<1>. DEFINE r == Answer(m, status)
<1>1. r.type = "response" /\ r.kind = m.kind /\ r.to = m.id /\ r.status = status
  BY DEF Answer
<1>. HIDE DEF r
<1>2. ResponseOk(Other(p), r)
  BY <1>1, OtherSide DEF RequestOk, ResponseOk
<1>3. GoodPacket(p, t, r)
  BY <1>1, <1>2 DEF GoodPacket, Types
<1>. QED
  BY <1>1, <1>3 DEF r

(* Announcing, or storing an offer of the other side. *)
LEMMA AnnounceGood ==
  ASSUME NEW p, NEW s, NEW b, GoodSide(p, s, {})
  PROVE  GoodEffect(p, AnnounceLocalBundle(p, s, b), {})
<1>. DEFINE stored == [s EXCEPT !.entries = Store(s.entries, b)]
            taken == [stored EXCEPT !.entries = ClearOffer(stored.entries, b.offer)]
            made == [stored EXCEPT !.local = b]
            packet == [type |-> "list", bundle |-> b]
<1>1. DOMAIN s = Fields /\ Sound(s.entries)
  BY DEF GoodSide
<1>2. Sound(Store(s.entries, b))
  BY <1>1, StoreSound
<1>3. /\ DOMAIN stored = Fields /\ stored.entries = Store(s.entries, b)
      /\ stored.nextId = s.nextId
      /\ stored.pending = s.pending /\ stored.slot = s.slot /\ stored.calls = s.calls
      /\ stored.done = s.done /\ stored.reserved = s.reserved
      /\ stored.inFlight = s.inFlight
  BY <1>1 DEF Fields
<1>. HIDE DEF stored
<1>4. GoodSide(p, stored, {})
  BY <1>2, <1>3, SameElse
<1>5. Sound(ClearOffer(stored.entries, b.offer))
  BY <1>2, <1>3, ClearOfferSound
<1>6. /\ DOMAIN taken = Fields /\ taken.entries = ClearOffer(stored.entries, b.offer)
      /\ taken.nextId = stored.nextId
      /\ taken.pending = stored.pending /\ taken.slot = stored.slot
      /\ taken.calls = stored.calls
      /\ taken.done = stored.done /\ taken.reserved = stored.reserved
      /\ taken.inFlight = stored.inFlight
  BY <1>3 DEF Fields
<1>7. /\ DOMAIN made = Fields /\ made.entries = stored.entries
      /\ made.nextId = stored.nextId
      /\ made.pending = stored.pending /\ made.slot = stored.slot
      /\ made.calls = stored.calls
      /\ made.done = stored.done /\ made.reserved = stored.reserved
      /\ made.inFlight = stored.inFlight
  BY <1>3 DEF Fields
<1>8. GoodPacket(p, made, packet)
  BY DEF GoodPacket, Types
<1>. HIDE DEF taken, made, packet
<1>9. GoodSide(p, taken, {})
  BY <1>4, <1>5, <1>6, SameElse
<1>10. GoodSide(p, made, {})
  BY <1>2, <1>3, <1>4, <1>7, SameElse
<1>11. /\ GoodEffect(p, Does(s), {}) /\ GoodEffect(p, Does(stored), {})
       /\ GoodEffect(p, Does(taken), {}) /\ GoodEffect(p, Sends(made, packet), {})
  BY <1>4, <1>8, <1>9, <1>10, EffectForms
<1>12. AnnounceLocalBundle(p, s, b) \in
         {Does(s), Does(stored), Does(taken), Sends(made, packet)}
  BY DEF AnnounceLocalBundle, stored, taken, made, packet
<1>. QED
  BY <1>11, <1>12

LEMMA FormatListGood ==
  ASSUME NEW p, NEW s, NEW m, NEW published, NEW fresh, GoodSide(p, s, fresh)
  PROVE  GoodEffect(p, HandleFormatList(p, s, m, published), fresh)
<1>. DEFINE b == m.bundle
            stored == [s EXCEPT !.entries = Store(s.entries, b)]
            taken == [stored EXCEPT !.remote = NoBundle,
                                    !.entries = ClearOffer(stored.entries, b.offer)]
            shown == [stored EXCEPT !.remote = b, !.native = b]
<1>1. DOMAIN s = Fields /\ Sound(s.entries)
  BY DEF GoodSide
<1>2. Sound(Store(s.entries, b))
  BY <1>1, StoreSound
<1>3. /\ DOMAIN stored = Fields /\ stored.entries = Store(s.entries, b)
      /\ stored.nextId = s.nextId
      /\ stored.pending = s.pending /\ stored.slot = s.slot /\ stored.calls = s.calls
      /\ stored.done = s.done /\ stored.reserved = s.reserved
      /\ stored.inFlight = s.inFlight
  BY <1>1 DEF Fields
<1>. HIDE DEF stored
<1>4. GoodSide(p, stored, fresh)
  BY <1>2, <1>3, SameElse
<1>5. Sound(ClearOffer(stored.entries, b.offer))
  BY <1>2, <1>3, ClearOfferSound
<1>6. /\ DOMAIN taken = Fields /\ taken.entries = ClearOffer(stored.entries, b.offer)
      /\ taken.nextId = stored.nextId
      /\ taken.pending = stored.pending /\ taken.slot = stored.slot
      /\ taken.calls = stored.calls
      /\ taken.done = stored.done /\ taken.reserved = stored.reserved
      /\ taken.inFlight = stored.inFlight
  BY <1>3 DEF Fields
<1>7. /\ DOMAIN shown = Fields /\ shown.entries = stored.entries
      /\ shown.nextId = stored.nextId
      /\ shown.pending = stored.pending /\ shown.slot = stored.slot
      /\ shown.calls = stored.calls
      /\ shown.done = stored.done /\ shown.reserved = stored.reserved
      /\ shown.inFlight = stored.inFlight
  BY <1>3 DEF Fields
<1>. HIDE DEF taken, shown
<1>8. GoodSide(p, taken, fresh)
  BY <1>4, <1>5, <1>6, SameElse
<1>9. GoodSide(p, shown, fresh)
  BY <1>2, <1>3, <1>4, <1>7, SameElse
<1>10. /\ GoodEffect(p, Does(s), fresh) /\ GoodEffect(p, Does(stored), fresh)
       /\ GoodEffect(p, Does(taken), fresh) /\ GoodEffect(p, Does(shown), fresh)
  BY <1>4, <1>8, <1>9, EffectForms
<1>11. HandleFormatList(p, s, m, published) \in
         {Does(s), Does(stored), Does(taken), Does(shown)}
  BY DEF HandleFormatList, stored, taken, shown
<1>. QED
  BY <1>10, <1>11

LEMMA ReadGood ==
  ASSUME NEW p \in Peers, NEW s, NEW m, NEW fresh, GoodSide(p, s, fresh),
         RequestOk(p, m), m.kind = "read"
  PROVE  GoodEffect(p, HandleRead(p, s, m), fresh)
<1>. DEFINE status == IF "send" \notin policy[p] THEN "DeniedByPolicy"
                      ELSE ReadStatus(s, m.bundle)
<1>1. status = "Ok" => MayServe(p, m.kind)
  BY DEF MayServe
<1>. HIDE DEF status
<1>2. GoodPacket(p, s, Answer(m, status))
  BY <1>1, AnswerGood
<1>. QED
  BY <1>2, EffectForms DEF HandleRead, status

LEMMA RangeGood ==
  ASSUME NEW p \in Peers, NEW s, NEW m, GoodSide(p, s, {}), s.reserved = peer[p].reserved,
         RequestOk(p, m), m.kind = "range"
  PROVE  GoodEffect(p, HandleRange(p, s, m), {m.id})
<1>. DEFINE t == [s EXCEPT !.inFlight = s.inFlight + 1, !.reserved = s.reserved \cup {m.id}]
<1>1. GoodSide(p, s, {m.id})
  BY WiderFresh
<1>2. \A status : status # "Ok" => GoodEffect(p, Sends(s, Answer(m, status)), {m.id})
  BY <1>1, AnswerGood, EffectForms
<1>3. ASSUME MayServeFiles(p), ~WindowFull(WindowMax, s.inFlight, 1)
      PROVE  GoodEffect(p, SendsBulk(t, Answer(m, "Ok")), {m.id})
  <2>1. MayServe(p, m.kind)
    BY <1>3 DEF MayServe, MayServeFiles
  <2>2. GoodPacket(p, t, Answer(m, "Ok")) /\ Answer(m, "Ok").type = "response"
    BY <2>1, AnswerGood
  <2>3. /\ s.reserved \in SUBSET Nat /\ peer[Other(p)].nextId \in Nat
        /\ \A r \in s.reserved : r < peer[Other(p)].nextId
        /\ s.inFlight = Cardinality(s.reserved) /\ DOMAIN s = Fields
    BY DEF GoodSide, WindowOk
  <2>4. \A r \in s.reserved : r <= peer[Other(p)].nextId
    BY <2>3
  <2>5. IsFiniteSet(s.reserved)
    BY <2>3, <2>4, FS_BoundedSetOfNaturals
  <2>6. m.id \in Nat /\ m.id < peer[Other(p)].nextId /\ m.id \notin s.reserved
    BY <2>3 DEF RequestOk
  <2>7. /\ Cardinality(s.reserved \cup {m.id}) = s.inFlight + 1
        /\ s.inFlight \in Nat
    <3>1. Cardinality(s.reserved) \in Nat
      BY <2>5, FS_CardinalityType
    <3>2. Cardinality(s.reserved \cup {m.id}) = Cardinality(s.reserved) + 1
      BY <2>5, <2>6, FS_AddElement
    <3>. QED
      BY <2>3, <3>1, <3>2
  <2>8. WindowMax # 0 => s.inFlight + 1 <= WindowMax
    BY <1>3, <2>7, ClipboardAssumption DEF WindowFull
  <2>9. /\ DOMAIN t = Fields /\ t.entries = s.entries /\ t.nextId = s.nextId
        /\ t.pending = s.pending /\ t.slot = s.slot /\ t.calls = s.calls
        /\ t.done = s.done /\ t.reserved = s.reserved \cup {m.id}
        /\ t.inFlight = s.inFlight + 1
    BY <2>3 DEF Fields
  <2>. HIDE DEF t
  <2>10. WindowOk(t, peer[Other(p)].nextId)
    BY <2>3, <2>6, <2>7, <2>8, <2>9 DEF WindowOk
  <2>11. PendingOk(p, t) /\ ResultsOk(p, t)
    BY <2>9 DEF GoodSide, PendingOk, ResultsOk
  <2>12. GoodSide(p, t, {m.id})
    BY <2>9, <2>10, <2>11 DEF GoodSide
  <2>. QED
    BY <2>2, <2>12, EffectForms
<1>4. \/ \E status : status # "Ok" /\ HandleRange(p, s, m) = Sends(s, Answer(m, status))
      \/ /\ MayServeFiles(p) /\ ~WindowFull(WindowMax, s.inFlight, 1)
         /\ HandleRange(p, s, m) = SendsBulk(t, Answer(m, "Ok"))
  BY DEF HandleRange
<1>. QED
  BY <1>2, <1>3, <1>4

LEMMA LockGood ==
  ASSUME NEW p \in Peers, NEW s, NEW m, NEW fresh, GoodSide(p, s, fresh),
         RequestOk(p, m), m.kind = "lock"
  PROVE  GoodEffect(p, HandleLock(p, s, m), fresh)
<1>. DEFINE files == {b \in Bundles : b.from = p /\ b.offer \in FileOffers}
            status == IF MayServeFiles(p) THEN LockStatus(s.entries, m.bundle, files)
                      ELSE "DeniedByPolicy"
            entries == Locked(s.entries, m.bundle, m.id)
            t == [s EXCEPT !.entries = entries]
<1>1. status = "Ok" => MayServe(p, m.kind)
  BY DEF MayServe, MayServeFiles
<1>2. HandleLock(p, s, m) = Sends(IF status = "Ok" THEN t ELSE s, Answer(m, status))
  BY DEF HandleLock
<1>3. DOMAIN s = Fields /\ Sound(entries)
  BY LockedSound DEF GoodSide
<1>. HIDE DEF status, entries
<1>4. GoodSide(p, t, fresh)
  <2>1. /\ DOMAIN t = Fields /\ t.entries = entries /\ t.nextId = s.nextId
        /\ t.pending = s.pending /\ t.slot = s.slot /\ t.calls = s.calls
        /\ t.done = s.done /\ t.reserved = s.reserved /\ t.inFlight = s.inFlight
    BY <1>3 DEF Fields
  <2>. QED
    BY <1>3, <2>1, SameElse
<1>5. GoodPacket(p, t, Answer(m, status)) /\ GoodPacket(p, s, Answer(m, status))
  BY <1>1, AnswerGood
<1>6. /\ GoodEffect(p, Sends(t, Answer(m, status)), fresh)
      /\ GoodEffect(p, Sends(s, Answer(m, status)), fresh)
  BY <1>4, <1>5, EffectForms
<1>. HIDE DEF t
<1>. QED
  BY <1>2, <1>6

LEMMA UnlockGood ==
  ASSUME NEW p \in Peers, NEW s, NEW m, NEW fresh, GoodSide(p, s, fresh),
         RequestOk(p, m), m.kind = "unlock"
  PROVE  GoodEffect(p, HandleUnlock(p, s, m), fresh)
<1>. DEFINE status == IF MayServeFiles(p) THEN UnlockStatus(s.entries, m.bundle, m.lock)
                      ELSE "DeniedByPolicy"
            entries == Unlocked(s.entries, m.bundle, m.lock)
            t == [s EXCEPT !.entries = entries]
<1>1. status = "Ok" => MayServe(p, m.kind)
  BY DEF MayServe, MayServeFiles
<1>2. HandleUnlock(p, s, m) = Sends(IF status = "Ok" THEN t ELSE s, Answer(m, status))
  BY DEF HandleUnlock
<1>3. DOMAIN s = Fields /\ Sound(entries)
  BY UnlockedSound DEF GoodSide
<1>. HIDE DEF status, entries
<1>4. GoodSide(p, t, fresh)
  <2>1. /\ DOMAIN t = Fields /\ t.entries = entries /\ t.nextId = s.nextId
        /\ t.pending = s.pending /\ t.slot = s.slot /\ t.calls = s.calls
        /\ t.done = s.done /\ t.reserved = s.reserved /\ t.inFlight = s.inFlight
    BY <1>3 DEF Fields
  <2>. QED
    BY <1>3, <2>1, SameElse
<1>5. GoodPacket(p, t, Answer(m, status)) /\ GoodPacket(p, s, Answer(m, status))
  BY <1>1, AnswerGood
<1>6. /\ GoodEffect(p, Sends(t, Answer(m, status)), fresh)
      /\ GoodEffect(p, Sends(s, Answer(m, status)), fresh)
  BY <1>4, <1>5, EffectForms
<1>. HIDE DEF t
<1>. QED
  BY <1>2, <1>6

(* An acknowledgement releases its unit of the window once. *)
LEMMA AckGood ==
  ASSUME NEW p \in Peers, NEW s, NEW m, NEW fresh, GoodSide(p, s, fresh)
  PROVE  GoodEffect(p, HandleAck(s, m), fresh)
<1>. DEFINE t == [s EXCEPT !.reserved = s.reserved \ {m.to},
                           !.inFlight = Released(s.inFlight, 1)]
<1>1. ASSUME m.to \in s.reserved
      PROVE  GoodSide(p, t, fresh)
  <2>1. /\ s.reserved \in SUBSET Nat /\ peer[Other(p)].nextId \in Nat
        /\ \A r \in s.reserved : r < peer[Other(p)].nextId
        /\ s.inFlight = Cardinality(s.reserved) /\ DOMAIN s = Fields
        /\ WindowMax # 0 => s.inFlight <= WindowMax
    BY DEF GoodSide, WindowOk
  <2>2. \A r \in s.reserved : r <= peer[Other(p)].nextId
    BY <2>1
  <2>3. IsFiniteSet(s.reserved)
    BY <2>1, <2>2, FS_BoundedSetOfNaturals
  <2>4. /\ Cardinality(s.reserved \ {m.to}) = s.inFlight - 1
        /\ s.inFlight \in Nat /\ s.inFlight # 0
    <3>1. Cardinality(s.reserved) \in Nat
      BY <2>3, FS_CardinalityType
    <3>2. Cardinality(s.reserved \ {m.to}) = Cardinality(s.reserved) - 1
      BY <1>1, <2>3, FS_RemoveElement
    <3>3. Cardinality(s.reserved) # 0
      BY <1>1, <2>3, FS_EmptySet
    <3>. QED
      BY <2>1, <3>1, <3>2, <3>3
  <2>5. Released(s.inFlight, 1) = s.inFlight - 1
    BY <2>4 DEF Released
  <2>6. /\ DOMAIN t = Fields /\ t.entries = s.entries /\ t.nextId = s.nextId
        /\ t.pending = s.pending /\ t.slot = s.slot /\ t.calls = s.calls
        /\ t.done = s.done /\ t.reserved = s.reserved \ {m.to}
        /\ t.inFlight = s.inFlight - 1
    BY <2>1, <2>5 DEF Fields
  <2>. HIDE DEF t
  <2>7. WindowOk(t, peer[Other(p)].nextId)
    BY <2>1, <2>4, <2>6, ClipboardAssumption DEF WindowOk
  <2>8. PendingOk(p, t) /\ ResultsOk(p, t)
    BY <2>6 DEF GoodSide, PendingOk, ResultsOk
  <2>. QED
    BY <2>6, <2>7, <2>8 DEF GoodSide
<1>2. HandleAck(s, m) = IF m.to \in s.reserved THEN Does(t) ELSE Does(s)
  BY DEF HandleAck
<1>. HIDE DEF t
<1>. QED
  BY <1>1, <1>2, EffectForms

(* The answer to a request that waits was permitted on both sides. *)
LEMMA ResponseGood ==
  ASSUME NEW p \in Peers, NEW s, NEW m, NEW large, NEW fresh, GoodSide(p, s, fresh),
         s.pending = peer[p].pending, ResponseOk(p, m)
  PROVE  GoodEffect(p, HandleResponse(s, m, large), fresh)
<1>. DEFINE noted == [to |-> m.to, result |-> s.slot["read"].result]
            slot == [s.slot EXCEPT !["read"] = noted]
            seen == [s EXCEPT !.slot = slot]
            ended == Settled(seen, m.to, m.status)
            t == [ended EXCEPT !.answered = ended.answered \cup {m.to}]
            ack == [type |-> "ack", to |-> m.to]
<1>1. DOMAIN s = Fields /\ DOMAIN s.slot = Kinds
  BY DEF GoodSide, ResultsOk
<1>2. DOMAIN slot = Kinds /\ \A k \in Kinds : slot[k].result = s.slot[k].result
  <2>1. DOMAIN slot = Kinds
    BY <1>1
  <2>2. ASSUME NEW k \in Kinds
        PROVE  slot[k].result = s.slot[k].result
    BY <1>1
  <2>. QED
    BY <2>1, <2>2
<1>. HIDE DEF slot
<1>3. /\ DOMAIN seen = Fields /\ seen.entries = s.entries /\ seen.nextId = s.nextId
      /\ seen.pending = s.pending /\ seen.slot = slot /\ seen.calls = s.calls
      /\ seen.done = s.done /\ seen.reserved = s.reserved /\ seen.inFlight = s.inFlight
  BY <1>1 DEF Fields
<1>. HIDE DEF seen
<1>4. PendingOk(p, seen) /\ WindowOk(seen, peer[Other(p)].nextId)
  BY <1>3 DEF GoodSide, PendingOk, WindowOk
<1>5. ResultsOk(p, seen)
  BY <1>2, <1>3 DEF GoodSide, ResultsOk
<1>6. GoodSide(p, seen, fresh)
  BY <1>3, <1>4, <1>5 DEF GoodSide
<1>7. ASSUME m.to \in DOMAIN s.pending
      PROVE  GoodSide(p, t, fresh)
  <2>1. m.status = "Ok" => MayServe(Other(p), seen.pending[m.to].kind)
    BY <1>3, <1>7 DEF ResponseOk
  <2>2. GoodSide(p, ended, fresh)
    BY <1>3, <1>6, <1>7, <2>1, EndedSide DEF Settled
  <2>. HIDE DEF ended
  <2>3. DOMAIN ended = Fields /\ Sound(ended.entries)
    BY <2>2 DEF GoodSide
  <2>4. /\ DOMAIN t = Fields /\ t.entries = ended.entries /\ t.nextId = ended.nextId
        /\ t.pending = ended.pending /\ t.slot = ended.slot /\ t.calls = ended.calls
        /\ t.done = ended.done /\ t.reserved = ended.reserved
        /\ t.inFlight = ended.inFlight
    BY <2>3 DEF Fields
  <2>. HIDE DEF t
  <2>. QED
    BY <2>2, <2>3, <2>4, SameElse
<1>8. GoodPacket(p, t, ack)
  BY DEF GoodPacket, Types
<1>9. HandleResponse(s, m, large) =
        IF m.to \notin DOMAIN s.pending THEN Does(seen)
        ELSE IF large THEN Sends(t, ack) ELSE Does(t)
  BY DEF HandleResponse, seen, slot
<1>. HIDE DEF t, ack
<1>10. GoodEffect(p, Does(seen), fresh)
  BY <1>6, EffectForms
<1>11. m.to \in DOMAIN s.pending =>
         GoodEffect(p, Does(t), fresh) /\ GoodEffect(p, Sends(t, ack), fresh)
  BY <1>7, <1>8, EffectForms
<1>. QED
  BY <1>9, <1>10, <1>11

LEMMA CancelGood ==
  ASSUME NEW p \in Peers, NEW s, NEW m, NEW fresh, GoodSide(p, s, fresh)
  PROVE  GoodEffect(p, HandleCancel(s, m), fresh)
<1>1. m.to \in DOMAIN s.pending => GoodSide(p, Settled(s, m.to, "Cancelled"), fresh)
  BY EndedSide DEF Settled
<1>2. GoodEffect(p, Does(s), fresh)
  BY EffectForms
<1>3. m.to \in DOMAIN s.pending => GoodEffect(p, Does(Settled(s, m.to, "Cancelled")), fresh)
  BY <1>1, EffectForms
<1>. QED
  BY <1>2, <1>3 DEF HandleCancel

(* The number a packet makes p reserve for. *)
FreshOf(m) == IF m.type = "request" THEN {m.id} ELSE {}

LEMMA PacketGood ==
  ASSUME Inv, NEW p \in Peers, NEW m, PacketOk(p, m), NEW large, NEW published
  PROVE  GoodEffect(p, HandlePacket(p, peer[p], m, large, published), FreshOf(m))
<1>. DEFINE s == peer[p]
            e == HandlePacket(p, s, m, large, published)
            fresh == FreshOf(m)
<1>1. GoodSide(p, s, fresh) /\ GoodSide(p, s, {})
  BY OwnSide
<1>2. CASE s.state # "Running"
  <2>1. e = Does(s)
    BY <1>2 DEF HandlePacket
  <2>. QED
    BY <1>1, <2>1, EffectForms
<1>3. CASE s.state = "Running"
  <2>1. CASE m.type = "list"
    <3>1. e = HandleFormatList(p, s, m, published)
      BY <1>3, <2>1 DEF HandlePacket
    <3>. QED
      BY <1>1, <3>1, FormatListGood
  <2>2. CASE m.type = "ack"
    <3>1. e = HandleAck(s, m)
      BY <1>3, <2>2 DEF HandlePacket
    <3>. QED
      BY <1>1, <3>1, AckGood
  <2>3. CASE m.type = "cancel"
    <3>1. e = HandleCancel(s, m)
      BY <1>3, <2>3 DEF HandlePacket
    <3>. QED
      BY <1>1, <3>1, CancelGood
  <2>4. CASE m.type = "response"
    <3>1. e = HandleResponse(s, m, large)
      BY <1>3, <2>4 DEF HandlePacket
    <3>2. ResponseOk(p, m)
      BY <2>4 DEF PacketOk
    <3>. QED
      BY <1>1, <3>1, <3>2, ResponseGood
  <2>5. CASE m.type = "request"
    <3>1. RequestOk(p, m) /\ m.kind \in Kinds /\ fresh = {m.id}
      BY <2>5 DEF PacketOk, RequestOk, FreshOf
    <3>2. CASE m.kind = "read"
      <4>1. e = HandleRead(p, s, m)
        BY <1>3, <2>5, <3>2 DEF HandlePacket
      <4>. QED
        BY <1>1, <3>1, <3>2, <4>1, ReadGood
    <3>3. CASE m.kind = "range"
      <4>1. e = HandleRange(p, s, m)
        BY <1>3, <2>5, <3>3 DEF HandlePacket
      <4>. QED
        BY <1>1, <3>1, <3>3, <4>1, RangeGood
    <3>4. CASE m.kind = "lock"
      <4>1. e = HandleLock(p, s, m)
        BY <1>3, <2>5, <3>4 DEF HandlePacket
      <4>. QED
        BY <1>1, <3>1, <3>4, <4>1, LockGood
    <3>5. CASE m.kind = "unlock"
      <4>1. e = HandleUnlock(p, s, m)
        BY <1>3, <2>5, <3>5 DEF HandlePacket
      <4>. QED
        BY <1>1, <3>1, <3>5, <4>1, UnlockGood
    <3>. QED
      BY <3>1, <3>2, <3>3, <3>4, <3>5 DEF Kinds
  <2>. QED
    BY <2>1, <2>2, <2>3, <2>4, <2>5 DEF PacketOk, Types
<1>. QED
  BY <1>2, <1>3

LEMMA ReceiveKeeps ==
  ASSUME Inv, NEW p \in Peers, Receive(p)
  PROVE  Inv'
<1>. DEFINE q == Other(p)
            m == Head(wire[p])
<1>1. q \in Peers /\ q # p /\ DOMAIN wire = Peers /\ DOMAIN bulk = Peers
  BY OtherSide DEF Inv
<1>2. QueuesOk(p) /\ QueuesOk(q)
  BY <1>1 DEF Inv
<1>3. PICK e : /\ \E published \in BOOLEAN : e = HandlePacket(p, peer[p], m, FALSE, published)
               /\ peer' = [peer EXCEPT ![p] = e.s]
               /\ wire' = [wire EXCEPT ![p] = Tail(@), ![q] = @ \o e.out]
               /\ bulk' = [bulk EXCEPT ![q] = @ \o e.heavy]
               /\ policy' = policy
  BY DEF Receive
<1>4. /\ IsQueue(Tail(wire[p])) /\ Packets(Tail(wire[p])) \subseteq Packets(wire[p])
      /\ m \in Packets(wire[p]) /\ Ascending(Tail(wire[p]))
      /\ \A n \in Packets(Tail(wire[p])) :
           m.type = "request" /\ n.type = "request" => m.id < n.id
  <2>1. wire[p] # << >> /\ IsQueue(wire[p]) /\ Ascending(wire[p])
    BY <1>2 DEF Receive, QueuesOk
  <2>. QED
    BY <2>1, TakenQueue
<1>5. PacketOk(p, m)
  BY <1>2, <1>4 DEF QueuesOk
<1>. HIDE DEF m, q
<1>6. GoodEffect(p, e, FreshOf(m))
  BY <1>3, <1>5, PacketGood
<1>7. /\ DOMAIN wire' = Peers /\ DOMAIN bulk' = Peers
      /\ wire'[p] = Tail(wire[p]) /\ wire'[q] = wire[q] \o e.out
      /\ bulk'[p] = bulk[p] /\ bulk'[q] = bulk[q] \o e.heavy
  BY <1>1, <1>3
<1>8. TakesOff(p, FreshOf(m))
  BY <1>2, <1>4, <1>7 DEF QueuesOk, TakesOff, FreshOf
<1>9. Appends(p, e.s)
  <2>1. /\ IsQueue(wire[q] \o e.out) /\ Ascending(wire[q] \o e.out)
        /\ \A n \in Packets(wire[q] \o e.out) :
             n \in Packets(wire[q]) \/ GoodPacket(p, e.s, n)
        /\ IsQueue(bulk[q] \o e.heavy) /\ Ascending(bulk[q] \o e.heavy)
        /\ \A n \in Packets(bulk[q] \o e.heavy) :
             n \in Packets(bulk[q]) \/ (n.type = "response" /\ GoodPacket(p, e.s, n))
    BY <1>6, SentQueues DEF q
  <2>. QED
    BY <1>7, <2>1 DEF Appends, q
<1>10. Leads(p, e.s, FreshOf(m))
  BY <1>3, <1>6, <1>7 DEF GoodEffect, Leads
<1>. QED
  BY <1>8, <1>9, <1>10, StepKeeps

LEMMA ReceiveBulkKeeps ==
  ASSUME Inv, NEW p \in Peers, ReceiveBulk(p)
  PROVE  Inv'
<1>. DEFINE q == Other(p)
            m == Head(bulk[p])
<1>1. q \in Peers /\ q # p /\ DOMAIN wire = Peers /\ DOMAIN bulk = Peers
  BY OtherSide DEF Inv
<1>2. QueuesOk(p) /\ QueuesOk(q)
  BY <1>1 DEF Inv
<1>3. PICK e : /\ e = HandlePacket(p, peer[p], m, TRUE, TRUE)
               /\ peer' = [peer EXCEPT ![p] = e.s]
               /\ wire' = [wire EXCEPT ![q] = @ \o e.out]
               /\ bulk' = [bulk EXCEPT ![p] = Tail(@)]
               /\ policy' = policy
  BY DEF ReceiveBulk
<1>4. /\ IsQueue(Tail(bulk[p])) /\ Packets(Tail(bulk[p])) \subseteq Packets(bulk[p])
      /\ m \in Packets(bulk[p]) /\ Ascending(Tail(bulk[p]))
  <2>1. bulk[p] # << >> /\ IsQueue(bulk[p]) /\ Ascending(bulk[p])
    BY <1>2 DEF ReceiveBulk, QueuesOk
  <2>. QED
    BY <2>1, TakenQueue
<1>5. PacketOk(p, m) /\ m.type = "response"
  BY <1>2, <1>4 DEF QueuesOk
<1>. HIDE DEF m, q
<1>6. GoodEffect(p, e, {})
  BY <1>3, <1>5, PacketGood DEF FreshOf
<1>7. /\ DOMAIN wire' = Peers /\ DOMAIN bulk' = Peers
      /\ bulk'[p] = Tail(bulk[p]) /\ bulk'[q] = bulk[q]
      /\ wire'[p] = wire[p] /\ wire'[q] = wire[q] \o e.out
  BY <1>1, <1>3
<1>8. TakesOff(p, {})
  BY <1>2, <1>4, <1>7 DEF QueuesOk, TakesOff
<1>9. Appends(p, e.s)
  <2>1. /\ IsQueue(wire[q] \o e.out) /\ Ascending(wire[q] \o e.out)
        /\ \A n \in Packets(wire[q] \o e.out) :
             n \in Packets(wire[q]) \/ GoodPacket(p, e.s, n)
    BY <1>6, SentQueues DEF q
  <2>2. IsQueue(bulk[q]) /\ Ascending(bulk[q])
    BY <1>2 DEF QueuesOk
  <2>. QED
    BY <1>7, <2>1, <2>2 DEF Appends, q
<1>10. Leads(p, e.s, {})
  BY <1>3, <1>6, <1>7 DEF GoodEffect, Leads
<1>. QED
  BY <1>8, <1>9, <1>10, StepKeeps

(***************************************************************************)
(* The other operations                                                     *)
(***************************************************************************)

LEMMA CopyKeeps ==
  ASSUME Inv, NEW p \in Peers, Copy(p)
  PROVE  Inv'
<1>1. GoodSide(p, peer[p], {})
  BY OwnSide
<1>2. PICK t : /\ \E n : t = [peer[p] EXCEPT !.offers = n, !.changed = TRUE,
                                           !.native = [from |-> p, offer |-> n]]
               /\ Acts(p, Does(t))
  BY DEF Copy
<1>3. DOMAIN t = Fields /\ Sound(t.entries)
  BY <1>1, <1>2 DEF GoodSide, Fields
<1>4. /\ t.nextId = peer[p].nextId /\ t.pending = peer[p].pending /\ t.slot = peer[p].slot
      /\ t.calls = peer[p].calls /\ t.done = peer[p].done
      /\ t.reserved = peer[p].reserved /\ t.inFlight = peer[p].inFlight
  BY <1>1, <1>2 DEF GoodSide, Fields
<1>5. GoodSide(p, t, {})
  BY <1>1, <1>3, <1>4, SameElse
<1>. QED
  BY <1>2, <1>5, EffectForms, ActsKeeps

LEMMA PumpKeeps ==
  ASSUME Inv, NEW p \in Peers, Pump(p)
  PROVE  Inv'
<1>. DEFINE b == peer[p].native
<1>1. GoodSide(p, peer[p], {})
  BY OwnSide
<1>2. PICK s : /\ s = [peer[p] EXCEPT !.changed = FALSE]
               /\ \/ Acts(p, Does(s))
                  \/ LET e == AnnounceLocalBundle(p, s, s.native)
                     IN Acts(p, IF e.out = << >> THEN e
                                ELSE [e EXCEPT !.s = [@ EXCEPT !.announced = s.native]])
  BY DEF Pump
<1>3. GoodSide(p, s, {})
  <2>1. DOMAIN s = Fields /\ Sound(s.entries)
    BY <1>1, <1>2 DEF GoodSide, Fields
  <2>2. /\ s.nextId = peer[p].nextId /\ s.pending = peer[p].pending /\ s.slot = peer[p].slot
        /\ s.calls = peer[p].calls /\ s.done = peer[p].done
        /\ s.reserved = peer[p].reserved /\ s.inFlight = peer[p].inFlight
    BY <1>1, <1>2 DEF GoodSide, Fields
  <2>. QED
    BY <1>1, <2>1, <2>2, SameElse
<1>4. CASE Acts(p, Does(s))
  BY <1>3, <1>4, EffectForms, ActsKeeps
<1>5. CASE ~ Acts(p, Does(s))
  <2>1. PICK e : /\ e = AnnounceLocalBundle(p, s, s.native)
                 /\ Acts(p, IF e.out = << >> THEN e
                            ELSE [e EXCEPT !.s = [@ EXCEPT !.announced = s.native]])
    BY <1>2, <1>5
  <2>2. GoodEffect(p, e, {})
    BY <1>3, <2>1, AnnounceGood
  <2>3. DOMAIN e = {"s", "out", "heavy"}
    BY <2>1 DEF AnnounceLocalBundle, Does, Sends
  <2>4. CASE e.out = << >>
    BY <2>1, <2>2, <2>4, ActsKeeps
  <2>5. CASE e.out # << >>
    <3>1. PICK f : f = [e EXCEPT !.s = [@ EXCEPT !.announced = s.native]] /\ Acts(p, f)
      BY <2>1, <2>5
    <3>2. /\ f.s = [e.s EXCEPT !.announced = s.native]
          /\ f.out = e.out /\ f.heavy = e.heavy
      BY <2>3, <3>1
    <3>3. GoodSide(p, e.s, {})
      BY <2>2 DEF GoodEffect
    <3>4. DOMAIN f.s = Fields /\ Sound(f.s.entries)
      BY <3>2, <3>3 DEF GoodSide, Fields
    <3>5. /\ f.s.nextId = e.s.nextId /\ f.s.pending = e.s.pending /\ f.s.slot = e.s.slot
          /\ f.s.calls = e.s.calls /\ f.s.done = e.s.done
          /\ f.s.reserved = e.s.reserved /\ f.s.inFlight = e.s.inFlight
      BY <3>2, <3>3 DEF GoodSide, Fields
    <3>6. GoodSide(p, f.s, {})
      BY <3>3, <3>4, <3>5, SameElse
    <3>7. \A m : GoodPacket(p, e.s, m) => GoodPacket(p, f.s, m)
      BY <3>5 DEF GoodPacket, GoodRequest
    <3>8. GoodEffect(p, f, {})
      BY <2>2, <3>2, <3>6, <3>7 DEF GoodEffect
    <3>. QED
      BY <3>1, <3>8, ActsKeeps
  <2>. QED
    BY <2>4, <2>5
<1>. QED
  BY <1>4, <1>5

LEMMA ExpireKeeps ==
  ASSUME Inv, NEW p \in Peers, NEW id, Expire(p, id)
  PROVE  Inv'
<1>1. GoodSide(p, peer[p], {})
  BY OwnSide
<1>2. {id} \in SUBSET DOMAIN peer[p].pending /\ Acts(p, Does(Settled(peer[p], id, "Timeout")))
  BY DEF Expire
<1>3. GoodSide(p, Settled(peer[p], id, "Timeout"), {})
  <2>1. GoodSide(p, Ended(peer[p], {id}, "Timeout"), {})
    BY <1>1, <1>2, EndedSide
  <2>. QED
    BY <2>1 DEF Settled
<1>. QED
  BY <1>2, <1>3, EffectForms, ActsKeeps

(* A call that returns a success was permitted. *)
LEMMA ReturnedGood ==
  ASSUME NEW p \in Peers, NEW s, NEW c, NEW result, GoodSide(p, s, {}),
         s.calls # << >>, result.status = "Ok" => Permitted(p, c.kind)
  PROVE  GoodEffect(p, Returned(s, c, result), {})
<1>1. PICK t : t = [s EXCEPT !.calls = SubSeq(@, 1, Len(@) - 1),
                             !.done = With(@, c.id, [status |-> result.status, of |-> result.of,
                                                     kind |-> c.kind, bundle |-> c.bundle])]
  OBVIOUS
<1>2. Returned(s, c, result) =
        IF result.status = "Timeout" /\ s.state = "Running"
        THEN Sends(t, [type |-> "cancel", to |-> c.id]) ELSE Does(t)
  BY <1>1 DEF Returned
<1>3. /\ DOMAIN t = Fields /\ t.entries = s.entries /\ t.nextId = s.nextId
      /\ t.pending = s.pending /\ t.slot = s.slot
      /\ t.calls = SubSeq(s.calls, 1, Len(s.calls) - 1)
      /\ t.reserved = s.reserved /\ t.inFlight = s.inFlight
  BY <1>1 DEF GoodSide, Fields
<1>4. t.done = With(s.done, c.id, [status |-> result.status, of |-> result.of,
                                   kind |-> c.kind, bundle |-> c.bundle])
  BY <1>1 DEF GoodSide, Fields
<1>5. IsQueue(t.calls) /\ \A d \in Packets(t.calls) : d.kind \in Kinds
  <2>1. IsQueue(s.calls) /\ \A d \in Packets(s.calls) : d.kind \in Kinds
    BY DEF GoodSide, ResultsOk
  <2>2. Len(s.calls) \in Nat \ {0}
    BY <2>1 DEF IsQueue
  <2>3. /\ Len(t.calls) = Len(s.calls) - 1
        /\ \A i \in 1 .. Len(t.calls) : t.calls[i] = s.calls[i]
        /\ t.calls \in Seq(Packets(s.calls))
    BY <1>3, <2>1, <2>2 DEF IsQueue
  <2>4. \A i \in 1 .. Len(t.calls) : t.calls[i] \in Packets(t.calls)
    BY DEF Packets
  <2>5. IsQueue(t.calls)
    BY <2>3, <2>4, Retyped DEF IsQueue
  <2>6. Packets(t.calls) \subseteq Packets(s.calls)
    <3>1. \A i \in 1 .. Len(t.calls) : i \in 1 .. Len(s.calls)
      BY <2>2, <2>3
    <3>. QED
      BY <2>3, <3>1 DEF Packets
  <2>. QED
    BY <2>1, <2>5, <2>6
<1>6. \A i \in DOMAIN t.done : t.done[i].status = "Ok" => Permitted(p, t.done[i].kind)
  <2>1. \A i \in DOMAIN s.done : s.done[i].status = "Ok" => Permitted(p, s.done[i].kind)
    BY DEF GoodSide, ResultsOk
  <2>2. DOMAIN t.done = DOMAIN s.done \cup {c.id}
    BY <1>4 DEF With
  <2>3. ASSUME NEW i \in DOMAIN t.done
        PROVE  \/ i \in DOMAIN s.done /\ t.done[i] = s.done[i]
               \/ t.done[i] = [status |-> result.status, of |-> result.of,
                               kind |-> c.kind, bundle |-> c.bundle]
    BY <1>4, <2>2 DEF With
  <2>. QED
    BY <2>1, <2>3
<1>7. ResultsOk(p, t)
  BY <1>3, <1>5, <1>6 DEF GoodSide, ResultsOk
<1>8. GoodSide(p, t, {})
  BY <1>3, <1>7 DEF GoodSide, PendingOk, WindowOk
<1>9. GoodPacket(p, t, [type |-> "cancel", to |-> c.id])
  BY DEF GoodPacket, Types
<1>. QED
  BY <1>2, <1>8, <1>9, EffectForms

LEMMA ReturnKeeps ==
  ASSUME Inv, NEW p \in Peers, Return(p)
  PROVE  Inv'
<1>. DEFINE s == peer[p]
            c == Top(s)
<1>1. GoodSide(p, s, {})
  BY OwnSide
<1>2. /\ s.calls # << >> /\ HasResult(s, c)
      /\ Acts(p, Returned(s, c, s.slot[c.kind].result[1]))
  BY DEF Return
<1>3. c.kind \in Kinds
  <2>1. IsQueue(s.calls) /\ \A d \in Packets(s.calls) : d.kind \in Kinds
    BY <1>1 DEF GoodSide, ResultsOk
  <2>2. Len(s.calls) \in 1 .. Len(s.calls)
    BY <1>2, <2>1 DEF IsQueue
  <2>3. c \in Packets(s.calls)
    BY <2>2 DEF Top, Packets
  <2>. QED
    BY <2>1, <2>3
<1>. HIDE DEF s, c
<1>4. s.slot[c.kind].result # << >>
  BY <1>2 DEF HasResult
<1>5. s.slot[c.kind].result[1].status = "Ok" => Permitted(p, c.kind)
  BY <1>1, <1>3, <1>4 DEF GoodSide, ResultsOk
<1>6. GoodEffect(p, Returned(s, c, s.slot[c.kind].result[1]), {})
  BY <1>1, <1>2, <1>5, ReturnedGood
<1>. QED
  BY <1>2, <1>6, ActsKeeps

LEMMA GiveUpKeeps ==
  ASSUME Inv, NEW p \in Peers, GiveUp(p)
  PROVE  Inv'
<1>. DEFINE s == peer[p]
            c == Top(s)
            ids == {i \in DOMAIN s.pending : i <= c.id}
            result == [status |-> "Timeout", of |-> c.id]
<1>1. GoodSide(p, s, {})
  BY OwnSide
<1>2. s.calls # << >> /\ Acts(p, Returned(Ended(s, ids, "Timeout"), c, result))
  BY DEF GiveUp
<1>3. GoodSide(p, Ended(s, ids, "Timeout"), {})
  BY <1>1, EndedSide
<1>4. Ended(s, ids, "Timeout").calls = s.calls
  BY <1>1 DEF Ended, GoodSide, Fields
<1>5. result.status # "Ok"
  OBVIOUS
<1>. HIDE DEF s, c, ids, result
<1>6. GoodEffect(p, Returned(Ended(s, ids, "Timeout"), c, result), {})
  BY <1>2, <1>3, <1>4, <1>5, ReturnedGood
<1>. QED
  BY <1>2, <1>6, ActsKeeps

(* A call that has failed, or succeeded with permission, is recorded. *)
LEMMA RecordedSide ==
  ASSUME NEW p, NEW s, NEW t, NEW id, NEW r, GoodSide(p, s, {}),
         r.status = "Ok" => Permitted(p, r.kind),
         DOMAIN t = Fields, t.entries = s.entries, t.nextId = s.nextId,
         t.pending = s.pending, t.slot = s.slot, t.calls = s.calls,
         t.done = With(s.done, id, r), t.reserved = s.reserved, t.inFlight = s.inFlight
  PROVE  GoodSide(p, t, {})
<1>1. \A i \in DOMAIN s.done : s.done[i].status = "Ok" => Permitted(p, s.done[i].kind)
  BY DEF GoodSide, ResultsOk
<1>2. \A i \in DOMAIN t.done : (i \in DOMAIN s.done /\ t.done[i] = s.done[i]) \/ t.done[i] = r
  BY DEF With
<1>3. \A i \in DOMAIN t.done : t.done[i].status = "Ok" => Permitted(p, t.done[i].kind)
  BY <1>1, <1>2
<1>4. ResultsOk(p, t)
  BY <1>3 DEF GoodSide, ResultsOk
<1>. QED
  BY <1>4 DEF GoodSide, PendingOk, WindowOk

(* The next request is added to those that wait. *)
Asks(p, kind, t) ==
  t = [peer[p] EXCEPT !.nextId = @ + 1, !.pending = With(@, peer[p].nextId, [kind |-> kind])]

LEMMA AskedSide ==
  ASSUME Inv, NEW p \in Peers, NEW kind \in Kinds, MayAsk(p, kind), NEW t, Asks(p, kind, t)
  PROVE  /\ GoodSide(p, t, {}) /\ DOMAIN t = Fields
         /\ t.nextId = peer[p].nextId + 1 /\ peer[p].nextId \in Nat
         /\ peer[p].nextId \in DOMAIN t.pending /\ t.pending[peer[p].nextId].kind = kind
         /\ t.calls = peer[p].calls /\ t.done = peer[p].done
<1>1. GoodSide(p, peer[p], {})
  BY OwnSide
<1>2. /\ DOMAIN t = Fields /\ t.entries = peer[p].entries /\ t.nextId = peer[p].nextId + 1
      /\ t.slot = peer[p].slot /\ t.calls = peer[p].calls /\ t.done = peer[p].done
      /\ t.reserved = peer[p].reserved /\ t.inFlight = peer[p].inFlight
      /\ t.pending = With(peer[p].pending, peer[p].nextId, [kind |-> kind])
  BY <1>1 DEF GoodSide, Fields, Asks
<1>3. /\ peer[p].nextId \in Nat
      /\ \A i \in DOMAIN peer[p].pending :
           i \in Nat /\ i < peer[p].nextId /\ peer[p].pending[i].kind \in Kinds
             /\ MayAsk(p, peer[p].pending[i].kind)
  BY <1>1 DEF GoodSide, PendingOk
<1>4. /\ peer[p].nextId \in DOMAIN t.pending /\ t.pending[peer[p].nextId].kind = kind
      /\ \A i \in DOMAIN t.pending :
           \/ i = peer[p].nextId
           \/ i \in DOMAIN peer[p].pending /\ t.pending[i] = peer[p].pending[i]
  BY <1>2 DEF With
<1>5. PendingOk(p, t)
  BY <1>2, <1>3, <1>4 DEF PendingOk
<1>6. \A i \in DOMAIN t.pending :
        i < peer[p].nextId => i \in DOMAIN peer[p].pending
                               /\ t.pending[i].kind = peer[p].pending[i].kind
  BY <1>3, <1>4
<1>7. ResultsOk(p, t)
  BY <1>1, <1>2 DEF GoodSide, ResultsOk
<1>8. GoodSide(p, t, {})
  BY <1>1, <1>2, <1>3, <1>5, <1>6, <1>7 DEF GoodSide, WindowOk
<1>. QED
  BY <1>2, <1>3, <1>4, <1>8

(* A call that blocks joins those it runs inside. *)
LEMMA BlockedSide ==
  ASSUME NEW p, NEW s, NEW t, NEW c, GoodSide(p, s, {}), c.kind \in Kinds,
         DOMAIN t = Fields, t.entries = s.entries, t.nextId = s.nextId,
         t.pending = s.pending, t.slot = s.slot, t.calls = Append(s.calls, c),
         t.done = s.done, t.reserved = s.reserved, t.inFlight = s.inFlight
  PROVE  GoodSide(p, t, {})
<1>1. IsQueue(s.calls) /\ \A d \in Packets(s.calls) : d.kind \in Kinds
  BY DEF GoodSide, ResultsOk
<1>2. /\ Len(t.calls) = Len(s.calls) + 1 /\ Len(s.calls) \in Nat
      /\ \A i \in 1 .. Len(s.calls) : t.calls[i] = s.calls[i]
      /\ t.calls[Len(s.calls) + 1] = c
  BY <1>1 DEF IsQueue
<1>3. t.calls \in Seq(Packets(s.calls) \cup {c})
  <2>1. s.calls \in Seq(Packets(s.calls) \cup {c})
    BY <1>1 DEF IsQueue
  <2>. QED
    BY <2>1
<1>4. IsQueue(t.calls)
  <2>1. \A i \in 1 .. Len(t.calls) : t.calls[i] \in Packets(t.calls)
    BY DEF Packets
  <2>. QED
    BY <1>3, <2>1, Retyped DEF IsQueue
<1>5. \A d \in Packets(t.calls) : d.kind \in Kinds
  <2>1. \A i \in 1 .. Len(t.calls) : i \in 1 .. Len(s.calls) \/ i = Len(s.calls) + 1
    BY <1>2
  <2>2. \A i \in 1 .. Len(s.calls) : s.calls[i] \in Packets(s.calls)
    BY DEF Packets
  <2>3. \A i \in 1 .. Len(t.calls) : t.calls[i].kind \in Kinds
    BY <1>1, <1>2, <2>1, <2>2
  <2>. QED
    BY <2>3 DEF Packets
<1>6. ResultsOk(p, t)
  BY <1>4, <1>5 DEF GoodSide, ResultsOk
<1>. QED
  BY <1>6 DEF GoodSide, PendingOk, WindowOk

LEMMA BeginKeeps ==
  ASSUME Inv, NEW p \in Peers, NEW kind \in Kinds, NEW b, NEW lock, Begin(p, kind, b, lock)
  PROVE  Inv'
<1>. DEFINE s  == peer[p]
            id == s.nextId
            m  == [type |-> "request", kind |-> kind, id |-> id, bundle |-> b, lock |-> lock]
<1>1. MayAsk(p, kind)
  BY DEF Begin, MayRequest, MayAsk
<1>2. PICK t : /\ t = [s EXCEPT !.nextId = @ + 1, !.pending = With(@, id, [kind |-> kind])]
               /\ IF ~up
                  THEN Acts(p, Does([Settled(t, id, "ChannelUnavailable") EXCEPT
                         !.done = With(@, id, [status |-> "ChannelUnavailable", of |-> id,
                                               kind |-> kind, bundle |-> b]),
                         !.overlapped = Overlap(s, id)]))
                  ELSE Acts(p, Sends([t EXCEPT
                         !.calls = Append(@, [id |-> id, kind |-> kind, bundle |-> b,
                                              before |-> Cardinality(DOMAIN s.pending)]),
                         !.overlapped = Overlap(s, id)], m))
  BY DEF Begin
<1>3. /\ GoodSide(p, t, {}) /\ DOMAIN t = Fields
      /\ t.nextId = id + 1 /\ id \in Nat
      /\ id \in DOMAIN t.pending /\ t.pending[id].kind = kind
  <2>1. Asks(p, kind, t)
    BY <1>2 DEF Asks
  <2>. QED
    BY <1>1, <2>1, AskedSide
<1>. HIDE DEF s, id
<1>4. CASE ~up
  <2>1. PICK u : u = Settled(t, id, "ChannelUnavailable")
    OBVIOUS
  <2>2. PICK v : /\ v = [u EXCEPT !.done = With(@, id, [status |-> "ChannelUnavailable", of |-> id,
                                                        kind |-> kind, bundle |-> b]),
                                  !.overlapped = Overlap(s, id)]
                 /\ Acts(p, Does(v))
    BY <1>2, <1>4, <2>1
  <2>3. {id} \in SUBSET DOMAIN t.pending
    BY <1>3
  <2>4. GoodSide(p, Ended(t, {id}, "ChannelUnavailable"), {})
    BY <1>3, <2>3, EndedSide
  <2>5. GoodSide(p, u, {}) /\ DOMAIN u = Fields
    BY <2>1, <2>4 DEF Settled, GoodSide
  <2>6. /\ DOMAIN v = Fields /\ v.entries = u.entries /\ v.nextId = u.nextId
        /\ v.pending = u.pending /\ v.slot = u.slot /\ v.calls = u.calls
        /\ v.reserved = u.reserved /\ v.inFlight = u.inFlight
        /\ v.done = With(u.done, id, [status |-> "ChannelUnavailable", of |-> id,
                                      kind |-> kind, bundle |-> b])
    BY <2>2, <2>5 DEF Fields
  <2>7. GoodSide(p, v, {})
    BY <2>5, <2>6, RecordedSide
  <2>. QED
    BY <2>2, <2>7, EffectForms, ActsKeeps
<1>5. CASE up
  <2>0. PICK c : c = [id |-> id, kind |-> kind, bundle |-> b,
                      before |-> Cardinality(DOMAIN s.pending)]
    OBVIOUS
  <2>1. PICK v : /\ v = [t EXCEPT !.calls = Append(@, c), !.overlapped = Overlap(s, id)]
                 /\ Acts(p, Sends(v, m))
    BY <1>2, <1>5, <2>0
  <2>2. /\ DOMAIN v = Fields /\ v.entries = t.entries /\ v.nextId = t.nextId
        /\ v.pending = t.pending /\ v.slot = t.slot /\ v.calls = Append(t.calls, c)
        /\ v.done = t.done /\ v.reserved = t.reserved /\ v.inFlight = t.inFlight
    BY <1>3, <2>1 DEF Fields
  <2>3. GoodSide(p, v, {})
    <3>1. c.kind \in Kinds
      BY <2>0
    <3>. QED
      BY <1>3, <2>2, <3>1, BlockedSide
  <2>4. GoodRequest(p, v, m)
    BY <1>3, <2>2 DEF GoodRequest, id, s
  <2>5. GoodPacket(p, v, m)
    BY <2>4 DEF GoodPacket, Types
  <2>. QED
    BY <2>1, <2>3, <2>5, EffectForms, ActsKeeps
<1>. QED
  BY <1>4, <1>5

(* Losing the connection empties the queues. *)
LEMMA LoseKeeps ==
  ASSUME Inv, Lose
  PROVE  Inv'
<1>1. /\ peer' = peer /\ policy' = policy
      /\ wire' = [p \in Peers |-> << >>] /\ bulk' = [p \in Peers |-> << >>]
  BY DEF Lose
<1>2. DOMAIN peer' = Peers /\ DOMAIN wire' = Peers /\ DOMAIN bulk' = Peers
  BY <1>1 DEF Inv
<1>3. ASSUME NEW p \in Peers
      PROVE  SideOk(p)' /\ QueuesOk(p)'
  <2>1. SideOk(p)'
    BY <1>1 DEF Inv, SideOk, PendingOk, ResultsOk, WindowOk, MayAsk, Permitted, MayServe
  <2>2. wire'[p] = << >> /\ bulk'[p] = << >>
    BY <1>1
  <2>3. QueuesOk(p)'
    BY <2>2, EmptyQueue DEF QueuesOk
  <2>. QED
    BY <2>1, <2>3
<1>. QED
  BY <1>2, <1>3 DEF Inv

(* A step that changes neither a side nor a queue. *)
LEMMA QuietKeeps ==
  ASSUME Inv, UNCHANGED <<peer, wire, bulk, policy>>
  PROVE  Inv'
  BY DEF Inv, SideOk, PendingOk, ResultsOk, WindowOk, MayAsk, Permitted, MayServe, QueuesOk,
         PacketOk, RequestOk, ResponseOk

LEMMA PauseKeeps ==
  ASSUME Inv, NEW p \in Peers, PauseForReconnect(p)
  PROVE  Inv'
<1>1. PICK s, t, ids : /\ s = LetGo(peer[p]) /\ ids = DOMAIN peer[p].pending
                       /\ t = [Ended(s, ids, "ChannelUnavailable") EXCEPT !.paused = TRUE]
                       /\ Acts(p, Does(t))
  BY DEF PauseForReconnect
<1>2. GoodSide(p, peer[p], {})
  BY OwnSide
<1>3. GoodSide(p, s, {})
  BY <1>1, <1>2, LetGoSide
<1>4. s.pending = peer[p].pending
  BY <1>1, <1>2 DEF LetGo, GoodSide, Fields
<1>5. PICK u : u = Ended(s, ids, "ChannelUnavailable")
  OBVIOUS
<1>6. GoodSide(p, u, {})
  <2>1. ids \in SUBSET DOMAIN s.pending
    BY <1>1, <1>4
  <2>. QED
    BY <1>3, <1>5, <2>1, EndedSide
<1>7. /\ DOMAIN t = Fields /\ t.entries = u.entries /\ t.nextId = u.nextId
      /\ t.pending = u.pending /\ t.slot = u.slot /\ t.calls = u.calls /\ t.done = u.done
      /\ t.reserved = u.reserved /\ t.inFlight = u.inFlight
  BY <1>1, <1>5, <1>6 DEF GoodSide, Fields
<1>8. Sound(t.entries)
  BY <1>6, <1>7 DEF GoodSide
<1>9. GoodSide(p, t, {})
  BY <1>6, <1>7, <1>8, SameElse
<1>. QED
  BY <1>1, <1>9, EffectForms, ActsKeeps

LEMMA ResumeKeeps ==
  ASSUME Inv, NEW p \in Peers, ResumeAfterReconnect(p)
  PROVE  Inv'
<1>1. PICK s : /\ s = [peer[p] EXCEPT !.paused = FALSE]
               /\ Acts(p, Does(s)) \/ Acts(p, AnnounceLocalBundle(p, s, s.local))
  BY DEF ResumeAfterReconnect
<1>2. GoodSide(p, peer[p], {})
  BY OwnSide
<1>3. /\ DOMAIN s = Fields /\ s.entries = peer[p].entries /\ s.nextId = peer[p].nextId
      /\ s.pending = peer[p].pending /\ s.slot = peer[p].slot /\ s.calls = peer[p].calls
      /\ s.done = peer[p].done /\ s.reserved = peer[p].reserved
      /\ s.inFlight = peer[p].inFlight
  BY <1>1, <1>2 DEF GoodSide, Fields
<1>4. Sound(s.entries)
  BY <1>2, <1>3 DEF GoodSide
<1>5. GoodSide(p, s, {})
  BY <1>2, <1>3, <1>4, SameElse
<1>. QED
  BY <1>1, <1>5, AnnounceGood, EffectForms, ActsKeeps

LEMMA StopKeeps ==
  ASSUME Inv, NEW p \in Peers, Stop(p)
  PROVE  Inv'
<1>1. PICK s, t : /\ s = LetGo(peer[p]) /\ t = [s EXCEPT !.state = "Stopped"]
                  /\ peer' = [peer EXCEPT ![p] = t]
                  /\ wire' = wire /\ bulk' = bulk /\ policy' = policy
  BY DEF Stop
<1>2. GoodSide(p, peer[p], {})
  BY OwnSide
<1>3. GoodSide(p, s, {})
  BY <1>1, <1>2, LetGoSide
<1>4. /\ DOMAIN t = Fields /\ t.entries = s.entries /\ t.nextId = s.nextId
      /\ t.pending = s.pending /\ t.slot = s.slot /\ t.calls = s.calls
      /\ t.done = s.done /\ t.reserved = s.reserved /\ t.inFlight = s.inFlight
  BY <1>1, <1>3 DEF GoodSide, Fields
<1>5. Sound(t.entries)
  BY <1>3, <1>4 DEF GoodSide
<1>6. GoodSide(p, t, {})
  BY <1>3, <1>4, <1>5, SameElse
<1>7. QueuesOk(p) /\ QueuesOk(Other(p)) /\ DOMAIN wire = Peers /\ DOMAIN bulk = Peers
  BY OtherSide DEF Inv
<1>8. Leads(p, t, {})
  BY <1>1, <1>6, <1>7 DEF Leads
<1>9. TakesOff(p, {})
  BY <1>1, <1>7 DEF TakesOff, QueuesOk
<1>10. Appends(p, t)
  BY <1>1, <1>7 DEF Appends, QueuesOk
<1>. QED
  BY <1>8, <1>9, <1>10, StepKeeps

LEMMA StartKeeps ==
  ASSUME Inv, NEW p \in Peers, Start(p)
  PROVE  Inv'
<1>1. PICK s : s = [peer[p] EXCEPT !.state = "Running"] /\ Acts(p, Does(s))
  BY DEF Start
<1>2. GoodSide(p, peer[p], {})
  BY OwnSide
<1>3. /\ DOMAIN s = Fields /\ s.entries = peer[p].entries /\ s.nextId = peer[p].nextId
      /\ s.pending = peer[p].pending /\ s.slot = peer[p].slot /\ s.calls = peer[p].calls
      /\ s.done = peer[p].done /\ s.reserved = peer[p].reserved
      /\ s.inFlight = peer[p].inFlight
  BY <1>1, <1>2 DEF GoodSide, Fields
<1>4. Sound(s.entries)
  BY <1>2, <1>3 DEF GoodSide
<1>5. GoodSide(p, s, {})
  BY <1>2, <1>3, <1>4, SameElse
<1>. QED
  BY <1>1, <1>5, EffectForms, ActsKeeps

LEMMA NextInv == Inv /\ [Next]_vars => Inv'
<1>. SUFFICES ASSUME Inv, [Next]_vars PROVE Inv'
  OBVIOUS
<1>1. ASSUME NEW p \in Peers, Copy(p) \/ Pump(p) PROVE Inv'
  BY <1>1, CopyKeeps, PumpKeeps
<1>2. ASSUME NEW p \in Peers, Receive(p) \/ ReceiveBulk(p) PROVE Inv'
  BY <1>2, ReceiveKeeps, ReceiveBulkKeeps
<1>3. ASSUME NEW p \in Peers, Return(p) \/ GiveUp(p) PROVE Inv'
  BY <1>3, ReturnKeeps, GiveUpKeeps
<1>4. ASSUME NEW p \in Peers, NEW id, Expire(p, id) PROVE Inv'
  BY <1>4, ExpireKeeps
<1>5. ASSUME NEW p \in Peers, NEW kind \in Kinds, NEW b, NEW lock, Begin(p, kind, b, lock)
      PROVE  Inv'
  BY <1>5, BeginKeeps
<1>6. ASSUME NEW p \in Peers, PauseForReconnect(p) \/ ResumeAfterReconnect(p) PROVE Inv'
  BY <1>6, PauseKeeps, ResumeKeeps
<1>7. ASSUME NEW p \in Peers, Stop(p) \/ Start(p) PROVE Inv'
  BY <1>7, StopKeeps, StartKeeps
<1>8. CASE Lose
  BY <1>8, LoseKeeps
<1>9. CASE Rebind
  BY <1>9, QuietKeeps DEF Rebind
<1>10. CASE UNCHANGED vars
  BY <1>10, QuietKeeps DEF vars
<1>11. CASE Running
  BY <1>1, <1>2, <1>3, <1>4, <1>6, <1>9, <1>11 DEF Running
<1>12. CASE Environment
  BY <1>1, <1>5, <1>7, <1>8, <1>12 DEF Environment
<1>. QED
  BY <1>10, <1>11, <1>12 DEF Next

(***************************************************************************)
(* Nested calls and the answers on their way                                *)
(***************************************************************************)

(* Answers arrive in the order of the requests they answer. *)
Rising(w) ==
  \A i, j \in 1 .. Len(w) :
    i < j /\ w[i].type = "response" /\ w[j].type = "response" => w[i].to < w[j].to

LEMMA TakenRising ==
  ASSUME NEW w, IsQueue(w), w # << >>, Rising(w)
  PROVE  /\ Rising(Tail(w))
         /\ \A m \in Packets(Tail(w)) :
              Head(w).type = "response" /\ m.type = "response" => Head(w).to < m.to
<1>1. /\ Tail(w) \in Seq(Packets(w)) /\ Len(Tail(w)) = Len(w) - 1
      /\ \A i \in 1 .. Len(Tail(w)) : Tail(w)[i] = w[i + 1]
  BY HeadTailProperties DEF IsQueue
<1>2. Len(w) \in Nat /\ Len(w) > 0 /\ Head(w) = w[1]
  BY DEF IsQueue
<1>3. Rising(Tail(w))
  BY <1>1, <1>2 DEF Rising
<1>4. ASSUME NEW i \in 1 .. Len(Tail(w)), Head(w).type = "response",
             Tail(w)[i].type = "response"
      PROVE  Head(w).to < Tail(w)[i].to
  <2>1. Tail(w)[i] = w[i + 1] /\ i + 1 \in 1 .. Len(w) /\ 1 \in 1 .. Len(w) /\ 1 < i + 1
    BY <1>1, <1>2
  <2>. QED
    BY <1>2, <1>4, <2>1 DEF Rising
<1>. QED
  BY <1>3, <1>4 DEF Packets

LEMMA JoinedRising ==
  ASSUME NEW w, IsQueue(w), Rising(w), NEW m,
         m.type = "response" =>
           \A n \in Packets(w) : n.type = "response" => n.to < m.to
  PROVE  Rising(w \o <<m>>)
<1>. DEFINE S == Packets(w) \cup {m}
            v == <<m>>
<1>1. w \in Seq(S) /\ v \in Seq(S) /\ Len(v) = 1 /\ v[1] = m
  <2>1. \A i \in 1 .. Len(w) : w[i] \in S
    BY DEF Packets
  <2>2. m \in S
    OBVIOUS
  <2>. HIDE DEF S
  <2>. QED
    BY <2>1, <2>2 DEF IsQueue
<1>. HIDE DEF v
<1>2. /\ Len(w \o v) = Len(w) + Len(v)
      /\ \A i \in 1 .. Len(w) + Len(v) :
           (w \o v)[i] = IF i <= Len(w) THEN w[i] ELSE v[i - Len(w)]
  BY <1>1, ConcatProperties, Zenon
<1>3. Len(w) \in Nat
  BY <1>1
<1>4. Rising(w \o v)
  <2>. SUFFICES ASSUME NEW i \in 1 .. Len(w) + 1, NEW j \in 1 .. Len(w) + 1, i < j,
                       (w \o v)[i].type = "response", (w \o v)[j].type = "response"
                PROVE  (w \o v)[i].to < (w \o v)[j].to
    BY <1>1, <1>2 DEF Rising
  <2>1. i \in 1 .. Len(w) /\ (w \o v)[i] = w[i]
    BY <1>1, <1>2, <1>3
  <2>2. CASE j <= Len(w)
    <3>1. (w \o v)[j] = w[j] /\ j \in 1 .. Len(w)
      BY <1>1, <1>2, <1>3, <2>2
    <3>. QED
      BY <2>1, <3>1 DEF Rising
  <2>3. CASE j = Len(w) + 1
    <3>1. (w \o v)[j] = m
      BY <1>1, <1>2, <1>3, <2>3
    <3>2. w[i] \in Packets(w) /\ w[i].type = "response" /\ m.type = "response"
      BY <2>1, <3>1 DEF Packets
    <3>3. w[i].to < m.to
      BY <3>2
    <3>. QED
      BY <2>1, <3>1, <3>3
  <2>4. j <= Len(w) \/ j = Len(w) + 1
    BY <1>3
  <2>. QED
    BY <2>2, <2>3, <2>4
<1>. QED
  BY <1>4 DEF v

Asked(w) == {m \in Packets(w) : m.type = "request"}
Answers(w) == {m \in Packets(w) : m.type = "response"}

(* Of one request of p there is one packet at most: the request, or its     *)
(* answer on one of the two channels.                                       *)
OrderOk(p) ==
  /\ Rising(wire[p]) /\ Rising(bulk[p])
  /\ \A m \in Answers(wire[p]) \cup Answers(bulk[p]), n \in Asked(wire[Other(p)]) :
       m.to < n.id
  /\ \A m \in Answers(wire[p]), n \in Answers(bulk[p]) : m.to # n.to
  /\ \A m \in Answers(wire[p]) \cup Answers(bulk[p]) : m.to # 0 /\ m.status # "Timeout"
  /\ \A n \in Asked(wire[Other(p)]) : n.id # 0

Tokens(p) ==
  {m.id : m \in Asked(wire[Other(p)])}
    \cup {m.to : m \in Answers(wire[p]) \cup Answers(bulk[p])}

(***************************************************************************)
(* Steps of the two sides                                                   *)
(***************************************************************************)

(* p becomes t, w and v are left of its queues and it sends out and heavy. *)
Moves(p, t, w, v, out, heavy) ==
  LET q == Other(p)
  IN /\ peer' = [peer EXCEPT ![p] = t]
     /\ wire'[p] = w /\ bulk'[p] = v
     /\ wire'[q] = wire[q] \o out /\ bulk'[q] = bulk[q] \o heavy

LeftOf(w, v) == w = v \/ (v # << >> /\ w = Tail(v))

(* What p sends: at most one packet, and no request but its next one. *)
Adds(p, out) ==
  \/ out = << >>
  \/ \E x : out = <<x>> /\ (x.type = "request" => x.id = peer[p].nextId)

(* The same without an answer. *)
Says(p, out) ==
  \/ out = << >>
  \/ \E x : /\ out = <<x>> /\ x.type # "response"
            /\ x.type = "request" => x.id = peer[p].nextId
            /\ x.type = "cancel" => peer[p].calls # << >>

(* What p answers to the request m. *)
Replies(m, x) ==
  /\ x.type = "response" /\ x.kind = m.kind /\ x.to = m.id /\ x.status # "Timeout"

LEMMA SentPackets ==
  ASSUME NEW w, IsQueue(w)
  PROVE  /\ w \o << >> = w
         /\ \A x : IsQueue(w \o <<x>>) /\ Packets(w \o <<x>>) = Packets(w) \cup {x}
<1>1. w \o << >> = w
  BY ConcatEmptySeq DEF IsQueue
<1>2. ASSUME NEW x
      PROVE  IsQueue(w \o <<x>>) /\ Packets(w \o <<x>>) = Packets(w) \cup {x}
  BY OnePacket, JoinedQueue
<1>. QED
  BY <1>1, <1>2

LEMMA LeftQueue ==
  ASSUME NEW w, NEW v, LeftOf(v, w), IsQueue(w), Ascending(w), Rising(w)
  PROVE  IsQueue(v) /\ Rising(v) /\ Packets(v) \subseteq Packets(w)
  BY TakenQueue, TakenRising DEF LeftOf

(* A step of p leaves the packets of its own requests in order; what it     *)
(* takes is gone, and what it adds is its next request.                     *)
LEMMA AskerOrder ==
  ASSUME Inv, NEW p \in Peers, OrderOk(p), NEW t, NEW w, NEW v, NEW out,
         NEW heavy, Moves(p, t, w, v, out, heavy),
         LeftOf(w, wire[p]), LeftOf(v, bulk[p]), Adds(p, out), peer[p].nextId # 0
  PROVE  /\ OrderOk(p)'
         /\ Tokens(p)' \subseteq Tokens(p) \cup {peer[p].nextId}
         /\ (\A x : out # <<x>> \/ x.type # "request") => Tokens(p)' \subseteq Tokens(p)
<1>. DEFINE q == Other(p)
<1>1. q \in Peers /\ q # p /\ Other(q) = p
  BY OtherSide
<1>2. QueuesOk(p) /\ QueuesOk(q)
  BY <1>1 DEF Inv
<1>. HIDE DEF q
<1>3. /\ IsQueue(w) /\ Rising(w) /\ Packets(w) \subseteq Packets(wire[p])
      /\ IsQueue(v) /\ Rising(v) /\ Packets(v) \subseteq Packets(bulk[p])
  BY <1>2, LeftQueue DEF QueuesOk, OrderOk
<1>4. Answers(w) \subseteq Answers(wire[p]) /\ Answers(v) \subseteq Answers(bulk[p])
  BY <1>3 DEF Answers
<1>5. /\ \A n \in Asked(wire'[q]) : n \in Asked(wire[q]) \/ n.id = peer[p].nextId
      /\ (\A x : out # <<x>> \/ x.type # "request") => Asked(wire'[q]) \subseteq Asked(wire[q])
  <2>1. IsQueue(wire[q]) /\ wire'[q] = wire[q] \o out
    BY <1>2 DEF QueuesOk, Moves, q
  <2>2. CASE out = << >>
    BY <2>1, <2>2, SentPackets
  <2>3. ASSUME NEW x, out = <<x>>, x.type = "request" => x.id = peer[p].nextId
        PROVE  /\ \A n \in Asked(wire'[q]) : n \in Asked(wire[q]) \/ n.id = peer[p].nextId
               /\ (\A y : out # <<y>> \/ y.type # "request")
                    => Asked(wire'[q]) \subseteq Asked(wire[q])
    <3>1. Packets(wire'[q]) = Packets(wire[q]) \cup {x}
      BY <2>1, <2>3, SentPackets
    <3>. QED
      BY <2>3, <3>1 DEF Asked
  <2>. QED
    BY <2>2, <2>3 DEF Adds
<1>6. \A m \in Answers(wire[p]) \cup Answers(bulk[p]) : m.to < peer[p].nextId
  BY <1>2 DEF QueuesOk, PacketOk, ResponseOk, Answers
<1>7. wire'[p] = w /\ bulk'[p] = v
  BY DEF Moves
<1>8. OrderOk(p)'
  BY <1>3, <1>4, <1>5, <1>6, <1>7 DEF OrderOk, q
<1>. QED
  BY <1>4, <1>5, <1>7, <1>8 DEF Tokens, q

(* p takes the request at the head of its queue and answers it. *)
Serves(p, w, out, heavy) ==
  /\ wire[p] # << >> /\ w = Tail(wire[p]) /\ Head(wire[p]).type = "request"
  /\ \E x : /\ Replies(Head(wire[p]), x)
            /\ \/ out = <<x>> /\ heavy = << >>
               \/ x.kind = "range" /\ out = << >> /\ heavy = <<x>>

(* The same for the requests of the other side, which p may answer. *)
LEMMA ServerOrder ==
  ASSUME Inv, NEW p \in Peers, OrderOk(Other(p)), NEW t, NEW w, NEW v, NEW out, NEW heavy,
         Moves(p, t, w, v, out, heavy), LeftOf(w, wire[p]),
         (Says(p, out) /\ heavy = << >>) \/ Serves(p, w, out, heavy)
  PROVE  OrderOk(Other(p))' /\ Tokens(Other(p))' \subseteq Tokens(Other(p))
<1>. DEFINE q == Other(p)
<1>1. q \in Peers /\ q # p /\ Other(q) = p
  BY OtherSide
<1>2. QueuesOk(p) /\ QueuesOk(q) /\ OrderOk(q)
  BY <1>1 DEF Inv
<1>3. /\ wire'[p] = w /\ wire'[q] = wire[q] \o out /\ bulk'[q] = bulk[q] \o heavy
  BY DEF Moves
<1>4. Serves(p, w, out, heavy) \/ (Says(p, out) /\ heavy = << >>)
  OBVIOUS
<1>. HIDE DEF q
<1>5. /\ IsQueue(wire[p]) /\ Ascending(wire[p])
      /\ IsQueue(wire[q]) /\ IsQueue(bulk[q]) /\ Rising(wire[q]) /\ Rising(bulk[q])
  BY <1>2 DEF QueuesOk, OrderOk
<1>6. /\ wire[q] \o << >> = wire[q] /\ bulk[q] \o << >> = bulk[q]
      /\ \A x : Packets(wire[q] \o <<x>>) = Packets(wire[q]) \cup {x}
      /\ \A x : Packets(bulk[q] \o <<x>>) = Packets(bulk[q]) \cup {x}
  BY <1>5, SentPackets
<1>7. Packets(w) \subseteq Packets(wire[p])
  BY <1>5, TakenQueue DEF LeftOf
<1>8. Asked(w) \subseteq Asked(wire[p])
  BY <1>7 DEF Asked
<1>9. CASE Says(p, out) /\ heavy = << >>
  <2>1. bulk'[q] = bulk[q]
    BY <1>3, <1>6, <1>9
  <2>2. Rising(wire'[q]) /\ Answers(wire'[q]) = Answers(wire[q])
    <3>1. CASE out = << >>
      BY <1>3, <1>5, <1>6, <3>1
    <3>2. ASSUME NEW x, out = <<x>>, x.type # "response"
          PROVE  Rising(wire'[q]) /\ Answers(wire'[q]) = Answers(wire[q])
      <4>1. Rising(wire[q] \o <<x>>)
        BY <1>5, <3>2, JoinedRising
      <4>2. Packets(wire[q] \o <<x>>) = Packets(wire[q]) \cup {x}
        BY <1>6
      <4>. QED
        BY <1>3, <3>2, <4>1, <4>2 DEF Answers
    <3>. QED
      BY <1>9, <3>1, <3>2 DEF Says
  <2>3. OrderOk(q)'
    BY <1>1, <1>2, <1>3, <1>8, <2>1, <2>2 DEF OrderOk
  <2>4. Tokens(q)' \subseteq Tokens(q)
    BY <1>1, <1>3, <1>8, <2>1, <2>2 DEF Tokens
  <2>. QED
    BY <2>3, <2>4 DEF q
<1>10. CASE Serves(p, w, out, heavy)
  <2>. DEFINE m == Head(wire[p])
  <2>1. PICK x : /\ Replies(m, x)
                 /\ \/ out = <<x>> /\ heavy = << >>
                    \/ out = << >> /\ heavy = <<x>>
    BY <1>10 DEF Serves
  <2>2. /\ m.type = "request" /\ m \in Packets(wire[p]) /\ w = Tail(wire[p])
        /\ \A n \in Packets(w) : n.type = "request" => m.id < n.id
    BY <1>5, <1>10, TakenQueue DEF Serves
  <2>. HIDE DEF m
  <2>3. m \in Asked(wire[p]) /\ m.id # 0 /\ \A n \in Asked(w) : m.id < n.id
    BY <1>1, <1>2, <2>2 DEF Asked, OrderOk
  <2>4. /\ x.type = "response" /\ x.to = m.id /\ x.status # "Timeout"
    BY <2>1 DEF Replies
  <2>5. /\ \A n \in Answers(wire[q]) \cup Answers(bulk[q]) : n.to < m.id /\ n.to # m.id
    <3>1. \A n \in Answers(wire[q]) \cup Answers(bulk[q]) : n.to < m.id
      BY <1>1, <1>2, <2>3 DEF OrderOk
    <3>2. \A n \in Answers(wire[q]) \cup Answers(bulk[q]) : n.to \in Nat
      BY <1>2 DEF QueuesOk, PacketOk, ResponseOk, Answers
    <3>3. m.id \in Nat
      BY <1>2, <2>3 DEF QueuesOk, PacketOk, RequestOk, Asked
    <3>. QED
      BY <3>1, <3>2, <3>3
  <2>6. CASE out = <<x>> /\ heavy = << >>
    <3>1. bulk'[q] = bulk[q] /\ wire'[q] = wire[q] \o <<x>>
      BY <1>3, <1>6, <2>6
    <3>2. Answers(wire'[q]) = Answers(wire[q]) \cup {x}
      <4>1. Packets(wire'[q]) = Packets(wire[q]) \cup {x}
        BY <1>6, <3>1
      <4>. QED
        BY <2>4, <4>1 DEF Answers
    <3>3. \A n \in Packets(wire[q]) : n.type = "response" => n.to < x.to
      BY <2>4, <2>5 DEF Answers
    <3>4. Rising(wire'[q])
      BY <1>5, <3>1, <3>3, JoinedRising
    <3>5. OrderOk(q)'
      BY <1>1, <1>2, <1>3, <1>8, <2>3, <2>4, <2>5, <3>1, <3>2, <3>4 DEF OrderOk
    <3>6. Tokens(q)' \subseteq Tokens(q)
      BY <1>1, <1>3, <1>8, <2>3, <2>4, <3>1, <3>2 DEF Tokens
    <3>. QED
      BY <3>5, <3>6 DEF q
  <2>7. CASE out = << >> /\ heavy = <<x>>
    <3>1. wire'[q] = wire[q] /\ bulk'[q] = bulk[q] \o <<x>>
      BY <1>3, <1>6, <2>7
    <3>2. Answers(bulk'[q]) = Answers(bulk[q]) \cup {x}
      <4>1. Packets(bulk'[q]) = Packets(bulk[q]) \cup {x}
        BY <1>6, <3>1
      <4>. QED
        BY <2>4, <4>1 DEF Answers
    <3>3. \A n \in Packets(bulk[q]) : n.type = "response" => n.to < x.to
      BY <2>4, <2>5 DEF Answers
    <3>4. Rising(bulk'[q])
      BY <1>5, <3>1, <3>3, JoinedRising
    <3>5. OrderOk(q)'
      BY <1>1, <1>2, <1>3, <1>8, <2>3, <2>4, <2>5, <3>1, <3>2, <3>4 DEF OrderOk
    <3>6. Tokens(q)' \subseteq Tokens(q)
      BY <1>1, <1>3, <1>8, <2>3, <2>4, <3>1, <3>2 DEF Tokens
    <3>. QED
      BY <3>5, <3>6 DEF q
  <2>. QED
    BY <2>1, <2>6, <2>7
<1>. QED
  BY <1>4, <1>9, <1>10

(***************************************************************************)
(* The calls of one side                                                    *)
(***************************************************************************)

CallIds(s) == {s.calls[n].id : n \in 1 .. Len(s.calls)}

CallsTyped(s) == IsQueue(s.calls) /\ \A n \in 1 .. Len(s.calls) : s.calls[n].kind \in Kinds

(* Only calls that block have requests pending; those pending that are      *)
(* older than a call were pending when it began.                            *)
NestOk(s) ==
  /\ s.nextId \in Nat \ {0}
  /\ IsFiniteSet(DOMAIN s.pending) /\ DOMAIN s.pending \subseteq CallIds(s)
  /\ \A n \in 1 .. Len(s.calls) :
       /\ s.calls[n].id \in 1 .. s.nextId - 1 /\ s.calls[n].before \in Nat
       /\ Cardinality({i \in DOMAIN s.pending : i < s.calls[n].id}) <= s.calls[n].before
  /\ \A n, j \in 1 .. Len(s.calls) : n < j => s.calls[n].id < s.calls[j].id
  /\ \A k \in Kinds : s.slot[k].to \in 0 .. s.nextId - 1
                      /\ s.slot[k].to \notin DOMAIN s.pending

(* A request made so far belongs to a call that blocks or has returned. *)
CallsOk(s) ==
  /\ 1 .. s.nextId - 1 = CallIds(s) \cup DOMAIN s.done
  /\ CallIds(s) \cap DOMAIN s.done = {}
  /\ \A n \in 1 .. Len(s.calls) :
       s.calls[n].id \in DOMAIN s.pending =>
         s.pending[s.calls[n].id].kind = s.calls[n].kind
  /\ s.answered \subseteq 1 .. s.nextId - 1
  /\ s.answered \cap DOMAIN s.pending = {}

Excused(s, i) == \E j \in DOMAIN s.done : j < i /\ s.done[j].status # "Ok"

(* The only call there is, with none made before it returns. *)
Alone(s) == Len(s.calls) = 1 /\ Top(s).id \notin s.overlapped

(* The answer a call alone has had is there until it returns, unless the    *)
(* late answer to a call that has failed was noted over it.                 *)
OverlapOk(s) ==
  /\ Len(s.calls) > 1 => CallIds(s) \subseteq s.overlapped
  /\ Alone(s) =>
       /\ Top(s).id = s.nextId - 1
       /\ Top(s).id \in s.answered =>
            \/ HasResult(s, Top(s)) /\ s.slot[Top(s).kind].result[1].status # "Timeout"
            \/ Excused(s, Top(s).id)
  /\ \A i \in DOMAIN s.done :
       s.done[i].status = "Timeout" /\ i \in s.answered => i \in s.overlapped \/ Excused(s, i)

NestedOk(s) == NestOk(s) /\ CallsOk(s) /\ OverlapOk(s)

LEMMA AloneIds ==
  ASSUME NEW s, Alone(s)
  PROVE  CallIds(s) = {Top(s).id}
  BY DEF Alone, CallIds, Top

SameCalls(s, t) ==
  t.calls = s.calls /\ t.nextId = s.nextId /\ t.done = s.done /\ t.overlapped = s.overlapped

Kept(s, t) ==
  SameCalls(s, t) /\ t.answered = s.answered /\ t.pending = s.pending /\ t.slot = s.slot

Ends(s, t, ids, status) ==
  /\ SameCalls(s, t) /\ t.answered = s.answered
  /\ DOMAIN t.pending = DOMAIN s.pending \ ids
  /\ \A i \in DOMAIN t.pending : t.pending[i] = s.pending[i]
  /\ \A k \in Kinds :
       \/ t.slot[k] = s.slot[k] /\ \A i \in ids : s.pending[i].kind # k
       \/ /\ t.slot[k].to \in ids /\ s.pending[t.slot[k].to].kind = k
          /\ t.slot[k].result = <<[status |-> status, of |-> t.slot[k].to]>>

(* The answer to a request that waits no longer. *)
Notes(s, t, id) ==
  /\ SameCalls(s, t) /\ t.answered = s.answered /\ t.pending = s.pending
  /\ \A k \in Kinds : k # "read" => t.slot[k] = s.slot[k]
  /\ t.slot["read"].to = id /\ t.slot["read"].result = s.slot["read"].result

(* The answer to a request that waits. *)
Hears(s, t, id, status) ==
  /\ SameCalls(s, t) /\ t.answered = s.answered \cup {id}
  /\ DOMAIN t.pending = DOMAIN s.pending \ {id}
  /\ \A i \in DOMAIN t.pending : t.pending[i] = s.pending[i]
  /\ \A k \in Kinds :
       IF k = s.pending[id].kind
       THEN t.slot[k].to = id /\ t.slot[k].result = <<[status |-> status, of |-> id]>>
       ELSE /\ t.slot[k].to = IF k = "read" THEN id ELSE s.slot[k].to
            /\ t.slot[k].result = s.slot[k].result

(* A request that cannot be sent, and one that can. *)
Fails(s, t, k, r) ==
  /\ t.calls = s.calls /\ t.nextId = s.nextId + 1 /\ t.answered = s.answered
  /\ t.done = With(s.done, s.nextId, r) /\ t.overlapped = Overlap(s, s.nextId)
  /\ DOMAIN t.pending = DOMAIN s.pending
  /\ \A i \in DOMAIN t.pending : t.pending[i] = s.pending[i]
  /\ \A j \in Kinds :
       IF j = k THEN t.slot[j].to = s.nextId
                     /\ t.slot[j].result = <<[status |-> r.status, of |-> s.nextId]>>
       ELSE t.slot[j] = s.slot[j]

Blocks(s, t, c) ==
  /\ t.calls = Append(s.calls, c) /\ t.nextId = s.nextId + 1 /\ t.answered = s.answered
  /\ t.done = s.done /\ t.overlapped = Overlap(s, s.nextId) /\ t.slot = s.slot
  /\ t.pending = With(s.pending, s.nextId, [kind |-> c.kind])
  /\ c.id = s.nextId /\ c.before = Cardinality(DOMAIN s.pending)

(* The call on top returns r. *)
Pops(s, t, r) ==
  /\ t.calls = SubSeq(s.calls, 1, Len(s.calls) - 1) /\ t.nextId = s.nextId
  /\ t.done = With(s.done, Top(s).id, r) /\ t.overlapped = s.overlapped
  /\ t.answered = s.answered /\ t.pending = s.pending /\ t.slot = s.slot

(* Requests that end leave the counts of the calls below their bounds. *)
LEMMA FewerPending ==
  ASSUME NEW s, NEW t, NestOk(s), t.calls = s.calls, t.nextId = s.nextId,
         DOMAIN t.pending \subseteq DOMAIN s.pending,
         \A k \in Kinds : t.slot[k].to \in 0 .. t.nextId - 1
                          /\ t.slot[k].to \notin DOMAIN t.pending
  PROVE  NestOk(t)
<1>1. IsFiniteSet(DOMAIN t.pending)
  BY FS_Subset DEF NestOk
<1>2. ASSUME NEW n \in 1 .. Len(t.calls)
      PROVE  /\ t.calls[n].id \in 1 .. t.nextId - 1 /\ t.calls[n].before \in Nat
             /\ Cardinality({i \in DOMAIN t.pending : i < t.calls[n].id}) <= t.calls[n].before
  <2>. DEFINE before == {i \in DOMAIN s.pending : i < s.calls[n].id}
              after == {i \in DOMAIN t.pending : i < s.calls[n].id}
  <2>1. /\ s.calls[n].id \in 1 .. s.nextId - 1 /\ s.calls[n].before \in Nat
        /\ Cardinality(before) <= s.calls[n].before
    BY DEF NestOk
  <2>2. IsFiniteSet(before) /\ IsFiniteSet(after)
    BY <1>1, FS_Subset DEF NestOk
  <2>3. Cardinality(after) <= Cardinality(before)
        /\ Cardinality(after) \in Nat /\ Cardinality(before) \in Nat
    <3>1. after \in SUBSET before
      OBVIOUS
    <3>. QED
      BY <2>2, <3>1, FS_Subset, FS_CardinalityType
  <2>. HIDE DEF before
  <2>4. Cardinality(after) <= s.calls[n].before
    BY <2>1, <2>3
  <2>. QED
    BY <2>1, <2>4
<1>3. DOMAIN t.pending \subseteq CallIds(t)
  BY DEF NestOk, CallIds
<1>. QED
  BY <1>1, <1>2, <1>3 DEF NestOk

LEMMA KeptNested ==
  ASSUME NEW s, NEW t, Kept(s, t), NestedOk(s)
  PROVE  NestedOk(t)
<1>1. /\ t.calls = s.calls /\ t.nextId = s.nextId /\ t.done = s.done
      /\ t.overlapped = s.overlapped /\ t.answered = s.answered
      /\ t.pending = s.pending /\ t.slot = s.slot
  BY DEF Kept, SameCalls
<1>2. CallIds(t) = CallIds(s) /\ Top(t) = Top(s)
  BY <1>1 DEF CallIds, Top
<1>3. Alone(t) <=> Alone(s)
  BY <1>1, <1>2 DEF Alone
<1>4. HasResult(t, Top(t)) <=> HasResult(s, Top(s))
  BY <1>1, <1>2 DEF HasResult
<1>5. \A i : Excused(t, i) <=> Excused(s, i)
  BY <1>1 DEF Excused
<1>6. NestOk(t)
  BY <1>1, <1>2 DEF NestedOk, NestOk
<1>7. CallsOk(t)
  BY <1>1, <1>2 DEF NestedOk, CallsOk
<1>8. OverlapOk(t)
  BY <1>1, <1>2, <1>3, <1>4, <1>5 DEF NestedOk, OverlapOk
<1>. QED
  BY <1>6, <1>7, <1>8 DEF NestedOk

LEMMA EndsNested ==
  ASSUME NEW s, NEW t, NEW ids \in SUBSET DOMAIN s.pending, NEW status,
         CallsTyped(s), NestedOk(s), Ends(s, t, ids, status)
  PROVE  NestedOk(t)
<1>1. /\ t.calls = s.calls /\ t.nextId = s.nextId /\ t.done = s.done
      /\ t.overlapped = s.overlapped /\ t.answered = s.answered
      /\ DOMAIN t.pending \subseteq DOMAIN s.pending
  BY DEF Ends, SameCalls
<1>2. CallIds(t) = CallIds(s) /\ Top(t) = Top(s)
  BY <1>1 DEF CallIds, Top
<1>3. CallIds(s) \subseteq 1 .. s.nextId - 1
  BY DEF NestedOk, NestOk, CallIds
<1>4. NestOk(t)
  <2>1. ids \subseteq 1 .. s.nextId - 1
    BY <1>3 DEF NestedOk, NestOk
  <2>2. ASSUME NEW k \in Kinds
        PROVE  t.slot[k].to \in 0 .. t.nextId - 1 /\ t.slot[k].to \notin DOMAIN t.pending
    <3>1. CASE t.slot[k] = s.slot[k]
      BY <1>1, <3>1 DEF NestedOk, NestOk
    <3>2. CASE t.slot[k].to \in ids
      <4>1. t.slot[k].to \notin DOMAIN t.pending
        BY <3>2 DEF Ends
      <4>2. t.slot[k].to \in 1 .. s.nextId - 1 /\ s.nextId \in Nat
        BY <2>1, <3>2 DEF NestedOk, NestOk
      <4>. QED
        BY <1>1, <4>1, <4>2
    <3>. QED
      BY <3>1, <3>2 DEF Ends
  <2>. QED
    BY <1>1, <2>2, FewerPending DEF NestedOk
<1>5. CallsOk(t)
  BY <1>1, <1>2 DEF NestedOk, CallsOk, Ends
<1>6. ASSUME Alone(t), Top(t).id \in t.answered
      PROVE  \/ HasResult(t, Top(t)) /\ t.slot[Top(t).kind].result[1].status # "Timeout"
             \/ Excused(t, Top(t).id)
  <2>1. Alone(s) /\ Top(s).id \in s.answered
    BY <1>1, <1>2, <1>6 DEF Alone
  <2>2. ids = {}
    BY <2>1, AloneIds DEF NestedOk, NestOk, CallsOk
  <2>3. Top(s).kind \in Kinds
    BY <2>1 DEF Alone, CallsTyped, Top
  <2>4. t.slot[Top(s).kind] = s.slot[Top(s).kind]
    BY <2>2, <2>3 DEF Ends
  <2>. QED
    BY <1>1, <1>2, <2>1, <2>4 DEF NestedOk, OverlapOk, HasResult, Excused
<1>7. OverlapOk(t)
  BY <1>1, <1>2, <1>6 DEF NestedOk, OverlapOk, Alone, Excused
<1>. QED
  BY <1>4, <1>5, <1>7 DEF NestedOk

LEMMA NotesNested ==
  ASSUME NEW s, NEW t, NEW id \in 1 .. s.nextId - 1, CallsTyped(s), NestedOk(s),
         Notes(s, t, id), id \notin DOMAIN s.pending, id \notin s.answered,
         id \in DOMAIN s.done => s.done[id].status # "Ok"
  PROVE  NestedOk(t)
<1>1. /\ t.calls = s.calls /\ t.nextId = s.nextId /\ t.done = s.done
      /\ t.overlapped = s.overlapped /\ t.answered = s.answered
      /\ t.pending = s.pending
  BY DEF Notes, SameCalls
<1>2. CallIds(t) = CallIds(s) /\ Top(t) = Top(s)
  BY <1>1 DEF CallIds, Top
<1>3. NestOk(t)
  <2>1. \A k \in Kinds : t.slot[k].to = id \/ t.slot[k].to = s.slot[k].to
    BY DEF Notes
  <2>2. \A k \in Kinds : t.slot[k].to \in 0 .. t.nextId - 1
                         /\ t.slot[k].to \notin DOMAIN t.pending
    BY <1>1, <2>1 DEF NestedOk, NestOk
  <2>. QED
    BY <1>1, <2>2, FewerPending DEF NestedOk
<1>4. CallsOk(t)
  BY <1>1, <1>2 DEF NestedOk, CallsOk
<1>5. ASSUME Alone(t), Top(t).id \in t.answered
      PROVE  \/ HasResult(t, Top(t)) /\ t.slot[Top(t).kind].result[1].status # "Timeout"
             \/ Excused(t, Top(t).id)
  <2>1. Alone(s) /\ Top(s).id \in s.answered /\ Top(s).id = s.nextId - 1
    BY <1>1, <1>2, <1>5 DEF Alone, NestedOk, OverlapOk
  <2>2. Top(s).kind \in Kinds
    BY <2>1 DEF Alone, CallsTyped, Top
  <2>3. CASE Top(s).kind # "read"
    <3>1. t.slot[Top(s).kind] = s.slot[Top(s).kind]
      BY <2>2, <2>3 DEF Notes
    <3>. QED
      BY <1>1, <1>2, <2>1, <3>1 DEF NestedOk, OverlapOk, HasResult, Excused
  <2>4. CASE Top(s).kind = "read"
    <3>1. id # Top(s).id
      BY <2>1
    <3>2. id < Top(s).id
      BY <2>1, <3>1 DEF NestedOk, NestOk
    <3>3. id \in DOMAIN s.done
      BY <2>1, <3>1, AloneIds DEF NestedOk, CallsOk
    <3>. QED
      BY <1>1, <1>2, <3>2, <3>3 DEF Excused
  <2>. QED
    BY <2>3, <2>4
<1>6. OverlapOk(t)
  BY <1>1, <1>2, <1>5 DEF NestedOk, OverlapOk, Alone, Excused
<1>. QED
  BY <1>3, <1>4, <1>6 DEF NestedOk

LEMMA HearsNested ==
  ASSUME NEW s, NEW t, NEW id \in DOMAIN s.pending, NEW status, CallsTyped(s), NestedOk(s),
         Hears(s, t, id, status), status # "Timeout"
  PROVE  NestedOk(t)
<1>1. /\ t.calls = s.calls /\ t.nextId = s.nextId /\ t.done = s.done
      /\ t.overlapped = s.overlapped /\ t.answered = s.answered \cup {id}
      /\ DOMAIN t.pending \subseteq DOMAIN s.pending /\ id \notin DOMAIN t.pending
  BY DEF Hears, SameCalls
<1>2. CallIds(t) = CallIds(s) /\ Top(t) = Top(s)
  BY <1>1 DEF CallIds, Top
<1>3. id \in CallIds(s) /\ id \in 1 .. s.nextId - 1
  BY DEF NestedOk, NestOk, CallIds
<1>4. NestOk(t)
  <2>1. \A k \in Kinds : t.slot[k].to = id \/ t.slot[k].to = s.slot[k].to
    BY DEF Hears
  <2>2. \A k \in Kinds : t.slot[k].to \in 0 .. t.nextId - 1
                         /\ t.slot[k].to \notin DOMAIN t.pending
    BY <1>1, <1>3, <2>1 DEF NestedOk, NestOk
  <2>. QED
    BY <1>1, <2>2, FewerPending DEF NestedOk
<1>5. CallsOk(t)
  BY <1>1, <1>2, <1>3 DEF NestedOk, CallsOk, Hears
<1>6. ASSUME Alone(t)
      PROVE  HasResult(t, Top(t)) /\ t.slot[Top(t).kind].result[1].status # "Timeout"
  <2>1. Alone(s)
    BY <1>1, <1>2, <1>6 DEF Alone
  <2>2. Top(s).kind \in Kinds
    BY <2>1 DEF Alone, CallsTyped, Top
  <2>3. id = Top(s).id
    BY <1>3, <2>1, AloneIds
  <2>4. s.pending[id].kind = Top(s).kind
    BY <2>1, <2>3 DEF NestedOk, CallsOk, Alone, Top
  <2>5. t.slot[Top(s).kind].to = id
        /\ t.slot[Top(s).kind].result = <<[status |-> status, of |-> id]>>
    BY <2>2, <2>4 DEF Hears
  <2>. QED
    BY <1>2, <2>3, <2>5 DEF HasResult
<1>7. OverlapOk(t)
  <2>1. \A i \in DOMAIN t.done : i # id
    BY <1>1, <1>3 DEF NestedOk, CallsOk
  <2>2. Alone(t) => Alone(s)
    BY <1>1, <1>2 DEF Alone
  <2>3. Alone(t) => Top(t).id = t.nextId - 1
    BY <1>1, <1>2, <2>2 DEF NestedOk, OverlapOk
  <2>4. \A i : Excused(s, i) => Excused(t, i)
    BY <1>1 DEF Excused
  <2>5. \A i \in DOMAIN t.done :
          t.done[i].status = "Timeout" /\ i \in t.answered => i \in t.overlapped \/ Excused(t, i)
    BY <1>1, <2>1, <2>4 DEF NestedOk, OverlapOk
  <2>. QED
    BY <1>1, <1>2, <1>6, <2>3, <2>5 DEF NestedOk, OverlapOk
<1>. QED
  BY <1>4, <1>5, <1>7 DEF NestedOk

LEMMA CallCount ==
  ASSUME NEW s, NestOk(s), NEW n \in 1 .. Len(s.calls)
  PROVE  /\ s.calls[n].id \in Nat /\ s.calls[n].id # 0 /\ s.calls[n].id < s.nextId
         /\ s.calls[n].id \in 1 .. s.nextId - 1 /\ s.calls[n].id \in 1 .. s.nextId
         /\ s.calls[n].before \in Nat
         /\ Cardinality({i \in DOMAIN s.pending : i < s.calls[n].id}) <= s.calls[n].before
<1>1. /\ s.calls[n].id \in 1 .. s.nextId - 1 /\ s.calls[n].before \in Nat
      /\ s.nextId \in Nat
  BY DEF NestOk
<1>2. Cardinality({i \in DOMAIN s.pending : i < s.calls[n].id}) <= s.calls[n].before
  BY DEF NestOk
<1>3. \A i \in 1 .. s.nextId - 1 : i \in Nat /\ i # 0 /\ i < s.nextId /\ i \in 1 .. s.nextId
  BY <1>1
<1>. QED
  BY <1>1, <1>2, <1>3

LEMMA FailsNested ==
  ASSUME NEW s, NEW t, NEW k, NEW r, CallsTyped(s), NestedOk(s), Fails(s, t, k, r),
         r.status # "Timeout"
  PROVE  NestedOk(t)
<1>. DEFINE id == s.nextId
<1>1. /\ t.calls = s.calls /\ t.nextId = id + 1 /\ t.answered = s.answered
      /\ t.done = With(s.done, id, r) /\ t.overlapped = Overlap(s, id)
      /\ DOMAIN t.pending = DOMAIN s.pending
      /\ \A i \in DOMAIN t.pending : t.pending[i] = s.pending[i]
  BY DEF Fails
<1>2. CallIds(t) = CallIds(s) /\ Top(t) = Top(s) /\ id \in Nat \ {0}
  BY <1>1 DEF CallIds, Top, NestedOk, NestOk
<1>3. /\ CallIds(s) \subseteq 1 .. id - 1 /\ DOMAIN s.pending \subseteq 1 .. id - 1
      /\ DOMAIN s.done \subseteq 1 .. id - 1
  BY DEF NestedOk, NestOk, CallsOk, CallIds
<1>4. NestOk(t)
  <2>1. \A j \in Kinds : t.slot[j].to = id \/ t.slot[j].to = s.slot[j].to
    BY DEF Fails
  <2>2. \A j \in Kinds : t.slot[j].to \in 0 .. t.nextId - 1
                         /\ t.slot[j].to \notin DOMAIN t.pending
    BY <1>1, <1>2, <1>3, <2>1 DEF NestedOk, NestOk
  <2>3. ASSUME NEW n \in 1 .. Len(t.calls)
        PROVE  /\ t.calls[n].id \in 1 .. t.nextId - 1 /\ t.calls[n].before \in Nat
               /\ Cardinality({i \in DOMAIN t.pending : i < t.calls[n].id}) <= t.calls[n].before
    <3>1. n \in 1 .. Len(s.calls) /\ t.calls[n] = s.calls[n] /\ t.nextId - 1 = s.nextId
      BY <1>1, <1>2
    <3>2. {i \in DOMAIN t.pending : i < t.calls[n].id}
            = {i \in DOMAIN s.pending : i < s.calls[n].id}
      BY <1>1, <3>1
    <3>. QED
      BY <3>1, <3>2, CallCount DEF NestedOk
  <2>4. \A n, j \in 1 .. Len(t.calls) : n < j => t.calls[n].id < t.calls[j].id
    BY <1>1 DEF NestedOk, NestOk
  <2>5. IsFiniteSet(DOMAIN t.pending) /\ DOMAIN t.pending \subseteq CallIds(t)
        /\ t.nextId \in Nat \ {0}
    BY <1>1, <1>2 DEF NestedOk, NestOk
  <2>. QED
    BY <2>2, <2>3, <2>4, <2>5 DEF NestOk
<1>5. DOMAIN t.done = DOMAIN s.done \cup {id} /\ t.done[id] = r
      /\ \A i \in DOMAIN s.done : t.done[i] = s.done[i]
  <2>1. DOMAIN t.done = DOMAIN s.done \cup {id} /\ t.done[id] = r
    BY <1>1 DEF With
  <2>2. ASSUME NEW i \in DOMAIN s.done
        PROVE  t.done[i] = s.done[i]
    <3>1. i # id
      BY <1>2, <1>3
    <3>. QED
      BY <1>1, <3>1 DEF With
  <2>. QED
    BY <2>1, <2>2
<1>6. CallsOk(t)
  <2>1. 1 .. t.nextId - 1 = (1 .. id - 1) \cup {id}
    BY <1>1, <1>2
  <2>2. id \notin CallIds(s)
    BY <1>2, <1>3
  <2>. QED
    BY <1>1, <1>2, <1>5, <2>1, <2>2 DEF NestedOk, CallsOk
<1>7. Len(s.calls) > 0 => CallIds(s) \subseteq t.overlapped
  <2>1. Len(s.calls) > 0 => s.calls # << >>
    BY DEF CallsTyped, IsQueue
  <2>. QED
    BY <1>1, <2>1 DEF Overlap, CallIds, CallsTyped, IsQueue
<1>8. s.overlapped \subseteq t.overlapped
  BY <1>1 DEF Overlap
<1>9. ~ Alone(t)
  <2>. SUFFICES ASSUME Alone(t) PROVE FALSE
    OBVIOUS
  <2>1. CallIds(t) = {Top(t).id} /\ Len(s.calls) = 1
    BY <1>1, AloneIds DEF Alone
  <2>. QED
    BY <1>2, <1>7, <2>1 DEF Alone
<1>10. ASSUME NEW i \in DOMAIN t.done, t.done[i].status = "Timeout", i \in t.answered
       PROVE  i \in t.overlapped \/ Excused(t, i)
  <2>1. i \in DOMAIN s.done /\ s.done[i] = t.done[i]
    BY <1>5, <1>10
  <2>2. i \in s.overlapped \/ Excused(s, i)
    BY <1>1, <1>10, <2>1 DEF NestedOk, OverlapOk
  <2>3. Excused(s, i) => Excused(t, i)
    BY <1>5 DEF Excused
  <2>. QED
    BY <1>8, <2>2, <2>3
<1>11. OverlapOk(t)
  BY <1>1, <1>2, <1>7, <1>9, <1>10 DEF OverlapOk, CallsTyped, IsQueue
<1>. QED
  BY <1>4, <1>6, <1>11 DEF NestedOk

LEMMA BlocksNested ==
  ASSUME NEW s, NEW t, NEW c, CallsTyped(s), NestedOk(s), Blocks(s, t, c)
  PROVE  NestedOk(t)
<1>. DEFINE id == s.nextId
            L == Len(s.calls)
<1>1. /\ t.calls = Append(s.calls, c) /\ t.nextId = id + 1 /\ t.answered = s.answered
      /\ t.done = s.done /\ t.overlapped = Overlap(s, id) /\ t.slot = s.slot
      /\ t.pending = With(s.pending, id, [kind |-> c.kind])
      /\ c.id = id /\ c.before = Cardinality(DOMAIN s.pending)
  BY DEF Blocks
<1>2. /\ id \in Nat \ {0} /\ L \in Nat
      /\ Len(t.calls) = L + 1 /\ t.calls[L + 1] = c
      /\ \A n \in 1 .. L : t.calls[n] = s.calls[n]
  BY <1>1 DEF NestedOk, NestOk, CallsTyped, IsQueue
<1>3. CallIds(t) = CallIds(s) \cup {id} /\ Top(t) = c
  <2>1. \A n \in 1 .. L + 1 : n \in 1 .. L \/ n = L + 1
    BY <1>2
  <2>2. \A n \in 1 .. L : n \in 1 .. L + 1
    BY <1>2
  <2>3. L + 1 \in 1 .. L + 1
    BY <1>2
  <2>. HIDE DEF L
  <2>. QED
    BY <1>1, <1>2, <2>1, <2>2, <2>3 DEF CallIds, Top, L
<1>4. /\ CallIds(s) \subseteq 1 .. id - 1 /\ DOMAIN s.pending \subseteq 1 .. id - 1
      /\ DOMAIN s.done \subseteq 1 .. id - 1 /\ s.answered \subseteq 1 .. id - 1
  BY DEF NestedOk, NestOk, CallsOk, CallIds
<1>5. /\ DOMAIN t.pending = DOMAIN s.pending \cup {id} /\ t.pending[id].kind = c.kind
      /\ \A i \in DOMAIN s.pending : t.pending[i] = s.pending[i]
  <2>1. id \notin DOMAIN s.pending
    BY <1>2, <1>4
  <2>. QED
    BY <1>1, <2>1 DEF With
<1>6. IsFiniteSet(DOMAIN s.pending) /\ IsFiniteSet(DOMAIN t.pending)
  BY <1>5, FS_AddElement DEF NestedOk, NestOk
<1>. HIDE DEF L
<1>7. ASSUME NEW n \in 1 .. L + 1
      PROVE  /\ t.calls[n].id \in 1 .. id /\ t.calls[n].before \in Nat
             /\ Cardinality({i \in DOMAIN t.pending : i < t.calls[n].id}) <= t.calls[n].before
  <2>1. CASE n \in 1 .. L
    <3>1. /\ s.calls[n].id < id /\ s.calls[n].id \in Nat /\ s.calls[n].id \in 1 .. id
          /\ s.calls[n].before \in Nat
          /\ Cardinality({i \in DOMAIN s.pending : i < s.calls[n].id}) <= s.calls[n].before
      BY <2>1, CallCount DEF NestedOk, L
    <3>2. {i \in DOMAIN t.pending : i < s.calls[n].id}
            = {i \in DOMAIN s.pending : i < s.calls[n].id}
      BY <1>2, <1>5, <3>1
    <3>. QED
      BY <1>2, <2>1, <3>1, <3>2
  <2>2. CASE n = L + 1
    <3>1. {i \in DOMAIN t.pending : i < id} = DOMAIN s.pending
      BY <1>2, <1>4, <1>5
    <3>2. Cardinality(DOMAIN s.pending) \in Nat
      BY <1>6, FS_CardinalityType
    <3>3. t.calls[n].id = id /\ t.calls[n].before = Cardinality(DOMAIN s.pending)
      BY <1>1, <1>2, <2>2
    <3>4. id \in 1 .. id
      BY <1>2
    <3>5. Cardinality({i \in DOMAIN t.pending : i < id}) <= Cardinality(DOMAIN s.pending)
      BY <3>1, <3>2
    <3>. QED
      BY <3>2, <3>3, <3>4, <3>5
  <2>. QED
    BY <1>2, <2>1, <2>2
<1>8. NestOk(t)
  <2>1. ASSUME NEW n \in 1 .. L + 1, NEW j \in 1 .. L + 1, n < j
        PROVE  t.calls[n].id < t.calls[j].id
    <3>0. n \in 1 .. L
      BY <1>2, <2>1
    <3>1. s.calls[n].id < id /\ t.calls[n] = s.calls[n]
      BY <1>2, <3>0, CallCount DEF NestedOk, L
    <3>2. CASE j \in 1 .. L
      <4>1. s.calls[n].id < s.calls[j].id
        BY <2>1, <3>0, <3>2 DEF NestedOk, NestOk, L
      <4>. QED
        BY <1>2, <3>1, <3>2, <4>1
    <3>3. CASE j = L + 1
      BY <1>1, <1>2, <3>1, <3>3
    <3>. QED
      BY <1>2, <3>2, <3>3
  <2>2. \A k \in Kinds : t.slot[k].to \in 0 .. t.nextId - 1
                         /\ t.slot[k].to \notin DOMAIN t.pending
    BY <1>1, <1>2, <1>5 DEF NestedOk, NestOk
  <2>3. DOMAIN t.pending \subseteq CallIds(t)
    BY <1>3, <1>5 DEF NestedOk, NestOk
  <2>. QED
    <3>1. Len(t.calls) = L + 1 /\ t.nextId \in Nat \ {0} /\ t.nextId - 1 = id
      BY <1>1, <1>2
    <3>2. \A n \in 1 .. Len(t.calls) :
            /\ t.calls[n].id \in 1 .. t.nextId - 1 /\ t.calls[n].before \in Nat
            /\ Cardinality({i \in DOMAIN t.pending : i < t.calls[n].id}) <= t.calls[n].before
      BY <1>7, <3>1
    <3>3. \A n, j \in 1 .. Len(t.calls) : n < j => t.calls[n].id < t.calls[j].id
      BY <2>1, <3>1
    <3>. QED
      BY <1>6, <2>2, <2>3, <3>1, <3>2, <3>3 DEF NestOk
<1>9. CallsOk(t)
  <2>1. 1 .. t.nextId - 1 = (1 .. id - 1) \cup {id}
    BY <1>1, <1>2
  <2>2. id \notin DOMAIN s.done /\ id \notin s.answered
    BY <1>2, <1>4
  <2>3. ASSUME NEW n \in 1 .. L + 1, t.calls[n].id \in DOMAIN t.pending
        PROVE  t.pending[t.calls[n].id].kind = t.calls[n].kind
    <3>1. CASE n \in 1 .. L
      <4>1. s.calls[n].id \in 1 .. id - 1 /\ t.calls[n] = s.calls[n]
        BY <1>2, <3>1 DEF NestedOk, NestOk, L
      <4>2. s.calls[n].id \in DOMAIN s.pending
        BY <1>2, <1>5, <2>3, <4>1
      <4>. QED
        BY <1>5, <3>1, <4>1, <4>2 DEF NestedOk, CallsOk, L
    <3>2. CASE n = L + 1
      BY <1>1, <1>2, <1>5, <3>2
    <3>. QED
      BY <1>2, <3>1, <3>2
  <2>. QED
    BY ZenonT(40), <1>1, <1>2, <1>3, <1>4, <1>5, <2>1, <2>2, <2>3 DEF NestedOk, CallsOk
<1>10. L > 0 => CallIds(t) \subseteq t.overlapped
  <2>1. L > 0 => s.calls # << >>
    BY DEF CallsTyped, IsQueue, L
  <2>. QED
    BY <1>1, <1>3, <2>1 DEF Overlap, CallIds, CallsTyped, IsQueue
<1>11. s.overlapped \subseteq t.overlapped
  BY <1>1 DEF Overlap
<1>12. id \notin t.answered
  BY <1>1, <1>2, <1>4
<1>13. ASSUME NEW i \in DOMAIN t.done, t.done[i].status = "Timeout", i \in t.answered
       PROVE  i \in t.overlapped \/ Excused(t, i)
  BY <1>1, <1>11, <1>13 DEF NestedOk, OverlapOk, Excused
<1>14. OverlapOk(t)
  BY <1>1, <1>2, <1>3, <1>10, <1>12, <1>13 DEF OverlapOk
<1>. QED
  BY <1>8, <1>9, <1>14 DEF NestedOk

LEMMA PopsNested ==
  ASSUME NEW s, NEW t, NEW r, CallsTyped(s), NestedOk(s), s.calls # << >>, Pops(s, t, r),
         Top(s).id \notin DOMAIN s.pending,
         r.status = "Timeout" /\ Top(s).id \in s.answered =>
           Top(s).id \in s.overlapped \/ Excused(s, Top(s).id)
  PROVE  NestedOk(t)
<1>. DEFINE L == Len(s.calls)
            id == Top(s).id
<1>1. /\ t.nextId = s.nextId /\ t.answered = s.answered
      /\ t.done = With(s.done, id, r) /\ t.overlapped = s.overlapped /\ t.slot = s.slot
      /\ t.pending = s.pending
  BY DEF Pops
<1>2. L \in Nat /\ L > 0 /\ id = s.calls[L].id /\ s.nextId \in Nat \ {0}
  BY DEF CallsTyped, IsQueue, Top, NestedOk, NestOk
<1>3. Len(t.calls) = L - 1 /\ \A n \in 1 .. L - 1 : t.calls[n] = s.calls[n]
  BY <1>2 DEF Pops, CallsTyped, IsQueue
<1>. HIDE DEF L
<1>4. CallIds(s) = CallIds(t) \cup {id}
  <2>1. \A n \in 1 .. L : n \in 1 .. L - 1 \/ n = L
    BY <1>2
  <2>2. \A n \in 1 .. L - 1 : n \in 1 .. L
    BY <1>2
  <2>3. L \in 1 .. L
    BY <1>2
  <2>. QED
    BY <1>2, <1>3, <2>1, <2>2, <2>3 DEF CallIds, L
<1>5. id \notin CallIds(t)
  <2>1. ASSUME NEW n \in 1 .. L - 1
        PROVE  t.calls[n].id # id
    <3>1. n \in 1 .. L /\ L \in 1 .. L /\ n < L
      BY <1>2
    <3>2. s.calls[n].id < s.calls[L].id /\ s.calls[n].id \in Nat /\ s.calls[L].id \in Nat
      <4>1. s.calls[n].id < s.calls[L].id
        BY <3>1 DEF NestedOk, NestOk, L
      <4>. QED
        BY <3>1, <4>1, CallCount DEF NestedOk, L
    <3>. QED
      BY <1>2, <1>3, <3>2
  <2>. QED
    BY <1>3, <2>1 DEF CallIds
<1>6. id \notin DOMAIN s.done
  BY <1>4 DEF NestedOk, CallsOk
<1>. HIDE DEF id
<1>7. /\ DOMAIN t.done = DOMAIN s.done \cup {id} /\ t.done[id] = r
      /\ \A i \in DOMAIN s.done : t.done[i] = s.done[i]
  BY <1>1, <1>6 DEF With
<1>8. \A n \in 1 .. L - 1 : n \in 1 .. L
  BY <1>2
<1>9. NestOk(t)
  <2>1. DOMAIN t.pending \subseteq CallIds(t)
    BY <1>1, <1>4 DEF NestedOk, NestOk, id
  <2>2. \A n \in 1 .. L - 1 :
          /\ t.calls[n].id \in 1 .. t.nextId - 1 /\ t.calls[n].before \in Nat
          /\ Cardinality({i \in DOMAIN t.pending : i < t.calls[n].id}) <= t.calls[n].before
    BY <1>1, <1>3, <1>8 DEF NestedOk, NestOk, L
  <2>3. \A n, j \in 1 .. L - 1 : n < j => t.calls[n].id < t.calls[j].id
    BY <1>3, <1>8 DEF NestedOk, NestOk, L
  <2>. QED
    BY <1>1, <1>3, <2>1, <2>2, <2>3 DEF NestedOk, NestOk
<1>10. CallsOk(t)
  <2>1. \A n \in 1 .. L - 1 :
          t.calls[n].id \in DOMAIN t.pending =>
            t.pending[t.calls[n].id].kind = t.calls[n].kind
    BY <1>1, <1>3, <1>8 DEF NestedOk, CallsOk, L
  <2>. QED
    BY <1>1, <1>3, <1>4, <1>5, <1>7, <2>1 DEF NestedOk, CallsOk
<1>11. Len(t.calls) > 0 => CallIds(t) \subseteq t.overlapped
  BY <1>1, <1>2, <1>3, <1>4 DEF NestedOk, OverlapOk, L
<1>12. ~ Alone(t)
  <2>. SUFFICES ASSUME Alone(t) PROVE FALSE
    OBVIOUS
  <2>1. CallIds(t) = {Top(t).id} /\ Len(t.calls) = 1 /\ Top(t).id \notin t.overlapped
    BY AloneIds DEF Alone
  <2>. QED
    BY <1>11, <2>1
<1>13. ASSUME NEW i \in DOMAIN t.done, t.done[i].status = "Timeout", i \in t.answered
       PROVE  i \in t.overlapped \/ Excused(t, i)
  <2>1. i \in s.overlapped \/ Excused(s, i)
    <3>1. CASE i = id
      BY <1>1, <1>7, <1>13, <3>1 DEF id
    <3>2. CASE i \in DOMAIN s.done
      BY <1>1, <1>7, <1>13, <3>2 DEF NestedOk, OverlapOk
    <3>. QED
      BY <1>7, <3>1, <3>2
  <2>2. Excused(s, i) => Excused(t, i)
    BY <1>7 DEF Excused
  <2>. QED
    BY <1>1, <2>1, <2>2
<1>14. OverlapOk(t)
  BY <1>2, <1>3, <1>11, <1>12, <1>13 DEF OverlapOk
<1>. QED
  BY <1>9, <1>10, <1>14 DEF NestedOk

(***************************************************************************)
(* Calls and packets together                                               *)
(***************************************************************************)

(* For a request that is answered, or whose success has been written down   *)
(* or returned, no packet is on its way any more.                           *)
Spent(s, tokens) ==
  /\ \A i \in s.answered : i \notin tokens
  /\ \A i \in DOMAIN s.done : s.done[i].status = "Ok" => i \notin tokens
  /\ \A k \in Kinds :
       s.slot[k].result # << >> /\ s.slot[k].result[1].status = "Ok"
         => s.slot[k].to \notin tokens

NestInv ==
  \A p \in Peers : NestedOk(peer[p]) /\ OrderOk(p) /\ Spent(peer[p], Tokens(p))

(* Whatever packet p adds, its calls stay in order. *)
Leaves(s, t, tokens) ==
  \A later \in SUBSET (tokens \cup {s.nextId}) : NestedOk(t) /\ Spent(t, later)

LEMMA KnownIds ==
  ASSUME NEW s, NestedOk(s)
  PROVE  /\ s.nextId \in Nat /\ s.nextId # 0
         /\ s.nextId \notin CallIds(s) /\ s.nextId \notin DOMAIN s.pending
         /\ s.nextId \notin s.answered /\ s.nextId \notin DOMAIN s.done
         /\ \A k \in Kinds : s.slot[k].to # s.nextId
<1>1. s.nextId \in Nat \ {0} /\ s.nextId \notin 1 .. s.nextId - 1
      /\ s.nextId \notin 0 .. s.nextId - 1
  BY DEF NestedOk, NestOk
<1>2. /\ 1 .. s.nextId - 1 = CallIds(s) \cup DOMAIN s.done
      /\ s.answered \subseteq 1 .. s.nextId - 1
  BY DEF NestedOk, CallsOk
<1>3. DOMAIN s.pending \subseteq CallIds(s)
      /\ \A k \in Kinds : s.slot[k].to \in 0 .. s.nextId - 1
  BY DEF NestedOk, NestOk
<1>. QED
  BY <1>1, <1>2, <1>3

LEMMA KeptLeaves ==
  ASSUME NEW s, NEW t, NEW tokens, Kept(s, t), NestedOk(s), Spent(s, tokens)
  PROVE  Leaves(s, t, tokens)
<1>1. NestedOk(t)
  BY KeptNested
<1>2. ASSUME NEW later \in SUBSET (tokens \cup {s.nextId})
      PROVE  Spent(t, later)
  BY KnownIds DEF Spent, Kept, SameCalls
<1>. QED
  BY <1>1, <1>2 DEF Leaves

LEMMA EndsLeaves ==
  ASSUME NEW s, NEW t, NEW tokens, NEW ids \in SUBSET DOMAIN s.pending, NEW status,
         CallsTyped(s), NestedOk(s), Spent(s, tokens), Ends(s, t, ids, status),
         status # "Ok"
  PROVE  Leaves(s, t, tokens)
<1>1. NestedOk(t)
  BY EndsNested
<1>2. ASSUME NEW later \in SUBSET (tokens \cup {s.nextId})
      PROVE  Spent(t, later)
  <2>1. ASSUME NEW k \in Kinds, t.slot[k].result # << >>, t.slot[k].result[1].status = "Ok"
        PROVE  t.slot[k].to \notin later
    <3>1. t.slot[k].result # <<[status |-> status, of |-> t.slot[k].to]>>
      BY <2>1
    <3>2. t.slot[k] = s.slot[k]
      BY <3>1 DEF Ends
    <3>. QED
      BY <2>1, <3>2, KnownIds DEF Spent
  <2>. QED
    BY <2>1, KnownIds DEF Spent, Ends, SameCalls
<1>. QED
  BY <1>1, <1>2 DEF Leaves

LEMMA NotesSpent ==
  ASSUME NEW s, NEW t, NEW tokens, NEW later \in SUBSET tokens, NEW id,
         Spent(s, tokens), Notes(s, t, id), id \notin later
  PROVE  Spent(t, later)
<1>1. \A k \in Kinds : \/ t.slot[k] = s.slot[k]
                       \/ t.slot[k].to = id
  BY DEF Notes
<1>. QED
  BY <1>1 DEF Spent, Notes, SameCalls

LEMMA HearsSpent ==
  ASSUME NEW s, NEW t, NEW tokens, NEW later \in SUBSET tokens, NEW id, NEW status,
         Spent(s, tokens), Hears(s, t, id, status), id \notin later
  PROVE  Spent(t, later)
<1>1. \A k \in Kinds : \/ t.slot[k].to = id
                       \/ t.slot[k].to = s.slot[k].to /\ t.slot[k].result = s.slot[k].result
  BY DEF Hears
<1>2. \A k \in Kinds :
        t.slot[k].result # << >> /\ t.slot[k].result[1].status = "Ok"
          => t.slot[k].to \notin later
  BY <1>1 DEF Spent
<1>. QED
  BY <1>2 DEF Spent, Hears, SameCalls

LEMMA FailsLeaves ==
  ASSUME NEW s, NEW t, NEW tokens, NEW k, NEW r, CallsTyped(s), NestedOk(s),
         Spent(s, tokens), Fails(s, t, k, r), r.status # "Timeout", r.status # "Ok"
  PROVE  Leaves(s, t, tokens)
<1>1. NestedOk(t)
  BY FailsNested
<1>2. ASSUME NEW later \in SUBSET (tokens \cup {s.nextId})
      PROVE  Spent(t, later)
  <2>1. ASSUME NEW j \in Kinds, t.slot[j].result # << >>, t.slot[j].result[1].status = "Ok"
        PROVE  t.slot[j].to \notin later
    <3>1. t.slot[j].result # <<[status |-> r.status, of |-> s.nextId]>>
      BY <2>1
    <3>2. t.slot[j] = s.slot[j]
      BY <3>1 DEF Fails
    <3>. QED
      BY <2>1, <3>2, KnownIds DEF Spent
  <2>2. ASSUME NEW i \in DOMAIN t.done, t.done[i].status = "Ok"
        PROVE  i \notin later
    <3>1. i # s.nextId /\ i \in DOMAIN s.done /\ t.done[i] = s.done[i]
      BY <2>2 DEF Fails, With
    <3>. QED
      BY <2>2, <3>1 DEF Spent
  <2>3. t.answered = s.answered
    BY DEF Fails
  <2>. QED
    BY <2>1, <2>2, <2>3, KnownIds DEF Spent
<1>. QED
  BY <1>1, <1>2 DEF Leaves

LEMMA BlocksLeaves ==
  ASSUME NEW s, NEW t, NEW tokens, NEW c, CallsTyped(s), NestedOk(s), Spent(s, tokens),
         Blocks(s, t, c)
  PROVE  Leaves(s, t, tokens)
<1>1. NestedOk(t)
  BY BlocksNested
<1>2. ASSUME NEW later \in SUBSET (tokens \cup {s.nextId})
      PROVE  Spent(t, later)
  BY KnownIds DEF Spent, Blocks
<1>. QED
  BY <1>1, <1>2 DEF Leaves

LEMMA PopsLeaves ==
  ASSUME NEW s, NEW t, NEW tokens, NEW r, CallsTyped(s), NestedOk(s), Spent(s, tokens),
         s.calls # << >>, Pops(s, t, r), Top(s).id \notin DOMAIN s.pending,
         r.status = "Timeout" /\ Top(s).id \in s.answered =>
           Top(s).id \in s.overlapped \/ Excused(s, Top(s).id),
         r.status = "Ok" => Top(s).id \notin tokens
  PROVE  Leaves(s, t, tokens)
<1>1. NestedOk(t)
  BY PopsNested
<1>2. Top(s).id \in CallIds(s)
  BY DEF Top, CallIds, CallsTyped, IsQueue
<1>3. ASSUME NEW later \in SUBSET (tokens \cup {s.nextId})
      PROVE  Spent(t, later)
  <2>1. ASSUME NEW i \in DOMAIN t.done, t.done[i].status = "Ok"
        PROVE  i \notin later
    <3>1. \/ i \in DOMAIN s.done /\ t.done[i] = s.done[i]
          \/ i = Top(s).id /\ t.done[i] = r
      BY <2>1 DEF Pops, With
    <3>2. CASE i \in DOMAIN s.done /\ t.done[i] = s.done[i]
      BY <2>1, <3>2, KnownIds DEF Spent
    <3>3. CASE i = Top(s).id /\ t.done[i] = r
      BY <1>2, <2>1, <3>3, KnownIds
    <3>. QED
      BY <3>1, <3>2, <3>3
  <2>2. t.answered = s.answered /\ t.slot = s.slot
    BY DEF Pops
  <2>. QED
    BY <2>1, <2>2, KnownIds DEF Spent
<1>. QED
  BY <1>1, <1>3 DEF Leaves

(***************************************************************************)
(* Requests that end                                                        *)
(***************************************************************************)

LEMMA Greatest ==
  ASSUME NEW S, S \subseteq Nat, S # {}, NEW n \in Nat, \A i \in S : i < n
  PROVE  \E i \in S : \A j \in S : j <= i
<1>. DEFINE T == {n - i : i \in S}
            R == OpToRel(<, Nat)
<1>1. T \subseteq Nat /\ T # {}
  <2>1. ASSUME NEW i \in S
        PROVE  n - i \in Nat
    <3>1. i \in Nat /\ i < n
      OBVIOUS
    <3>. QED
      BY <3>1
  <2>. QED
    BY <2>1
<1>2. IsWellFoundedOn(R, Nat)
  BY NatLessThanWellFounded
<1>. HIDE DEF R
<1>3. PICK x \in T : \A y \in T : ~ (<<y, x>> \in R)
  BY <1>1, <1>2, WFMin
<1>4. PICK i \in S : x = n - i
  BY <1>3
<1>5. ASSUME NEW j \in S
      PROVE  j <= i
  <2>1. n - j \in T /\ n - j \in Nat /\ x \in Nat
    BY <1>1
  <2>2. ~ (n - j < x)
    BY <1>3, <2>1 DEF R, OpToRel
  <2>. QED
    BY <1>4, <2>1, <2>2
<1>. QED
  BY <1>5

LEMMA MadeIds ==
  ASSUME NEW s, NestOk(s)
  PROVE  /\ CallIds(s) \subseteq 1 .. s.nextId - 1 /\ s.nextId \in Nat
         /\ DOMAIN s.pending \subseteq 1 .. s.nextId - 1
  BY DEF NestOk, CallIds

LEMMA EndedEnds ==
  ASSUME NEW s, DOMAIN s = Fields, NestedOk(s), NEW ids \in SUBSET DOMAIN s.pending,
         NEW status
  PROVE  Ends(s, Ended(s, ids, status), ids, status)
<1>0. DOMAIN s.pending \subseteq 1 .. s.nextId - 1 /\ s.nextId \in Nat
  BY MadeIds DEF NestedOk
<1>. DEFINE last(k) == {i \in ids : s.pending[i].kind = k
                                  /\ \A j \in ids : s.pending[j].kind = k => j <= i}
            pending == [i \in DOMAIN s.pending \ ids |-> s.pending[i]]
            slot == [k \in Kinds |->
                      IF last(k) = {} THEN s.slot[k]
                      ELSE [to |-> CHOOSE i \in last(k) : TRUE,
                            result |-> <<[status |-> status,
                                          of |-> CHOOSE i \in last(k) : TRUE]>>]]
            t == Ended(s, ids, status)
<1>1. t = [s EXCEPT !.pending = pending, !.slot = slot]
  BY DEF Ended
<1>2. /\ DOMAIN pending = DOMAIN s.pending \ ids
      /\ \A i \in DOMAIN pending : pending[i] = s.pending[i]
  OBVIOUS
<1>3. ASSUME NEW k \in Kinds
      PROVE  \/ slot[k] = s.slot[k] /\ \A i \in ids : s.pending[i].kind # k
             \/ /\ slot[k].to \in ids /\ s.pending[slot[k].to].kind = k
                /\ slot[k].result = <<[status |-> status, of |-> slot[k].to]>>
  <2>1. CASE last(k) = {}
    <3>1. slot[k] = s.slot[k]
      BY <2>1
    <3>2. ASSUME NEW i \in ids, s.pending[i].kind = k
          PROVE  FALSE
      <4>. DEFINE S == {j \in ids : s.pending[j].kind = k}
      <4>1. /\ S \subseteq 1 .. s.nextId - 1 /\ S # {} /\ s.nextId \in Nat
        <5>1. i \in S
          BY <3>2
        <5>2. S \subseteq DOMAIN s.pending
          OBVIOUS
        <5>. HIDE DEF S
        <5>. QED
          BY <1>0, <5>1, <5>2
      <4>2. S \subseteq Nat /\ \A j \in S : j < s.nextId
        BY <4>1
      <4>3. PICK g \in S : \A j \in S : j <= g
        BY <4>1, <4>2, Greatest
      <4>4. g \in last(k)
        BY <4>3
      <4>. QED
        BY <2>1, <4>4
    <3>. QED
      BY <3>1, <3>2
  <2>2. CASE last(k) # {}
    <3>1. PICK i : i = CHOOSE j \in last(k) : TRUE
      OBVIOUS
    <3>2. i \in last(k)
      BY <2>2, <3>1
    <3>3. slot[k] = [to |-> i, result |-> <<[status |-> status, of |-> i]>>]
      BY <2>2, <3>1
    <3>. QED
      BY <3>2, <3>3
  <2>. QED
    BY <2>1, <2>2
<1>. HIDE DEF pending, slot
<1>4. /\ t.pending = pending /\ t.slot = slot /\ t.calls = s.calls /\ t.nextId = s.nextId
      /\ t.done = s.done /\ t.overlapped = s.overlapped /\ t.answered = s.answered
  BY <1>1 DEF Fields
<1>. HIDE DEF t
<1>5. Ends(s, t, ids, status)
  BY <1>2, <1>3, <1>4 DEF Ends, SameCalls
<1>. QED
  BY <1>5 DEF t

(***************************************************************************)
(* What the operations do to the calls and the packets                      *)
(***************************************************************************)

LEMMA SideFacts ==
  ASSUME Inv, NestInv, NEW p \in Peers
  PROVE  /\ DOMAIN peer[p] = Fields /\ CallsTyped(peer[p]) /\ NestedOk(peer[p])
         /\ Spent(peer[p], Tokens(p)) /\ DOMAIN peer[p].slot = Kinds
         /\ IsQueue(wire[p]) /\ IsQueue(bulk[p])
         /\ IsQueue(wire[Other(p)]) /\ IsQueue(bulk[Other(p)])
         /\ DOMAIN wire = Peers /\ DOMAIN bulk = Peers /\ DOMAIN peer = Peers
         /\ Other(p) \in Peers /\ Other(p) # p
<1>1. SideOk(p) /\ QueuesOk(p) /\ QueuesOk(Other(p)) /\ Other(p) \in Peers /\ Other(p) # p
  BY OtherSide DEF Inv
<1>2. CallsTyped(peer[p])
  BY <1>1 DEF SideOk, ResultsOk, CallsTyped, Packets
<1>3. NestedOk(peer[p]) /\ Spent(peer[p], Tokens(p))
  BY DEF NestInv
<1>. QED
  BY <1>1, <1>2, <1>3 DEF Inv, SideOk, ResultsOk, QueuesOk

(* The ways in which a step of p changes its calls. *)
EndsOldest(s, t) ==
  \E ids \in SUBSET DOMAIN s.pending : \E status :
    /\ status # "Ok" /\ Ends(s, t, ids, status)
    /\ \A i \in ids, j \in DOMAIN s.pending \ ids : i < j

CalledOff(p, t) ==
  /\ \E m \in Packets(wire[p]) : m.type = "cancel"
  /\ \E ids \in SUBSET DOMAIN peer[p].pending : \E status :
       status # "Ok" /\ Ends(peer[p], t, ids, status)

Failing(p, t) ==
  /\ peer[p].nextId <= MaxCalls[p]
  /\ \E k, r : r.status \notin {"Ok", "Timeout"} /\ Fails(peer[p], t, k, r)

Blocking(p, t, out) ==
  /\ peer[p].nextId <= MaxCalls[p]
  /\ \E c : /\ Blocks(peer[p], t, c)
            /\ \A x : out = <<x>> => x.type = "request" /\ x.kind = c.kind

Returning(s, t) ==
  /\ s.calls # << >> /\ HasResult(s, Top(s))
  /\ \E r : /\ Pops(s, t, r)
            /\ r.status = s.slot[Top(s).kind].result[1].status
            /\ r.of = s.slot[Top(s).kind].result[1].of

GivingUp(s, t) ==
  /\ s.calls # << >> /\ ~ HasResult(s, Top(s))
  /\ \E u, r : /\ Ends(s, u, {i \in DOMAIN s.pending : i <= Top(s).id}, "Timeout")
               /\ Pops(u, t, r) /\ r.status = "Timeout"

(* p takes an answer from one of its channels. *)
Takes(p, m, w, v) ==
  \/ wire[p] # << >> /\ m = Head(wire[p]) /\ w = Tail(wire[p]) /\ v = bulk[p]
  \/ bulk[p] # << >> /\ m = Head(bulk[p]) /\ v = Tail(bulk[p]) /\ w = wire[p]

Hearing(p, t, w, v, out) ==
  \E m :
    /\ m.type = "response" /\ Takes(p, m, w, v)
    /\ IF m.to \in DOMAIN peer[p].pending
       THEN Hears(peer[p], t, m.to, m.status) ELSE Notes(peer[p], t, m.to)
    /\ \A x : out # <<x>> \/ x.type # "request"

Turns(p, t, out) ==
  \/ Kept(peer[p], t) \/ EndsOldest(peer[p], t) \/ CalledOff(p, t)
  \/ Failing(p, t) \/ Blocking(p, t, out)
  \/ Returning(peer[p], t) \/ GivingUp(peer[p], t)

(* What becomes of the packets. *)
Moved(p, t, w, v, out, heavy) ==
  /\ Moves(p, t, w, v, out, heavy) /\ LeftOf(w, wire[p]) /\ LeftOf(v, bulk[p])
  /\ \/ Says(p, out) /\ heavy = << >>
     \/ Serves(p, w, out, heavy) /\ Kept(peer[p], t)

(* A step of p, told by its calls and its packets. *)
Stepped(p) ==
  \E t, w, v, out, heavy :
    /\ Moved(p, t, w, v, out, heavy)
    /\ Turns(p, t, out) \/ Hearing(p, t, w, v, out)

LEMMA MakesStep ==
  ASSUME NEW p, NEW t, NEW w, NEW v, NEW out, NEW heavy, Moved(p, t, w, v, out, heavy),
         Turns(p, t, out) \/ Hearing(p, t, w, v, out)
  PROVE  Stepped(p)
  BY DEF Stepped

LEMMA ActsMoves ==
  ASSUME Inv, NestInv, NEW p \in Peers, NEW e, Acts(p, e), e.heavy = << >>, Says(p, e.out)
  PROVE  \E out : /\ Moves(p, e.s, wire[p], bulk[p], out, << >>) /\ Says(p, out)
                  /\ out = << >> \/ out = e.out
<1>. DEFINE q == Other(p)
            out == IF up THEN e.out ELSE << >>
<1>1. /\ q \in Peers /\ q # p /\ DOMAIN wire = Peers /\ DOMAIN bulk = Peers
      /\ IsQueue(wire[q]) /\ IsQueue(bulk[q])
  BY SideFacts
<1>2. /\ peer' = [peer EXCEPT ![p] = e.s]
      /\ wire' = IF up THEN [wire EXCEPT ![q] = @ \o e.out] ELSE wire
      /\ bulk' = IF up THEN [bulk EXCEPT ![q] = @ \o << >>] ELSE bulk
  BY DEF Acts
<1>. HIDE DEF q
<1>3. wire[q] \o << >> = wire[q] /\ bulk[q] \o << >> = bulk[q]
  BY <1>1, SentPackets
<1>4. /\ wire'[p] = wire[p] /\ bulk'[p] = bulk[p]
      /\ wire'[q] = wire[q] \o out /\ bulk'[q] = bulk[q] \o << >>
  BY <1>1, <1>2, <1>3
<1>5. Says(p, out)
  BY DEF Says
<1>6. Moves(p, e.s, wire[p], bulk[p], out, << >>)
  BY <1>2, <1>4 DEF Moves, q
<1>. QED
  BY <1>5, <1>6

LEMMA ActsStep ==
  ASSUME Inv, NestInv, NEW p \in Peers, NEW e, Acts(p, e), e.heavy = << >>, Says(p, e.out),
         Turns(p, e.s, e.out)
  PROVE  Stepped(p)
<1>1. PICK out : /\ Moves(p, e.s, wire[p], bulk[p], out, << >>) /\ Says(p, out)
                 /\ out = << >> \/ out = e.out
  BY ActsMoves
<1>2. LeftOf(wire[p], wire[p]) /\ LeftOf(bulk[p], bulk[p])
  BY DEF LeftOf
<1>3. Moved(p, e.s, wire[p], bulk[p], out, << >>)
  BY <1>1, <1>2 DEF Moved
<1>4. Turns(p, e.s, << >>)
  <2>1. ASSUME Blocking(p, e.s, e.out) PROVE Blocking(p, e.s, << >>)
    <3>1. \A x : << >> # <<x>>
      OBVIOUS
    <3>. QED
      BY <2>1, <3>1 DEF Blocking
  <2>. QED
    BY <2>1 DEF Turns
<1>5. Turns(p, e.s, out)
  BY <1>1, <1>4
<1>. QED
  BY <1>3, <1>5, MakesStep

(* A step that leaves the calls alone and says nothing about them. *)
LEMMA KeptStep ==
  ASSUME Inv, NestInv, NEW p \in Peers, NEW e, Acts(p, e), e.heavy = << >>, Says(p, e.out),
         Kept(peer[p], e.s)
  PROVE  Stepped(p)
  BY ActsStep DEF Turns

LEMMA DoesForm ==
  ASSUME NEW p, NEW s
  PROVE  Does(s).s = s /\ Does(s).heavy = << >> /\ Does(s).out = << >> /\ Says(p, Does(s).out)
  BY DEF Does, Says

LEMMA SendsForm ==
  ASSUME NEW p, NEW s, NEW m, m.type \notin {"response", "request", "cancel"}
  PROVE  /\ Sends(s, m).s = s /\ Sends(s, m).heavy = << >> /\ Sends(s, m).out = <<m>>
         /\ Says(p, Sends(s, m).out)
  BY DEF Sends, Says

LEMMA AnnounceKept ==
  ASSUME NEW p, NEW s, NEW b, DOMAIN s = Fields
  PROVE  LET e == AnnounceLocalBundle(p, s, b)
         IN Kept(s, e.s) /\ e.heavy = << >> /\ Says(p, e.out) /\ DOMAIN e.s = Fields
<1>. DEFINE stored == [s EXCEPT !.entries = Store(s.entries, b)]
            taken == [stored EXCEPT !.entries = ClearOffer(stored.entries, b.offer)]
            made == [stored EXCEPT !.local = b]
            packet == [type |-> "list", bundle |-> b]
<1>1. Kept(s, s) /\ Kept(s, stored) /\ DOMAIN stored = Fields
  BY DEF Fields, Kept, SameCalls
<1>2. Kept(s, taken) /\ DOMAIN taken = Fields
  BY DEF Fields, Kept, SameCalls
<1>3. Kept(s, made) /\ DOMAIN made = Fields
  BY DEF Fields, Kept, SameCalls
<1>4. packet.type \notin {"response", "request", "cancel"}
  OBVIOUS
<1>. HIDE DEF packet
<1>5. AnnounceLocalBundle(p, s, b) \in
         {Does(s), Does(stored), Does(taken), Sends(made, packet)}
  BY DEF AnnounceLocalBundle, packet
<1>. HIDE DEF stored, taken, made
<1>6. \A e \in {Does(s), Does(stored), Does(taken)} :
        Kept(s, e.s) /\ e.heavy = << >> /\ Says(p, e.out) /\ DOMAIN e.s = Fields
  BY <1>1, <1>2, DoesForm
<1>7. /\ Sends(made, packet).s = made /\ Sends(made, packet).heavy = << >>
      /\ Says(p, Sends(made, packet).out)
  BY <1>4, SendsForm
<1>. QED
  BY <1>3, <1>5, <1>6, <1>7

LEMMA QuietSteps ==
  ASSUME Inv, NestInv, NEW p \in Peers,
         Copy(p) \/ Pump(p) \/ ResumeAfterReconnect(p) \/ Start(p)
  PROVE  Stepped(p)
<1>. DEFINE s == peer[p]
<1>1. DOMAIN s = Fields
  BY SideFacts
<1>2. CASE Copy(p)
  <2>1. PICK t : /\ \E n : t = [s EXCEPT !.offers = n, !.changed = TRUE,
                                         !.native = [from |-> p, offer |-> n]]
                 /\ Acts(p, Does(t))
    BY <1>2 DEF Copy
  <2>2. Kept(s, t)
    BY <1>1, <2>1 DEF Kept, SameCalls, Fields
  <2>. QED
    BY <2>1, <2>2, DoesForm, KeptStep
<1>3. CASE Pump(p)
  <2>1. PICK t : /\ t = [s EXCEPT !.changed = FALSE]
                 /\ \/ Acts(p, Does(t))
                    \/ LET e == AnnounceLocalBundle(p, t, t.native)
                       IN Acts(p, IF e.out = << >> THEN e
                                  ELSE [e EXCEPT !.s = [@ EXCEPT !.announced = t.native]])
    BY <1>3 DEF Pump
  <2>2. Kept(s, t) /\ DOMAIN t = Fields
    BY <1>1, <2>1 DEF Kept, SameCalls, Fields
  <2>3. CASE Acts(p, Does(t))
    BY <2>2, <2>3, DoesForm, KeptStep
  <2>4. CASE ~ Acts(p, Does(t))
    <3>1. PICK e : /\ e = AnnounceLocalBundle(p, t, t.native)
                   /\ Acts(p, IF e.out = << >> THEN e
                              ELSE [e EXCEPT !.s = [@ EXCEPT !.announced = t.native]])
      BY <2>1, <2>4
    <3>2. Kept(t, e.s) /\ e.heavy = << >> /\ Says(p, e.out) /\ DOMAIN e.s = Fields
      BY <2>2, <3>1, AnnounceKept
    <3>3. DOMAIN e = {"s", "out", "heavy"}
      BY <3>1 DEF AnnounceLocalBundle, Does, Sends
    <3>4. Kept(s, e.s)
      BY <2>2, <3>2 DEF Kept, SameCalls
    <3>5. PICK f : Acts(p, f) /\ (f = e \/ f = [e EXCEPT !.s = [@ EXCEPT !.announced = t.native]])
      BY <3>1
    <3>6. CASE f = e
      BY <3>2, <3>4, <3>5, <3>6, KeptStep
    <3>7. CASE f = [e EXCEPT !.s = [@ EXCEPT !.announced = t.native]]
      <4>1. /\ f.s = [e.s EXCEPT !.announced = t.native]
            /\ f.out = e.out /\ f.heavy = e.heavy
        BY <3>3, <3>7
      <4>2. Kept(s, f.s)
        BY <3>2, <3>4, <4>1 DEF Kept, SameCalls, Fields
      <4>. QED
        BY <3>2, <3>5, <4>1, <4>2, KeptStep
    <3>. QED
      BY <3>5, <3>6, <3>7
  <2>. QED
    BY <2>3, <2>4
<1>4. CASE ResumeAfterReconnect(p)
  <2>1. PICK t : /\ t = [s EXCEPT !.paused = FALSE]
                 /\ Acts(p, Does(t)) \/ Acts(p, AnnounceLocalBundle(p, t, t.local))
    BY <1>4 DEF ResumeAfterReconnect
  <2>2. Kept(s, t) /\ DOMAIN t = Fields
    BY <1>1, <2>1 DEF Kept, SameCalls, Fields
  <2>3. CASE Acts(p, Does(t))
    BY <2>2, <2>3, DoesForm, KeptStep
  <2>4. CASE Acts(p, AnnounceLocalBundle(p, t, t.local))
    <3>1. PICK e : e = AnnounceLocalBundle(p, t, t.local)
      OBVIOUS
    <3>2. Kept(t, e.s) /\ e.heavy = << >> /\ Says(p, e.out)
      BY <2>2, <3>1, AnnounceKept
    <3>3. Kept(s, e.s)
      BY <2>2, <3>2 DEF Kept, SameCalls
    <3>. QED
      BY <2>4, <3>1, <3>2, <3>3, KeptStep
  <2>. QED
    BY <2>1, <2>3, <2>4
<1>5. CASE Start(p)
  <2>1. PICK t : t = [s EXCEPT !.state = "Running"] /\ Acts(p, Does(t))
    BY <1>5 DEF Start
  <2>2. Kept(s, t)
    BY <1>1, <2>1 DEF Kept, SameCalls, Fields
  <2>. QED
    BY <2>1, <2>2, DoesForm, KeptStep
<1>. QED
  BY <1>2, <1>3, <1>4, <1>5

LEMMA StopStep ==
  ASSUME Inv, NestInv, NEW p \in Peers, Stop(p)
  PROVE  Stepped(p)
<1>1. PICK t : /\ t = [LetGo(peer[p]) EXCEPT !.state = "Stopped"]
               /\ peer' = [peer EXCEPT ![p] = t] /\ wire' = wire /\ bulk' = bulk
  BY DEF Stop
<1>2. DOMAIN peer[p] = Fields /\ IsQueue(wire[Other(p)]) /\ IsQueue(bulk[Other(p)])
  BY SideFacts
<1>3. Kept(peer[p], t)
  BY <1>1, <1>2 DEF LetGo, Fields, Kept, SameCalls
<1>4. wire[Other(p)] \o << >> = wire[Other(p)] /\ bulk[Other(p)] \o << >> = bulk[Other(p)]
  BY <1>2, SentPackets
<1>5. Moves(p, t, wire[p], bulk[p], << >>, << >>)
  BY <1>1, <1>4 DEF Moves
<1>6. LeftOf(wire[p], wire[p]) /\ LeftOf(bulk[p], bulk[p]) /\ Says(p, << >>)
  BY DEF LeftOf, Says
<1>7. Moved(p, t, wire[p], bulk[p], << >>, << >>)
  BY <1>5, <1>6 DEF Moved
<1>8. Turns(p, t, << >>)
  BY <1>3 DEF Turns
<1>. QED
  BY <1>7, <1>8, MakesStep

LEMMA ExpireStep ==
  ASSUME Inv, NestInv, NEW p \in Peers, NEW id, Expire(p, id)
  PROVE  Stepped(p)
<1>. DEFINE s == peer[p]
<1>1. PICK t : t = Ended(s, {id}, "Timeout")
  OBVIOUS
<1>2. /\ id \in DOMAIN s.pending /\ \A i \in DOMAIN s.pending : id <= i
      /\ Acts(p, Does(t))
  BY <1>1 DEF Expire, Settled
<1>3. {id} \in SUBSET DOMAIN s.pending
  BY <1>2
<1>4. Ends(s, t, {id}, "Timeout")
  BY <1>1, <1>3, SideFacts, EndedEnds
<1>5. \A i \in {id}, j \in DOMAIN s.pending \ {id} : i < j
  <2>1. DOMAIN s.pending \subseteq 1 .. s.nextId - 1 /\ s.nextId \in Nat
    BY SideFacts, MadeIds DEF NestedOk
  <2>. QED
    BY <1>2, <2>1
<1>6. EndsOldest(s, t)
  BY <1>3, <1>4, <1>5 DEF EndsOldest
<1>. QED
  BY <1>2, <1>6, DoesForm, ActsStep DEF Turns

LEMMA PauseStep ==
  ASSUME Inv, NestInv, NEW p \in Peers, PauseForReconnect(p)
  PROVE  Stepped(p)
<1>. DEFINE s == peer[p]
            ids == DOMAIN s.pending
            status == "ChannelUnavailable"
<1>1. DOMAIN s = Fields /\ NestedOk(s)
  BY SideFacts
<1>2. PICK l : l = LetGo(s)
  OBVIOUS
<1>3. PICK u : u = Ended(l, ids, status)
  OBVIOUS
<1>4. PICK t : t = [u EXCEPT !.paused = TRUE] /\ Acts(p, Does(t))
  BY <1>2, <1>3 DEF PauseForReconnect
<1>5. Kept(s, l) /\ DOMAIN l = Fields
  BY <1>1, <1>2 DEF LetGo, Fields, Kept, SameCalls
<1>6. l.pending = s.pending /\ l.slot = s.slot
  BY <1>5 DEF Kept
<1>7. NestedOk(l)
  BY <1>1, <1>5, KeptNested
<1>8. Ends(l, u, ids, status)
  BY <1>3, <1>5, <1>6, <1>7, EndedEnds
<1>9. DOMAIN u = Fields
  BY <1>3, <1>5 DEF Ended, Fields
<1>10. Kept(u, t)
  BY <1>4, <1>9 DEF Fields, Kept, SameCalls
<1>11. Ends(s, t, ids, status)
  BY <1>5, <1>6, <1>8, <1>10 DEF Ends, Kept, SameCalls
<1>12. EndsOldest(s, t)
  <2>1. ids \in SUBSET DOMAIN s.pending /\ DOMAIN s.pending \ ids = {}
    OBVIOUS
  <2>2. status # "Ok"
    OBVIOUS
  <2>. HIDE DEF ids, status
  <2>. QED
    BY <1>11, <2>1, <2>2 DEF EndsOldest
<1>. QED
  BY <1>4, <1>12, DoesForm, ActsStep DEF Turns

LEMMA BeginStep ==
  ASSUME Inv, NestInv, NEW p \in Peers, NEW kind \in Kinds, NEW b, NEW lock,
         Begin(p, kind, b, lock)
  PROVE  Stepped(p)
<1>. DEFINE s  == peer[p]
            id == s.nextId
            m  == [type |-> "request", kind |-> kind, id |-> id, bundle |-> b, lock |-> lock]
            r  == [status |-> "ChannelUnavailable", of |-> id, kind |-> kind, bundle |-> b]
<1>1. PICK t : /\ t = [s EXCEPT !.nextId = @ + 1, !.pending = With(@, id, [kind |-> kind])]
               /\ IF ~up
                  THEN Acts(p, Does([Settled(t, id, "ChannelUnavailable") EXCEPT
                         !.done = With(@, id, r), !.overlapped = Overlap(s, id)]))
                  ELSE Acts(p, Sends([t EXCEPT
                         !.calls = Append(@, [id |-> id, kind |-> kind, bundle |-> b,
                                              before |-> Cardinality(DOMAIN s.pending)]),
                         !.overlapped = Overlap(s, id)], m))
  BY DEF Begin
<1>2. DOMAIN s = Fields /\ CallsTyped(s) /\ NestedOk(s) /\ Spent(s, Tokens(p))
      /\ DOMAIN s.slot = Kinds /\ id \notin DOMAIN s.pending /\ id <= MaxCalls[p]
  BY SideFacts, KnownIds DEF Begin
<1>3. /\ DOMAIN t = Fields /\ t.nextId = id + 1 /\ t.slot = s.slot /\ t.calls = s.calls
      /\ t.done = s.done /\ t.answered = s.answered /\ t.overlapped = s.overlapped
      /\ t.pending = With(s.pending, id, [kind |-> kind])
  BY <1>1, <1>2 DEF Fields
<1>4. /\ DOMAIN t.pending = DOMAIN s.pending \cup {id} /\ t.pending[id].kind = kind
      /\ \A i \in DOMAIN s.pending : t.pending[i] = s.pending[i]
  BY <1>2, <1>3 DEF With
<1>. HIDE DEF s, id
<1>5. CASE ~up
  <2>. DEFINE status == "ChannelUnavailable"
              last(k) == {i \in {id} : t.pending[i].kind = k
                                     /\ \A j \in {id} : t.pending[j].kind = k => j <= i}
              pending == [i \in DOMAIN t.pending \ {id} |-> t.pending[i]]
              slot == [k \in Kinds |->
                        IF last(k) = {} THEN t.slot[k]
                        ELSE [to |-> CHOOSE i \in last(k) : TRUE,
                              result |-> <<[status |-> status,
                                            of |-> CHOOSE i \in last(k) : TRUE]>>]]
  <2>1. PICK u : u = Ended(t, {id}, status)
    OBVIOUS
  <2>2. u = [t EXCEPT !.pending = pending, !.slot = slot]
    BY <2>1 DEF Ended
  <2>3. /\ DOMAIN pending = DOMAIN s.pending
        /\ \A i \in DOMAIN s.pending : pending[i] = s.pending[i]
    BY <1>2, <1>4 DEF s, id
  <2>4. last(kind) = {id} /\ \A k \in Kinds : k # kind => last(k) = {}
    <3>1. id <= id
      BY <1>2, KnownIds DEF id
    <3>. QED
      BY <1>4, <3>1
  <2>5. \A k \in Kinds : k # kind => slot[k] = s.slot[k]
    BY <1>3, <2>4
  <2>6. slot[kind].to = id /\ slot[kind].result = <<[status |-> status, of |-> id]>>
    <3>1. (CHOOSE i \in last(kind) : TRUE) = id
      BY <2>4
    <3>. QED
      BY <2>4, <3>1
  <2>. HIDE DEF pending, slot
  <2>7. /\ DOMAIN u = Fields /\ u.nextId = id + 1 /\ u.slot = slot /\ u.calls = s.calls
        /\ u.done = s.done /\ u.answered = s.answered
        /\ u.pending = pending
    BY <1>3, <2>2 DEF Fields
  <2>8. PICK v : /\ v = [u EXCEPT !.done = With(@, id, r), !.overlapped = Overlap(s, id)]
                 /\ Acts(p, Does(v))
    BY <1>1, <1>5, <2>1 DEF Settled
  <2>9. /\ v.nextId = id + 1 /\ v.slot = slot /\ v.calls = s.calls
        /\ v.done = With(s.done, id, r) /\ v.answered = s.answered
        /\ v.pending = pending /\ v.overlapped = Overlap(s, id)
    BY <2>7, <2>8 DEF Fields
  <2>10. r.status = status
    OBVIOUS
  <2>. HIDE DEF r
  <2>11. Fails(s, v, kind, r)
    BY <2>3, <2>5, <2>6, <2>9, <2>10 DEF Fails, id
  <2>12. Failing(p, v)
    BY <1>2, <2>10, <2>11 DEF Failing, s, id
  <2>. QED
    BY <2>8, <2>12, DoesForm, ActsStep DEF Turns
<1>6. CASE up
  <2>1. PICK c : c = [id |-> id, kind |-> kind, bundle |-> b,
                      before |-> Cardinality(DOMAIN s.pending)]
    OBVIOUS
  <2>2. PICK v : /\ v = [t EXCEPT !.calls = Append(@, c), !.overlapped = Overlap(s, id)]
                 /\ Acts(p, Sends(v, m))
    BY <1>1, <1>6, <2>1
  <2>3. /\ v.nextId = id + 1 /\ v.slot = s.slot /\ v.calls = Append(s.calls, c)
        /\ v.done = s.done /\ v.answered = s.answered
        /\ v.pending = With(s.pending, id, [kind |-> kind]) /\ v.overlapped = Overlap(s, id)
    BY <1>3, <2>2 DEF Fields
  <2>4. Blocks(s, v, c)
    BY <2>1, <2>3 DEF Blocks, id
  <2>5. m.type = "request" /\ m.id = peer[p].nextId /\ m.kind = c.kind
    BY <2>1 DEF id, s
  <2>. HIDE DEF m
  <2>6. /\ Sends(v, m).s = v /\ Sends(v, m).heavy = << >> /\ Sends(v, m).out = <<m>>
        /\ Says(p, Sends(v, m).out)
    BY <2>5 DEF Sends, Says
  <2>7. \A x : <<m>> = <<x>> => x.type = "request" /\ x.kind = c.kind
    BY <2>5
  <2>8. Blocking(p, v, <<m>>)
    BY <1>2, <2>4, <2>7 DEF Blocking, s, id
  <2>. QED
    BY <2>2, <2>6, <2>8, ActsStep DEF Turns
<1>. QED
  BY <1>5, <1>6

(* The effect e of a call of s that returns a result.                       *)
HandsOver(p, s, e, result) ==
  /\ \E r : Pops(s, e.s, r) /\ r.status = result.status /\ r.of = result.of
  /\ e.heavy = << >> /\ Says(p, e.out)

LEMMA ReturnedPops ==
  ASSUME NEW p, NEW s, NEW result, NEW e, e = Returned(s, Top(s), result),
         DOMAIN s = Fields, peer[p].calls # << >>
  PROVE  HandsOver(p, s, e, result)
<1>. DEFINE c == Top(s)
<1>1. PICK r : r = [status |-> result.status, of |-> result.of,
                    kind |-> c.kind, bundle |-> c.bundle]
  OBVIOUS
<1>2. PICK t : t = [s EXCEPT !.calls = SubSeq(@, 1, Len(@) - 1), !.done = With(@, c.id, r)]
  OBVIOUS
<1>3. PICK m : m = [type |-> "cancel", to |-> c.id]
  OBVIOUS
<1>4. e = Sends(t, m) \/ e = Does(t)
  BY <1>1, <1>2, <1>3 DEF Returned
<1>5. Pops(s, t, r)
  BY <1>2 DEF Pops, Fields
<1>6. Says(p, <<m>>)
  BY <1>3 DEF Says
<1>7. e.s = t /\ e.heavy = << >> /\ Says(p, e.out)
  <2>1. CASE e = Sends(t, m)
    <3>1. /\ Sends(t, m).s = t /\ Sends(t, m).heavy = << >>
          /\ Sends(t, m).out = <<m>>
      BY DEF Sends
    <3>. QED
      BY <1>6, <2>1, <3>1
  <2>2. CASE e = Does(t)
    BY <2>2, DoesForm
  <2>. QED
    BY <1>4, <2>1, <2>2
<1>8. Pops(s, e.s, r) /\ r.status = result.status /\ r.of = result.of
  BY <1>1, <1>5, <1>7
<1>. QED
  BY <1>7, <1>8 DEF HandsOver

LEMMA ReturnStep ==
  ASSUME Inv, NestInv, NEW p \in Peers, Return(p)
  PROVE  Stepped(p)
<1>. DEFINE s == peer[p]
            result == s.slot[Top(s).kind].result[1]
<1>1. DOMAIN s = Fields
  BY SideFacts
<1>2. PICK e : e = Returned(s, Top(s), result)
  OBVIOUS
<1>3. s.calls # << >> /\ HasResult(s, Top(s)) /\ Acts(p, e)
  BY <1>2 DEF Return
<1>4. HandsOver(p, s, e, result)
  <2>. HIDE DEF result
  <2>. QED
    BY <1>1, <1>2, <1>3, ReturnedPops
<1>5. Returning(s, e.s)
  BY <1>3, <1>4 DEF HandsOver, Returning
<1>. QED
  BY <1>3, <1>4, <1>5, ActsStep DEF HandsOver, Turns

LEMMA GiveUpStep ==
  ASSUME Inv, NestInv, NEW p \in Peers, GiveUp(p)
  PROVE  Stepped(p)
<1>. DEFINE s == peer[p]
            c == Top(s)
            ids == {i \in DOMAIN s.pending : i <= c.id}
            result == [status |-> "Timeout", of |-> c.id]
<1>1. DOMAIN s = Fields /\ NestedOk(s)
  BY SideFacts
<1>2. PICK u : u = Ended(s, ids, "Timeout")
  OBVIOUS
<1>3. s.calls # << >> /\ ~ HasResult(s, c) /\ Acts(p, Returned(u, c, result))
  BY <1>2 DEF GiveUp
<1>4. DOMAIN u = Fields
  BY <1>1, <1>2 DEF Ended, Fields
<1>5. Ends(s, u, ids, "Timeout")
  BY <1>1, <1>2, EndedEnds
<1>6. Top(u) = c
  BY <1>5 DEF Top, Ends, SameCalls
<1>7. result.status = "Timeout"
  OBVIOUS
<1>. HIDE DEF result
<1>8. PICK e : e = Returned(u, Top(u), result)
  OBVIOUS
<1>9. HandsOver(p, u, e, result)
  BY <1>3, <1>4, <1>8, ReturnedPops
<1>10. GivingUp(s, e.s)
  BY <1>3, <1>5, <1>7, <1>9 DEF HandsOver, GivingUp
<1>. QED
  BY <1>3, <1>6, <1>8, <1>9, <1>10, ActsStep DEF HandsOver, Turns

(***************************************************************************)
(* What a packet does                                                       *)
(***************************************************************************)

(* The effect e of answering the request m. *)
Replied(s, e, m) ==
  /\ Kept(s, e.s)
  /\ \E x : /\ Replies(m, x)
            /\ \/ e.out = <<x>> /\ e.heavy = << >>
               \/ x.kind = "range" /\ e.out = << >> /\ e.heavy = <<x>>

LEMMA AnswerForm ==
  ASSUME NEW m, NEW status, status # "Timeout"
  PROVE  Replies(m, Answer(m, status))
  BY DEF Answer, Replies

LEMMA SmallReply ==
  ASSUME NEW s, NEW t, Kept(s, t), NEW m, NEW status, status # "Timeout"
  PROVE  Replied(s, Sends(t, Answer(m, status)), m)
<1>1. PICK x : x = Answer(m, status)
  OBVIOUS
<1>2. Replies(m, x)
  BY <1>1, AnswerForm
<1>3. /\ Sends(t, x).s = t /\ Sends(t, x).out = <<x>> /\ Sends(t, x).heavy = << >>
  BY DEF Sends
<1>. QED
  BY <1>1, <1>2, <1>3 DEF Replied

LEMMA LargeReply ==
  ASSUME NEW s, NEW t, Kept(s, t), NEW m, m.kind = "range", NEW status, status # "Timeout"
  PROVE  Replied(s, SendsBulk(t, Answer(m, status)), m)
<1>1. PICK x : x = Answer(m, status)
  OBVIOUS
<1>2. Replies(m, x)
  BY <1>1, AnswerForm
<1>3. /\ SendsBulk(t, x).s = t /\ SendsBulk(t, x).out = << >>
      /\ SendsBulk(t, x).heavy = <<x>>
  BY DEF SendsBulk
<1>4. x.kind = "range"
  BY <1>2 DEF Replies
<1>. QED
  BY <1>1, <1>2, <1>3, <1>4 DEF Replied

(* A request is answered, by a status that is no timeout. *)
LEMMA RequestReplied ==
  ASSUME NEW p, NEW s, DOMAIN s = Fields, s.state = "Running", NEW m,
         m.type = "request", m.kind \in Kinds, NEW large, NEW published
  PROVE  Replied(s, HandlePacket(p, s, m, large, published), m)
<1>1. PICK e : e = HandlePacket(p, s, m, large, published)
  OBVIOUS
<1>2. Kept(s, s)
  BY DEF Kept, SameCalls
<1>3. CASE m.kind = "read"
  <2>1. e = HandleRead(p, s, m)
    BY <1>1, <1>3 DEF HandlePacket
  <2>2. PICK status : /\ e = Sends(s, Answer(m, status)) /\ status # "Timeout"
    BY <2>1 DEF HandleRead, ReadStatus, LookupStatus
  <2>. QED
    BY <1>1, <1>2, <2>2, SmallReply
<1>4. CASE m.kind = "range"
  <2>. DEFINE t == [s EXCEPT !.inFlight = s.inFlight + 1, !.reserved = s.reserved \cup {m.id}]
  <2>1. e = HandleRange(p, s, m)
    BY <1>1, <1>4 DEF HandlePacket
  <2>2. \/ \E status \in {"DeniedByPolicy", "Conflict", "BackPressure"} :
             e = Sends(s, Answer(m, status))
        \/ e = SendsBulk(t, Answer(m, "Ok"))
    BY <2>1 DEF HandleRange
  <2>3. Kept(s, t)
    BY DEF Kept, SameCalls, Fields
  <2>. HIDE DEF t
  <2>4. CASE e = SendsBulk(t, Answer(m, "Ok"))
    BY <1>1, <1>4, <2>3, <2>4, LargeReply
  <2>5. CASE \E status \in {"DeniedByPolicy", "Conflict", "BackPressure"} :
               e = Sends(s, Answer(m, status))
    BY <1>1, <1>2, <2>5, SmallReply
  <2>. QED
    BY <2>2, <2>4, <2>5
<1>5. CASE m.kind = "lock"
  <2>. DEFINE t == [s EXCEPT !.entries = Locked(s.entries, m.bundle, m.id)]
              files == {b \in Bundles : b.from = p /\ b.offer \in FileOffers}
  <2>1. e = HandleLock(p, s, m)
    BY <1>1, <1>5 DEF HandlePacket
  <2>2. PICK status : /\ status # "Timeout"
                      /\ e = Sends(IF status = "Ok" THEN t ELSE s, Answer(m, status))
    <3>1. LockStatus(s.entries, m.bundle, files) # "Timeout"
      BY DEF LockStatus
    <3>. QED
      BY <2>1, <3>1 DEF HandleLock
  <2>3. Kept(s, t)
    BY DEF Kept, SameCalls, Fields
  <2>. HIDE DEF t
  <2>4. Kept(s, IF status = "Ok" THEN t ELSE s)
    BY <1>2, <2>3
  <2>. QED
    BY <1>1, <2>2, <2>4, SmallReply
<1>6. CASE m.kind = "unlock"
  <2>. DEFINE t == [s EXCEPT !.entries = Unlocked(s.entries, m.bundle, m.lock)]
  <2>1. e = HandleUnlock(p, s, m)
    BY <1>1, <1>6 DEF HandlePacket
  <2>2. PICK status : /\ status # "Timeout"
                      /\ e = Sends(IF status = "Ok" THEN t ELSE s, Answer(m, status))
    <3>1. UnlockStatus(s.entries, m.bundle, m.lock) # "Timeout"
      BY DEF UnlockStatus
    <3>. QED
      BY <2>1, <3>1 DEF HandleUnlock
  <2>3. Kept(s, t)
    BY DEF Kept, SameCalls, Fields
  <2>. HIDE DEF t
  <2>4. Kept(s, IF status = "Ok" THEN t ELSE s)
    BY <1>2, <2>3
  <2>. QED
    BY <1>1, <2>2, <2>4, SmallReply
<1>. QED
  BY <1>1, <1>3, <1>4, <1>5, <1>6 DEF Kinds

(* An effect that sends nothing about the calls, and leaves them alone. *)
Quiet(p, s, e) == Kept(s, e.s) /\ e.heavy = << >> /\ Says(p, e.out)

LEMMA QuietForm ==
  ASSUME NEW p, NEW s, NEW t, Kept(s, t)
  PROVE  Quiet(p, s, Does(t))
  BY DoesForm DEF Quiet

(* Offers and acknowledgements do not concern the calls, and a module that  *)
(* does not run hears nothing.                                              *)
LEMMA QuietPacket ==
  ASSUME NEW p, NEW s, DOMAIN s = Fields, NEW m, NEW large, NEW published,
         s.state # "Running" \/ m.type \in {"list", "ack"}
  PROVE  Quiet(p, s, HandlePacket(p, s, m, large, published))
<1>1. PICK e : e = HandlePacket(p, s, m, large, published)
  OBVIOUS
<1>2. Kept(s, s)
  BY DEF Kept, SameCalls
<1>3. CASE s.state # "Running"
  <2>1. e = Does(s)
    BY <1>1, <1>3 DEF HandlePacket
  <2>. QED
    BY <1>1, <1>2, <2>1, QuietForm
<1>4. CASE s.state = "Running" /\ m.type = "list"
  <2>. DEFINE stored == [s EXCEPT !.entries = Store(s.entries, m.bundle)]
              taken == [stored EXCEPT !.remote = m.bundle, !.native = m.bundle]
              left == [stored EXCEPT !.remote = NoBundle,
                                     !.entries = ClearOffer(stored.entries, m.bundle.offer)]
  <2>1. e = HandleFormatList(p, s, m, published)
    BY <1>1, <1>4 DEF HandlePacket
  <2>2. e \in {Does(s), Does(stored), Does(taken), Does(left)}
    BY <2>1 DEF HandleFormatList
  <2>3. Kept(s, stored) /\ DOMAIN stored = Fields
    BY DEF Kept, SameCalls, Fields
  <2>4. Kept(s, taken) /\ Kept(s, left)
    BY DEF Kept, SameCalls, Fields
  <2>. HIDE DEF stored, taken, left
  <2>. QED
    BY <1>1, <1>2, <2>2, <2>3, <2>4, QuietForm
<1>5. CASE s.state = "Running" /\ m.type = "ack"
  <2>. DEFINE t == [s EXCEPT !.reserved = s.reserved \ {m.to},
                             !.inFlight = Released(s.inFlight, 1)]
  <2>1. e = HandleAck(s, m)
    BY <1>1, <1>5 DEF HandlePacket
  <2>2. e = Does(s) \/ e = Does(t)
    BY <2>1 DEF HandleAck
  <2>3. Kept(s, t)
    BY DEF Kept, SameCalls, Fields
  <2>. HIDE DEF t
  <2>. QED
    BY <1>1, <1>2, <2>2, <2>3, QuietForm
<1>. QED
  BY <1>1, <1>3, <1>4, <1>5

(* One request ends, whatever the newest results are. *)
LEMMA SettledForm ==
  ASSUME NEW u, DOMAIN u = Fields, NEW id \in DOMAIN u.pending, id \in Nat, NEW status,
         NEW t, t = Settled(u, id, status)
  PROVE  /\ DOMAIN t = Fields /\ SameCalls(u, t) /\ t.answered = u.answered
         /\ DOMAIN t.pending = DOMAIN u.pending \ {id}
         /\ \A i \in DOMAIN t.pending : t.pending[i] = u.pending[i]
         /\ \A k \in Kinds :
              IF k = u.pending[id].kind
              THEN t.slot[k].to = id /\ t.slot[k].result = <<[status |-> status, of |-> id]>>
              ELSE t.slot[k] = u.slot[k]
<1>. DEFINE last(k) == {i \in {id} : u.pending[i].kind = k
                                   /\ \A j \in {id} : u.pending[j].kind = k => j <= i}
            pending == [i \in DOMAIN u.pending \ {id} |-> u.pending[i]]
            slot == [k \in Kinds |->
                      IF last(k) = {} THEN u.slot[k]
                      ELSE [to |-> CHOOSE i \in last(k) : TRUE,
                            result |-> <<[status |-> status,
                                          of |-> CHOOSE i \in last(k) : TRUE]>>]]
<1>1. t = [u EXCEPT !.pending = pending, !.slot = slot]
  BY DEF Settled, Ended
<1>2. /\ DOMAIN pending = DOMAIN u.pending \ {id}
      /\ \A i \in DOMAIN pending : pending[i] = u.pending[i]
  OBVIOUS
<1>3. ASSUME NEW k \in Kinds
      PROVE  IF k = u.pending[id].kind
             THEN slot[k].to = id /\ slot[k].result = <<[status |-> status, of |-> id]>>
             ELSE slot[k] = u.slot[k]
  <2>1. CASE k = u.pending[id].kind
    <3>1. id <= id
      OBVIOUS
    <3>2. last(k) = {id}
      BY <2>1, <3>1
    <3>3. (CHOOSE i \in last(k) : TRUE) = id
      BY <3>2
    <3>. QED
      BY <2>1, <3>2, <3>3
  <2>2. CASE k # u.pending[id].kind
    <3>1. last(k) = {}
      BY <2>2
    <3>. QED
      BY <2>2, <3>1
  <2>. QED
    BY <2>1, <2>2
<1>. HIDE DEF pending, slot
<1>4. /\ DOMAIN t = Fields /\ t.slot = slot /\ t.pending = pending
      /\ t.answered = u.answered /\ SameCalls(u, t)
  BY <1>1 DEF Fields, SameCalls
<1>. QED
  BY <1>2, <1>3, <1>4

(* The answer to a request is noted, and ends the request if it waits. *)
Heard(p, s, e, m) ==
  /\ IF m.to \in DOMAIN s.pending THEN Hears(s, e.s, m.to, m.status) ELSE Notes(s, e.s, m.to)
  /\ e.heavy = << >> /\ Says(p, e.out) /\ \A x : e.out # <<x>> \/ x.type # "request"

LEMMA ResponseHeard ==
  ASSUME NEW p, NEW s, DOMAIN s = Fields, NestedOk(s), DOMAIN s.slot = Kinds, NEW m, NEW large,
         NEW e, e = HandleResponse(s, m, large)
  PROVE  Heard(p, s, e, m)
<1>. DEFINE noted == [to |-> m.to, result |-> s.slot["read"].result]
            slot == [s.slot EXCEPT !["read"] = noted]
<1>1. PICK seen : seen = [s EXCEPT !.slot = slot]
  OBVIOUS
<1>2. /\ DOMAIN seen = Fields /\ seen.slot = slot /\ SameCalls(s, seen)
      /\ seen.answered = s.answered /\ seen.pending = s.pending
  BY <1>1 DEF Fields, SameCalls
<1>3. /\ \A k \in Kinds : k # "read" => slot[k] = s.slot[k]
      /\ slot["read"].to = m.to /\ slot["read"].result = s.slot["read"].result
  BY DEF Kinds
<1>. HIDE DEF slot
<1>4. CASE m.to \notin DOMAIN s.pending
  <2>1. e = Does(seen)
    BY <1>1, <1>4 DEF HandleResponse, slot
  <2>2. Notes(s, seen, m.to)
    BY <1>2, <1>3 DEF Notes
  <2>3. e.s = seen /\ e.heavy = << >> /\ e.out = << >> /\ Says(p, e.out)
    BY <2>1, DoesForm
  <2>. QED
    BY <1>4, <2>2, <2>3 DEF Heard
<1>5. CASE m.to \in DOMAIN s.pending
  <2>1. PICK u : u = Settled(seen, m.to, m.status)
    OBVIOUS
  <2>2. PICK t : t = [u EXCEPT !.answered = u.answered \cup {m.to}]
    OBVIOUS
  <2>3. PICK x : x = [type |-> "ack", to |-> m.to]
    OBVIOUS
  <2>4. e = Sends(t, x) \/ e = Does(t)
    BY <1>1, <1>5, <2>1, <2>2, <2>3 DEF HandleResponse, slot
  <2>5. m.to \in Nat
    BY <1>5, MadeIds DEF NestedOk
  <2>6. /\ DOMAIN u = Fields /\ SameCalls(seen, u) /\ u.answered = seen.answered
        /\ DOMAIN u.pending = DOMAIN seen.pending \ {m.to}
        /\ \A i \in DOMAIN u.pending : u.pending[i] = seen.pending[i]
        /\ \A k \in Kinds :
             IF k = seen.pending[m.to].kind
             THEN u.slot[k].to = m.to /\ u.slot[k].result = <<[status |-> m.status, of |-> m.to]>>
             ELSE u.slot[k] = seen.slot[k]
    BY <1>2, <1>5, <2>1, <2>5, SettledForm
  <2>7. /\ t.pending = u.pending /\ t.slot = u.slot /\ SameCalls(u, t)
        /\ t.answered = u.answered \cup {m.to}
    BY <2>2, <2>6 DEF Fields, SameCalls
  <2>8. SameCalls(s, t) /\ t.answered = s.answered \cup {m.to}
    BY <1>2, <2>6, <2>7 DEF SameCalls
  <2>9. \A k \in Kinds :
          IF k = s.pending[m.to].kind
          THEN t.slot[k].to = m.to /\ t.slot[k].result = <<[status |-> m.status, of |-> m.to]>>
          ELSE /\ t.slot[k].to = IF k = "read" THEN m.to ELSE s.slot[k].to
               /\ t.slot[k].result = s.slot[k].result
    BY <1>2, <1>3, <2>6, <2>7
  <2>10. Hears(s, t, m.to, m.status)
    BY <1>2, <2>6, <2>7, <2>8, <2>9 DEF Hears
  <2>11. x.type \notin {"response", "request", "cancel"}
    BY <2>3
  <2>12. /\ e.s = t /\ e.heavy = << >> /\ Says(p, e.out)
         /\ \A y : e.out # <<y>> \/ y.type # "request"
    <3>1. CASE e = Does(t)
      <4>1. e.s = t /\ e.heavy = << >> /\ e.out = << >> /\ Says(p, e.out)
        BY <3>1, DoesForm
      <4>. QED
        BY <4>1
    <3>2. CASE e = Sends(t, x)
      <4>1. /\ Sends(t, x).s = t /\ Sends(t, x).heavy = << >> /\ Sends(t, x).out = <<x>>
            /\ Says(p, Sends(t, x).out)
        BY <2>11, SendsForm
      <4>2. \A y : <<x>> # <<y>> \/ y.type # "request"
        BY <2>11
      <4>. QED
        BY <3>2, <4>1, <4>2
    <3>. QED
      BY <2>4, <3>1, <3>2
  <2>. QED
    BY <1>5, <2>10, <2>12 DEF Heard
<1>. QED
  BY <1>4, <1>5

(* A cancelled request ends without an answer. *)
LEMMA CancelEnds ==
  ASSUME NEW p, NEW s, DOMAIN s = Fields, NestedOk(s), NEW m, NEW e, e = HandleCancel(s, m)
  PROVE  /\ \/ Kept(s, e.s)
            \/ \E ids \in SUBSET DOMAIN s.pending : \E status :
                 status # "Ok" /\ Ends(s, e.s, ids, status)
         /\ e.heavy = << >> /\ Says(p, e.out)
<1>1. CASE m.to \in DOMAIN s.pending
  <2>1. PICK t : t = Ended(s, {m.to}, "Cancelled")
    OBVIOUS
  <2>2. e = Does(t)
    BY <1>1, <2>1 DEF HandleCancel, Settled
  <2>3. {m.to} \in SUBSET DOMAIN s.pending
    BY <1>1
  <2>4. Ends(s, t, {m.to}, "Cancelled")
    BY <2>1, <2>3, EndedEnds
  <2>5. e.s = t /\ e.heavy = << >> /\ Says(p, e.out)
    BY <2>2, DoesForm
  <2>6. "Cancelled" # "Ok"
    OBVIOUS
  <2>. QED
    BY <2>3, <2>4, <2>5, <2>6
<1>2. CASE m.to \notin DOMAIN s.pending
  <2>1. e = Does(s)
    BY <1>2 DEF HandleCancel
  <2>2. Kept(s, s)
    BY DEF Kept, SameCalls
  <2>. QED
    BY <2>1, <2>2, DoesForm
<1>. QED
  BY <1>1, <1>2

LEMMA ReceiveStep ==
  ASSUME Inv, NestInv, NEW p \in Peers, Receive(p)
  PROVE  Stepped(p)
<1>. DEFINE s == peer[p]
            q == Other(p)
            m == Head(wire[p])
            w == Tail(wire[p])
            v == bulk[p]
<1>1. /\ DOMAIN s = Fields /\ CallsTyped(s) /\ NestedOk(s) /\ Spent(s, Tokens(p))
      /\ DOMAIN s.slot = Kinds /\ IsQueue(wire[p]) /\ IsQueue(bulk[p])
      /\ IsQueue(wire[q]) /\ IsQueue(bulk[q])
      /\ DOMAIN wire = Peers /\ DOMAIN bulk = Peers /\ DOMAIN peer = Peers
      /\ q \in Peers /\ q # p
  BY SideFacts
<1>2. wire[p] # << >>
  BY DEF Receive
<1>3. PICK published, e : /\ e = HandlePacket(p, peer[p], m, FALSE, published)
                          /\ peer' = [peer EXCEPT ![p] = e.s]
                          /\ wire' = [wire EXCEPT ![p] = Tail(@), ![q] = @ \o e.out]
                          /\ bulk' = [bulk EXCEPT ![q] = @ \o e.heavy]
  BY DEF Receive
<1>4. m \in Packets(wire[p]) /\ PacketOk(p, m)
  <2>1. QueuesOk(p)
    BY DEF Inv
  <2>2. m \in Packets(wire[p])
    BY <1>2, <2>1, TakenQueue DEF QueuesOk
  <2>. QED
    BY <2>1, <2>2 DEF QueuesOk
<1>. HIDE DEF q
<1>5. /\ wire'[p] = w /\ wire'[q] = wire[q] \o e.out
      /\ bulk'[p] = v /\ bulk'[q] = bulk[q] \o e.heavy
  BY <1>1, <1>3
<1>6. Moves(p, e.s, w, v, e.out, e.heavy)
  BY <1>3, <1>5 DEF Moves, q
<1>7. LeftOf(w, wire[p]) /\ LeftOf(v, bulk[p])
  BY <1>2 DEF LeftOf
<1>. HIDE DEF s, m, w, v
<1>8. CASE s.state # "Running" \/ m.type \in {"list", "ack"}
  <2>1. Quiet(p, s, e)
    BY <1>1, <1>3, <1>8, QuietPacket DEF s
  <2>2. Moved(p, e.s, w, v, e.out, e.heavy) /\ Turns(p, e.s, e.out)
    BY <1>6, <1>7, <2>1 DEF Quiet, Moved, Turns, s
  <2>. QED
    BY <2>2, MakesStep
<1>9. CASE s.state = "Running" /\ m.type = "cancel"
  <2>1. e = HandleCancel(s, m)
    BY <1>3, <1>9 DEF HandlePacket, s
  <2>2. /\ \/ Kept(s, e.s)
           \/ \E ids \in SUBSET DOMAIN s.pending : \E status :
                status # "Ok" /\ Ends(s, e.s, ids, status)
        /\ e.heavy = << >> /\ Says(p, e.out)
    BY <1>1, <2>1, CancelEnds
  <2>3. Kept(s, e.s) \/ CalledOff(p, e.s)
    BY <1>4, <1>9, <2>2 DEF CalledOff, s
  <2>4. Moved(p, e.s, w, v, e.out, e.heavy) /\ Turns(p, e.s, e.out)
    BY <1>6, <1>7, <2>2, <2>3 DEF Moved, Turns, s
  <2>. QED
    BY <2>4, MakesStep
<1>10. CASE s.state = "Running" /\ m.type = "response"
  <2>1. e = HandleResponse(s, m, FALSE)
    BY <1>3, <1>10 DEF HandlePacket, s
  <2>2. Heard(p, s, e, m)
    BY <1>1, <2>1, ResponseHeard
  <2>3. Takes(p, m, w, v)
    BY <1>2 DEF Takes, m, w, v
  <2>4. Hearing(p, e.s, w, v, e.out)
    BY <1>10, <2>2, <2>3 DEF Heard, Hearing, s
  <2>5. Moved(p, e.s, w, v, e.out, e.heavy)
    BY <1>6, <1>7, <2>2 DEF Heard, Moved
  <2>. QED
    BY <2>4, <2>5, MakesStep
<1>11. CASE s.state = "Running" /\ m.type = "request"
  <2>1. m.kind \in Kinds
    BY <1>4, <1>11 DEF PacketOk, RequestOk
  <2>2. Replied(s, e, m)
    BY <1>1, <1>3, <1>11, <2>1, RequestReplied DEF s
  <2>3. Serves(p, w, e.out, e.heavy)
    BY <1>2, <1>11, <2>2 DEF Serves, Replied, m, w
  <2>4. Kept(s, e.s)
    BY <2>2 DEF Replied
  <2>5. Moved(p, e.s, w, v, e.out, e.heavy) /\ Turns(p, e.s, e.out)
    BY <1>6, <1>7, <2>3, <2>4 DEF Moved, Turns, s
  <2>. QED
    BY <2>5, MakesStep
<1>. QED
  BY <1>4, <1>8, <1>9, <1>10, <1>11 DEF PacketOk, Types

LEMMA ReceiveBulkStep ==
  ASSUME Inv, NestInv, NEW p \in Peers, ReceiveBulk(p)
  PROVE  Stepped(p)
<1>. DEFINE s == peer[p]
            q == Other(p)
            m == Head(bulk[p])
            w == wire[p]
            v == Tail(bulk[p])
<1>1. /\ DOMAIN s = Fields /\ CallsTyped(s) /\ NestedOk(s) /\ Spent(s, Tokens(p))
      /\ DOMAIN s.slot = Kinds /\ IsQueue(wire[p]) /\ IsQueue(bulk[p])
      /\ IsQueue(wire[q]) /\ IsQueue(bulk[q])
      /\ DOMAIN wire = Peers /\ DOMAIN bulk = Peers /\ DOMAIN peer = Peers
      /\ q \in Peers /\ q # p
  BY SideFacts
<1>2. bulk[p] # << >>
  BY DEF ReceiveBulk
<1>3. PICK e : /\ e = HandlePacket(p, peer[p], m, TRUE, TRUE)
               /\ peer' = [peer EXCEPT ![p] = e.s]
               /\ wire' = [wire EXCEPT ![q] = @ \o e.out]
               /\ bulk' = [bulk EXCEPT ![p] = Tail(@)]
  BY DEF ReceiveBulk
<1>4. m.type = "response"
  <2>1. QueuesOk(p)
    BY DEF Inv
  <2>2. m \in Packets(bulk[p])
    BY <1>2, <2>1, TakenQueue DEF QueuesOk
  <2>. QED
    BY <2>1, <2>2 DEF QueuesOk
<1>. HIDE DEF q
<1>5. bulk[q] \o << >> = bulk[q]
  BY <1>1, SentPackets
<1>6. /\ wire'[p] = w /\ wire'[q] = wire[q] \o e.out
      /\ bulk'[p] = v /\ bulk'[q] = bulk[q] \o << >>
  BY <1>1, <1>3, <1>5
<1>7. Moves(p, e.s, w, v, e.out, << >>)
  BY <1>3, <1>6 DEF Moves, q
<1>8. LeftOf(w, wire[p]) /\ LeftOf(v, bulk[p])
  BY <1>2 DEF LeftOf
<1>. HIDE DEF s, m, w, v
<1>9. CASE s.state # "Running"
  <2>1. Quiet(p, s, e)
    BY <1>1, <1>3, <1>9, QuietPacket DEF s
  <2>2. Moved(p, e.s, w, v, e.out, << >>) /\ Turns(p, e.s, e.out)
    BY <1>7, <1>8, <2>1 DEF Quiet, Moved, Turns, s
  <2>. QED
    BY <2>2, MakesStep
<1>10. CASE s.state = "Running"
  <2>1. e = HandleResponse(s, m, TRUE)
    BY <1>3, <1>4, <1>10 DEF HandlePacket, s
  <2>2. Heard(p, s, e, m)
    BY <1>1, <2>1, ResponseHeard
  <2>3. Takes(p, m, w, v)
    BY <1>2 DEF Takes, m, w, v
  <2>4. Hearing(p, e.s, w, v, e.out)
    BY <1>4, <2>2, <2>3 DEF Heard, Hearing, s
  <2>5. Moved(p, e.s, w, v, e.out, << >>)
    BY <1>7, <1>8, <2>2 DEF Heard, Moved
  <2>. QED
    BY <2>4, <2>5, MakesStep
<1>. QED
  BY <1>9, <1>10

(* Every step is one of p, or the loss of the connection. *)
LEMMA NextStep ==
  ASSUME Inv, NestInv, [Next]_vars
  PROVE  (\E p \in Peers : Stepped(p)) \/ Lose \/ UNCHANGED <<peer, wire, bulk>>
<1>1. ASSUME NEW p \in Peers,
             Copy(p) \/ Pump(p) \/ ResumeAfterReconnect(p) \/ Start(p)
      PROVE  Stepped(p)
  BY <1>1, QuietSteps
<1>2. ASSUME NEW p \in Peers, Receive(p) \/ ReceiveBulk(p) PROVE Stepped(p)
  BY <1>2, ReceiveStep, ReceiveBulkStep
<1>3. ASSUME NEW p \in Peers, Return(p) \/ GiveUp(p) PROVE Stepped(p)
  BY <1>3, ReturnStep, GiveUpStep
<1>4. ASSUME NEW p \in Peers, NEW id, Expire(p, id) PROVE Stepped(p)
  BY <1>4, ExpireStep
<1>5. ASSUME NEW p \in Peers, NEW kind \in Kinds, NEW b, NEW lock, Begin(p, kind, b, lock)
      PROVE  Stepped(p)
  BY <1>5, BeginStep
<1>6. ASSUME NEW p \in Peers, PauseForReconnect(p) \/ Stop(p) PROVE Stepped(p)
  BY <1>6, PauseStep, StopStep
<1>7. CASE Running
  BY <1>1, <1>2, <1>3, <1>4, <1>6, <1>7 DEF Running, Rebind
<1>8. CASE Environment
  BY <1>1, <1>5, <1>6, <1>8 DEF Environment
<1>. QED
  BY <1>7, <1>8 DEF Next, vars

(***************************************************************************)
(* What the steps do to the calls and the packets                           *)
(***************************************************************************)

LEMMA MovedAdds ==
  ASSUME NEW p, NEW t, NEW w, NEW v, NEW out, NEW heavy, Moved(p, t, w, v, out, heavy)
  PROVE  Adds(p, out)
  BY DEF Moved, Says, Serves, Replies, Adds

LEMMA NestStep ==
  ASSUME Inv, NestInv, NEW p \in Peers, NEW t, NEW w, NEW v, NEW out, NEW heavy,
         Moved(p, t, w, v, out, heavy), NestedOk(t), Spent(t, Tokens(p)')
  PROVE  NestInv'
<1>. DEFINE q == Other(p)
<1>1. q \in Peers /\ q # p /\ Peers = {p, q} /\ DOMAIN peer = Peers
  BY OtherSide DEF Inv
<1>2. /\ OrderOk(p) /\ OrderOk(q) /\ NestedOk(peer[p]) /\ NestedOk(peer[q])
      /\ Spent(peer[q], Tokens(q))
  BY <1>1 DEF NestInv
<1>3. peer[p].nextId # 0
  BY <1>2, KnownIds
<1>4. Adds(p, out)
  BY MovedAdds
<1>5. OrderOk(p)'
  BY <1>2, <1>3, <1>4, AskerOrder DEF Moved
<1>6. OrderOk(q)' /\ Tokens(q)' \subseteq Tokens(q)
  BY <1>2, ServerOrder DEF Moved
<1>7. peer'[p] = t /\ peer'[q] = peer[q]
  BY <1>1 DEF Moved, Moves
<1>. HIDE DEF q
<1>8. Spent(peer'[q], Tokens(q)')
  BY <1>2, <1>6, <1>7 DEF Spent
<1>9. NestedOk(peer'[p]) /\ NestedOk(peer'[q]) /\ Spent(peer'[p], Tokens(p)')
  BY <1>2, <1>7
<1>10. ASSUME NEW r \in Peers
       PROVE  NestedOk(peer'[r]) /\ OrderOk(r)' /\ Spent(peer'[r], Tokens(r)')
  BY <1>1, <1>5, <1>6, <1>8, <1>9
<1>. QED
  BY <1>10 DEF NestInv

LEMMA LeavesNest ==
  ASSUME Inv, NestInv, NEW p \in Peers, NEW t, NEW w, NEW v, NEW out, NEW heavy,
         Moved(p, t, w, v, out, heavy), Leaves(peer[p], t, Tokens(p))
  PROVE  NestInv'
<1>1. Adds(p, out)
  BY MovedAdds
<1>2. peer[p].nextId # 0 /\ OrderOk(p)
  BY SideFacts, KnownIds DEF NestInv
<1>3. Tokens(p)' \subseteq Tokens(p) \cup {peer[p].nextId}
  BY <1>1, <1>2, AskerOrder DEF Moved
<1>4. NestedOk(t) /\ Spent(t, Tokens(p)')
  BY <1>3 DEF Leaves
<1>. QED
  BY <1>4, NestStep

(* An answer that p takes is one of its requests, and its last packet. *)
LEMMA TakenAnswer ==
  ASSUME Inv, NestInv, NEW p \in Peers, NEW t, NEW w, NEW v, NEW out, NEW heavy, NEW m,
         Moved(p, t, w, v, out, heavy), m.type = "response", Takes(p, m, w, v),
         \A x : out # <<x>> \/ x.type # "request"
  PROVE  /\ m \in Answers(wire[p]) \cup Answers(bulk[p]) /\ PacketOk(p, m)
         /\ m.to \in Tokens(p) /\ m.to \notin Tokens(p)' /\ Tokens(p)' \subseteq Tokens(p)
         /\ m.to \in 1 .. peer[p].nextId - 1 /\ m.to \notin peer[p].answered
         /\ m.to \in DOMAIN peer[p].done => peer[p].done[m.to].status # "Ok"
         /\ m.status # "Timeout"
<1>. DEFINE s == peer[p]
            q == Other(p)
<1>1. /\ CallsTyped(s) /\ NestedOk(s) /\ Spent(s, Tokens(p)) /\ OrderOk(p) /\ s.nextId # 0
  BY SideFacts, KnownIds DEF NestInv
<1>2. /\ QueuesOk(p) /\ IsQueue(wire[p]) /\ IsQueue(bulk[p])
      /\ Ascending(wire[p]) /\ Ascending(bulk[p])
  BY DEF Inv, QueuesOk
<1>3. /\ wire[p] # << >> => Head(wire[p]) \in Packets(wire[p])
      /\ bulk[p] # << >> => Head(bulk[p]) \in Packets(bulk[p])
      /\ wire[p] # << >> => Packets(Tail(wire[p])) \subseteq Packets(wire[p])
      /\ bulk[p] # << >> => Packets(Tail(bulk[p])) \subseteq Packets(bulk[p])
  BY <1>2, TakenQueue
<1>4. m \in Answers(wire[p]) \cup Answers(bulk[p]) /\ PacketOk(p, m)
  BY <1>2, <1>3 DEF Answers, QueuesOk, Takes
<1>5. m.to \in Tokens(p) /\ m.to # 0 /\ m.status # "Timeout" /\ m.to \in Nat /\ m.to < s.nextId
  BY <1>1, <1>4 DEF Tokens, OrderOk, PacketOk, ResponseOk
<1>6. m.to \in 1 .. s.nextId - 1
  <2>1. s.nextId \in Nat
    BY <1>1, KnownIds
  <2>. QED
    BY <1>5, <2>1
<1>7. m.to \notin s.answered /\ (m.to \in DOMAIN s.done => s.done[m.to].status # "Ok")
  BY <1>1, <1>5 DEF Spent
<1>8. Moves(p, t, w, v, out, heavy) /\ LeftOf(w, wire[p]) /\ LeftOf(v, bulk[p]) /\ Adds(p, out)
  BY MovedAdds DEF Moved
<1>9. Tokens(p)' \subseteq Tokens(p)
  BY <1>1, <1>8, AskerOrder
<1>10. \A n \in Asked(wire'[q]) : m.to # n.id
  <2>1. wire'[q] = wire[q] \o out
    BY <1>8 DEF Moves
  <2>2. IsQueue(wire[q])
    BY SideFacts
  <2>3. Asked(wire'[q]) \subseteq Asked(wire[q])
    <3>1. CASE out = << >>
      BY <2>1, <2>2, <3>1, SentPackets
    <3>2. ASSUME NEW x, out = <<x>>, x.type # "request"
          PROVE  Asked(wire'[q]) \subseteq Asked(wire[q])
      <4>1. Packets(wire[q] \o <<x>>) = Packets(wire[q]) \cup {x}
        BY <2>2, SentPackets
      <4>. QED
        BY <2>1, <3>2, <4>1 DEF Asked
    <3>. QED
      BY <1>8, <3>1, <3>2 DEF Adds
  <2>4. \A n \in Asked(wire[q]) : m.to < n.id
    BY <1>1, <1>4 DEF OrderOk
  <2>. QED
    BY <1>5, <2>3, <2>4
<1>11. \A n \in Answers(w) \cup Answers(v) : m.to # n.to
  <2>1. CASE wire[p] # << >> /\ m = Head(wire[p]) /\ w = Tail(wire[p]) /\ v = bulk[p]
    <3>1. \A n \in Answers(w) : m.to < n.to
      BY <1>1, <1>2, <2>1, TakenRising DEF OrderOk, Answers
    <3>2. m \in Answers(wire[p])
      BY <1>3, <2>1 DEF Answers
    <3>3. \A n \in Answers(v) : m.to # n.to
      BY <1>1, <2>1, <3>2 DEF OrderOk
    <3>. QED
      BY <1>5, <3>1, <3>3
  <2>2. CASE bulk[p] # << >> /\ m = Head(bulk[p]) /\ v = Tail(bulk[p]) /\ w = wire[p]
    <3>1. \A n \in Answers(v) : m.to < n.to
      BY <1>1, <1>2, <2>2, TakenRising DEF OrderOk, Answers
    <3>2. m \in Answers(bulk[p])
      BY <1>3, <2>2 DEF Answers
    <3>3. \A n \in Answers(w) : m.to # n.to
      BY <1>1, <2>2, <3>2 DEF OrderOk
    <3>. QED
      BY <1>5, <3>1, <3>3
  <2>. QED
    BY <2>1, <2>2 DEF Takes
<1>12. m.to \notin Tokens(p)'
  <2>1. wire'[p] = w /\ bulk'[p] = v
    BY <1>8 DEF Moves
  <2>2. Tokens(p)' = {n.id : n \in Asked(wire'[q])} \cup {n.to : n \in Answers(w) \cup Answers(v)}
    BY <2>1 DEF Tokens
  <2>. QED
    BY <1>10, <1>11, <2>2
<1>. QED
  BY <1>4, <1>5, <1>6, <1>7, <1>9, <1>12

(* The call on top finds a timeout although it had an answer only when it   *)
(* has overlapped or an earlier one has failed.                             *)
LEMMA LostAnswer ==
  ASSUME NEW s, CallsTyped(s), NestedOk(s), s.calls # << >>,
         Top(s).id \in s.answered,
         ~ HasResult(s, Top(s)) \/ s.slot[Top(s).kind].result[1].status = "Timeout"
  PROVE  Top(s).id \in s.overlapped \/ Excused(s, Top(s).id)
<1>1. Len(s.calls) \in Nat /\ Len(s.calls) # 0
  BY DEF CallsTyped, IsQueue
<1>2. CASE Len(s.calls) > 1
  <2>1. Top(s).id \in CallIds(s)
    BY <1>1 DEF Top, CallIds
  <2>. QED
    BY <1>2, <2>1 DEF NestedOk, OverlapOk
<1>3. CASE Len(s.calls) = 1 /\ Top(s).id \notin s.overlapped
  <2>1. Alone(s)
    BY <1>3 DEF Alone
  <2>. QED
    BY <2>1 DEF NestedOk, OverlapOk
<1>4. Len(s.calls) > 1 \/ Len(s.calls) = 1
  <2>1. \A n \in Nat : n # 0 => n > 1 \/ n = 1
    OBVIOUS
  <2>. QED
    BY <1>1, <2>1
<1>. QED
  BY <1>2, <1>3, <1>4

LEMMA TopTyped ==
  ASSUME NEW s, CallsTyped(s), s.calls # << >>
  PROVE  Top(s).kind \in Kinds
  BY DEF CallsTyped, IsQueue, Top

LEMMA ReturningLeaves ==
  ASSUME NEW s, NEW t, NEW tokens, CallsTyped(s), NestedOk(s), Spent(s, tokens),
         Returning(s, t)
  PROVE  Leaves(s, t, tokens)
<1>. DEFINE c == Top(s)
            result == s.slot[c.kind].result[1]
<1>1. s.calls # << >> /\ HasResult(s, c)
  BY DEF Returning
<1>2. PICK r : Pops(s, t, r) /\ r.status = result.status
  BY DEF Returning
<1>3. c.kind \in Kinds
  BY <1>1, TopTyped
<1>4. s.slot[c.kind].to = c.id /\ s.slot[c.kind].result # << >>
  BY <1>1 DEF HasResult
<1>5. c.id \notin DOMAIN s.pending
  BY <1>3, <1>4 DEF NestedOk, NestOk
<1>6. r.status = "Timeout" /\ c.id \in s.answered => c.id \in s.overlapped \/ Excused(s, c.id)
  BY <1>1, <1>2, LostAnswer
<1>7. r.status = "Ok" => c.id \notin tokens
  BY <1>2, <1>3, <1>4 DEF Spent
<1>. QED
  BY <1>1, <1>2, <1>5, <1>6, <1>7, PopsLeaves

LEMMA GivingUpLeaves ==
  ASSUME NEW s, NEW t, NEW tokens, CallsTyped(s), NestedOk(s), Spent(s, tokens),
         GivingUp(s, t)
  PROVE  Leaves(s, t, tokens)
<1>. DEFINE c == Top(s)
            ids == {i \in DOMAIN s.pending : i <= c.id}
<1>1. s.calls # << >> /\ ~ HasResult(s, c)
  BY DEF GivingUp
<1>2. PICK u, r : Ends(s, u, ids, "Timeout") /\ Pops(u, t, r) /\ r.status = "Timeout"
  BY DEF GivingUp
<1>3. /\ u.calls = s.calls /\ u.nextId = s.nextId /\ u.answered = s.answered
      /\ u.overlapped = s.overlapped /\ u.done = s.done
      /\ DOMAIN u.pending = DOMAIN s.pending \ ids
  BY <1>2 DEF Ends, SameCalls
<1>4. ids \in SUBSET DOMAIN s.pending /\ "Timeout" # "Ok"
  OBVIOUS
<1>5. Leaves(s, u, tokens)
  BY <1>2, <1>4, EndsLeaves
<1>6. NestedOk(u) /\ Spent(u, tokens) /\ CallsTyped(u)
  BY <1>3, <1>5 DEF Leaves, CallsTyped
<1>7. Top(u) = c
  BY <1>3 DEF Top
<1>8. c.id \in Nat
  <2>1. Len(s.calls) \in 1 .. Len(s.calls)
    BY <1>1 DEF CallsTyped, IsQueue
  <2>. QED
    BY <2>1, CallCount DEF Top, NestedOk
<1>9. c.id \notin DOMAIN u.pending
  BY <1>3, <1>8
<1>10. c.id \in s.answered => c.id \in s.overlapped \/ Excused(s, c.id)
  BY <1>1, LostAnswer
<1>11. c.id \in u.answered => c.id \in u.overlapped \/ Excused(u, c.id)
  BY <1>3, <1>10 DEF Excused
<1>12. u.calls # << >>
  BY <1>1, <1>3
<1>. HIDE DEF c, ids
<1>13. Leaves(u, t, tokens)
  BY <1>2, <1>6, <1>7, <1>9, <1>11, <1>12, PopsLeaves
<1>. QED
  BY <1>3, <1>13 DEF Leaves

LEMMA TurnsLeaves ==
  ASSUME Inv, NestInv, NEW p \in Peers, NEW t, NEW out, Turns(p, t, out)
  PROVE  Leaves(peer[p], t, Tokens(p))
<1>. DEFINE s == peer[p]
<1>1. CallsTyped(s) /\ NestedOk(s) /\ Spent(s, Tokens(p))
  BY SideFacts
<1>2. CASE Kept(s, t)
  BY <1>1, <1>2, KeptLeaves
<1>3. CASE EndsOldest(s, t)
  BY <1>1, <1>3, EndsLeaves DEF EndsOldest
<1>4. CASE CalledOff(p, t)
  BY <1>1, <1>4, EndsLeaves DEF CalledOff
<1>5. CASE Failing(p, t)
  BY <1>1, <1>5, FailsLeaves DEF Failing
<1>6. CASE Blocking(p, t, out)
  BY <1>1, <1>6, BlocksLeaves DEF Blocking
<1>7. CASE Returning(s, t)
  BY <1>1, <1>7, ReturningLeaves
<1>8. CASE GivingUp(s, t)
  BY <1>1, <1>8, GivingUpLeaves
<1>. QED
  BY <1>2, <1>3, <1>4, <1>5, <1>6, <1>7, <1>8 DEF Turns

LEMMA HearingNest ==
  ASSUME Inv, NestInv, NEW p \in Peers, NEW t, NEW w, NEW v, NEW out, NEW heavy,
         Moved(p, t, w, v, out, heavy), Hearing(p, t, w, v, out)
  PROVE  NestInv'
<1>. DEFINE s == peer[p]
            later == Tokens(p)'
<1>1. CallsTyped(s) /\ NestedOk(s) /\ Spent(s, Tokens(p))
  BY SideFacts
<1>2. PICK m : /\ m.type = "response" /\ Takes(p, m, w, v)
               /\ IF m.to \in DOMAIN s.pending
                  THEN Hears(s, t, m.to, m.status) ELSE Notes(s, t, m.to)
               /\ \A x : out # <<x>> \/ x.type # "request"
  BY DEF Hearing
<1>3. /\ m.to \notin later /\ later \in SUBSET Tokens(p)
      /\ m.to \in 1 .. s.nextId - 1 /\ m.to \notin s.answered
      /\ m.to \in DOMAIN s.done => s.done[m.to].status # "Ok"
      /\ m.status # "Timeout"
  BY <1>2, TakenAnswer
<1>. HIDE DEF s, later
<1>4. NestedOk(t) /\ Spent(t, later)
  <2>1. CASE m.to \in DOMAIN s.pending
    BY <1>1, <1>2, <1>3, <2>1, HearsNested, HearsSpent
  <2>2. CASE m.to \notin DOMAIN s.pending
    <3>1. Notes(s, t, m.to)
      BY <1>2, <2>2
    <3>2. NestedOk(t)
      BY <1>1, <1>3, <2>2, <3>1, NotesNested
    <3>3. Spent(t, later)
      BY <1>1, <1>3, <3>1, NotesSpent
    <3>. QED
      BY <3>2, <3>3
  <2>. QED
    BY <2>1, <2>2
<1>5. NestedOk(t) /\ Spent(t, Tokens(p)')
  BY <1>4 DEF later
<1>. QED
  BY <1>5, NestStep

LEMMA StepNest ==
  ASSUME Inv, NestInv, NEW p \in Peers, Stepped(p)
  PROVE  NestInv'
<1>1. PICK t, w, v, out, heavy : /\ Moved(p, t, w, v, out, heavy)
                                 /\ Turns(p, t, out) \/ Hearing(p, t, w, v, out)
  BY DEF Stepped
<1>2. CASE Turns(p, t, out)
  BY <1>1, <1>2, TurnsLeaves, LeavesNest
<1>3. CASE Hearing(p, t, w, v, out)
  BY <1>1, <1>3, HearingNest
<1>. QED
  BY <1>1, <1>2, <1>3

LEMMA NoPackets == Rising(<< >>) /\ Asked(<< >>) = {} /\ Answers(<< >>) = {}
<1>1. Packets(<< >>) = {} /\ Rising(<< >>)
  BY EmptyQueue DEF Rising
<1>. QED
  BY <1>1 DEF Asked, Answers

LEMMA LoseNest ==
  ASSUME NestInv, Lose
  PROVE  NestInv'
<1>1. /\ peer' = peer
      /\ wire' = [p \in Peers |-> << >>] /\ bulk' = [p \in Peers |-> << >>]
  BY DEF Lose
<1>2. ASSUME NEW p \in Peers
      PROVE  NestedOk(peer'[p]) /\ OrderOk(p)' /\ Spent(peer'[p], Tokens(p)')
  <2>1. wire'[p] = << >> /\ bulk'[p] = << >> /\ wire'[Other(p)] = << >>
    BY <1>1, OtherSide
  <2>2. OrderOk(p)' /\ Tokens(p)' = {}
    BY <2>1, NoPackets DEF OrderOk, Tokens
  <2>3. Spent(peer[p], {})
    BY DEF Spent
  <2>. QED
    BY <1>1, <2>2, <2>3 DEF NestInv
<1>. QED
  BY <1>2 DEF NestInv

LEMMA InitNest == Init => NestInv
<1>. SUFFICES ASSUME Init, NEW p \in Peers
              PROVE  NestedOk(peer[p]) /\ OrderOk(p) /\ Spent(peer[p], Tokens(p))
  BY DEF NestInv
<1>1. PICK s : s = peer[p]
  OBVIOUS
<1>2. /\ s.nextId = 1 /\ s.pending = << >> /\ s.calls = << >> /\ s.done = << >>
      /\ s.answered = {} /\ s.overlapped = {}
      /\ s.slot = [k \in Kinds |-> [to |-> 0, result |-> << >>]]
  BY <1>1 DEF Init
<1>3. OrderOk(p) /\ Tokens(p) = {}
  <2>1. wire[p] = << >> /\ bulk[p] = << >> /\ wire[Other(p)] = << >>
    BY OtherSide DEF Init
  <2>. QED
    BY <2>1, NoPackets DEF OrderOk, Tokens
<1>4. DOMAIN s.pending = {} /\ DOMAIN s.done = {} /\ Len(s.calls) = 0 /\ 1 .. Len(s.calls) = {}
  BY <1>2
<1>5. CallIds(s) = {} /\ ~ Alone(s)
  BY <1>4 DEF CallIds, Alone
<1>6. \A k \in Kinds : s.slot[k].to = 0 /\ s.slot[k].result = << >>
  BY <1>2
<1>7. NestOk(s)
  BY <1>2, <1>4, <1>5, <1>6, FS_EmptySet DEF NestOk
<1>8. CallsOk(s)
  <2>1. 1 .. s.nextId - 1 = {}
    BY <1>2
  <2>. QED
    BY <1>2, <1>4, <1>5, <2>1 DEF CallsOk
<1>9. OverlapOk(s)
  BY <1>4, <1>5 DEF OverlapOk
<1>10. Spent(s, {})
  BY DEF Spent
<1>. QED
  BY <1>1, <1>3, <1>7, <1>8, <1>9, <1>10 DEF NestedOk

LEMMA NextNest == Inv /\ NestInv /\ [Next]_vars => NestInv'
<1>. SUFFICES ASSUME Inv, NestInv, [Next]_vars PROVE NestInv'
  OBVIOUS
<1>1. ASSUME UNCHANGED <<peer, wire, bulk>> PROVE NestInv'
  BY <1>1 DEF NestInv, OrderOk, Tokens
<1>. QED
  BY <1>1, NextStep, StepNest, LoseNest

(* A call that blocks on top and whose own request has ended has at most as *)
(* many requests pending as there were when it began: all of them are older.*)
LEMMA TopStops ==
  ASSUME NEW s, CallsTyped(s), NestOk(s), s.calls # << >>, Top(s).id \notin DOMAIN s.pending
  PROVE  StopsEarly(s, Top(s))
<1>. DEFINE n == Len(s.calls)
<1>1. n \in Nat /\ n \in 1 .. Len(s.calls) /\ Top(s) = s.calls[n]
  BY DEF CallsTyped, IsQueue, Top
<1>2. Cardinality({i \in DOMAIN s.pending : i < s.calls[n].id}) <= s.calls[n].before
  BY <1>1, CallCount
<1>3. \A i \in DOMAIN s.pending : i < s.calls[n].id
  <2>. SUFFICES ASSUME NEW j \in 1 .. Len(s.calls), s.calls[j].id \in DOMAIN s.pending
                PROVE  s.calls[j].id < s.calls[n].id
    BY DEF NestOk, CallIds
  <2>1. j # n
    BY <1>1
  <2>2. j < n
    BY <1>1, <2>1
  <2>. QED
    BY <1>1, <2>2 DEF NestOk
<1>4. {i \in DOMAIN s.pending : i < s.calls[n].id} = DOMAIN s.pending
  BY <1>3
<1>. QED
  BY <1>1, <1>2, <1>4 DEF StopsEarly

(***************************************************************************)
(* Whose answer a call is given                                             *)
(***************************************************************************)

Succeeds(s) == s.slot["read"].result # << >> /\ s.slot["read"].result[1].status = "Ok"

(* Only the place of the reads can name one request and hold the result of  *)
(* another: a read that has ended may be noted there late, but while its    *)
(* answer is on its way no later answer has come.                           *)
OwnOk(s, tokens) ==
  /\ \A k \in Kinds \ {"read"} :
       s.slot[k].result # << >> => s.slot[k].result[1].of = s.slot[k].to
  /\ \A n \in 1 .. Len(s.calls) : s.calls[n].kind = "read" =>
       /\ s.calls[n].id \in tokens /\ s.calls[n].id \notin DOMAIN s.pending =>
            ~ Succeeds(s) /\ \A i \in DOMAIN s.pending : s.calls[n].id < i
       /\ Succeeds(s) /\ s.slot["read"].to = s.calls[n].id =>
            s.slot["read"].result[1].of = s.calls[n].id
  /\ \A i \in DOMAIN s.done : s.done[i].status = "Ok" => s.done[i].of = i

(* What is on its way for a call is of its kind; only ranges are large.     *)
KindsOk(p) ==
  /\ \A m \in Answers(bulk[p]) : m.kind = "range"
  /\ \A n \in 1 .. Len(peer[p].calls) :
       /\ \A m \in Asked(wire[Other(p)]) :
            m.id = peer[p].calls[n].id => m.kind = peer[p].calls[n].kind
       /\ \A m \in Answers(wire[p]) \cup Answers(bulk[p]) :
            m.to = peer[p].calls[n].id => m.kind = peer[p].calls[n].kind

(* The other side makes no calls, so that it never cancels one. *)
Silent(p) ==
  /\ peer[Other(p)].calls = << >> /\ peer[Other(p)].nextId = 1
  /\ \A m \in Packets(wire[p]) : m.type # "cancel"

OwnInv(p) == OwnOk(peer[p], Tokens(p)) /\ KindsOk(p) /\ Silent(p)

LEMMA OwnNarrows ==
  ASSUME NEW s, NEW tokens, OwnOk(s, tokens), NestedOk(s),
         NEW later \in SUBSET (tokens \cup {s.nextId})
  PROVE  OwnOk(s, later)
<1>1. \A n \in 1 .. Len(s.calls) : s.calls[n].id # s.nextId
  BY KnownIds DEF CallIds
<1>. QED
  BY <1>1 DEF OwnOk

LEMMA OwnKept ==
  ASSUME NEW s, NEW t, NEW tokens, OwnOk(s, tokens), Kept(s, t)
  PROVE  OwnOk(t, tokens)
  BY DEF Kept, SameCalls, OwnOk, Succeeds

LEMMA OwnEnds ==
  ASSUME NEW s, NEW t, NEW tokens, OwnOk(s, tokens), NestedOk(s),
         NEW ids \in SUBSET DOMAIN s.pending, NEW status, status # "Ok",
         Ends(s, t, ids, status), \A i \in ids, j \in DOMAIN s.pending \ ids : i < j
  PROVE  OwnOk(t, tokens)
<1>1. /\ t.calls = s.calls /\ t.done = s.done /\ DOMAIN t.pending = DOMAIN s.pending \ ids
  BY DEF Ends, SameCalls
<1>2. \A k \in Kinds \ {"read"} :
        t.slot[k].result # << >> => t.slot[k].result[1].of = t.slot[k].to
  <2>. SUFFICES ASSUME NEW k \in Kinds \ {"read"}, t.slot[k].result # << >>
                PROVE  t.slot[k].result[1].of = t.slot[k].to
    OBVIOUS
  <2>1. CASE t.slot[k] = s.slot[k]
    BY <2>1 DEF OwnOk
  <2>2. CASE t.slot[k] # s.slot[k]
    <3>1. \E st : t.slot[k].result = <<[status |-> st, of |-> t.slot[k].to]>>
      BY <2>2 DEF Ends
    <3>. QED
      BY <3>1
  <2>. QED
    BY <2>1, <2>2
<1>3. \/ t.slot["read"] = s.slot["read"] /\ \A i \in ids : s.pending[i].kind # "read"
      \/ ~ Succeeds(t)
  BY DEF Ends, Succeeds, Kinds
<1>4. ASSUME NEW n \in 1 .. Len(s.calls), s.calls[n].kind = "read"
      PROVE  /\ s.calls[n].id \in tokens /\ s.calls[n].id \notin DOMAIN t.pending =>
                  ~ Succeeds(t) /\ \A i \in DOMAIN t.pending : s.calls[n].id < i
             /\ Succeeds(t) /\ t.slot["read"].to = s.calls[n].id =>
                  t.slot["read"].result[1].of = s.calls[n].id
  <2>1. s.calls[n].id \in DOMAIN s.pending => s.pending[s.calls[n].id].kind = "read"
    BY <1>4 DEF NestedOk, CallsOk
  <2>2. CASE s.calls[n].id \in ids
    BY <1>1, <1>3, <2>1, <2>2
  <2>3. CASE s.calls[n].id \notin ids
    BY <1>1, <1>3, <1>4, <2>3 DEF OwnOk, Succeeds
  <2>. QED
    BY <2>2, <2>3
<1>. QED
  BY <1>1, <1>2, <1>4 DEF OwnOk

LEMMA OwnFails ==
  ASSUME NEW s, NEW t, NEW tokens, OwnOk(s, tokens), NestedOk(s), NEW k, NEW r,
         r.status # "Ok", Fails(s, t, k, r)
  PROVE  OwnOk(t, tokens)
<1>1. /\ t.calls = s.calls /\ t.done = With(s.done, s.nextId, r)
      /\ DOMAIN t.pending = DOMAIN s.pending
  BY DEF Fails
<1>2. \A j \in Kinds \ {"read"} :
        t.slot[j].result # << >> => t.slot[j].result[1].of = t.slot[j].to
  BY DEF Fails, OwnOk
<1>3. t.slot["read"] = s.slot["read"] \/ ~ Succeeds(t)
  BY DEF Fails, Succeeds, Kinds
<1>4. \A i \in DOMAIN t.done : t.done[i].status = "Ok" => t.done[i].of = i
  BY <1>1 DEF With, OwnOk
<1>. QED
  BY <1>1, <1>2, <1>3, <1>4 DEF OwnOk, Succeeds

LEMMA OwnBlocks ==
  ASSUME NEW s, NEW t, NEW tokens, OwnOk(s, tokens), NestedOk(s), CallsTyped(s), NEW c,
         Blocks(s, t, c)
  PROVE  OwnOk(t, tokens)
<1>1. /\ t.calls = Append(s.calls, c) /\ t.done = s.done /\ t.slot = s.slot
      /\ DOMAIN t.pending = DOMAIN s.pending \cup {s.nextId} /\ c.id = s.nextId
  BY DEF Blocks, With
<1>2. /\ Len(t.calls) = Len(s.calls) + 1 /\ t.calls[Len(s.calls) + 1] = c
      /\ Len(s.calls) \in Nat
      /\ \A n \in 1 .. Len(s.calls) : t.calls[n] = s.calls[n]
  BY <1>1 DEF CallsTyped, IsQueue
<1>3. s.slot["read"].to # s.nextId
  BY KnownIds DEF Kinds
<1>4. Succeeds(t) <=> Succeeds(s)
  BY <1>1 DEF Succeeds
<1>5. ASSUME NEW n \in 1 .. Len(t.calls), t.calls[n].kind = "read"
      PROVE  /\ t.calls[n].id \in tokens /\ t.calls[n].id \notin DOMAIN t.pending =>
                  ~ Succeeds(t) /\ \A i \in DOMAIN t.pending : t.calls[n].id < i
             /\ Succeeds(t) /\ t.slot["read"].to = t.calls[n].id =>
                  t.slot["read"].result[1].of = t.calls[n].id
  <2>1. CASE n = Len(s.calls) + 1
    BY <1>1, <1>2, <1>3, <2>1
  <2>2. CASE n \in 1 .. Len(s.calls)
    <3>1. t.calls[n] = s.calls[n] /\ s.calls[n].id < s.nextId
      BY <1>2, <2>2, CallCount DEF NestedOk
    <3>. QED
      BY <1>1, <1>4, <1>5, <2>2, <3>1 DEF OwnOk
  <2>3. n = Len(s.calls) + 1 \/ n \in 1 .. Len(s.calls)
    BY <1>2
  <2>. QED
    BY <2>1, <2>2, <2>3
<1>6. \A k \in Kinds \ {"read"} :
        t.slot[k].result # << >> => t.slot[k].result[1].of = t.slot[k].to
  BY <1>1 DEF OwnOk
<1>7. \A i \in DOMAIN t.done : t.done[i].status = "Ok" => t.done[i].of = i
  BY <1>1 DEF OwnOk
<1>. QED
  BY <1>5, <1>6, <1>7 DEF OwnOk

LEMMA OwnPops ==
  ASSUME NEW s, NEW t, NEW tokens, OwnOk(s, tokens), CallsTyped(s), s.calls # << >>, NEW r,
         Pops(s, t, r), r.status = "Ok" => r.of = Top(s).id
  PROVE  OwnOk(t, tokens)
<1>1. /\ t.calls = SubSeq(s.calls, 1, Len(s.calls) - 1) /\ t.slot = s.slot
      /\ t.done = With(s.done, Top(s).id, r) /\ t.pending = s.pending
  BY DEF Pops
<1>2. /\ 1 .. Len(t.calls) \subseteq 1 .. Len(s.calls)
      /\ \A n \in 1 .. Len(t.calls) : t.calls[n] = s.calls[n]
  BY <1>1 DEF CallsTyped, IsQueue
<1>3. \A i \in DOMAIN t.done : t.done[i].status = "Ok" => t.done[i].of = i
  BY <1>1 DEF With, OwnOk
<1>4. Succeeds(t) <=> Succeeds(s)
  BY <1>1 DEF Succeeds
<1>5. \A k \in Kinds \ {"read"} :
        t.slot[k].result # << >> => t.slot[k].result[1].of = t.slot[k].to
  BY <1>1 DEF OwnOk
<1>6. ASSUME NEW n \in 1 .. Len(t.calls), t.calls[n].kind = "read"
      PROVE  /\ t.calls[n].id \in tokens /\ t.calls[n].id \notin DOMAIN t.pending =>
                  ~ Succeeds(t) /\ \A i \in DOMAIN t.pending : t.calls[n].id < i
             /\ Succeeds(t) /\ t.slot["read"].to = t.calls[n].id =>
                  t.slot["read"].result[1].of = t.calls[n].id
  <2>1. n \in 1 .. Len(s.calls) /\ t.calls[n] = s.calls[n]
    BY <1>2
  <2>. QED
    BY <1>1, <1>4, <1>6, <2>1 DEF OwnOk
<1>. QED
  BY <1>3, <1>5, <1>6 DEF OwnOk

(* A late answer names the request it was for, next to a result that is no  *)
(* success.                                                                 *)
LEMMA OwnNotes ==
  ASSUME NEW s, NEW t, NEW tokens, OwnOk(s, tokens), NEW id \in tokens,
         id \notin DOMAIN s.pending, Notes(s, t, id)
  PROVE  OwnOk(t, tokens)
<1>1. /\ t.calls = s.calls /\ t.done = s.done /\ t.pending = s.pending
      /\ \A k \in Kinds : k # "read" => t.slot[k] = s.slot[k]
      /\ t.slot["read"].to = id /\ t.slot["read"].result = s.slot["read"].result
  BY DEF Notes, SameCalls
<1>2. Succeeds(t) <=> Succeeds(s)
  BY <1>1 DEF Succeeds
<1>. QED
  BY <1>1, <1>2 DEF OwnOk

(* An answer is the oldest on its way: a read that waits for a late answer  *)
(* is younger.                                                              *)
LEMMA OwnHears ==
  ASSUME NEW s, NEW t, NEW tokens, OwnOk(s, tokens), NestedOk(s), NEW later \in SUBSET tokens,
         NEW id \in DOMAIN s.pending, id \notin later, NEW status, Hears(s, t, id, status),
         s.pending[id].kind = "read" =>
           \A n \in 1 .. Len(s.calls) :
             s.calls[n].kind = "read" /\ s.calls[n].id \in later => ~ (s.calls[n].id < id)
  PROVE  OwnOk(t, later)
<1>1. /\ t.calls = s.calls /\ t.done = s.done /\ DOMAIN t.pending = DOMAIN s.pending \ {id}
  BY DEF Hears, SameCalls
<1>2. ASSUME NEW k \in Kinds \ {"read"}, t.slot[k].result # << >>
      PROVE  t.slot[k].result[1].of = t.slot[k].to
  <2>1. CASE k = s.pending[id].kind
    <3>1. t.slot[k].to = id /\ t.slot[k].result = <<[status |-> status, of |-> id]>>
      BY <2>1 DEF Hears
    <3>. QED
      BY <3>1
  <2>2. CASE k # s.pending[id].kind
    <3>1. t.slot[k].to = s.slot[k].to /\ t.slot[k].result = s.slot[k].result
      BY <2>2 DEF Hears
    <3>. QED
      BY <1>2, <3>1 DEF OwnOk
  <2>. QED
    BY <2>1, <2>2
<1>3. t.slot["read"].to = id
  BY DEF Hears, Kinds
<1>4. IF s.pending[id].kind = "read"
      THEN t.slot["read"].result[1].of = id
      ELSE t.slot["read"].result = s.slot["read"].result
  BY DEF Hears, Kinds
<1>5. ASSUME NEW n \in 1 .. Len(s.calls), s.calls[n].kind = "read"
      PROVE  /\ s.calls[n].id \in later /\ s.calls[n].id \notin DOMAIN t.pending =>
                  ~ Succeeds(t) /\ \A i \in DOMAIN t.pending : s.calls[n].id < i
             /\ Succeeds(t) /\ t.slot["read"].to = s.calls[n].id =>
                  t.slot["read"].result[1].of = s.calls[n].id
  <2>1. s.calls[n].id \in DOMAIN s.pending => s.pending[s.calls[n].id].kind = "read"
    BY <1>5 DEF NestedOk, CallsOk
  <2>2. ASSUME s.calls[n].id \in later, s.calls[n].id \notin DOMAIN t.pending
        PROVE  ~ Succeeds(t) /\ \A i \in DOMAIN t.pending : s.calls[n].id < i
    <3>1. ~ Succeeds(s) /\ \A i \in DOMAIN s.pending : s.calls[n].id < i
      BY <1>1, <1>5, <2>2 DEF OwnOk
    <3>2. s.pending[id].kind # "read"
      BY <1>5, <2>2, <3>1
    <3>. QED
      BY <1>1, <1>4, <3>1, <3>2 DEF Succeeds
  <2>3. ASSUME Succeeds(t), s.calls[n].id = id
        PROVE  t.slot["read"].result[1].of = id
    BY <1>4, <2>1, <2>3
  <2>. QED
    BY <1>3, <2>2, <2>3
<1>. QED
  BY <1>1, <1>2, <1>5 DEF OwnOk

(* What a step of p leaves of the packets of its requests. *)
LEMMA AskerPackets ==
  ASSUME Inv, NestInv, NEW p \in Peers, NEW t, NEW w, NEW v, NEW out, NEW heavy,
         Moved(p, t, w, v, out, heavy)
  PROVE  /\ Packets(wire'[p]) \subseteq Packets(wire[p])
         /\ Answers(wire'[p]) \subseteq Answers(wire[p])
         /\ Answers(bulk'[p]) \subseteq Answers(bulk[p])
         /\ \A m \in Asked(wire'[Other(p)]) :
              m \in Asked(wire[Other(p)]) \/ (out = <<m>> /\ m.id = peer[p].nextId)
<1>. DEFINE q == Other(p)
<1>1. /\ wire'[p] = w /\ bulk'[p] = v /\ wire'[q] = wire[q] \o out
      /\ LeftOf(w, wire[p]) /\ LeftOf(v, bulk[p])
  BY DEF Moved, Moves
<1>2. Adds(p, out)
  BY MovedAdds
<1>3. /\ IsQueue(wire[p]) /\ Ascending(wire[p]) /\ Rising(wire[p])
      /\ IsQueue(bulk[p]) /\ Ascending(bulk[p]) /\ Rising(bulk[p]) /\ IsQueue(wire[q])
  BY SideFacts DEF Inv, QueuesOk, NestInv, OrderOk
<1>4. Packets(w) \subseteq Packets(wire[p]) /\ Packets(v) \subseteq Packets(bulk[p])
  BY <1>1, <1>3, LeftQueue
<1>. HIDE DEF q
<1>5. ASSUME NEW m \in Asked(wire'[q])
      PROVE  m \in Asked(wire[q]) \/ (out = <<m>> /\ m.id = peer[p].nextId)
  <2>1. CASE out = << >>
    BY <1>1, <1>3, <2>1, SentPackets
  <2>2. ASSUME NEW x, out = <<x>>, x.type = "request" => x.id = peer[p].nextId
        PROVE  m \in Asked(wire[q]) \/ (out = <<m>> /\ m.id = peer[p].nextId)
    <3>1. Packets(wire[q] \o <<x>>) = Packets(wire[q]) \cup {x}
      BY <1>3, SentPackets
    <3>. QED
      BY <1>1, <2>2, <3>1 DEF Asked
  <2>. QED
    BY <1>2, <2>1, <2>2 DEF Adds
<1>. QED
  BY <1>1, <1>4, <1>5 DEF Answers, q

(* And of those of the other side. *)
LEMMA ServerPackets ==
  ASSUME Inv, NestInv, NEW p \in Peers, NEW t, NEW w, NEW v, NEW out, NEW heavy,
         Moved(p, t, w, v, out, heavy)
  PROVE  LET q == Other(p)
         IN /\ Asked(wire'[p]) \subseteq Asked(wire[p])
            /\ \A m \in Answers(wire'[q]) :
                 \/ m \in Answers(wire[q])
                 \/ \E h \in Asked(wire[p]) : m.to = h.id /\ m.kind = h.kind
            /\ \A m \in Answers(bulk'[q]) :
                 \/ m \in Answers(bulk[q])
                 \/ m.kind = "range" /\ \E h \in Asked(wire[p]) : m.to = h.id /\ m.kind = h.kind
            /\ \A m \in Packets(wire'[q]) :
                 m \in Packets(wire[q]) \/ (m.type = "cancel" => peer[p].calls # << >>)
<1>. DEFINE q == Other(p)
<1>1. /\ wire'[p] = w /\ wire'[q] = wire[q] \o out /\ bulk'[q] = bulk[q] \o heavy
      /\ LeftOf(w, wire[p])
  BY DEF Moved, Moves
<1>2. /\ IsQueue(wire[p]) /\ Ascending(wire[p]) /\ Rising(wire[p])
      /\ IsQueue(wire[q]) /\ IsQueue(bulk[q])
  BY SideFacts DEF Inv, QueuesOk, NestInv, OrderOk
<1>3. Packets(w) \subseteq Packets(wire[p])
  BY <1>1, <1>2, LeftQueue
<1>. HIDE DEF q
<1>4. /\ wire[q] \o << >> = wire[q] /\ bulk[q] \o << >> = bulk[q]
      /\ \A x : Packets(wire[q] \o <<x>>) = Packets(wire[q]) \cup {x}
      /\ \A x : Packets(bulk[q] \o <<x>>) = Packets(bulk[q]) \cup {x}
  BY <1>2, SentPackets
<1>5. Asked(wire'[p]) \subseteq Asked(wire[p])
  BY <1>1, <1>3 DEF Asked
<1>6. /\ \A m \in Packets(wire'[q]) :
           \/ m \in Packets(wire[q])
           \/ m.type # "response" /\ (m.type = "cancel" => peer[p].calls # << >>)
           \/ m.type = "response" /\ \E h \in Asked(wire[p]) : m.to = h.id /\ m.kind = h.kind
      /\ \A m \in Packets(bulk'[q]) :
           \/ m \in Packets(bulk[q])
           \/ m.kind = "range" /\ \E h \in Asked(wire[p]) : m.to = h.id /\ m.kind = h.kind
  <2>. DEFINE new == Packets(wire'[q]) \ Packets(wire[q])
              large == Packets(bulk'[q]) \ Packets(bulk[q])
  <2>. SUFFICES /\ \A m \in new :
                     \/ m.type # "response" /\ (m.type = "cancel" => peer[p].calls # << >>)
                     \/ m.type = "response"
                        /\ \E h \in Asked(wire[p]) : m.to = h.id /\ m.kind = h.kind
                /\ \A m \in large :
                     m.kind = "range" /\ \E h \in Asked(wire[p]) : m.to = h.id /\ m.kind = h.kind
    OBVIOUS
  <2>1. ASSUME out = << >> PROVE new = {}
    BY <1>1, <1>4, <2>1
  <2>2. ASSUME heavy = << >> PROVE large = {}
    BY <1>1, <1>4, <2>2
  <2>3. ASSUME NEW x, out = <<x>> PROVE new \subseteq {x}
    <3>1. wire'[q] = wire[q] \o <<x>>
      BY <1>1, <2>3
    <3>2. Packets(wire'[q]) = Packets(wire[q]) \cup {x}
      BY <1>4, <3>1
    <3>. QED
      BY <3>2
  <2>4. ASSUME NEW x, heavy = <<x>> PROVE large \subseteq {x}
    <3>1. bulk'[q] = bulk[q] \o <<x>>
      BY <1>1, <2>4
    <3>2. Packets(bulk'[q]) = Packets(bulk[q]) \cup {x}
      BY <1>4, <3>1
    <3>. QED
      BY <3>2
  <2>5. /\ out = << >> => new = {}
        /\ heavy = << >> => large = {}
        /\ \A x : out = <<x>> => new \subseteq {x}
        /\ \A x : heavy = <<x>> => large \subseteq {x}
    BY <2>1, <2>2, <2>3, <2>4
  <2>. HIDE DEF new, large
  <2>6. CASE Says(p, out) /\ heavy = << >>
    <3>1. CASE out = << >>
      BY <2>5, <2>6, <3>1
    <3>2. CASE out # << >>
      <4>1. PICK x : /\ out = <<x>> /\ x.type # "response"
                     /\ x.type = "cancel" => peer[p].calls # << >>
        BY <2>6, <3>2 DEF Says
      <4>2. new \subseteq {x} /\ large = {}
        BY <2>5, <2>6, <4>1
      <4>. QED
        BY <4>1, <4>2
    <3>. QED
      BY <3>1, <3>2
  <2>7. CASE Serves(p, w, out, heavy)
    <3>1. Head(wire[p]) \in Asked(wire[p])
      <4>1. Head(wire[p]) \in Packets(wire[p])
        BY <1>2, <2>7, TakenQueue DEF Serves
      <4>. QED
        BY <2>7, <4>1 DEF Serves, Asked
    <3>2. PICK x : /\ Replies(Head(wire[p]), x)
                   /\ \/ out = <<x>> /\ heavy = << >>
                      \/ x.kind = "range" /\ out = << >> /\ heavy = <<x>>
      BY <2>7 DEF Serves
    <3>3. x.type = "response" /\ \E h \in Asked(wire[p]) : x.to = h.id /\ x.kind = h.kind
      BY <3>1, <3>2 DEF Replies
    <3>4. CASE out = <<x>> /\ heavy = << >>
      BY <2>5, <3>3, <3>4
    <3>5. CASE x.kind = "range" /\ out = << >> /\ heavy = <<x>>
      BY <2>5, <3>3, <3>5
    <3>. QED
      BY <3>2, <3>4, <3>5
  <2>. QED
    BY <2>6, <2>7 DEF Moved
<1>. QED
  BY <1>5, <1>6 DEF Answers, q

LEMMA OwnFewer ==
  ASSUME NEW s, NEW tokens, OwnOk(s, tokens), NEW later \in SUBSET tokens
  PROVE  OwnOk(s, later)
  BY DEF OwnOk

LEMMA OwnReturns ==
  ASSUME NEW s, NEW t, NEW tokens, OwnOk(s, tokens), CallsTyped(s), Returning(s, t)
  PROVE  OwnOk(t, tokens)
<1>. DEFINE c == Top(s)
<1>1. s.calls # << >> /\ s.slot[c.kind].to = c.id /\ s.slot[c.kind].result # << >>
  BY DEF Returning, HasResult
<1>2. PICK r : /\ Pops(s, t, r)
               /\ r.status = s.slot[c.kind].result[1].status
               /\ r.of = s.slot[c.kind].result[1].of
  BY DEF Returning
<1>3. c.kind \in Kinds
  BY <1>1, TopTyped
<1>4. r.status = "Ok" => r.of = c.id
  <2>1. CASE c.kind # "read"
    BY <1>1, <1>2, <1>3, <2>1 DEF OwnOk
  <2>2. CASE c.kind = "read"
    <3>1. Len(s.calls) \in 1 .. Len(s.calls) /\ c = s.calls[Len(s.calls)]
      BY <1>1 DEF CallsTyped, IsQueue, Top
    <3>. QED
      BY <1>1, <1>2, <2>2, <3>1 DEF OwnOk, Succeeds
  <2>. QED
    BY <2>1, <2>2
<1>. QED
  BY <1>1, <1>2, <1>4, OwnPops

LEMMA OwnGivesUp ==
  ASSUME NEW s, NEW t, NEW tokens, OwnOk(s, tokens), NestedOk(s), CallsTyped(s),
         GivingUp(s, t)
  PROVE  OwnOk(t, tokens)
<1>. DEFINE c == Top(s)
            ids == {i \in DOMAIN s.pending : i <= c.id}
<1>1. s.calls # << >>
  BY DEF GivingUp
<1>2. PICK u, r : Ends(s, u, ids, "Timeout") /\ Pops(u, t, r) /\ r.status = "Timeout"
  BY DEF GivingUp
<1>3. c.id \in Nat
  <2>1. Len(s.calls) \in 1 .. Len(s.calls)
    BY <1>1 DEF CallsTyped, IsQueue
  <2>. QED
    BY <2>1, CallCount DEF Top, NestedOk
<1>4. DOMAIN s.pending \subseteq Nat
  BY CallCount DEF NestedOk, NestOk, CallIds
<1>5. \A i \in ids, j \in DOMAIN s.pending \ ids : i < j
  BY <1>3, <1>4
<1>6. ids \in SUBSET DOMAIN s.pending /\ "Timeout" # "Ok"
  OBVIOUS
<1>. HIDE DEF ids
<1>7. OwnOk(u, tokens)
  BY <1>2, <1>5, <1>6, OwnEnds
<1>8. u.calls = s.calls
  BY <1>2 DEF Ends, SameCalls
<1>9. CallsTyped(u) /\ u.calls # << >>
  BY <1>1, <1>8 DEF CallsTyped
<1>10. r.status # "Ok"
  BY <1>2
<1>. QED
  BY <1>2, <1>7, <1>9, <1>10, OwnPops

LEMMA OwnTurns ==
  ASSUME Inv, NestInv, NEW p \in Peers, Silent(p), NEW t, NEW out, Turns(p, t, out),
         NEW tokens, OwnOk(peer[p], tokens)
  PROVE  OwnOk(t, tokens)
<1>. DEFINE s == peer[p]
<1>1. CallsTyped(s) /\ NestedOk(s)
  BY SideFacts
<1>2. CASE Kept(s, t)
  BY <1>2, OwnKept
<1>3. CASE EndsOldest(s, t)
  BY <1>1, <1>3, OwnEnds DEF EndsOldest
<1>4. CASE CalledOff(p, t)
  BY <1>4 DEF CalledOff, Silent
<1>5. CASE Failing(p, t)
  <2>1. PICK k, r : r.status # "Ok" /\ Fails(s, t, k, r)
    BY <1>5 DEF Failing
  <2>. QED
    BY <1>1, <2>1, OwnFails
<1>6. CASE Blocking(p, t, out)
  BY <1>1, <1>6, OwnBlocks DEF Blocking
<1>7. CASE Returning(s, t)
  BY <1>1, <1>7, OwnReturns
<1>8. CASE GivingUp(s, t)
  BY <1>1, <1>8, OwnGivesUp
<1>. QED
  BY <1>2, <1>3, <1>4, <1>5, <1>6, <1>7, <1>8 DEF Turns

(* An answer to a read came over small_data, where every packet that        *)
(* follows it is for a younger request.                                     *)
LEMMA OwnHearing ==
  ASSUME Inv, NestInv, NEW p \in Peers, OwnInv(p), NEW t, NEW w, NEW v, NEW out, NEW heavy,
         Moved(p, t, w, v, out, heavy), Hearing(p, t, w, v, out)
  PROVE  OwnOk(t, Tokens(p)')
<1>. DEFINE s == peer[p]
            q == Other(p)
            later == Tokens(p)'
<1>1. /\ NestedOk(s) /\ OrderOk(p) /\ OwnOk(s, Tokens(p))
      /\ IsQueue(wire[p]) /\ IsQueue(bulk[p])
  BY SideFacts DEF NestInv, OwnInv
<1>2. PICK m : /\ m.type = "response" /\ Takes(p, m, w, v)
               /\ IF m.to \in DOMAIN s.pending
                  THEN Hears(s, t, m.to, m.status) ELSE Notes(s, t, m.to)
               /\ \A x : out # <<x>> \/ x.type # "request"
  BY DEF Hearing
<1>3. /\ m \in Answers(wire[p]) \cup Answers(bulk[p]) /\ PacketOk(p, m)
      /\ m.to \in Tokens(p) /\ m.to \notin later /\ later \in SUBSET Tokens(p)
      /\ m.to \in 1 .. s.nextId - 1
  BY <1>2, TakenAnswer
<1>4. /\ wire'[p] = w /\ bulk'[p] = v
      /\ \A x \in Asked(wire'[q]) : x \in Asked(wire[q])
  <2>1. \A x \in Asked(wire'[q]) : x \in Asked(wire[q]) \/ out = <<x>>
    BY AskerPackets
  <2>2. \A x \in Asked(wire'[q]) : x.type = "request"
    BY DEF Asked
  <2>. QED
    BY <1>2, <2>1, <2>2 DEF Moved, Moves
<1>5. later = {n.id : n \in Asked(wire'[q])} \cup {n.to : n \in Answers(w) \cup Answers(v)}
  BY <1>4 DEF Tokens
<1>. HIDE DEF later
<1>6. OwnOk(t, later)
  <2>1. CASE m.to \notin DOMAIN s.pending
    BY <1>1, <1>2, <1>3, <2>1, OwnNotes, OwnFewer
  <2>2. CASE m.to \in DOMAIN s.pending
    <3>1. ASSUME s.pending[m.to].kind = "read",
                 NEW n \in 1 .. Len(s.calls), s.calls[n].kind = "read",
                 s.calls[n].id \in later
          PROVE  ~ (s.calls[n].id < m.to)
      <4>1. m.kind = "read"
        BY <1>2, <1>3, <2>2, <3>1 DEF PacketOk, ResponseOk
      <4>2. m \notin Answers(bulk[p])
        BY <4>1 DEF OwnInv, KindsOk
      <4>3. wire[p] # << >> /\ m = Head(wire[p]) /\ w = Tail(wire[p]) /\ v = bulk[p]
        <5>1. Ascending(bulk[p])
          BY DEF Inv, QueuesOk
        <5>2. bulk[p] # << >> => Head(bulk[p]) \in Packets(bulk[p])
          BY <1>1, <5>1, TakenQueue
        <5>. QED
          BY <1>2, <4>2, <5>2 DEF Takes, Answers
      <4>4. m.to \in Nat /\ s.calls[n].id \in Nat
        <5>1. s.calls[n].id \in Nat
          BY <1>1, CallCount DEF NestedOk
        <5>2. s.nextId \in Nat
          BY <1>1, KnownIds
        <5>. QED
          BY <1>3, <5>1, <5>2
      <4>5. ASSUME NEW x \in Asked(wire'[q]), s.calls[n].id = x.id
            PROVE  m.to < s.calls[n].id
        BY <1>1, <1>3, <1>4, <4>5 DEF OrderOk
      <4>6. ASSUME NEW x \in Answers(w), s.calls[n].id = x.to
            PROVE  m.to < s.calls[n].id
        BY <1>1, <1>2, <4>3, <4>6, TakenRising DEF OrderOk, Answers
      <4>7. ASSUME NEW x \in Answers(v), s.calls[n].id = x.to
            PROVE  FALSE
        <5>1. x.kind = "range" /\ x.kind = s.calls[n].kind
          BY <4>3, <4>7 DEF OwnInv, KindsOk
        <5>. QED
          BY <3>1, <5>1
      <4>8. m.to < s.calls[n].id
        BY <1>5, <3>1, <4>5, <4>6, <4>7
      <4>. QED
        BY <4>4, <4>8
    <3>2. Hears(s, t, m.to, m.status)
      BY <1>2, <2>2
    <3>. QED
      BY <1>1, <1>3, <2>2, <3>1, <3>2, OwnHears
  <2>. QED
    BY <2>1, <2>2
<1>. QED
  BY <1>6 DEF later

(* The calls that block after a step were blocked before, or one is new. *)
LEMMA CallsAfter ==
  ASSUME Inv, NestInv, NEW p \in Peers, NEW t, NEW w, NEW v, NEW out,
         Turns(p, t, out) \/ Hearing(p, t, w, v, out), NEW n \in 1 .. Len(t.calls)
  PROVE  \/ n \in 1 .. Len(peer[p].calls) /\ t.calls[n] = peer[p].calls[n]
         \/ /\ t.calls[n].id = peer[p].nextId
            /\ \A x : out = <<x>> => x.kind = t.calls[n].kind
<1>. DEFINE s == peer[p]
<1>1. CallsTyped(s)
  BY SideFacts
<1>2. Len(s.calls) \in Nat
  BY <1>1 DEF CallsTyped, IsQueue
<1>4. CASE t.calls = s.calls
  BY <1>4
<1>5. CASE s.calls # << >> /\ t.calls = SubSeq(s.calls, 1, Len(s.calls) - 1)
  BY <1>1, <1>5 DEF CallsTyped, IsQueue
<1>6. ASSUME NEW c, t.calls = Append(s.calls, c), c.id = s.nextId,
             \A x : out = <<x>> => x.kind = c.kind
      PROVE  \/ n \in 1 .. Len(s.calls) /\ t.calls[n] = s.calls[n]
             \/ /\ t.calls[n].id = s.nextId
                /\ \A x : out = <<x>> => x.kind = t.calls[n].kind
  <2>1. /\ Len(t.calls) = Len(s.calls) + 1 /\ t.calls[Len(s.calls) + 1] = c
        /\ \A i \in 1 .. Len(s.calls) : t.calls[i] = s.calls[i]
    BY <1>1, <1>6 DEF CallsTyped, IsQueue
  <2>2. n = Len(s.calls) + 1 \/ n \in 1 .. Len(s.calls)
    BY <1>2, <2>1
  <2>. QED
    BY <1>6, <2>1, <2>2
<1>7. \/ t.calls = s.calls
      \/ s.calls # << >> /\ t.calls = SubSeq(s.calls, 1, Len(s.calls) - 1)
      \/ \E c : /\ t.calls = Append(s.calls, c) /\ c.id = s.nextId
                /\ \A x : out = <<x>> => x.kind = c.kind
  <2>1. CASE Kept(s, t) \/ EndsOldest(s, t) \/ CalledOff(p, t)
    BY <2>1 DEF Kept, EndsOldest, CalledOff, Ends, SameCalls
  <2>2. CASE Failing(p, t)
    BY <2>2 DEF Failing, Fails
  <2>3. CASE Blocking(p, t, out)
    BY <2>3 DEF Blocking, Blocks
  <2>4. CASE Returning(s, t)
    BY <2>4 DEF Returning, Pops
  <2>5. CASE GivingUp(s, t)
    BY <2>5 DEF GivingUp, Pops, Ends, SameCalls
  <2>6. CASE Hearing(p, t, w, v, out)
    BY <2>6 DEF Hearing, Hears, Notes, SameCalls
  <2>. QED
    BY <2>1, <2>2, <2>3, <2>4, <2>5, <2>6 DEF Turns
<1>. QED
  BY <1>4, <1>5, <1>6, <1>7

LEMMA AskerOwn ==
  ASSUME Inv, NestInv, NEW p \in Peers, OwnInv(p), Stepped(p)
  PROVE  OwnInv(p)'
<1>. DEFINE s == peer[p]
            q == Other(p)
<1>1. /\ NestedOk(s) /\ OrderOk(p) /\ OwnOk(s, Tokens(p)) /\ Silent(p) /\ KindsOk(p)
      /\ QueuesOk(p) /\ QueuesOk(q) /\ s.nextId \in Nat /\ s.nextId # 0
      /\ q \in Peers /\ q # p /\ Other(q) = p /\ DOMAIN peer = Peers
  BY SideFacts, KnownIds, OtherSide DEF Inv, NestInv, OwnInv
<1>2. PICK t, w, v, out, heavy : /\ Moved(p, t, w, v, out, heavy)
                                 /\ Turns(p, t, out) \/ Hearing(p, t, w, v, out)
  BY DEF Stepped
<1>3. peer'[p] = t /\ peer'[q] = peer[q]
  BY <1>1, <1>2 DEF Moved, Moves
<1>4. /\ Packets(wire'[p]) \subseteq Packets(wire[p])
      /\ Answers(wire'[p]) \subseteq Answers(wire[p])
      /\ Answers(bulk'[p]) \subseteq Answers(bulk[p])
      /\ \A m \in Asked(wire'[q]) :
           m \in Asked(wire[q]) \/ (out = <<m>> /\ m.id = s.nextId)
  BY <1>2, AskerPackets
<1>5. OwnOk(t, Tokens(p)')
  <2>. DEFINE later == Tokens(p)'
  <2>1. Adds(p, out)
    BY <1>2, MovedAdds
  <2>2. later \in SUBSET (Tokens(p) \cup {s.nextId})
    BY <1>1, <1>2, <2>1, AskerOrder DEF Moved
  <2>. HIDE DEF later
  <2>3. OwnOk(s, later)
    BY <1>1, <2>2, OwnNarrows
  <2>4. CASE Turns(p, t, out)
    <3>1. OwnOk(t, later)
      BY <1>1, <2>3, <2>4, OwnTurns
    <3>. QED
      BY <3>1 DEF later
  <2>5. CASE Hearing(p, t, w, v, out)
    BY <1>2, <2>5, OwnHearing
  <2>. QED
    BY <1>2, <2>4, <2>5
<1>6. /\ \A m \in Asked(wire[q]) : m.id # s.nextId
      /\ \A m \in Answers(wire[p]) \cup Answers(bulk[p]) : m.to # s.nextId
  <2>1. \A m \in Asked(wire[q]) : m.id \in Nat /\ m.id < s.nextId
    BY <1>1 DEF QueuesOk, PacketOk, RequestOk, Asked
  <2>2. \A m \in Answers(wire[p]) \cup Answers(bulk[p]) : m.to \in Nat /\ m.to < s.nextId
    BY <1>1 DEF QueuesOk, PacketOk, ResponseOk, Answers
  <2>. QED
    BY <1>1, <2>1, <2>2
<1>7. ASSUME NEW n \in 1 .. Len(t.calls)
      PROVE  /\ \A m \in Asked(wire'[q]) : m.id = t.calls[n].id => m.kind = t.calls[n].kind
             /\ \A m \in Answers(wire'[p]) \cup Answers(bulk'[p]) :
                  m.to = t.calls[n].id => m.kind = t.calls[n].kind
  <2>1. CASE n \in 1 .. Len(s.calls) /\ t.calls[n] = s.calls[n]
    <3>1. s.calls[n].id # s.nextId
      <4>1. s.calls[n].id \in CallIds(s)
        BY <2>1 DEF CallIds
      <4>. QED
        BY <1>1, <4>1, KnownIds
    <3>. QED
      BY <1>1, <1>4, <2>1, <3>1 DEF KindsOk
  <2>2. CASE t.calls[n].id = s.nextId /\ \A x : out = <<x>> => x.kind = t.calls[n].kind
    BY <1>4, <1>6, <2>2
  <2>3. \/ n \in 1 .. Len(s.calls) /\ t.calls[n] = s.calls[n]
        \/ t.calls[n].id = s.nextId /\ \A x : out = <<x>> => x.kind = t.calls[n].kind
    BY <1>2, CallsAfter
  <2>. QED
    BY <2>1, <2>2, <2>3
<1>8. KindsOk(p)'
  <2>1. \A m \in Answers(bulk'[p]) : m.kind = "range"
    BY <1>1, <1>4 DEF KindsOk
  <2>. QED
    BY <1>3, <1>7, <2>1 DEF KindsOk
<1>9. Silent(p)'
  BY <1>1, <1>3, <1>4 DEF Silent
<1>. QED
  BY <1>3, <1>5, <1>8, <1>9 DEF OwnInv

(* The side that makes no calls only answers. *)
LEMMA ServerOwn ==
  ASSUME Inv, NestInv, NEW q \in Peers, MaxCalls[q] = 0, OwnInv(Other(q)), Stepped(q)
  PROVE  OwnInv(Other(q))'
<1>. DEFINE p == Other(q)
            s == peer[q]
<1>1. /\ p \in Peers /\ p # q /\ Other(p) = q /\ DOMAIN peer = Peers
      /\ OrderOk(p)
  BY OtherSide DEF Inv, NestInv
<1>2. OwnOk(peer[p], Tokens(p)) /\ KindsOk(p) /\ Silent(p)
  BY DEF OwnInv
<1>3. s.calls = << >> /\ s.nextId = 1 /\ \A m \in Packets(wire[p]) : m.type # "cancel"
  BY <1>1, <1>2 DEF Silent
<1>4. PICK t, w, v, out, heavy : /\ Moved(q, t, w, v, out, heavy)
                                 /\ Turns(q, t, out) \/ Hearing(q, t, w, v, out)
  BY DEF Stepped
<1>5. peer'[q] = t /\ peer'[p] = peer[p]
  BY <1>1, <1>4 DEF Moved, Moves
<1>6. /\ Asked(wire'[q]) \subseteq Asked(wire[q])
      /\ \A m \in Answers(wire'[p]) :
           \/ m \in Answers(wire[p])
           \/ \E h \in Asked(wire[q]) : m.to = h.id /\ m.kind = h.kind
      /\ \A m \in Answers(bulk'[p]) :
           \/ m \in Answers(bulk[p])
           \/ m.kind = "range" /\ \E h \in Asked(wire[q]) : m.to = h.id /\ m.kind = h.kind
      /\ \A m \in Packets(wire'[p]) :
           m \in Packets(wire[p]) \/ (m.type = "cancel" => s.calls # << >>)
  BY <1>4, ServerPackets
<1>7. Tokens(p)' \in SUBSET Tokens(p)
  BY <1>1, <1>4, ServerOrder DEF Moved
<1>. HIDE DEF p
<1>8. OwnOk(peer[p], Tokens(p)')
  <2>. DEFINE later == Tokens(p)'
  <2>1. later \in SUBSET Tokens(p)
    BY <1>7
  <2>. HIDE DEF later
  <2>2. OwnOk(peer[p], later)
    BY <1>2, <2>1, OwnFewer
  <2>. QED
    BY <2>2 DEF later
<1>9. KindsOk(p)'
  <2>1. \A m \in Answers(bulk'[p]) : m.kind = "range"
    BY <1>2, <1>6 DEF KindsOk
  <2>2. ASSUME NEW n \in 1 .. Len(peer[p].calls)
        PROVE  /\ \A m \in Asked(wire'[q]) :
                    m.id = peer[p].calls[n].id => m.kind = peer[p].calls[n].kind
               /\ \A m \in Answers(wire'[p]) \cup Answers(bulk'[p]) :
                    m.to = peer[p].calls[n].id => m.kind = peer[p].calls[n].kind
    BY <1>1, <1>2, <1>6 DEF KindsOk
  <2>. QED
    BY <1>1, <1>5, <2>1, <2>2 DEF KindsOk
<1>10. t.calls = << >> /\ t.nextId = 1
  <2>1. CASE Kept(s, t) \/ EndsOldest(s, t) \/ CalledOff(q, t)
    BY <1>3, <2>1 DEF Kept, EndsOldest, CalledOff, Ends, SameCalls
  <2>2. ~ Failing(q, t) /\ ~ Blocking(q, t, out)
    BY <1>3 DEF Failing, Blocking
  <2>3. ~ Returning(s, t) /\ ~ GivingUp(s, t)
    BY <1>3 DEF Returning, GivingUp
  <2>4. CASE Hearing(q, t, w, v, out)
    BY <1>3, <2>4 DEF Hearing, Hears, Notes, SameCalls
  <2>. QED
    BY <1>4, <2>1, <2>2, <2>3, <2>4 DEF Turns
<1>11. Silent(p)'
  BY <1>1, <1>3, <1>5, <1>6, <1>10 DEF Silent
<1>. QED
  BY <1>5, <1>8, <1>9, <1>11 DEF OwnInv, p

LEMMA LoseOwn ==
  ASSUME NEW p \in Peers, OwnInv(p), Lose
  PROVE  OwnInv(p)'
<1>1. /\ peer' = peer /\ wire'[p] = << >> /\ bulk'[p] = << >> /\ wire'[Other(p)] = << >>
  BY OtherSide DEF Lose
<1>2. Tokens(p)' = {} /\ Packets(wire'[p]) = {}
  BY <1>1, NoPackets, EmptyQueue DEF Tokens
<1>3. OwnOk(peer[p], {})
  BY OwnFewer DEF OwnInv
<1>4. KindsOk(p)'
  BY <1>1, NoPackets DEF KindsOk
<1>5. Silent(p)'
  BY <1>1, <1>2 DEF Silent, OwnInv
<1>. QED
  BY <1>1, <1>2, <1>3, <1>4, <1>5 DEF OwnInv

LEMMA InitOwn == ASSUME NEW p \in Peers, Init PROVE OwnInv(p)
<1>1. /\ wire[p] = << >> /\ bulk[p] = << >> /\ wire[Other(p)] = << >>
      /\ peer[Other(p)].calls = << >> /\ peer[Other(p)].nextId = 1
  BY OtherSide DEF Init
<1>2. PICK s : s = peer[p]
  OBVIOUS
<1>3. /\ s.calls = << >> /\ s.done = << >>
      /\ s.slot = [k \in Kinds |-> [to |-> 0, result |-> << >>]]
  BY <1>2 DEF Init
<1>4. OwnOk(s, Tokens(p))
  BY <1>3 DEF OwnOk
<1>5. KindsOk(p)
  BY <1>1, <1>2, <1>3, NoPackets DEF KindsOk
<1>6. Silent(p)
  BY <1>1, EmptyQueue DEF Silent
<1>. QED
  BY <1>2, <1>4, <1>5, <1>6 DEF OwnInv

LEMMA NextOwn ==
  ASSUME NEW p \in Peers, MaxCalls[Other(p)] = 0, Inv, NestInv, OwnInv(p), [Next]_vars
  PROVE  OwnInv(p)'
<1>1. CASE UNCHANGED <<peer, wire, bulk>>
  BY <1>1 DEF OwnInv, KindsOk, Silent, Tokens
<1>2. ASSUME Stepped(Other(p)) PROVE OwnInv(p)'
  <2>1. PICK q \in Peers : q = Other(p) /\ Other(q) = p
    BY OtherSide
  <2>. QED
    BY <1>2, <2>1, ServerOwn
<1>3. ASSUME NEW q \in Peers, Stepped(q) PROVE OwnInv(p)'
  BY <1>2, <1>3, AskerOwn, OtherSide
<1>. QED
  BY <1>1, <1>3, NextStep, LoseOwn

(***************************************************************************)
(* What holds of every behaviour                                            *)
(***************************************************************************)

(* Between two sides, over both channels and inside nested pastes, the      *)
(* requests, results, reservations and packets fit together as the handlers *)
(* of ClipboardModuleBase need them to.                                     *)
THEOREM ClipboardInvariant == Spec => []Inv
  BY InitInv, NextInv, PTL DEF Spec

(* The offer registry never holds two entries under one number, nor a       *)
(* retired entry that nobody has locked (ClipboardObjectRegistry store,     *)
(* clearOffer, unlockObject, releaseAllLocks).                              *)
THEOREM RegistryStaysSound == Spec => []RegistryIsSound
<1>1. Inv => RegistryIsSound
  BY DEF Inv, SideOk, Sound, RegistryIsSound
<1>. QED
  BY <1>1, ClipboardInvariant, PTL

(* The bytes in flight over large_data are those of the responses that wait *)
(* for an acknowledgement, whatever is late, stopped or lost, and they stay *)
(* within the window (sendFileRangeResponse, handleLargeDataAck,            *)
(* releaseAllLargeDataReservations).                                        *)
THEOREM WindowIsExact == Spec => []WindowMatchesReservations
<1>1. Inv => WindowMatchesReservations
  BY DEF Inv, SideOk, WindowOk, WindowMatchesReservations
<1>. QED
  BY <1>1, ClipboardInvariant, PTL

(* A remote read, range or lock that succeeds was permitted by the policy   *)
(* of the side that asked and by that of the side that answered             *)
(* (requestRemoteRead and its siblings, readLocal, readLocalFileRange).     *)
THEOREM SuccessIsPermitted == Spec => []ContentRespectsPolicy
<1>1. Inv => ContentRespectsPolicy
  BY DEF Inv, SideOk, ResultsOk, Permitted, MayAsk, MayServe, ContentRespectsPolicy
<1>. QED
  BY <1>1, ClipboardInvariant, PTL

(* Requests that wait belong to calls that block, and for a request that    *)
(* has been answered no packet is on its way any more.                      *)
THEOREM NestingInvariant == Spec => []NestInv
  BY InitNest, NextNest, ClipboardInvariant, PTL DEF Spec

(* A paste whose own request has ended, however it ended and inside         *)
(* whatever other pastes, finds the result or leaves its loop (the loop of  *)
(* readRemoteFormat and its siblings, pendingReadCount()).                  *)
THEOREM PastesDoNotSpin == Spec => []PasteNeverSpins
<1>1. Inv /\ NestInv => PasteNeverSpins
  <2>. SUFFICES ASSUME Inv, NestInv, NEW p \in Peers, peer[p].calls # << >>,
                       Top(peer[p]).id \notin DOMAIN peer[p].pending
                PROVE  StopsEarly(peer[p], Top(peer[p]))
    BY DEF PasteNeverSpins
  <2>1. CallsTyped(peer[p]) /\ NestOk(peer[p])
    BY SideFacts DEF NestedOk
  <2>. QED
    BY <2>1, TopStops
<1>. QED
  BY <1>1, ClipboardInvariant, NestingInvariant, PTL

(* A paste that times out although its answer had arrived has shared the    *)
(* place where answers are noted with another paste, or follows one that    *)
(* failed and whose answer came late (lastReadResponseTo).                  *)
THEOREM AnswersAreLostOnlyToOverlap == Spec => []AnswerLostOnlyToOverlap
<1>1. NestInv => AnswerLostOnlyToOverlap
  BY DEF NestInv, NestedOk, OverlapOk, Excused, AnswerLostOnlyToOverlap
<1>. QED
  BY <1>1, NestingInvariant, PTL

(* When only one side pastes, a remote call that succeeds hands over the    *)
(* answer to its own request, however late other answers come and however   *)
(* its pastes nest (handleReadResponse, the loop of readRemoteFormat).      *)
THEOREM OneSideReadsItsOwn ==
  ASSUME NEW p \in Peers, MaxCalls[Other(p)] = 0
  PROVE  Spec => []ReadReturnsOwnContent
<1>1. Init => OwnInv(p)
  BY InitOwn
<1>2. Inv /\ NestInv /\ OwnInv(p) /\ [Next]_vars => OwnInv(p)'
  BY NextOwn
<1>3. Inv /\ NestInv /\ OwnInv(p) => ReadReturnsOwnContent
  <2>. SUFFICES ASSUME Inv, NestInv, OwnInv(p) PROVE ReadReturnsOwnContent
    OBVIOUS
  <2>. DEFINE q == Other(p)
  <2>1. NestedOk(peer[q]) /\ peer[q].nextId = 1 /\ Peers = {p, q}
    BY OtherSide DEF NestInv, OwnInv, Silent
  <2>2. DOMAIN peer[q].done = {}
    BY <2>1 DEF NestedOk, CallsOk
  <2>3. \A i \in DOMAIN peer[p].done : peer[p].done[i].status = "Ok" => peer[p].done[i].of = i
    BY DEF OwnInv, OwnOk
  <2>. QED
    BY <2>1, <2>2, <2>3 DEF ReadReturnsOwnContent
<1>. QED
  BY <1>1, <1>2, <1>3, ClipboardInvariant, NestingInvariant, PTL DEF Spec
=============================================================================
