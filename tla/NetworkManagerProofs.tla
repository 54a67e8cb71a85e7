------------------------ MODULE NetworkManagerProofs ------------------------
(***************************************************************************)
(* Theorems about network::NetworkManager for any channels, links, packet   *)
(* types, depth limits and any number of packets and table changes.         *)
(***************************************************************************)
EXTENDS NetworkManager, FiniteSetTheorems, WellFoundedInduction, TLAPS

-----------------------------------------------------------------------------
(* Packets and the queue. *)

LEMMA DepthIsPositive ==
  ASSUME NEW type PROVE MaxQueueDepth(type) \in Nat \ {0}
BY NetworkAssumption DEF MaxQueueDepth

LEMMA RealtimeIsVideo ==
  ASSUME NEW p, NEW type, Priority(p) = Priority(type), KeepsLatestNonKeyFrame(type)
  PROVE  p = "Video" /\ type = "Video"
BY DEF Priority, KeepsLatestNonKeyFrame, CriticalType, InteractiveType, BulkType

(* A non-empty set of packets has a first one. *)
LEMMA OldestExists ==
  ASSUME NEW S \in SUBSET Packet, S # {}
  PROVE  Oldest(S) \in S /\ \A o \in S : Oldest(S).seq <= o.seq
<1> DEFINE N == {p.seq : p \in S}
<1> DEFINE Less == {ss \in Nat \X Nat : ss[1] < ss[2]}
<1>1. N \subseteq Nat /\ N # {}
  BY DEF Packet
<1>5. IsWellFoundedOn(Less, Nat)
  BY NatLessThanWellFounded, Zenon DEF OpToRel
<1> HIDE DEF N
<1>2. PICK n \in N : \A m \in N : ~(<<m, n>> \in Less)
  <2> HIDE DEF Less
  <2> QED BY <1>1, <1>5, WFMin, Zenon
<1>3. ASSUME NEW m \in N PROVE n <= m
  <2>1. m \in Nat /\ n \in Nat
    BY <1>1
  <2>2. <<m, n>> \in Less <=> m < n
    BY <2>1
  <2>3. ~(<<m, n>> \in Less)
    BY <1>2
  <2> HIDE DEF Less
  <2> QED BY <2>1, <2>2, <2>3
<1> USE DEF N
<1>4. \E p \in S : \A o \in S : p.seq <= o.seq
  BY <1>2, <1>3
<1> QED BY <1>4 DEF Oldest

LEMMA QueuedOnCount ==
  ASSUME NEW q, IsFiniteSet(q), NEW key
  PROVE  /\ IsFiniteSet(QueuedOn(q, key))
         /\ Cardinality(QueuedOn(q, key)) \in Nat
<1>1. QueuedOn(q, key) \subseteq q
  BY DEF QueuedOn
<1> QED BY <1>1, FS_Subset, FS_CardinalityType

LEMMA WithinDepthCount ==
  ASSUME NEW q, IsFiniteSet(q), NEW key, NEW d
  PROVE  /\ IsFiniteSet(WithinDepth(q, key, d))
         /\ Cardinality(WithinDepth(q, key, d)) \in Nat
         /\ Cardinality(WithinDepth(q, key, d)) <= Cardinality(QueuedOn(q, key))
<1>1. WithinDepth(q, key, d) \subseteq QueuedOn(q, key)
  BY DEF WithinDepth, QueuedOn
<1> QED BY <1>1, QueuedOnCount, FS_Subset, FS_CardinalityType

(* Taking packets out of the queue never lengthens any part of it. *)
LEMMA WithinDepthShrinks ==
  ASSUME NEW q, IsFiniteSet(q), NEW r \in SUBSET q, NEW key, NEW d
  PROVE  Cardinality(WithinDepth(r, key, d)) <= Cardinality(WithinDepth(q, key, d))
<1>1. WithinDepth(r, key, d) \subseteq WithinDepth(q, key, d)
  BY DEF WithinDepth
<1> QED BY <1>1, WithinDepthCount, FS_Subset

LEMMA UpdatePressureType ==
  ASSUME TypeOK, NEW key, NEW q, IsFiniteSet(q), NEW d \in Nat,
         UpdatePressure(key, q, d)
  PROVE  /\ DOMAIN entries' = DOMAIN entries
         /\ entries' \in [DOMAIN entries -> Entry]
         /\ \A k \in DOMAIN entries :
              /\ entries'[k].state = entries[k].state
              /\ entries'[k].ready = entries[k].ready
              /\ entries'[k].bound = entries[k].bound
              /\ entries'[k].channel = entries[k].channel
              /\ k # key => entries'[k].queuedPackets = entries[k].queuedPackets
              /\ k = key => entries'[k].queuedPackets = Cardinality(QueuedOn(q, key))
<1> DEFINE count == Cardinality(QueuedOn(q, key))
<1>1. count \in Nat
  BY QueuedOnCount
<1>2. Level(count, d) \in PressureLevel
  BY DEF Level, PressureLevel
<1>3. CASE key \in DOMAIN entries
  <2>1. entries' = [entries EXCEPT ![key].queuedPackets = count, ![key].level = Level(count, d)]
    BY <1>3 DEF UpdatePressure
  <2> QED BY <2>1, <1>1, <1>2, <1>3 DEF TypeOK, Entry
<1>4. CASE key \notin DOMAIN entries
  BY <1>4 DEF UpdatePressure, TypeOK
<1> QED BY <1>3, <1>4
-----------------------------------------------------------------------------
(* Type correctness. *)

LEMMA InitType == Init => TypeOK
BY FS_EmptySet DEF Init, TypeOK

LEMMA EntryType ==
  ASSUME NEW e \in Entry
  PROVE  /\ Unbound(e) \in Entry
         /\ MadeReady(e) \in Entry
         /\ MadeDegraded(e) \in Entry
         /\ MadeFailed(e) \in Entry
BY DEF Entry, Unbound, MadeReady, MadeDegraded, MadeFailed, ChannelLifecycleState

LEMMA BoundType ==
  ASSUME NEW e \in Entry, NEW link \in Links PROVE Bound(e, link) \in Entry
BY DEF Entry, Bound, ChannelLifecycleState

LEMMA TableKeyType ==
  ASSUME TypeOK, NEW key \in Keys,
         \/ RegisterSpec(key) \/ Unbind(key) \/ MarkReady(key)
         \/ MarkDegraded(key) \/ MarkFailed(key)
  PROVE  TypeOK'
<1> USE DEF ChangesTable
<1>1. /\ queued' = queued /\ nextSeq' = nextSeq /\ changes' \in Nat
      /\ routes' = routes /\ open' = open
  BY DEF TypeOK, RegisterSpec, Unbind, MarkReady, MarkDegraded, MarkFailed
<1>2. CASE RegisterSpec(key)
  <2>1. RegisteredEntry \in Entry
    BY DEF RegisteredEntry, Entry, ChannelLifecycleState, PressureLevel
  <2> QED BY <1>1, <1>2, <2>1 DEF RegisterSpec, TypeOK
<1>3. CASE Unbind(key) \/ MarkReady(key) \/ MarkDegraded(key) \/ MarkFailed(key)
  <2>1. key \in DOMAIN entries /\ entries[key] \in Entry
    BY <1>3 DEF Unbind, MarkReady, MarkDegraded, MarkFailed, TypeOK
  <2>2. \E e \in Entry : entries' = [entries EXCEPT ![key] = e]
    BY <1>3, <2>1, EntryType DEF Unbind, MarkReady, MarkDegraded, MarkFailed, SetEntry
  <2> QED BY <1>1, <2>1, <2>2 DEF TypeOK
<1> QED BY <1>2, <1>3

LEMMA TableLinkType ==
  ASSUME TypeOK, NEW link \in Links,
         BindChannel(link) \/ RebindChannel(link) \/ CloseLink(link)
  PROVE  TypeOK'
<1> USE DEF ChangesTable
<1> DEFINE key == KeyOf[link]
<1>1. /\ queued' = queued /\ nextSeq' = nextSeq /\ changes' \in Nat /\ key \in Keys
  BY NetworkAssumption DEF TypeOK, BindChannel, RebindChannel, CloseLink
<1>2. CASE BindChannel(link) \/ RebindChannel(link)
  <2>1. key \in DOMAIN entries /\ entries[key] \in Entry
    BY <1>2 DEF BindChannel, RebindChannel, TypeOK
  <2>2. Bound(entries[key], link) \in Entry
    BY <2>1, BoundType
  <2>3. \E e \in Entry : entries' = [entries EXCEPT ![key] = e]
    BY <1>2, <2>2, EntryType DEF BindChannel, RebindChannel, SetEntry
  <2>4. open' = open /\ Route(link)
    BY <1>2 DEF BindChannel, RebindChannel
  <2>5. DOMAIN routes' \subseteq Keys /\ routes' \in [DOMAIN routes' -> Links]
    BY <1>1, <2>4 DEF Route, TypeOK
  <2> QED BY <1>1, <2>1, <2>3, <2>4, <2>5 DEF TypeOK
<1>3. CASE CloseLink(link)
  BY <1>1, <1>3 DEF CloseLink, TypeOK
<1> QED BY <1>2, <1>3

(* What the two queue operations do to the queue. *)

LEMMA AcceptEffect ==
  ASSUME TypeOK, NEW key \in Keys, NEW type \in PacketTypes, NEW f \in BOOLEAN,
         Accept(key, type, f)
  PROVE  \E n \in Packet, S \in SUBSET queued :
           /\ n.seq = nextSeq /\ n.key = key /\ n.type = type /\ n \notin queued
           /\ queued' = (queued \ S) \cup {n}
           /\ S = {} => ~IsFull(queued, key, type)
           /\ S # {} => /\ type = "Video"
                        /\ \E v \in queued : /\ S = {v} /\ v.key = key
                                             /\ v.type = "Video" /\ ~v.keyFrame
<1> DEFINE n == [seq |-> nextSeq, key |-> key, type |-> type, keyFrame |-> f]
<1>1. n \in Packet /\ n \notin queued
  BY DEF TypeOK, Packet
<1>2. Admit(key, type, n)
  BY DEF Accept
<1>3. CASE ~IsFull(queued, key, type) /\ queued' = queued \cup {n}
  <2>1. queued' = (queued \ {}) \cup {n}
    BY <1>3
  <2> QED BY <1>1, <1>3, <2>1
<1>4. CASE /\ KeepsLatestNonKeyFrame(type)
           /\ StaleFrames(queued, key, type) # {}
           /\ queued' = (queued \ {Oldest(StaleFrames(queued, key, type))}) \cup {n}
  <2> DEFINE v == Oldest(StaleFrames(queued, key, type))
  <2>1. StaleFrames(queued, key, type) \in SUBSET Packet
    BY DEF StaleFrames, TypeOK
  <2>2. v \in StaleFrames(queued, key, type)
    BY <1>4, <2>1, OldestExists
  <2>3. v \in queued /\ v.key = key /\ ~v.keyFrame /\ Priority(v.type) = Priority(type)
    BY <2>2 DEF StaleFrames
  <2>4. v.type = "Video" /\ type = "Video"
    BY <1>4, <2>3, RealtimeIsVideo
  <2> HIDE DEF v
  <2>5. queued' = (queued \ {v}) \cup {n}
    BY <1>4 DEF v
  <2> QED BY <1>1, <2>3, <2>4, <2>5
<1> QED BY <1>2, <1>3, <1>4 DEF Admit

LEMMA AcceptType ==
  ASSUME TypeOK, NEW key \in Keys, NEW type \in PacketTypes, NEW f \in BOOLEAN,
         Accept(key, type, f), UNCHANGED <<routes, open, changes>>
  PROVE  TypeOK'
<1>1. PICK n \in Packet, S \in SUBSET queued :
        n.seq = nextSeq /\ queued' = (queued \ S) \cup {n}
  BY AcceptEffect
<1>2. IsFiniteSet(queued')
  <2>1. IsFiniteSet(queued \ S)
    BY FS_Subset DEF TypeOK
  <2> QED BY <1>1, <2>1, FS_AddElement
<1>3. MaxQueueDepth(type) \in Nat /\ UpdatePressure(key, queued', MaxQueueDepth(type))
  BY DepthIsPositive DEF Accept
<1>4. DOMAIN entries' = DOMAIN entries /\ entries' \in [DOMAIN entries -> Entry]
  BY <1>2, <1>3, UpdatePressureType
<1>5. nextSeq' = nextSeq + 1
  BY DEF Accept
<1>6. /\ queued' \subseteq Packet
      /\ \A p \in queued' : p.seq < nextSeq'
      /\ \A p, q \in queued' : p.seq = q.seq => p = q
  BY <1>1, <1>5 DEF TypeOK, Packet
<1> QED BY <1>2, <1>4, <1>5, <1>6 DEF TypeOK

LEMMA EnqueueCases ==
  ASSUME NEW key \in Keys, NEW type \in PacketTypes, NEW f \in BOOLEAN, Enqueue(key, type, f)
  PROVE  /\ UNCHANGED <<routes, open, changes>>
         /\ \/ UNCHANGED <<entries, queued, nextSeq>>
            \/ /\ UpdatePressure(key, queued, MaxQueueDepth(type))
               /\ UNCHANGED <<queued, nextSeq>>
            \/ Accept(key, type, f)
BY DEF Enqueue, Refuse, RejectAtLimit

LEMMA FlushEffect ==
  ASSUME TypeOK, NEW p \in queued, Flush(p)
  PROVE  TypeOK' /\ queued' = queued \ {p} /\ UNCHANGED <<routes, nextSeq, changes>>
         /\ UpdatePressure(p.key, queued', 0)
<1>1. /\ queued' = queued \ {p} /\ UNCHANGED <<routes, nextSeq, changes>>
      /\ UpdatePressure(p.key, queued', 0) /\ open' \subseteq Links
  BY DEF Flush, TypeOK
<1>2. IsFiniteSet(queued')
  BY <1>1, FS_RemoveElement DEF TypeOK
<1>3. DOMAIN entries' = DOMAIN entries /\ entries' \in [DOMAIN entries -> Entry]
  BY <1>1, <1>2, UpdatePressureType
<1> QED BY <1>1, <1>2, <1>3 DEF TypeOK

LEMMA FrontIsQueued ==
  ASSUME TypeOK, queued # {} PROVE Front(queued) \in queued
<1> DEFINE F == {p \in queued : \A o \in queued : Priority(p.type) <= Priority(o.type)}
<1> DEFINE Lane(n) == {p \in queued : Priority(p.type) = n}
<1>1. \A p \in queued : Priority(p.type) \in {0, 1, 2, 3, 4}
  BY DEF Priority
<1>2. F # {}
  <2>1. CASE Lane(0) # {} BY <1>1, <2>1
  <2>2. CASE Lane(0) = {} /\ Lane(1) # {} BY <1>1, <2>2
  <2>3. CASE Lane(0) = {} /\ Lane(1) = {} /\ Lane(2) # {} BY <1>1, <2>3
  <2>4. CASE Lane(0) = {} /\ Lane(1) = {} /\ Lane(2) = {} /\ Lane(3) # {} BY <1>1, <2>4
  <2>5. CASE Lane(0) = {} /\ Lane(1) = {} /\ Lane(2) = {} /\ Lane(3) = {} BY <1>1, <2>5
  <2> QED BY <2>1, <2>2, <2>3, <2>4, <2>5
<1>3. F \in SUBSET Packet
  BY DEF TypeOK
<1>4. Oldest(F) \in F
  BY <1>2, <1>3, OldestExists
<1>5. Front(queued) = Oldest(F)
  BY DEF Front
<1> QED BY <1>4, <1>5

LEMMA DrainType ==
  ASSUME TypeOK, NEW key \in Keys, Drain(key) PROVE TypeOK'
<1>1. IsFiniteSet(queued') /\ queued' \subseteq queued
  BY FS_Subset DEF Drain, TypeOK
<1> QED BY <1>1 DEF Drain, TypeOK, channelTable

LEMMA NextCases ==
  ASSUME TypeOK, Next
  PROVE  \/ \E key \in Keys : \/ RegisterSpec(key) \/ Unbind(key) \/ MarkReady(key)
                              \/ MarkDegraded(key) \/ MarkFailed(key)
         \/ \E link \in Links : BindChannel(link) \/ RebindChannel(link) \/ CloseLink(link)
         \/ \E key \in Keys : Drain(key)
         \/ \E key \in Keys, type \in PacketTypes, f \in BOOLEAN : Enqueue(key, type, f)
         \/ \E p \in queued : Flush(p)
BY FrontIsQueued DEF Next, FlushNext, FlushPacket

LEMMA NextType == TypeOK /\ [Next]_vars => TypeOK'
<1> SUFFICES ASSUME TypeOK, [Next]_vars PROVE TypeOK'
  OBVIOUS
<1>1. ASSUME NEW key \in Keys,
             \/ RegisterSpec(key) \/ Unbind(key) \/ MarkReady(key)
             \/ MarkDegraded(key) \/ MarkFailed(key)
      PROVE  TypeOK'
  BY <1>1, TableKeyType
<1>2. ASSUME NEW link \in Links, BindChannel(link) \/ RebindChannel(link) \/ CloseLink(link)
      PROVE  TypeOK'
  BY <1>2, TableLinkType
<1>3. ASSUME NEW key \in Keys, Drain(key) PROVE TypeOK'
  BY <1>3, DrainType
<1>4. ASSUME NEW key \in Keys, NEW type \in PacketTypes, NEW f \in BOOLEAN, Enqueue(key, type, f)
      PROVE  TypeOK'
  <2>1. CASE UNCHANGED <<entries, queued, nextSeq>>
    BY <2>1, <1>4, EnqueueCases DEF TypeOK
  <2>2. CASE UpdatePressure(key, queued, MaxQueueDepth(type)) /\ UNCHANGED <<queued, nextSeq>>
    <3>1. DOMAIN entries' = DOMAIN entries /\ entries' \in [DOMAIN entries -> Entry]
      BY <2>2, DepthIsPositive, UpdatePressureType DEF TypeOK
    <3> QED BY <2>2, <3>1, <1>4, EnqueueCases DEF TypeOK
  <2>3. CASE Accept(key, type, f)
    BY <2>3, <1>4, EnqueueCases, AcceptType
  <2> QED BY <1>4, <2>1, <2>2, <2>3, EnqueueCases
<1>5. ASSUME NEW p \in queued, Flush(p) PROVE TypeOK'
  BY <1>5, FlushEffect
<1>6. CASE UNCHANGED vars
  BY <1>6 DEF vars, TypeOK
<1> QED BY <1>1, <1>2, <1>3, <1>4, <1>5, <1>6, NextCases

(* The tables keep their types and queued packets keep distinct places. *)
THEOREM TypeCorrect == Spec => []TypeOK
BY InitType, NextType, PTL DEF Spec
-----------------------------------------------------------------------------
(* The backlog.  BacklogBounded is inductive beside TypeOK: an accepted     *)
(* packet either finds fewer packets of all lanes than its own limit, hence *)
(* fewer of the strict classes than any larger limit, or takes the place of *)
(* a video packet, which has the same limit.                                *)

LEMMA FullIsChecked ==
  ASSUME NEW q, IsFiniteSet(q), NEW key, NEW type, ~IsFull(q, key, type)
  PROVE  Cardinality(QueuedOn(q, key)) + 1 <= MaxQueueDepth(type)
BY QueuedOnCount, DepthIsPositive DEF IsFull

LEMMA BacklogAccept ==
  ASSUME TypeOK, BacklogBounded,
         NEW key \in Keys, NEW type \in PacketTypes, NEW f \in BOOLEAN, Accept(key, type, f),
         NEW k \in Keys, NEW t \in PacketTypes
  PROVE  Cardinality(WithinDepth(queued', k, MaxQueueDepth(t))) <= MaxQueueDepth(t)
<1> DEFINE d == MaxQueueDepth(t)
<1> DEFINE W(q) == WithinDepth(q, k, d)
<1>1. PICK n \in Packet, S \in SUBSET queued :
        /\ n.seq = nextSeq /\ n.key = key /\ n.type = type /\ n \notin queued
        /\ queued' = (queued \ S) \cup {n}
        /\ S = {} => ~IsFull(queued, key, type)
        /\ S # {} => /\ type = "Video"
                     /\ \E v \in queued : /\ S = {v} /\ v.key = key
                                          /\ v.type = "Video" /\ ~v.keyFrame
  BY AcceptEffect
<1>2. /\ d \in Nat \ {0} /\ MaxQueueDepth(type) \in Nat \ {0}
      /\ IsFiniteSet(queued) /\ Cardinality(W(queued)) <= d
  BY DepthIsPositive DEF BacklogBounded, TypeOK
<1>3. IsFiniteSet(W(queued)) /\ Cardinality(W(queued)) \in Nat
      /\ Cardinality(W(queued)) <= Cardinality(QueuedOn(queued, k))
      /\ Cardinality(QueuedOn(queued, k)) \in Nat
  BY <1>2, WithinDepthCount, QueuedOnCount
<1>4. CASE ~(n.key = k /\ MaxQueueDepth(n.type) <= d)
  <2>1. W(queued') = W(queued \ S)
    BY <1>1, <1>4 DEF WithinDepth
  <2>2. Cardinality(W(queued \ S)) <= Cardinality(W(queued))
    BY <1>2, WithinDepthShrinks
  <2>3. Cardinality(W(queued \ S)) \in Nat
    BY <1>2, FS_Subset, WithinDepthCount
  <2> HIDE DEF d, W
  <2>4. Cardinality(W(queued')) <= d
    BY <1>2, <1>3, <2>1, <2>2, <2>3
  <2> QED BY <2>4 DEF d, W
<1>5. CASE n.key = k /\ MaxQueueDepth(n.type) <= d /\ S = {}
  <2>1. Cardinality(QueuedOn(queued, k)) + 1 <= MaxQueueDepth(type)
    BY <1>1, <1>2, <1>5, FullIsChecked
  <2>2. W(queued') = W(queued) \cup {n} /\ n \notin W(queued)
    BY <1>1, <1>5 DEF WithinDepth
  <2>3. Cardinality(W(queued')) = Cardinality(W(queued)) + 1
    BY <1>3, <2>2, FS_AddElement
  <2>4. MaxQueueDepth(type) <= d
    BY <1>1, <1>5
  <2> HIDE DEF d, W
  <2>5. Cardinality(W(queued')) <= d
    BY <1>2, <1>3, <2>1, <2>3, <2>4
  <2> QED BY <2>5 DEF d, W
<1>6. CASE n.key = k /\ MaxQueueDepth(n.type) <= d /\ S # {}
  <2>1. PICK v \in queued : S = {v} /\ v.key = key /\ v.type = "Video"
    BY <1>1, <1>6
  <2>2. v \in W(queued) /\ n \notin W(queued) \ {v}
    BY <1>1, <1>6, <2>1 DEF WithinDepth
  <2>3. W(queued') = (W(queued) \ {v}) \cup {n}
    BY <1>1, <1>6, <2>1 DEF WithinDepth
  <2>4. IsFiniteSet(W(queued) \ {v})
        /\ Cardinality(W(queued) \ {v}) = Cardinality(W(queued)) - 1
    BY <1>3, <2>2, FS_RemoveElement
  <2>5. Cardinality(W(queued')) = Cardinality(W(queued) \ {v}) + 1
    BY <2>2, <2>3, <2>4, FS_AddElement
  <2> HIDE DEF d, W
  <2>6. Cardinality(W(queued')) <= d
    BY <1>2, <1>3, <2>4, <2>5
  <2> QED BY <2>6 DEF d, W
<1> QED BY <1>4, <1>5, <1>6

LEMMA BacklogShrinks ==
  ASSUME TypeOK, BacklogBounded, queued' \subseteq queued
  PROVE  BacklogBounded'
<1> SUFFICES ASSUME NEW k \in Keys, NEW t \in PacketTypes
             PROVE  Cardinality(WithinDepth(queued', k, MaxQueueDepth(t))) <= MaxQueueDepth(t)
  BY DEF BacklogBounded, WithinDepth, MaxQueueDepth
<1>1. IsFiniteSet(queued) /\ queued' \in SUBSET queued
  BY DEF TypeOK
<1>2. IsFiniteSet(queued')
  BY <1>1, FS_Subset
<1>3. Cardinality(WithinDepth(queued', k, MaxQueueDepth(t)))
        <= Cardinality(WithinDepth(queued, k, MaxQueueDepth(t)))
  BY <1>1, WithinDepthShrinks
<1>4. /\ Cardinality(WithinDepth(queued, k, MaxQueueDepth(t))) \in Nat
      /\ Cardinality(WithinDepth(queued', k, MaxQueueDepth(t))) \in Nat
      /\ MaxQueueDepth(t) \in Nat
  BY <1>1, <1>2, WithinDepthCount, DepthIsPositive
<1>5. Cardinality(WithinDepth(queued, k, MaxQueueDepth(t))) <= MaxQueueDepth(t)
  BY DEF BacklogBounded
<1> QED BY <1>3, <1>4, <1>5

LEMMA TableKeepsQueue ==
  ASSUME NEW key, NEW link,
         \/ RegisterSpec(key) \/ Unbind(key) \/ MarkReady(key)
         \/ MarkDegraded(key) \/ MarkFailed(key)
         \/ BindChannel(link) \/ RebindChannel(link) \/ CloseLink(link)
  PROVE  queued' = queued
BY DEF RegisterSpec, Unbind, MarkReady, MarkDegraded, MarkFailed,
       BindChannel, RebindChannel, CloseLink, ChangesTable

(* Every step shortens the queue, leaves it alone, or accepts one packet. *)
LEMMA QueueSteps ==
  ASSUME TypeOK, [Next]_vars
  PROVE  \/ queued' \subseteq queued
         \/ \E key \in Keys, type \in PacketTypes, f \in BOOLEAN : Accept(key, type, f)
<1>1. CASE \E key \in Keys : \/ RegisterSpec(key) \/ Unbind(key) \/ MarkReady(key)
                             \/ MarkDegraded(key) \/ MarkFailed(key)
  BY <1>1, TableKeepsQueue
<1>2. CASE \E link \in Links : BindChannel(link) \/ RebindChannel(link) \/ CloseLink(link)
  BY <1>2, TableKeepsQueue
<1>3. CASE \E key \in Keys : Drain(key)
  BY <1>3 DEF Drain
<1>4. CASE \E key \in Keys, type \in PacketTypes, f \in BOOLEAN : Enqueue(key, type, f)
  BY <1>4, EnqueueCases
<1>5. CASE \E p \in queued : Flush(p)
  BY <1>5, FlushEffect
<1>6. CASE UNCHANGED vars
  BY <1>6 DEF vars
<1> QED BY <1>1, <1>2, <1>3, <1>4, <1>5, <1>6, NextCases

LEMMA InitBacklog == Init => BacklogBounded
<1> SUFFICES ASSUME Init, NEW k \in Keys, NEW t \in PacketTypes
             PROVE  Cardinality(WithinDepth(queued, k, MaxQueueDepth(t))) <= MaxQueueDepth(t)
  BY DEF BacklogBounded
<1>1. WithinDepth(queued, k, MaxQueueDepth(t)) = {}
  BY DEF Init, WithinDepth
<1> QED BY <1>1, FS_EmptySet, DepthIsPositive

LEMMA NextBacklog == TypeOK /\ BacklogBounded /\ [Next]_vars => BacklogBounded'
<1> SUFFICES ASSUME TypeOK, BacklogBounded, [Next]_vars PROVE BacklogBounded'
  OBVIOUS
<1>1. CASE queued' \subseteq queued
  BY <1>1, BacklogShrinks
<1>2. ASSUME NEW key \in Keys, NEW type \in PacketTypes, NEW f \in BOOLEAN, Accept(key, type, f)
      PROVE  BacklogBounded'
  BY <1>2, BacklogAccept DEF BacklogBounded
<1> QED BY <1>1, <1>2, QueueSteps

(* However packets of all classes mix on a channel, at most VideoDepth      *)
(* video packets, and in general at most d packets of limit d or less, wait *)
(* for it.                                                                  *)
THEOREM BoundedBacklog == Spec => []BacklogBounded
<1>1. Init => TypeOK /\ BacklogBounded
  BY InitType, InitBacklog
<1>2. TypeOK /\ BacklogBounded /\ [Next]_vars => (TypeOK /\ BacklogBounded)'
  BY NextType, NextBacklog
<1> QED BY <1>1, <1>2, PTL DEF Spec
-----------------------------------------------------------------------------
(* Registry and router.  ReadyMeansRouted alone is not inductive: markReady *)
(* makes an entry ready whose binding was written earlier, so the invariant *)
(* is about every bound entry.                                              *)

TablesAgree ==
  \A k \in DOMAIN entries :
    /\ entries[k].channel # NoLink =>
         entries[k].bound /\ k \in DOMAIN routes /\ routes[k] = entries[k].channel
    /\ entries[k].state = "Ready" => entries[k].channel # NoLink

LEMMA BindsLink ==
  ASSUME NEW e \in Entry, NEW link,
         NEW f \in {Bound(e, link), MadeReady(Bound(e, link))}
  PROVE  f.channel = link /\ f.bound
BY DEF Bound, MadeReady, Entry

LEMMA TablesAgreeStep ==
  ASSUME TypeOK, TablesAgree, [Next]_vars PROVE TablesAgree'
<1> USE DEF TypeOK
<1>1. ASSUME NEW key \in Keys,
             \/ RegisterSpec(key) \/ Unbind(key) \/ MarkReady(key)
             \/ MarkDegraded(key) \/ MarkFailed(key)
      PROVE  TablesAgree'
  <2>1. routes' = routes
    BY <1>1 DEF RegisterSpec, Unbind, MarkReady, MarkDegraded, MarkFailed
  <2>2. CASE RegisterSpec(key)
    BY <2>1, <2>2 DEF RegisterSpec, RegisteredEntry, TablesAgree
  <2>3. CASE Unbind(key)
    BY <2>1, <2>3 DEF Unbind, SetEntry, Unbound, Entry, TablesAgree
  <2>4. CASE MarkReady(key)
    BY <2>1, <2>4 DEF MarkReady, SetEntry, MadeReady, CanBeReady, Entry, TablesAgree
  <2>5. CASE MarkDegraded(key)
    BY <2>1, <2>5 DEF MarkDegraded, SetEntry, MadeDegraded, Entry, TablesAgree
  <2>6. CASE MarkFailed(key)
    BY <2>1, <2>6 DEF MarkFailed, SetEntry, MadeFailed, Entry, TablesAgree
  <2> QED BY <1>1, <2>2, <2>3, <2>4, <2>5, <2>6
<1>2. ASSUME NEW link \in Links, BindChannel(link) \/ RebindChannel(link)
      PROVE  TablesAgree'
  <2> DEFINE key == KeyOf[link]
  <2>1. key \in DOMAIN entries /\ entries[key] \in Entry /\ link # NoLink
    BY <1>2, NetworkAssumption DEF BindChannel, RebindChannel
  <2>2. \E e \in {Bound(entries[key], link), MadeReady(Bound(entries[key], link))} :
          entries' = [entries EXCEPT ![key] = e]
    BY <1>2 DEF BindChannel, RebindChannel, SetEntry
  <2>3. /\ DOMAIN entries' = DOMAIN entries
        /\ \A k \in DOMAIN entries : k # key => entries'[k] = entries[k]
        /\ entries'[key].channel = link /\ entries'[key].bound
    <3>1. PICK e \in {Bound(entries[key], link), MadeReady(Bound(entries[key], link))} :
            entries' = [entries EXCEPT ![key] = e]
      BY <2>2
    <3>2. e.channel = link /\ e.bound
      BY <2>1, <3>1, BindsLink
    <3> QED BY <2>1, <3>1, <3>2
  <2>4. Route(link)
    BY <1>2 DEF BindChannel, RebindChannel
  <2>5. routes'[key] = link /\ key \in DOMAIN routes'
        /\ \A k \in DOMAIN routes : k # key => k \in DOMAIN routes' /\ routes'[k] = routes[k]
    BY <2>4 DEF Route
  <2> QED BY <2>1, <2>3, <2>5 DEF TablesAgree
<1>3. ASSUME NEW link \in Links, CloseLink(link) PROVE TablesAgree'
  BY <1>3 DEF CloseLink, TablesAgree
<1>4. ASSUME NEW key \in Keys, Drain(key) PROVE TablesAgree'
  BY <1>4 DEF Drain, channelTable, TablesAgree
<1>5. ASSUME NEW key, NEW q, IsFiniteSet(q), NEW d \in Nat, UpdatePressure(key, q, d),
             routes' = routes
      PROVE  TablesAgree'
  BY <1>5, UpdatePressureType DEF TablesAgree
<1>6. ASSUME NEW key \in Keys, NEW type \in PacketTypes, NEW f \in BOOLEAN, Enqueue(key, type, f)
      PROVE  TablesAgree'
  <2>1. CASE UNCHANGED <<entries, queued, nextSeq>>
    BY <2>1, <1>6, EnqueueCases DEF TablesAgree
  <2>2. CASE UpdatePressure(key, queued, MaxQueueDepth(type))
    BY <2>2, <1>5, <1>6, EnqueueCases, DepthIsPositive
  <2>3. CASE Accept(key, type, f)
    <3>1. TypeOK'
      BY <2>3, <1>6, EnqueueCases, AcceptType
    <3>2. IsFiniteSet(queued') /\ UpdatePressure(key, queued', MaxQueueDepth(type))
      BY <2>3, <3>1 DEF Accept
    <3> QED BY <3>2, <1>5, <1>6, EnqueueCases, DepthIsPositive
  <2> QED BY <1>6, <2>1, <2>2, <2>3, EnqueueCases
<1>7. ASSUME NEW p \in queued, Flush(p) PROVE TablesAgree'
  <2>1. IsFiniteSet(queued') /\ UpdatePressure(p.key, queued', 0) /\ routes' = routes
    BY <1>7, FlushEffect
  <2> QED BY <2>1, <1>5
<1>8. CASE UNCHANGED vars
  BY <1>8 DEF vars, TablesAgree
<1> QED BY <1>1, <1>2, <1>3, <1>4, <1>6, <1>7, <1>8, NextCases

(* A channel the registry calls ready is one the router sends on. *)
THEOREM ReadyIsRouted == Spec => []ReadyMeansRouted
<1>1. Init => TablesAgree
  BY DEF Init, TablesAgree
<1>2. TypeOK /\ TablesAgree /\ [Next]_vars => TablesAgree'
  BY TablesAgreeStep
<1>3. TablesAgree => ReadyMeansRouted
  BY DEF TablesAgree, ReadyMeansRouted
<1> QED BY <1>1, <1>2, <1>3, TypeCorrect, PTL DEF Spec
-----------------------------------------------------------------------------
(* An accepted packet leaves the queue by being sent, drained with its      *)
(* channel, or replaced by a newer frame if it is a delta frame.            *)
THEOREM AcceptedIsKept == Spec => OnlyStaleDeltasDropped
<1> DEFINE Kept ==
      \A p \in queued \ queued' :
        \/ result'.op = "flush" /\ result'.seq = p.seq
        \/ result'.op = "none" /\ QueuedOn(queued', p.key) = {}
        \/ /\ result'.op = "enqueue" /\ result'.status = "Queued"
           /\ p.type = "Video" /\ ~p.keyFrame
           /\ \E n \in queued' \ queued : n.key = p.key /\ n.type = "Video" /\ n.seq > p.seq
<1>1. TypeOK /\ [Next]_vars => [Kept]_vars
  <2> SUFFICES ASSUME TypeOK, Next PROVE Kept
    OBVIOUS
  <2>1. ASSUME NEW key \in Keys, NEW link,
               \/ RegisterSpec(key) \/ Unbind(key) \/ MarkReady(key)
               \/ MarkDegraded(key) \/ MarkFailed(key)
               \/ BindChannel(link) \/ RebindChannel(link) \/ CloseLink(link)
        PROVE  Kept
    BY <2>1, TableKeepsQueue
  <2>2. ASSUME NEW key \in Keys, Drain(key) PROVE Kept
    BY <2>2 DEF Drain, QueuedOn, NoResult
  <2>3. ASSUME NEW key \in Keys, NEW type \in PacketTypes, NEW f \in BOOLEAN,
               Enqueue(key, type, f)
        PROVE  Kept
    <3>1. CASE queued' = queued
      BY <3>1
    <3>2. CASE Accept(key, type, f)
      <4>1. PICK n \in Packet, S \in SUBSET queued :
              /\ n.seq = nextSeq /\ n.key = key /\ n.type = type /\ n \notin queued
              /\ queued' = (queued \ S) \cup {n}
              /\ S # {} => /\ type = "Video"
                           /\ \E v \in queued : /\ S = {v} /\ v.key = key
                                                /\ v.type = "Video" /\ ~v.keyFrame
        BY <3>2, AcceptEffect
      <4>2. result'.op = "enqueue" /\ result'.status = "Queued"
        BY <3>2 DEF Accept, Verdict
      <4>3. \A p \in queued : p.seq \in Nat /\ nextSeq \in Nat /\ p.seq < nextSeq
        BY DEF TypeOK, Packet
      <4> QED BY <4>1, <4>2, <4>3
    <3> QED BY <2>3, <3>1, <3>2, EnqueueCases
  <2>4. ASSUME NEW p \in queued, Flush(p) PROVE Kept
    <3>1. result'.op = "flush" /\ result'.seq = p.seq /\ queued' = queued \ {p}
      BY <2>4 DEF Flush, Handed
    <3> QED BY <3>1
  <2>5. CASE \E link \in Links : BindChannel(link) \/ RebindChannel(link) \/ CloseLink(link)
    BY <2>5, TableKeepsQueue
  <2> QED BY <2>1, <2>2, <2>3, <2>4, <2>5, NextCases
<1> QED BY <1>1, TypeCorrect, PTL DEF Spec, OnlyStaleDeltasDropped
-----------------------------------------------------------------------------
(* Reported pressure.  A specification registered later starts with         *)
(* pressure zero, so the invariant also says that nothing waits for a       *)
(* channel that is not registered.                                          *)

PressureInv ==
  /\ \A p \in queued : p.key \in DOMAIN entries
  /\ PressureNeverUnderstates

LEMMA PressureOfPart ==
  ASSUME NEW q, IsFiniteSet(q), NEW r \in SUBSET q, NEW key
  PROVE  /\ Cardinality(QueuedOn(r, key)) \in Nat
         /\ Cardinality(QueuedOn(r, key)) <= Cardinality(QueuedOn(q, key))
<1>1. QueuedOn(r, key) \subseteq QueuedOn(q, key)
  BY DEF QueuedOn
<1> QED BY <1>1, QueuedOnCount, FS_Subset, FS_CardinalityType

(* After a step of the queue on one channel the registry's entry of that    *)
(* channel is exact and the other channels' queues have not grown.          *)
LEMMA PressureQueueStep ==
  ASSUME TypeOK, PressureInv, NEW key, NEW d \in Nat,
         IsFiniteSet(queued'), UpdatePressure(key, queued', d),
         \A p \in queued' \ queued : p.key = key /\ key \in DOMAIN entries
  PROVE  PressureInv'
<1>1. /\ DOMAIN entries' = DOMAIN entries
      /\ \A k \in DOMAIN entries :
           /\ k # key => entries'[k].queuedPackets = entries[k].queuedPackets
           /\ k = key => entries'[k].queuedPackets = Cardinality(QueuedOn(queued', key))
  <2> DEFINE q == queued'
  <2>1. IsFiniteSet(q) /\ UpdatePressure(key, q, d)
    OBVIOUS
  <2> HIDE DEF q
  <2>2. /\ DOMAIN entries' = DOMAIN entries
        /\ \A k \in DOMAIN entries :
             /\ k # key => entries'[k].queuedPackets = entries[k].queuedPackets
             /\ k = key => entries'[k].queuedPackets = Cardinality(QueuedOn(q, key))
    BY <2>1, UpdatePressureType
  <2> QED BY <2>2 DEF q
<1>2. \A p \in queued' : p.key \in DOMAIN entries'
  BY <1>1 DEF PressureInv
<1>3. ASSUME NEW k \in DOMAIN entries
      PROVE  Cardinality(QueuedOn(queued', k)) <= entries'[k].queuedPackets
  <2>1. Cardinality(QueuedOn(queued', k)) \in Nat
    BY QueuedOnCount
  <2>2. CASE k = key
    BY <1>1, <2>1, <2>2
  <2>3. CASE k # key
    <3>1. QueuedOn(queued', k) = QueuedOn(queued' \cap queued, k)
      BY <2>3 DEF QueuedOn
    <3>2. Cardinality(QueuedOn(queued' \cap queued, k)) <= Cardinality(QueuedOn(queued, k))
      BY PressureOfPart DEF TypeOK
    <3>3. Cardinality(QueuedOn(queued, k)) <= entries[k].queuedPackets
          /\ Cardinality(QueuedOn(queued, k)) \in Nat
          /\ entries[k].queuedPackets \in Nat
      BY QueuedOnCount DEF PressureInv, PressureNeverUnderstates, TypeOK, Entry
    <3> QED BY <1>1, <2>1, <2>3, <3>1, <3>2, <3>3
  <2> QED BY <2>2, <2>3
<1> QED BY <1>1, <1>2, <1>3 DEF PressureInv, PressureNeverUnderstates

(* A change of the channel table keeps every entry's pressure. *)
LEMMA PressureTableStep ==
  ASSUME TypeOK, PressureInv, queued' = queued,
         DOMAIN entries \subseteq DOMAIN entries',
         \A k \in DOMAIN entries : entries'[k].queuedPackets = entries[k].queuedPackets,
         \A k \in DOMAIN entries' \ DOMAIN entries : entries'[k].queuedPackets = 0
  PROVE  PressureInv'
<1>1. ASSUME NEW k \in DOMAIN entries' \ DOMAIN entries
      PROVE  Cardinality(QueuedOn(queued', k)) <= entries'[k].queuedPackets
  <2>1. QueuedOn(queued', k) = {}
    BY <1>1 DEF PressureInv, QueuedOn
  <2> QED BY <2>1, FS_EmptySet
<1> QED BY <1>1 DEF PressureInv, PressureNeverUnderstates, QueuedOn

LEMMA EntryPressure ==
  ASSUME NEW e \in Entry
  PROVE  /\ Unbound(e).queuedPackets = e.queuedPackets
         /\ MadeReady(e).queuedPackets = e.queuedPackets
         /\ MadeDegraded(e).queuedPackets = e.queuedPackets
         /\ MadeFailed(e).queuedPackets = e.queuedPackets
         /\ \A link \in Links : Bound(e, link).queuedPackets = e.queuedPackets
BY DEF Unbound, MadeReady, MadeDegraded, MadeFailed, Bound, Entry

LEMMA PressureStep == TypeOK /\ TypeOK' /\ PressureInv /\ [Next]_vars => PressureInv'
<1> SUFFICES ASSUME TypeOK, TypeOK', PressureInv, [Next]_vars PROVE PressureInv'
  OBVIOUS
<1>1. ASSUME NEW key \in Keys, RegisterSpec(key) PROVE PressureInv'
  BY <1>1, PressureTableStep DEF RegisterSpec, RegisteredEntry, ChangesTable, TypeOK
<1>2. ASSUME NEW key \in Keys,
             Unbind(key) \/ MarkReady(key) \/ MarkDegraded(key) \/ MarkFailed(key)
      PROVE  PressureInv'
  <2>1. entries[key] \in Entry /\ key \in DOMAIN entries /\ queued' = queued
    BY <1>2 DEF Unbind, MarkReady, MarkDegraded, MarkFailed, ChangesTable, TypeOK
  <2>2. \E e \in {Unbound(entries[key]), MadeReady(entries[key]),
                  MadeDegraded(entries[key]), MadeFailed(entries[key])} :
          entries' = [entries EXCEPT ![key] = e]
    BY <1>2 DEF Unbind, MarkReady, MarkDegraded, MarkFailed, SetEntry
  <2>3. DOMAIN entries' = DOMAIN entries
        /\ \A k \in DOMAIN entries : entries'[k].queuedPackets = entries[k].queuedPackets
    BY <2>1, <2>2, EntryPressure
  <2> QED BY <2>1, <2>3, PressureTableStep
<1>3. ASSUME NEW link \in Links, BindChannel(link) \/ RebindChannel(link)
      PROVE  PressureInv'
  <2> DEFINE key == KeyOf[link]
  <2>1. entries[key] \in Entry /\ key \in DOMAIN entries /\ queued' = queued
    BY <1>3 DEF BindChannel, RebindChannel, ChangesTable, TypeOK
  <2>2. \E e \in {Bound(entries[key], link), MadeReady(Bound(entries[key], link))} :
          entries' = [entries EXCEPT ![key] = e]
    BY <1>3 DEF BindChannel, RebindChannel, SetEntry
  <2>3. DOMAIN entries' = DOMAIN entries
        /\ \A k \in DOMAIN entries : entries'[k].queuedPackets = entries[k].queuedPackets
    BY <2>1, <2>2, EntryPressure, BoundType
  <2> QED BY <2>1, <2>3, PressureTableStep
<1>4. ASSUME NEW link \in Links, CloseLink(link) PROVE PressureInv'
  BY <1>4, PressureTableStep DEF CloseLink, ChangesTable
<1>5. ASSUME NEW key \in Keys, Drain(key) PROVE PressureInv'
  <2>1. queued' \in SUBSET queued /\ IsFiniteSet(queued) /\ entries' = entries
    BY <1>5 DEF Drain, channelTable, TypeOK
  <2>2. ASSUME NEW k \in DOMAIN entries
        PROVE  Cardinality(QueuedOn(queued', k)) <= entries[k].queuedPackets
    <3>1. /\ Cardinality(QueuedOn(queued', k)) \in Nat
          /\ Cardinality(QueuedOn(queued, k)) \in Nat
          /\ Cardinality(QueuedOn(queued', k)) <= Cardinality(QueuedOn(queued, k))
          /\ Cardinality(QueuedOn(queued, k)) <= entries[k].queuedPackets
          /\ entries[k].queuedPackets \in Nat
      BY <2>1, PressureOfPart, QueuedOnCount
         DEF PressureInv, PressureNeverUnderstates, TypeOK, Entry
    <3> QED BY <3>1
  <2> QED BY <2>1, <2>2 DEF PressureInv, PressureNeverUnderstates
<1>6. ASSUME NEW key \in Keys, NEW type \in PacketTypes, NEW f \in BOOLEAN, Enqueue(key, type, f)
      PROVE  PressureInv'
  <2>1. CASE UNCHANGED <<entries, queued, nextSeq>>
    BY <2>1 DEF PressureInv, PressureNeverUnderstates
  <2>2. CASE UpdatePressure(key, queued, MaxQueueDepth(type)) /\ UNCHANGED <<queued, nextSeq>>
    BY <2>2, DepthIsPositive, PressureQueueStep DEF TypeOK
  <2>3. CASE Accept(key, type, f) /\ ~UNCHANGED <<entries, queued, nextSeq>>
    <3>1. key \in DOMAIN entries
      BY <1>6, <2>3 DEF Enqueue, Refuse, PacketStatus
    <3>2. PICK n \in Packet, S \in SUBSET queued : n.key = key /\ queued' = (queued \ S) \cup {n}
      BY <2>3, AcceptEffect
    <3>3. IsFiniteSet(queued') /\ UpdatePressure(key, queued', MaxQueueDepth(type))
      BY <2>3 DEF Accept, TypeOK
    <3> QED BY <3>1, <3>2, <3>3, DepthIsPositive, PressureQueueStep
  <2> QED BY <1>6, <2>1, <2>2, <2>3, EnqueueCases
<1>7. ASSUME NEW p \in queued, Flush(p) PROVE PressureInv'
  <2>1. IsFiniteSet(queued') /\ UpdatePressure(p.key, queued', 0) /\ queued' \subseteq queued
    BY <1>7, FlushEffect DEF TypeOK
  <2> QED BY <2>1, PressureQueueStep
<1>8. CASE UNCHANGED vars
  BY <1>8 DEF vars, PressureInv, PressureNeverUnderstates
<1> QED BY <1>1, <1>2, <1>3, <1>4, <1>5, <1>6, <1>7, <1>8, NextCases

(* The registry's pressure snapshot never hides waiting packets. *)
THEOREM PressureIsHonest == Spec => []PressureNeverUnderstates
<1>1. Init => PressureInv
  BY DEF Init, PressureInv, PressureNeverUnderstates
<1>2. TypeOK /\ TypeOK' /\ PressureInv /\ [Next]_vars => PressureInv'
  BY PressureStep
<1>3. PressureInv => PressureNeverUnderstates
  BY DEF PressureInv
<1> QED BY <1>1, <1>2, <1>3, TypeCorrect, PTL DEF Spec
=============================================================================
