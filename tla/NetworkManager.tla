--------------------------- MODULE NetworkManager ---------------------------
(***************************************************************************)
(* network::NetworkManager (src/src/core/network/network_manager.cpp): the  *)
(* channel registry, the router's channel table and the priority scheduler, *)
(* behind one API.  The caller decides which operation comes next; a link   *)
(* (an IChannel over a transport socket) closes whenever its peer or its    *)
(* socket does, also while packets for it are queued.                       *)
(*                                                                          *)
(* The six deques of the scheduler are one set of packets: a packet's lane  *)
(* follows from its type and its place in the lane from "seq", the number   *)
(* of the accepted enqueue, because a deque is only ever appended to.       *)
(* Packets differ in the eight fields takePacket() compares.                *)
(***************************************************************************)
EXTENDS ChannelRegistry, Integers, FiniteSets

CONSTANTS Keys,           \* channel keys that may be registered
          Links,          \* IChannel instances that may be bound
          KeyOf,          \* link -> its key
          PacketTypes,    \* packet types callers enqueue
          Negotiated,     \* packet types of the negotiated capabilities
          CriticalDepth, VideoDepth, InteractiveDepth, BulkDepth, NormalDepth,
                          \* 256, 2, 1024, 512 and 1024 in defaultSendOptions()
          MaxPackets,     \* bound: packets accepted in a behaviour
          MaxChanges      \* bound: changes of the channel table in a behaviour

ASSUME NetworkAssumption ==
  /\ Keys \subseteq ChannelKey
  /\ NoLink \notin Links
  /\ KeyOf \in [Links -> Keys]
  /\ {CriticalDepth, VideoDepth, InteractiveDepth, BulkDepth, NormalDepth}
       \subseteq Nat \ {0}
  /\ MaxPackets \in Nat
  /\ MaxChanges \in Nat

VARIABLES entries,   \* ChannelRegistry::entries_
          routes,    \* NetworkRouter::channels_, a function on the keys it holds
          open,      \* the links whose isOpen() is true
          queued,    \* PriorityScheduler::queues_
          nextSeq,   \* packets accepted so far, plus one
          result,    \* what the last call of enqueue or flush returned
          changes    \* changes of the channel table so far

vars == <<entries, routes, open, queued, nextSeq, result, changes>>
channelTable == <<entries, routes, open, changes>>

-----------------------------------------------------------------------------
(* defaultSendOptions(): lane, depth and drop policy of a packet type.      *)
(* "ClipboardBulk" is a Clipboard packet whose own priority is Bulk.        *)

CriticalType    == {"Heartbeat", "ChannelInit", "Exchange"}
InteractiveType == {"PayloadAck", "Mouse", "Keyboard", "Clipboard", "Touchscreen", "Gamepad"}
BulkType        == {"Filesystem", "FilesystemIrp", "Printer", "ClipboardBulk"}

PacketTypeOf(type) == IF type = "ClipboardBulk" THEN "Clipboard" ELSE type

Priority(type) ==
  IF type \in CriticalType         THEN 0
  ELSE IF type = "Video"           THEN 1
  ELSE IF type \in InteractiveType THEN 2
  ELSE IF type \in BulkType        THEN 4
  ELSE 3

MaxQueueDepth(type) ==
  IF type \in CriticalType         THEN CriticalDepth
  ELSE IF type = "Video"           THEN VideoDepth
  ELSE IF type \in InteractiveType THEN InteractiveDepth
  ELSE IF type \in BulkType        THEN BulkDepth
  ELSE NormalDepth

KeepsLatestNonKeyFrame(type) == type = "Video"

-----------------------------------------------------------------------------
(* PriorityScheduler *)

Packet == [seq : Nat \ {0}, key : Keys, type : PacketTypes, keyFrame : BOOLEAN]

QueuedOn(q, key) == {p \in q : p.key = key}

Oldest(S) == CHOOSE p \in S : \A o \in S : p.seq <= o.seq

(* dropStaleNonKeyFrame(): what it may erase for a packet of this type. *)
StaleFrames(q, key, type) ==
  {p \in q : p.key = key /\ Priority(p.type) = Priority(type) /\ ~p.keyFrame}

(* Fault: the limit is checked with > instead of >=. *)
Faulty_IsFull(q, key, type) == Cardinality(QueuedOn(q, key)) > MaxQueueDepth(type)
IsFull(q, key, type) == Cardinality(QueuedOn(q, key)) >= MaxQueueDepth(type)

(* computePressure(); depth 0 stands for "no limit given". *)
Level(count, depth) ==
  IF depth > 0 /\ count >= depth THEN "Congested"
  ELSE IF count > 0 THEN "BuildingQueue" ELSE "Healthy"

(* Fault: the pressure is computed from the queue before the operation. *)
Faulty_UpdatePressure(key, q, depth) ==
  LET count == Cardinality(QueuedOn(queued, key))
  IN entries' = IF key \in DOMAIN entries
                THEN [entries EXCEPT ![key].queuedPackets = count,
                                     ![key].level = Level(count, depth)]
                ELSE entries

UpdatePressure(key, q, depth) ==
  LET count == Cardinality(QueuedOn(q, key))
  IN entries' = IF key \in DOMAIN entries
                THEN [entries EXCEPT ![key].queuedPackets = count,
                                     ![key].level = Level(count, depth)]
                ELSE entries

(* nextPacket(): the front of the first lane that is not empty. *)
Front(q) ==
  Oldest({p \in q : \A o \in q : Priority(p.type) <= Priority(o.type)})

-----------------------------------------------------------------------------
NoResult == [op |-> "none"]

Init ==
  /\ entries = [k \in {} |-> RegisteredEntry]
  /\ routes = [k \in {} |-> NoLink]
  /\ open = Links
  /\ queued = {}
  /\ nextSeq = 1
  /\ result = NoResult
  /\ changes = 0

(* The channel table. *)
ChangesTable ==
  /\ changes < MaxChanges
  /\ changes' = changes + 1
  /\ result' = NoResult
  /\ UNCHANGED <<queued, nextSeq>>

RegisterSpec(key) ==
  /\ key \notin DOMAIN entries                    \* else AlreadyRegistered
  /\ entries' = [k \in DOMAIN entries \cup {key} |->
                   IF k = key THEN RegisteredEntry ELSE entries[k]]
  /\ UNCHANGED <<routes, open>>
  /\ ChangesTable

SetEntry(key, e) == entries' = [entries EXCEPT ![key] = e]

(* NetworkRouter::registerChannel() *)
Route(link) ==
  routes' = [k \in DOMAIN routes \cup {KeyOf[link]} |->
               IF k = KeyOf[link] THEN link ELSE routes[k]]

BindChannel(link) ==
  LET key == KeyOf[link]
  IN /\ key \in DOMAIN entries                    \* else NotFound
     /\ SetEntry(key, Bound(entries[key], link))
     /\ Route(link)
     /\ UNCHANGED open
     /\ ChangesTable

(* Fault: the router keeps sending on the old link. *)
Faulty_RebindChannel(link) ==
  LET key == KeyOf[link]
      e   == Bound(entries[key], link)
  IN /\ key \in DOMAIN entries
     /\ SetEntry(key, IF CanBeReady(e, open) THEN MadeReady(e) ELSE e)
     /\ UNCHANGED <<routes, open>>
     /\ ChangesTable

(* The entry and the route are replaced before markReady() may refuse. *)
RebindChannel(link) ==
  LET key == KeyOf[link]
      e   == Bound(entries[key], link)
  IN /\ key \in DOMAIN entries
     /\ SetEntry(key, IF CanBeReady(e, open) THEN MadeReady(e) ELSE e)
     /\ Route(link)
     /\ UNCHANGED open
     /\ ChangesTable

(* Fault: unbinding leaves a null channel in the router. *)
Faulty_Unbind(key) ==
  /\ key \in DOMAIN entries
  /\ SetEntry(key, Unbound(entries[key]))
  /\ routes' = [k \in DOMAIN routes |-> IF k = key THEN NoLink ELSE routes[k]]
  /\ UNCHANGED open
  /\ ChangesTable

(* registry().unbind(): the router still holds the channel. *)
Unbind(key) ==
  /\ key \in DOMAIN entries
  /\ SetEntry(key, Unbound(entries[key]))
  /\ UNCHANGED <<routes, open>>
  /\ ChangesTable

MarkReady(key) ==
  /\ key \in DOMAIN entries
  /\ CanBeReady(entries[key], open)
  /\ SetEntry(key, MadeReady(entries[key]))
  /\ UNCHANGED <<routes, open>>
  /\ ChangesTable

MarkDegraded(key) ==
  /\ key \in DOMAIN entries
  /\ SetEntry(key, MadeDegraded(entries[key]))
  /\ UNCHANGED <<routes, open>>
  /\ ChangesTable

MarkFailed(key) ==
  /\ key \in DOMAIN entries
  /\ SetEntry(key, MadeFailed(entries[key]))
  /\ UNCHANGED <<routes, open>>
  /\ ChangesTable

(* The peer or the socket under a link goes away. *)
CloseLink(link) ==
  /\ link \in open
  /\ open' = open \ {link}
  /\ UNCHANGED <<entries, routes>>
  /\ ChangesTable

-----------------------------------------------------------------------------
(* enqueue() *)

Verdict(status, key, type) ==
  result' = [op |-> "enqueue", status |-> status, key |-> key, type |-> type]

Refuse(key, type) ==
  /\ PacketStatus(entries, Negotiated, key, PacketTypeOf(type)) # "Ok"
  /\ result' = [op |-> "enqueue", status |-> "Refused"]
  /\ UNCHANGED <<entries, queued, nextSeq>>

RejectAtLimit(key, type) ==
  /\ IsFull(queued, key, type)
  /\ ~KeepsLatestNonKeyFrame(type) \/ StaleFrames(queued, key, type) = {}
  /\ UpdatePressure(key, queued, MaxQueueDepth(type))
  /\ Verdict("Rejected", key, type)
  /\ UNCHANGED <<queued, nextSeq>>

(* Fault: a full queue gives up its oldest frame, whatever it is. *)
Faulty_Admit(key, type, packet) ==
  /\ nextSeq <= MaxPackets
  /\ \/ /\ ~IsFull(queued, key, type)
        /\ queued' = queued \cup {packet}
     \/ /\ IsFull(queued, key, type)
        /\ KeepsLatestNonKeyFrame(type)
        /\ StaleFrames(queued, key, type) # {}
        /\ queued' = (queued \ {Oldest({p \in queued : p.key = key /\ p.type = type})})
                       \cup {packet}

Admit(key, type, packet) ==
  /\ nextSeq <= MaxPackets
  /\ \/ /\ ~IsFull(queued, key, type)
        /\ queued' = queued \cup {packet}
     \/ /\ IsFull(queued, key, type)
        /\ KeepsLatestNonKeyFrame(type)
        /\ StaleFrames(queued, key, type) # {}
        /\ queued' = (queued \ {Oldest(StaleFrames(queued, key, type))}) \cup {packet}

Accept(key, type, keyFrame) ==
  /\ Admit(key, type, [seq |-> nextSeq, key |-> key, type |-> type, keyFrame |-> keyFrame])
  /\ nextSeq' = nextSeq + 1
  /\ UpdatePressure(key, queued', MaxQueueDepth(type))
  /\ Verdict("Queued", key, type)

Enqueue(key, type, keyFrame) ==
  /\ keyFrame => type = "Video"
  /\ \/ Refuse(key, type)
     \/ /\ PacketStatus(entries, Negotiated, key, PacketTypeOf(type)) = "Ok"
        /\ RejectAtLimit(key, type) \/ Accept(key, type, keyFrame)
  /\ UNCHANGED <<routes, open, changes>>

-----------------------------------------------------------------------------
(* flushNext() and flushPacket(): the packet has left the queue before the  *)
(* router is asked to send it.  A write that fails marks the socket under   *)
(* the link Failed, so isOpen() is false from then on.                      *)

Handed(packet, status) ==
  result' = [op |-> "flush", status |-> status, seq |-> packet.seq]

Routed(key) == key \in DOMAIN routes /\ routes[key] \in open

Flush(packet) ==
  /\ queued' = queued \ {packet}
  /\ UpdatePressure(packet.key, queued \ {packet}, 0)
  /\ \/ /\ ~Routed(packet.key)
        /\ Handed(packet, IF packet.key \in DOMAIN routes THEN "ChannelClosed" ELSE "ChannelNotFound")
        /\ UNCHANGED open
     \/ /\ Routed(packet.key)
        /\ \/ Handed(packet, "Sent") /\ UNCHANGED open
           \/ Handed(packet, "Failed") /\ open' = open \ {routes[packet.key]}
  /\ UNCHANGED <<routes, nextSeq, changes>>

FlushNext == queued # {} /\ Flush(Front(queued))

FlushPacket(packet) == packet \in queued /\ Flush(packet)

(* scheduler().drain(): the registry keeps the pressure it had. *)
Drain(key) ==
  /\ QueuedOn(queued, key) # {}
  /\ queued' = queued \ QueuedOn(queued, key)
  /\ result' = NoResult
  /\ UNCHANGED <<channelTable, nextSeq>>

Next ==
  \/ \E k \in Keys : \/ RegisterSpec(k) \/ Unbind(k) \/ MarkReady(k)
                     \/ MarkDegraded(k) \/ MarkFailed(k) \/ Drain(k)
  \/ \E l \in Links : BindChannel(l) \/ RebindChannel(l) \/ CloseLink(l)
  \/ \E k \in Keys, t \in PacketTypes, f \in BOOLEAN : Enqueue(k, t, f)
  \/ FlushNext
  \/ \E p \in queued : FlushPacket(p)

Spec == Init /\ [][Next]_vars
-----------------------------------------------------------------------------
Entry == [state : ChannelLifecycleState, bound : BOOLEAN, ready : BOOLEAN,
          channel : Links \cup {NoLink}, level : PressureLevel, queuedPackets : Nat]

TypeOK ==
  /\ DOMAIN entries \subseteq Keys
  /\ entries \in [DOMAIN entries -> Entry]
  /\ DOMAIN routes \subseteq Keys
  /\ routes \in [DOMAIN routes -> Links]
  /\ open \subseteq Links
  /\ queued \subseteq Packet
  /\ IsFiniteSet(queued)
  /\ nextSeq \in Nat \ {0}
  /\ \A p \in queued : p.seq < nextSeq
  /\ \A p, q \in queued : p.seq = q.seq => p = q
  /\ changes \in Nat

(* The queue of one channel never holds more packets of the strictest       *)
(* classes than the strictest of their limits: for every depth limit d, at  *)
(* most d packets whose own limit is d or less wait for a channel, although *)
(* the scheduler counts packets of all lanes and never checks this count    *)
(* (PriorityScheduler::enqueue).                                            *)
WithinDepth(q, key, d) == {p \in q : p.key = key /\ MaxQueueDepth(p.type) <= d}

BacklogBounded ==
  \A k \in Keys, t \in PacketTypes :
    Cardinality(WithinDepth(queued, k, MaxQueueDepth(t))) <= MaxQueueDepth(t)

(* A ready channel is one the router can send on: the registry and the      *)
(* router, two tables written one after the other by bindChannel() and      *)
(* rebindChannel(), name the same link.                                     *)
ReadyMeansRouted ==
  \A k \in DOMAIN entries :
    entries[k].ready /\ entries[k].state = "Ready" =>
      /\ entries[k].bound
      /\ k \in DOMAIN routes
      /\ routes[k] = entries[k].channel

(* The pressure the registry reports never hides packets: after any mix of  *)
(* accepted, replaced, rejected and flushed packets it is at least what the *)
(* scheduler holds (updatePressure in enqueue and flush).                   *)
PressureNeverUnderstates ==
  \A k \in DOMAIN entries :
    Cardinality(QueuedOn(queued, k)) <= entries[k].queuedPackets

(* A packet the API accepted leaves the queue only when a flush hands that  *)
(* packet to the router, when the whole channel is drained, or as a stale   *)
(* delta frame whose place a newer frame of its channel takes: never a      *)
(* keyframe, never a packet of another class or channel.                    *)
OnlyStaleDeltasDropped ==
  [][\A p \in queued \ queued' :
       \/ result'.op = "flush" /\ result'.seq = p.seq
       \/ result'.op = "none" /\ QueuedOn(queued', p.key) = {}
       \/ /\ result'.op = "enqueue" /\ result'.status = "Queued"
          /\ p.type = "Video" /\ ~p.keyFrame
          /\ \E n \in queued' \ queued : n.key = p.key /\ n.type = "Video" /\ n.seq > p.seq]_vars

(* What NETWORK_CHANNEL_REGISTRY_AND_SCHEDULER.md says of the scheduler,    *)
(* "Critical bypasses normal queue limits": a critical packet is turned     *)
(* away at the limit only when that many critical packets are waiting.      *)
CriticalBypassesBacklog ==
  result.op = "enqueue" /\ result.status = "Rejected" /\ result.type \in CriticalType =>
    Cardinality({p \in queued : p.key = result.key /\ p.type \in CriticalType}) >= CriticalDepth
=============================================================================
