--------------------------- MODULE RequestTracker ---------------------------
(***************************************************************************)
(* network::RequestTracker (src/src/core/network/request_tracker.cpp) with  *)
(* the callers that issue requests, a peer whose responses arrive late,     *)
(* twice, out of order or not at all, and the timer that calls expire().    *)
(*                                                                          *)
(* nextMessageId and pending are the members of the class.  A handler is    *)
(* the std::function the caller passes to track(): it is named by the call  *)
(* that registered it, and heard[c] is the sequence of message kinds with   *)
(* which the tracker has invoked it.  No handler in src/ calls its own      *)
(* tracker, so an operation and the callbacks it makes are one step; the    *)
(* code calls the handler first and erases the entry afterwards.            *)
(***************************************************************************)
EXTENDS Tracking, Sequences

CONSTANTS Calls,       \* calls of track(), each made at most once
          Channels,    \* channel keys requests are sent on
          Timeouts,    \* values of timeoutMs, 0 included
          MaxClock,    \* bound: the clock stops here
          MaxInterim   \* bound: interim responses one handler hears

ASSUME TrackerAssumption ==
  /\ Timeouts \subseteq Nat
  /\ MaxClock \in Nat
  /\ MaxInterim \in Nat

VARIABLES nextMessageId, \* nextMessageId_
          pending,       \* pending_: message id -> [call, channel, deadline]
          clock,         \* the monotonic clock the callers and the timer read
          issued,        \* call -> "no" | "tracked" | "refused" (TrackResult)
          heard          \* call -> kinds its handler was invoked with

vars == <<nextMessageId, pending, clock, issued, heard>>

Entry == [call : Calls, channel : Channels, deadline : Nat]

Init ==
  /\ nextMessageId = 1
  /\ pending = [i \in {} |-> {}]
  /\ clock = 0
  /\ issued = [c \in Calls |-> "no"]
  /\ heard = [c \in Calls |-> << >>]

(* nextMessageId() followed by track(), as every service does.  A caller    *)
(* stamps the request with the current time, or leaves the field 0.         *)
Issue(c, kind, channel, timeout, stamp) ==
  LET id == HandedOut(nextMessageId)
      r  == [kind |-> kind, messageId |-> id, correlationId |-> id,
             timeout |-> timeout, stamp |-> stamp]
  IN /\ issued[c] = "no"
     /\ clock + timeout <= MaxClock
     /\ nextMessageId' = AfterHandingOut(nextMessageId)
     /\ \/ /\ TrackStatus(pending, r) = "Ok"
           /\ pending' = [i \in DOMAIN pending \cup {id} |->
                           IF i = id
                           THEN [call |-> c, channel |-> channel, deadline |-> Deadline(r)]
                           ELSE pending[i]]
           /\ issued' = [issued EXCEPT ![c] = "tracked"]
        \/ /\ TrackStatus(pending, r) # "Ok"
           /\ issued' = [issued EXCEPT ![c] = "refused"]
           /\ UNCHANGED pending
     /\ UNCHANGED <<clock, heard>>

(* The handlers of the given pending requests are invoked with "kind". *)
Invoke(ids, kind) ==
  heard' = [c \in Calls |-> IF \E i \in ids : pending[i].call = c
                            THEN Append(heard[c], kind) ELSE heard[c]]

(* complete(response): any response, whatever it answers. *)
Complete(responseTo, kind) ==
  /\ Reaches(pending, responseTo)
  /\ \/ IsTerminalResponse(kind)
     \/ Len(heard[pending[responseTo].call]) < MaxInterim
  /\ Invoke({responseTo}, kind)
  /\ pending' = Without(pending, Completed(responseTo, kind))
  /\ UNCHANGED <<nextMessageId, clock, issued>>

(* Fault: the entries of a lost channel are dropped without a word. *)
Faulty_CancelByChannel(channel) ==
  /\ OnChannel(pending, channel) # {}
  /\ pending' = Without(pending, OnChannel(pending, channel))
  /\ UNCHANGED <<nextMessageId, clock, issued, heard>>

(* cancelByChannel(channel) *)
CancelByChannel(channel) ==
  /\ OnChannel(pending, channel) # {}
  /\ Invoke(OnChannel(pending, channel), "Error")
  /\ pending' = Without(pending, OnChannel(pending, channel))
  /\ UNCHANGED <<nextMessageId, clock, issued>>

(* expire(now) from the owner's timer *)
Expire ==
  /\ Overdue(pending, clock) # {}
  /\ Invoke(Overdue(pending, clock), "Error")
  /\ pending' = Without(pending, Overdue(pending, clock))
  /\ UNCHANGED <<nextMessageId, clock, issued>>

Tick ==
  /\ clock < MaxClock
  /\ clock' = clock + 1
  /\ UNCHANGED <<nextMessageId, pending, issued, heard>>

Next ==
  \/ \E c \in Calls, k \in RequestKind, ch \in Channels, t \in Timeouts, s \in {0, clock} :
       Issue(c, k, ch, t, s)
  \/ \E i \in MessageId, k \in ResponseKind : Complete(i, k)
  \/ \E ch \in Channels : CancelByChannel(ch)
  \/ Expire
  \/ Tick

(* The clock advances and the timer bridge keeps calling expire(). *)
Fairness == WF_vars(Tick) /\ WF_vars(Expire)

Spec == Init /\ [][Next]_vars
FairSpec == Spec /\ Fairness
-----------------------------------------------------------------------------
TypeOK ==
  /\ nextMessageId \in MessageId
  /\ DOMAIN pending \subseteq MessageId \ {0}
  /\ pending \in [DOMAIN pending -> Entry]
  /\ clock \in 0 .. MaxClock
  /\ issued \in [Calls -> {"no", "tracked", "refused"}]
  /\ heard \in [Calls -> Seq(ResponseKind)]

Waiting(c) == \E i \in DOMAIN pending : pending[i].call = c

(* A handler's history: interim kinds only, closed by one terminal kind. *)
Closed(c) == \E n \in 1 .. Len(heard[c]) : IsTerminalResponse(heard[c][n])

(* No handler is invoked again after its terminal response, however many    *)
(* duplicates, late answers, timeouts and channel losses follow, and after  *)
(* the 64-bit ids have wrapped round (complete/expire/cancelByChannel).     *)
TerminalIsLast ==
  \A c \in Calls : \A n \in 1 .. Len(heard[c]) :
    IsTerminalResponse(heard[c][n]) => n = Len(heard[c])

(* A tracked call is never lost: it waits under exactly one message id or   *)
(* its handler has had the terminal response, never both, never neither.    *)
TrackedExactlyOnce ==
  /\ \A c \in Calls : issued[c] = "tracked" <=> (Waiting(c) \/ Closed(c))
  /\ \A c \in Calls : ~(Waiting(c) /\ Closed(c))
  /\ \A i, j \in DOMAIN pending : pending[i].call = pending[j].call => i = j

(* A refused call's handler is never invoked (the Conflict and              *)
(* InvalidArgument returns of track()).                                     *)
RefusedIsSilent == \A c \in Calls : issued[c] # "tracked" => heard[c] = << >>

(* The inductive invariant the proofs use. *)
Inv == TypeOK /\ TerminalIsLast /\ TrackedExactlyOnce /\ RefusedIsSilent

(* Every call that was tracked ends, because the timer keeps running. *)
EveryCallCloses == \A c \in Calls : issued[c] = "tracked" ~> Closed(c)

(* The tracker implements the call life cycle its owners rely on: the       *)
(* tables, ids, deadlines and the three ways a request can end are hidden.  *)
phase == [c \in Calls |->
            CASE issued[c] = "no"      -> "unissued"
              [] issued[c] = "refused" -> "refused"
              [] OTHER                 -> IF Waiting(c) THEN "open" ELSE "closed"]

Lifecycle == INSTANCE CallLifecycle
               WITH Calls <- Calls, InterimKind <- InterimKind,
                    TerminalKind <- TerminalKind, phase <- phase, heard <- heard
ImplementsLifecycle == Lifecycle!Spec
=============================================================================
