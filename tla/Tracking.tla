------------------------------ MODULE Tracking ------------------------------
(***************************************************************************)
(* The pure part of network::RequestTracker                                 *)
(* (src/src/core/network/request_tracker.cpp): what the class computes from *)
(* its map of pending requests.  Every service that owns a tracker (the     *)
(* reconnect teardown, the peer profile and module inventory exchanges, the *)
(* clipboard reads, the display keyframe requests) uses these operators.    *)
(*                                                                          *)
(* A request is a record                                                    *)
(*   [kind, messageId, correlationId, timeout, stamp, channel];             *)
(* the pending map is a function from message ids to records that have at   *)
(* least the fields "channel" and "deadline".  Time has one unit: the code  *)
(* multiplies timeoutMs by 1000 because its clock counts microseconds.      *)
(***************************************************************************)
EXTENDS Naturals

CONSTANT IdModulus     \* 2^64 in the code: message ids are 0 .. IdModulus - 1

ASSUME IdModulusAssumption == IdModulus \in Nat /\ IdModulus > 1

MessageId == 0 .. IdModulus - 1

RequestKind  == {"Request", "StreamStart", "Cancel", "Event"}
InterimKind  == {"Ack", "Progress"}
TerminalKind == {"Response", "Error", "StreamEnd"}
ResponseKind == InterimKind \cup TerminalKind

IsTrackableRequest(kind) == kind \in {"Request", "StreamStart", "Cancel"}
IsTerminalResponse(kind) == kind \in TerminalKind

(* uint64_t increment *)
Wrap(n) == IF n = IdModulus THEN 0 ELSE n

(* nextMessageId(): the id handed out when the counter holds n, and the     *)
(* value the counter keeps.                                                 *)
HandedOut(n)       == IF n = 0 THEN 1 ELSE n
(* Fault: the counter is taken to be unbounded. *)
Faulty_AfterHandingOut(n) == HandedOut(n) + 1
AfterHandingOut(n) == Wrap(HandedOut(n) + 1)

(* Fault: an id that is still pending is tracked again. *)
Faulty_TrackStatus(pending, r) ==
  IF ~IsTrackableRequest(r.kind) \/ 0 \in {r.messageId, r.correlationId, r.timeout}
  THEN "InvalidArgument" ELSE "Ok"

(* track(): the checks in the order the code makes them. *)
TrackStatus(pending, r) ==
  CASE ~IsTrackableRequest(r.kind)      -> "InvalidArgument"
    [] r.messageId = 0                  -> "InvalidArgument"
    [] r.correlationId = 0              -> "InvalidArgument"
    [] r.timeout = 0                    -> "InvalidArgument"
    [] r.messageId \in DOMAIN pending   -> "Conflict"
    [] OTHER                            -> "Ok"

Deadline(r) == r.stamp + r.timeout

(* complete() reaches a handler only for a pending, non-zero responseTo. *)
Reaches(pending, responseTo) == responseTo # 0 /\ responseTo \in DOMAIN pending

Without(pending, ids) == [i \in DOMAIN pending \ ids |-> pending[i]]

(* Faults: the entry survives its terminal response; a timer that looks for *)
(* the exact deadline.                                                      *)
Faulty_Completed(responseTo, kind) == {}
Faulty_Overdue(pending, now)       == {i \in DOMAIN pending : pending[i].deadline = now}

(* The requests one call of complete, expire or cancelByChannel removes. *)
Completed(responseTo, kind)   == IF IsTerminalResponse(kind) THEN {responseTo} ELSE {}
Overdue(pending, now)         == {i \in DOMAIN pending : pending[i].deadline <= now}
OnChannel(pending, channel)   == {i \in DOMAIN pending : pending[i].channel = channel}
=============================================================================
