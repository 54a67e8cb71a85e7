--------------------------- MODULE ChannelRegistry ---------------------------
(***************************************************************************)
(* The pure part of network::ChannelRegistry                                *)
(* (src/src/core/network/channel_registry.cpp) and of the static channel    *)
(* and packet tables (channel_defaults.cpp, channel_allowlist.cpp): what    *)
(* each registry operation makes of the entry of one channel key.           *)
(*                                                                          *)
(* A channel key (id and type) is named after the specification that        *)
(* carries it.  A link is one IChannel instance; several links may be made  *)
(* for the same key over time.  Of the ChannelSpec the allowlist is kept;   *)
(* names, socket classes and messages are left out.                         *)
(***************************************************************************)
CONSTANT NoLink       \* the null shared_ptr<IChannel>

ChannelKey == {"control", "small_data", "main_screen", "large_data"}

ChannelLifecycleState ==
  {"Registered", "Bound", "Ready", "Degraded", "Closed", "Failed"}

PressureLevel == {"Healthy", "BuildingQueue", "Congested"}

(* make*Spec(): the packet types a channel carries. *)
Allowlist(key) ==
  IF key = "control"
  THEN {"ChannelInit", "Heartbeat", "Login", "Control", "Exchange", "CheckLicense"}
  ELSE IF key = "small_data"
  THEN {"PayloadAck", "Mouse", "Keyboard", "Touchscreen", "Gamepad", "Clipboard",
        "FilesystemControl", "Printer", "Control"}
  ELSE IF key = "main_screen"
  THEN {"Video", "PayloadAck", "CursorChange", "Watermark"}
  ELSE {"Filesystem", "FilesystemControl", "FilesystemIrp", "Printer", "Clipboard"}

(* registerSpec() *)
RegisteredEntry ==
  [state |-> "Registered", bound |-> FALSE, ready |-> FALSE, channel |-> NoLink,
   level |-> "Healthy", queuedPackets |-> 0]

(* bind(): the binding and the state; the ready flag is left as it was. *)
Bound(e, link) ==
  [e EXCEPT !.channel = link, !.bound = TRUE, !.state = "Bound"]

Unbound(e) ==
  [e EXCEPT !.channel = NoLink, !.bound = FALSE, !.ready = FALSE, !.state = "Closed"]

(* markReady() answers NotReady unless the bound channel is open now. *)
CanBeReady(e, open) == e.channel # NoLink /\ e.channel \in open
MadeReady(e)        == [e EXCEPT !.ready = TRUE, !.state = "Ready"]

MadeDegraded(e) == [e EXCEPT !.ready = FALSE, !.state = "Degraded"]
MadeFailed(e)   == [e EXCEPT !.ready = FALSE, !.state = "Failed"]

IsReady(e) == e.ready /\ e.state = "Ready"

(* validatePacket(): the checks in the order the code makes them. *)
PacketStatus(entries, negotiated, key, type) ==
  IF key \notin DOMAIN entries       THEN "NotFound"
  ELSE IF type \notin negotiated     THEN "NotNegotiated"
  ELSE IF type \notin Allowlist(key) THEN "PacketTypeNotAllowed"
  ELSE IF ~IsReady(entries[key])     THEN "NotReady"
  ELSE "Ok"
=============================================================================
