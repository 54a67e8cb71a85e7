-------------------------- MODULE MCNetworkManager --------------------------
(* The screen channel with the link it starts on and a replacement, beside  *)
(* the control channel on a link of its own.                                *)
EXTENDS NetworkManager
CONSTANTS l1, l2, l3
MCKeys == {"control", "main_screen"}
MCLinks == {l1, l2, l3}
MCKeyOf == [l \in MCLinks |-> IF l = l1 THEN "control" ELSE "main_screen"]
(* Watermark packets are not negotiated. *)
MCPacketTypes == {"Heartbeat", "Control", "Video", "PayloadAck", "Watermark"}
MCNegotiated == MCPacketTypes \ {"Watermark"}

(* The control channel alone. *)
ControlKeys == {"control"}
ControlLinks == {l1}
ControlKeyOf == [l \in ControlLinks |-> "control"]
ControlPacketTypes == {"Heartbeat", "Control"}
=============================================================================
