------------------------------ MODULE MCBringup -----------------------------
(* Bring-ups of one agent with two clients in turn, over two media channels. *)
EXTENDS Bringup

Side(option, adapter, h264, software) ==
  [option |-> option, adapter |-> adapter, h264 |-> h264, software |-> software]

MCRequired == {"main_screen", "small_data"}

Channel(key, endpoint) == [key |-> key, endpoint |-> endpoint]
Asks(side, version, session, first, second) ==
  [side |-> side, version |-> version, session |-> session,
   channels |-> <<Channel("main_screen", first), Channel("small_data", second)>>]

(* Different codec options; another endpoint; the same endpoint twice; an   *)
(* endpoint that is taken; a wrong session.                                 *)
MCRequests ==
  {Asks(Side("auto", "", TRUE, TRUE), 1, 7, "e1", "e2"),
   Asks(Side("", "", TRUE, TRUE), 2, 7, "e3", "e4"),
   Asks(Side("h265", "", FALSE, TRUE), 1, 7, "e1", "e4"),
   Asks(Side("h264", "mf.h264", TRUE, TRUE), 1, 7, "e3", "taken"),
   Asks(Side("h264", "", TRUE, FALSE), 2, 7, "e3", "e4"),
   Asks(Side("auto", "", TRUE, TRUE), 2, 7, "e1", "e1"),
   Asks(Side("raw", "", TRUE, TRUE), 1, 8, "e1", "e2")}

MCAgentSides ==
  {Side("h264", "", TRUE, TRUE), Side("auto", "raw_frame", TRUE, TRUE),
   Side("h265", "", FALSE, TRUE), Side("h264", "mf.h264", TRUE, TRUE)}
=============================================================================
