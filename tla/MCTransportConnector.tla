------------------------ MODULE MCTransportConnector ------------------------
EXTENDS TransportConnector, TLC
CONSTANTS m1, m2, m3, m4, s1
MCKeys == {"main_screen", "small_data"}
(* The other channel is registered when its first transport is bound. *)
MCMinimumChannels == {"main_screen"}
MCLinks == {m1, m2, m3, m4, s1}
MCKeyOf == [l \in MCLinks |-> IF l = s1 THEN "small_data" ELSE "main_screen"]
Replaceable == Permutations({m1, m2, m3, m4})
(* A profile file names registered channels only. *)
MCOneKeyLinks == {m1, m2, m3, m4}
MCOneKeyOf == [l \in MCOneKeyLinks |-> "main_screen"]
=============================================================================
