------------------------------ MODULE MCSession ------------------------------
(* The agent's display and clipboard modules (module_catalog.cpp, without    *)
(* the second screen), with a replacement link for the small data channel    *)
(* that is not marked ready when it is bound.                                *)
EXTENDS Session, TLC
CONSTANTS l1, l2, l3
MCKeys == {"main_screen", "small_data", "large_data"}
(* The large data channel is optional and not registered here. *)
MCMinimumChannels == {"main_screen", "small_data"}
MCLinks == {l1, l2, l3}
MCKeyOf == [l \in MCLinks |-> IF l = l1 THEN "main_screen" ELSE "small_data"]
MCModules == {"display", "clipboard"}
MCConsumes ==
  [m \in MCModules |->
     IF m = "display" THEN {<<"main_screen", "Watermark">>, <<"small_data", "PayloadAck">>}
                      ELSE {<<"small_data", "Clipboard">>, <<"large_data", "Clipboard">>}]
MCRequiredChannels ==
  [m \in MCModules |-> IF m = "display" THEN {"main_screen", "small_data"} ELSE {"small_data"}]
MCOtherChannels == [m \in MCModules |-> IF m = "display" THEN {} ELSE {"large_data"}]
MCRequiredModules == [m \in MCModules |-> {}]
MCFallible == {"display"}
MCBare == {l3}
=============================================================================
