------------------------- MODULE MCReconnectTeardown -------------------------
(* Two channels whose old transports are torn down, in up to two runs. *)
EXTENDS ReconnectTeardown, TLC
CONSTANTS screen, small
MCTargets == {screen, small}
TargetSymmetry == Permutations(MCTargets)
=============================================================================
