------------------------------ MODULE MCDisplay ------------------------------
(* A Windows desktop of three contents, the third of another size, captured *)
(* by the best of the available backends.                                    *)
EXTENDS Display, TLC
MCRequest(adapter, available) ==
  [adapter |-> adapter, available |-> available, allowFallback |-> TRUE, source |-> "Monitor",
   permissionGranted |-> TRUE, serviceSession |-> FALSE, preferZeroCopy |-> TRUE,
   policyAllows |-> TRUE]
MCRequests == {MCRequest("", {"dxgi", "gdi"}), MCRequest("wgc", {"dxgi", "wgc", "gdi"})}
MCFailures == {[code |-> "DeviceLost", recoverable |-> TRUE],
               [code |-> "SystemCallFailed", recoverable |-> FALSE]}
MCShape == [c \in 1 .. 3 |-> IF c = 3 THEN 2 ELSE 1] @@ (0 :> 0)
=============================================================================
