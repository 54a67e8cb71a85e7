----------------------------- MODULE MCClipboard -----------------------------
(* One side copies a file list, the other one copies too, under the same    *)
(* offer number; one side pastes twice, or both do, through each kind of    *)
(* remote call.                                                             *)
EXTENDS Clipboard
CONSTANTS near, far
MCPeers == {near, far}
Everything == [p \in MCPeers |-> Full]
MCPolicies == {Everything, [Everything EXCEPT ![near] = @ \ {"files"}],
               [Everything EXCEPT ![far] = {"announce"}]}
MCOffers == [p \in MCPeers |-> 1]
MCPastes == [p \in MCPeers |-> Kinds]
MCCalls == [p \in MCPeers |-> IF p = near THEN 0 ELSE 2]
OpenPolicies == {Everything}
OnlyReads == [p \in MCPeers |-> {"read"}]
BothCall == [p \in MCPeers |-> 2]
=============================================================================
