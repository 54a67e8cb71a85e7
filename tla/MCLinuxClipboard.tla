--------------------------- MODULE MCLinuxClipboard ---------------------------
(* Two offers, one or both of them with a file list.  In the first instance*)
(* they share the place of one file, and one of them lists another; in the *)
(* second both list a single file at the same place.                       *)
EXTENDS LinuxClipboard
MCFileLists == {{1}, Offers}
MCNodesOf == [f \in Offers |-> IF f = 1 THEN {"first", "second"} ELSE {"first"}]
AllFiles == {Offers}
SameNodes == [f \in Offers |-> {<<"file">>}]
=============================================================================
