--------------------------- MODULE CallLifecycle ---------------------------
(***************************************************************************)
(* What the owner of a RequestTracker may rely on, without any of its       *)
(* tables, ids or deadlines: a call is refused at once or stays open; an    *)
(* open call may report progress any number of times and ends with exactly  *)
(* one terminal report; a closed or refused call is never heard of again.   *)
(***************************************************************************)
EXTENDS Sequences

CONSTANTS Calls, InterimKind, TerminalKind

VARIABLES phase,   \* call -> where it is in its life
          heard    \* call -> the reports its owner has had

vars == <<phase, heard>>

Init ==
  /\ phase = [c \in Calls |-> "unissued"]
  /\ heard = [c \in Calls |-> << >>]

Issue(c) ==
  /\ phase[c] = "unissued"
  /\ \E p \in {"refused", "open"} : phase' = [phase EXCEPT ![c] = p]
  /\ UNCHANGED heard

Report(S, kind) ==
  heard' = [c \in Calls |-> IF c \in S THEN Append(heard[c], kind) ELSE heard[c]]

Progress(c, kind) ==
  /\ phase[c] = "open"
  /\ kind \in InterimKind
  /\ Report({c}, kind)
  /\ UNCHANGED phase

(* One operation may close several calls: a timer tick, a lost channel. *)
Close(S, kind) ==
  /\ \A c \in S : phase[c] = "open"
  /\ kind \in TerminalKind
  /\ Report(S, kind)
  /\ phase' = [c \in Calls |-> IF c \in S THEN "closed" ELSE phase[c]]

Next ==
  \/ \E c \in Calls : Issue(c)
  \/ \E c \in Calls, kind \in InterimKind : Progress(c, kind)
  \/ \E S \in SUBSET Calls, kind \in TerminalKind : Close(S, kind)

Spec == Init /\ [][Next]_vars
=============================================================================
