--------------------------- MODULE DisplayRecovery ---------------------------
(***************************************************************************)
(* display_capture_recovery.cpp: what the runtime does about a frame that   *)
(* could not be captured.  A recovery state is [backend, attempts, last,    *)
(* cooling]: the attempts on the same backend, whether the last one is      *)
(* inside the recovery window ("none", "recent", "old"), and whether the    *)
(* pause after a failed attempt still runs.                                 *)
(***************************************************************************)
EXTENDS Naturals

CONSTANT RecoveryLimit   \* policy.sameBackendRecoveryLimit

ASSUME RecoveryLimitAssumption == RecoveryLimit \in Nat

Ok == [code |-> "Ok", recoverable |-> FALSE]
FrameTimeout == [code |-> "FrameTimeout", recoverable |-> TRUE]
NotOpen == [code |-> "NotOpen", recoverable |-> TRUE]
FreshRecovery == [backend |-> "", attempts |-> 0, last |-> "none", cooling |-> FALSE]
Executable == {"Reopen", "Recreate", "Switch"}

(* decideDisplayCaptureRecovery() *)
Decide(status) ==
  CASE status.code \in {"Ok", "Unknown"} -> "None"
    [] status.code = "FrameTimeout" -> "RetryNextFrame"
    [] status.code \in {"AccessDenied", "PermissionRevoked", "ProtectedContent"} ->
         "WaitForPermission"
    [] status.code = "Unsupported" -> "Switch"
    [] status.code = "DeviceLost" -> IF status.recoverable THEN "Recreate" ELSE "Switch"
    [] OTHER -> IF status.recoverable THEN "Reopen" ELSE "Switch"

SameBackend(r, backend) == r.backend # "" /\ r.backend = backend
WindowExpired(r) == r.last # "recent"

(* recordDisplayCaptureFrameSuccess() *)
FrameSuccess(r, backend) ==
  LET fresh == ~SameBackend(r, backend) \/ WindowExpired(r)
  IN [backend |-> backend, cooling |-> FALSE,
      attempts |-> IF fresh THEN 0 ELSE r.attempts,
      last |-> IF fresh THEN "none" ELSE r.last]

(* Fault: one attempt more before the switch. *)
Faulty_Exhausted(attempts) == RecoveryLimit > 0 /\ attempts > RecoveryLimit

Exhausted(attempts) == RecoveryLimit > 0 /\ attempts >= RecoveryLimit

(* selectDisplayCaptureRecoveryPlan(): the action and the state it leaves.  *)
Plan(r, status, backend) ==
  LET next == IF SameBackend(r, backend)
              THEN [r EXCEPT !.attempts = IF WindowExpired(r) THEN 0 ELSE @]
              ELSE [FreshRecovery EXCEPT !.backend = backend]
      base == Decide(status)
  IN IF status.code = "Ok" THEN [action |-> "None", next |-> FrameSuccess(r, backend)]
     ELSE IF base \in Executable /\ r.cooling
     THEN [action |-> "RetryNextFrame", next |-> [next EXCEPT !.cooling = TRUE]]
     ELSE [action |-> IF base \in {"Reopen", "Recreate"} /\ Exhausted(next.attempts)
                      THEN "Switch" ELSE base,
           next |-> next]

(* recordDisplayCaptureRecoveryAttempt() *)
Attempted(plan, success, backend) ==
  [backend |-> backend, last |-> "recent", cooling |-> ~success,
   attempts |-> IF plan.action = "Switch" \/ ~SameBackend(plan.next, backend) THEN 0
                ELSE plan.next.attempts + 1]
=============================================================================
