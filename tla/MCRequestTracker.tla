-------------------------- MODULE MCRequestTracker --------------------------
(* Three calls over two channels; message ids 1 and 2 only, so that the     *)
(* counter wraps while earlier requests are still pending.                  *)
EXTENDS RequestTracker
CONSTANTS c1, c2, c3, ctl, data
MCCalls == {c1, c2, c3}
MCChannels == {ctl, data}
MCTimeouts == {0, 2}
=============================================================================
