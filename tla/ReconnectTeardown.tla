-------------------------- MODULE ReconnectTeardown --------------------------
(***************************************************************************)
(* connection::ReconnectRuntimeService                                      *)
(* (src/src/runtime/connection/reconnect_runtime_service.cpp): after a      *)
(* reconnect the coordinator asks the peer, over the control channel, to    *)
(* close the transports that were replaced.  The dispatcher sends one       *)
(* request per channel and tracks it, the peer's handler answers each, and  *)
(* the timer expires what stays unanswered.  The diagnostics report is      *)
(* computed from what is left of all that.                                  *)
(*                                                                          *)
(* A request is known by its message id; what the peer does for one does    *)
(* not depend on the others, so the packets on the link are a set.  The     *)
(* agent-side dispatch, off by default and in every caller, is left out.    *)
(***************************************************************************)
EXTENDS Tracking, Integers, Sequences, FiniteSets

CONSTANTS Targets,          \* channels whose old transports a run may tear down
          FirstId, LastId,  \* message ids of this tracker; LastId bounds a behaviour
          TimeoutMs,        \* ReconnectCoordinatorOptions::teardownTimeoutMs
          MaxClock          \* bound: the clock stops here

ASSUME TeardownAssumption ==
  /\ IsFiniteSet(Targets)
  /\ FirstId \in Nat \ {0} /\ LastId \in Nat /\ FirstId <= LastId
  /\ LastId < IdModulus - 1          \* no wrap here: RequestTracker has it
  /\ TimeoutMs \in Nat \ {0}
  /\ MaxClock \in Nat /\ TimeoutMs <= MaxClock

VARIABLES active,     \* the service runs: subscribed, handler started
          next,       \* the tracker's nextMessageId_
          pending,    \* its pending_: message id -> [deadline, sentAt]
          plan,       \* the dispatcher's activePlan_: message id -> target
          terminal,   \* message id -> statuses in terminalResponses_
          run,        \* lastRun_
          expired,    \* expiredRequests_
          clock,      \* the monotonic clock
          connected,  \* the control channel can send
          requests,   \* requests on their way to the peer
          replies,    \* responses on their way back
          closed      \* requests for which the peer has closed the old transport

vars == <<active, next, pending, plan, terminal, run, expired, clock, connected,
          requests, replies, closed>>
trackerVars == <<next, pending>>
dispatchVars == <<plan, terminal>>
linkVars == <<connected, requests, replies>>

Ids == FirstId .. LastId

(* Never run; a step before the teardown failed or a request could not be   *)
(* sent; run without teardown; every teardown request sent.                 *)
RunOutcome == {"none", "failed", "rebound", "dispatched"}

TerminalStatus == {"Ok", "Failed", "Timeout", "Cancelled", "ChannelUnavailable"}

(* Nobody on the way sets ReconnectTeardownWireOptions::monotonicTimestampUsec. *)
Stamp == 0

Init ==
  /\ active = FALSE
  /\ next = FirstId
  /\ pending = [i \in {} |-> {}]
  /\ plan = [i \in {} |-> {}]
  /\ terminal = [i \in Ids |-> << >>]
  /\ run = "none"
  /\ expired = 0
  /\ clock \in 0 .. MaxClock
  /\ connected = TRUE
  /\ requests = {}
  /\ replies = {}
  /\ closed = {}

-----------------------------------------------------------------------------
(* The dispatcher *)

(* The messages a summary holds against a run: a response to no command of  *)
(* the plan, a second one, one that is not Ok, none at all.                 *)
SummaryComplete == DOMAIN plan # {} /\ \A i \in DOMAIN plan : terminal[i] # << >>

(* Fault: an answer is taken for a success. *)
Faulty_SummaryOk == SummaryComplete
SummaryOk ==
  /\ SummaryComplete
  /\ \A i \in DOMAIN plan : terminal[i] = <<"Ok">>
  /\ \A i \in Ids \ DOMAIN plan : terminal[i] = << >>

(* recordTrackedResponse(): a tracked request knows its command, whatever   *)
(* the plan is by now.                                                      *)
Record(ids, status) ==
  terminal' = [i \in Ids |-> IF i \in ids THEN Append(terminal[i], status) ELSE terminal[i]]

(* Fault: the last command is left without an id. *)
Faulty_CommandIds(n) == next .. next + n - 2
CommandIds(n) == next .. next + n - 1

(* dispatch(): the plan and the responses of the previous one are replaced, *)
(* then each command is tracked and sent; a request that could not be sent  *)
(* is completed at once with an error made up for it.                       *)
DispatchTeardown(targets, ids, failed) ==
  /\ ids \subseteq Ids
  /\ ~connected => failed = ids
  /\ \E p \in [ids -> targets] :
       /\ \A i, j \in ids : p[i] = p[j] => i = j
       /\ plan' = p
  /\ terminal' = [i \in Ids |-> IF i \in failed THEN <<"ChannelUnavailable">> ELSE << >>]
  /\ pending' = [i \in DOMAIN pending \cup (ids \ failed) |->
                   IF i \in ids THEN [deadline |-> Stamp + TimeoutMs, sentAt |-> clock]
                                ELSE pending[i]]
  /\ next' = next + Cardinality(targets)
  /\ requests' = requests \cup (ids \ failed)
  /\ run' = IF failed = {} THEN "dispatched" ELSE "failed"

-----------------------------------------------------------------------------
(* The runtime service *)

Start ==
  /\ ~active
  /\ active' = TRUE
  /\ UNCHANGED <<trackerVars, dispatchVars, run, expired, clock, linkVars, closed>>

(* Fault: what is pending is left for the timer. *)
Faulty_Stop ==
  /\ active
  /\ active' = FALSE
  /\ UNCHANGED <<trackerVars, dispatchVars, run, expired, clock, linkVars, closed>>

(* stop() cancels what is pending, then unsubscribes. *)
Stop ==
  /\ active
  /\ active' = FALSE
  /\ Record(DOMAIN pending, "Cancelled")
  /\ pending' = [i \in {} |-> {}]
  /\ UNCHANGED <<next, plan, run, expired, clock, linkVars, closed>>

(* The plan is rejected or a replacement fails. *)
RunFails ==
  /\ active
  /\ run' = "failed"
  /\ expired' = 0
  /\ UNCHANGED <<active, trackerVars, dispatchVars, clock, linkVars, closed>>

(* The PC shell's options: replace, leave the teardown to the local commit. *)
RunWithoutTeardown ==
  /\ active
  /\ run' = "rebound"
  /\ expired' = 0
  /\ UNCHANGED <<active, trackerVars, dispatchVars, clock, linkVars, closed>>

(* Requests of an earlier run may still be pending. *)
RunWithTeardown(targets) ==
  /\ active
  /\ targets # {}
  /\ \E failed \in SUBSET CommandIds(Cardinality(targets)) :
       DispatchTeardown(targets, CommandIds(Cardinality(targets)), failed)
  /\ expired' = 0
  /\ UNCHANGED <<active, clock, connected, replies, closed>>

(* Fault: an answered request stays pending. *)
Faulty_Receive(reply) ==
  /\ reply \in replies
  /\ replies' = replies \ {reply}
  /\ IF active /\ Reaches(pending, reply.responseTo)
     THEN Record({reply.responseTo}, reply.status)
     ELSE UNCHANGED terminal
  /\ UNCHANGED <<active, trackerVars, plan, run, expired, clock, connected, requests, closed>>

(* A response arrives; nobody is subscribed once the service has stopped.   *)
Receive(reply) ==
  /\ reply \in replies
  /\ replies' = replies \ {reply}
  /\ IF active /\ Reaches(pending, reply.responseTo)
     THEN /\ Record({reply.responseTo}, reply.status)
          /\ pending' = Without(pending, {reply.responseTo})
     ELSE UNCHANGED <<terminal, pending>>
  /\ UNCHANGED <<active, next, plan, run, expired, clock, connected, requests, closed>>

(* Fault: what has expired is forgotten. *)
Faulty_Expire ==
  /\ active
  /\ Overdue(pending, clock) # {}
  /\ Record(Overdue(pending, clock), "Timeout")
  /\ pending' = Without(pending, Overdue(pending, clock))
  /\ UNCHANGED <<active, next, plan, run, expired, clock, linkVars, closed>>

(* expire() from the QTimer; an inactive service expires nothing. *)
Expire ==
  /\ active
  /\ Overdue(pending, clock) # {}
  /\ Record(Overdue(pending, clock), "Timeout")
  /\ pending' = Without(pending, Overdue(pending, clock))
  /\ expired' = expired + Cardinality(Overdue(pending, clock))
  /\ UNCHANGED <<active, next, plan, run, clock, linkVars, closed>>

Tick ==
  /\ clock < MaxClock
  /\ clock' = clock + 1
  /\ UNCHANGED <<active, trackerVars, dispatchVars, run, expired, linkVars, closed>>

-----------------------------------------------------------------------------
(* The peer and the control channel *)

(* The close target closes the old transport, or finds it gone already, or  *)
(* answers with an error; the response may fail to go out.                  *)
HandleRequest(id) ==
  /\ id \in requests
  /\ requests' = requests \ {id}
  /\ \E status \in {"Ok", "Failed"}, sent \in BOOLEAN :
       /\ closed' = IF status = "Ok" THEN closed \cup {id} ELSE closed
       /\ replies' = IF sent THEN replies \cup {[responseTo |-> id, status |-> status]}
                             ELSE replies
  /\ UNCHANGED <<active, trackerVars, dispatchVars, run, expired, clock, connected>>

(* The peer's handler is not started: no subscription takes the packet. *)
IgnoreRequest(id) ==
  /\ id \in requests
  /\ requests' = requests \ {id}
  /\ UNCHANGED <<active, trackerVars, dispatchVars, run, expired, clock, connected,
                 replies, closed>>

LoseLink ==
  /\ connected
  /\ connected' = FALSE
  /\ requests' = {}
  /\ replies' = {}
  /\ UNCHANGED <<active, trackerVars, dispatchVars, run, expired, clock, closed>>

RestoreLink ==
  /\ ~connected
  /\ connected' = TRUE
  /\ UNCHANGED <<active, trackerVars, dispatchVars, run, expired, clock, requests,
                 replies, closed>>

-----------------------------------------------------------------------------
Next ==
  \/ Start \/ Stop
  \/ RunFails \/ RunWithoutTeardown
  \/ \E targets \in SUBSET Targets : RunWithTeardown(targets)
  \/ \E reply \in replies : Receive(reply)
  \/ Expire \/ Tick
  \/ \E id \in requests : HandleRequest(id) \/ IgnoreRequest(id)
  \/ LoseLink \/ RestoreLink

Spec == Init /\ [][Next]_vars

(* The QTimer runs as long as the service does. *)
FairSpec == Spec /\ WF_vars(Tick) /\ WF_vars(Expire)
-----------------------------------------------------------------------------
TypeOK ==
  /\ active \in BOOLEAN
  /\ next \in FirstId .. LastId + 1
  /\ DOMAIN pending \subseteq Ids
  /\ pending \in [DOMAIN pending -> [deadline : Nat, sentAt : Nat]]
  /\ DOMAIN plan \subseteq Ids
  /\ plan \in [DOMAIN plan -> Targets]
  /\ terminal \in [Ids -> Seq(TerminalStatus)]
  /\ run \in RunOutcome
  /\ expired \in Nat
  /\ clock \in 0 .. MaxClock
  /\ connected \in BOOLEAN
  /\ requests \subseteq Ids
  /\ replies \subseteq [responseTo : Ids, status : {"Ok", "Failed"}]
  /\ closed \subseteq Ids

(* A summary that says ok is the peer's word for every command of the run:  *)
(* neither a timeout, a cancellation, a failed send nor a late answer to an *)
(* earlier run makes one up (summarizeReconnectTeardownResponses).          *)
SummaryIsSound == SummaryOk => DOMAIN plan \subseteq closed

(* A command of the current run is waiting or has exactly one terminal      *)
(* response, whatever becomes of the link, the timer and the service        *)
(* meanwhile (dispatch, complete, expire and stop of the service).          *)
SettledOnce ==
  \A i \in DOMAIN plan :
    IF i \in DOMAIN pending THEN terminal[i] = << >> ELSE Len(terminal[i]) = 1

(* buildReconnectDiagnosticsReport() *)
ReportComplete == run # "none" /\ DOMAIN pending = {}
ReportOk == run \in {"rebound", "dispatched"} /\ DOMAIN pending = {} /\ expired = 0

(* A run with a request that timed out or could not be sent is never        *)
(* reported as ok, also not after a later restart of the service            *)
(* (expiredRequests_ and the coordinator's step report).                    *)
ReportOwnsLosses ==
  (run = "dispatched" \/ run = "failed") /\ ReportOk =>
    \A i \in DOMAIN plan : \A n \in 1 .. Len(terminal[i]) :
      terminal[i][n] \notin {"Timeout", "ChannelUnavailable"}

(* Every run's teardown ends: answered, expired or cancelled, as long as    *)
(* the timer runs (ReconnectRuntimeService::expire and stop).               *)
EveryTeardownEnds == DOMAIN pending # {} ~> DOMAIN pending = {}

(* What NETWORK_MODEL.md says of the service: "expire timed-out requests    *)
(* through RequestTracker", so none that has not had its timeout.           *)
OnlyTimedOutExpire ==
  [][\A i \in DOMAIN pending \ DOMAIN pending' :
       expired' > expired => clock - pending[i].sentAt >= TimeoutMs]_vars

(* What FUSIONDESK_STAGE_GATES.md says of the report: it is there "for      *)
(* plan, replacement, Session rebind, teardown, and timeout status", so a   *)
(* complete report is not ok when the teardown is not.                      *)
ReportTellsTeardown == run = "dispatched" /\ ReportOk => SummaryOk
=============================================================================
