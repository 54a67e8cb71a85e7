----------------------- MODULE ReconnectTeardownProofs -----------------------
(***************************************************************************)
(* Theorems about the reconnect teardown for any set of channels, any       *)
(* number of runs, any timeout and any clock.                               *)
(*                                                                          *)
(* None of the three properties is inductive.  That a request is settled    *)
(* once needs that the ids of a new run are not pending from an earlier     *)
(* one; that an ok is the peer's word needs that it was so already when the *)
(* response was on its way; that no loss is reported as ok needs to hold    *)
(* for what expires of earlier runs, too, whose statuses are recorded       *)
(* beside those of the current plan.                                        *)
(***************************************************************************)
EXTENDS ReconnectTeardown, FiniteSetTheorems, TLAPS

USE TeardownAssumption

(* Ids are handed out in order. *)
PendingIsOld == \A i \in DOMAIN pending : i < next

OkIsClosed ==
  /\ \A reply \in replies : reply.status = "Ok" => reply.responseTo \in closed
  /\ \A i \in Ids : \A n \in 1 .. Len(terminal[i]) :
       terminal[i][n] = "Ok" => i \in closed

Lost == {"Timeout", "ChannelUnavailable"}

LossesCounted ==
  run = "dispatched" /\ expired = 0 =>
    \A i \in Ids : \A n \in 1 .. Len(terminal[i]) : terminal[i][n] \notin Lost

IInv == TypeOK /\ PendingIsOld /\ SettledOnce /\ OkIsClosed /\ LossesCounted

-----------------------------------------------------------------------------
LEMMA InitInv == Init => IInv
<1> SUFFICES ASSUME Init PROVE IInv
  OBVIOUS
<1>1. /\ DOMAIN pending = {} /\ DOMAIN plan = {}
      /\ pending \in [{} -> [deadline : Nat, sentAt : Nat]]
      /\ plan \in [{} -> Targets]
  BY DEF Init
<1>2. /\ terminal \in [Ids -> Seq(TerminalStatus)]
      /\ \A i \in Ids : Len(terminal[i]) = 0
  BY DEF Init
<1>3. next \in FirstId .. LastId + 1
  BY DEF Init
<1>4. TypeOK
  BY <1>1, <1>2, <1>3 DEF Init, TypeOK, RunOutcome
<1> QED BY <1>1, <1>2, <1>4
        DEF Init, IInv, PendingIsOld, SettledOnce, OkIsClosed, LossesCounted

(* What recordTrackedResponse() adds to the responses of each request. *)
LEMMA Recorded ==
  ASSUME terminal \in [Ids -> Seq(TerminalStatus)], NEW ids \in SUBSET Ids,
         NEW status \in TerminalStatus, Record(ids, status)
  PROVE  /\ terminal' \in [Ids -> Seq(TerminalStatus)]
         /\ \A i \in Ids \ ids : terminal'[i] = terminal[i]
         /\ \A i \in ids : /\ Len(terminal'[i]) = Len(terminal[i]) + 1
                           /\ \A n \in 1 .. Len(terminal'[i]) :
                                \/ terminal'[i][n] = status
                                \/ /\ n \in 1 .. Len(terminal[i])
                                   /\ terminal'[i][n] = terminal[i][n]
BY DEF Record

(* Taking requests off the tracker and recording why keeps each settled once. *)
LEMMA SettlingSettles ==
  ASSUME IInv, NEW ids \in SUBSET DOMAIN pending, NEW status \in TerminalStatus,
         Record(ids, status), pending' = Without(pending, ids),
         plan' = plan, next' = next
  PROVE  SettledOnce' /\ PendingIsOld'
<1>1. DOMAIN pending' = DOMAIN pending \ ids /\ ids \subseteq Ids
  BY DEF Without, IInv, TypeOK
<1>2. PendingIsOld'
  BY <1>1 DEF IInv, PendingIsOld
<1>3. ASSUME NEW i \in DOMAIN plan
      PROVE  IF i \in DOMAIN pending' THEN terminal'[i] = << >> ELSE Len(terminal'[i]) = 1
  <2>1. i \in Ids /\ terminal \in [Ids -> Seq(TerminalStatus)]
    BY DEF IInv, TypeOK
  <2>2. CASE i \in ids
    <3>1. terminal[i] = << >> /\ Len(terminal'[i]) = Len(terminal[i]) + 1
      BY <1>1, <2>1, <2>2, Recorded DEF IInv, SettledOnce
    <3> QED BY <1>1, <2>2, <3>1
  <2>3. CASE i \notin ids
    <3>1. terminal'[i] = terminal[i]
      BY <1>1, <2>1, <2>3, Recorded
    <3> QED BY <1>1, <2>3, <3>1 DEF IInv, SettledOnce
  <2> QED BY <2>2, <2>3
<1> QED BY <1>2, <1>3 DEF SettledOnce

(* ... and the tracker's table and the responses stay what they are. *)
LEMMA SettlingTypes ==
  ASSUME TypeOK, NEW ids \in SUBSET DOMAIN pending, NEW status \in TerminalStatus,
         Record(ids, status), pending' = Without(pending, ids)
  PROVE  /\ DOMAIN pending' \subseteq Ids
         /\ pending' \in [DOMAIN pending' -> [deadline : Nat, sentAt : Nat]]
         /\ terminal' \in [Ids -> Seq(TerminalStatus)]
<1>1. ids \subseteq Ids /\ DOMAIN pending' = DOMAIN pending \ ids
  BY DEF TypeOK, Without
<1>2. pending' \in [DOMAIN pending' -> [deadline : Nat, sentAt : Nat]]
  BY <1>1 DEF TypeOK, Without
<1> QED BY <1>1, <1>2, Recorded DEF TypeOK

(* A response that is not an ok leaves the peer's word as it is; one that   *)
(* is no loss leaves the count as it is.                                    *)
LEMMA SettlingOk ==
  ASSUME IInv, NEW ids \in SUBSET Ids, NEW status \in TerminalStatus,
         Record(ids, status), closed' = closed, replies' \subseteq replies,
         status = "Ok" => ids \subseteq closed
  PROVE  OkIsClosed'
<1>1. terminal \in [Ids -> Seq(TerminalStatus)]
  BY DEF IInv, TypeOK
<1>2. ASSUME NEW i \in Ids, NEW n \in 1 .. Len(terminal'[i]), terminal'[i][n] = "Ok"
      PROVE  i \in closed
  <2>1. CASE i \in ids
    <3>0. \/ terminal'[i][n] = status
          \/ n \in 1 .. Len(terminal[i]) /\ terminal'[i][n] = terminal[i][n]
      <4>1. \A j \in ids : \A k \in 1 .. Len(terminal'[j]) :
              \/ terminal'[j][k] = status
              \/ k \in 1 .. Len(terminal[j]) /\ terminal'[j][k] = terminal[j][k]
        BY <1>1, Recorded
      <4> QED BY <2>1, <4>1
    <3>1. CASE terminal'[i][n] = status
      BY <1>2, <2>1, <3>1
    <3>2. CASE n \in 1 .. Len(terminal[i]) /\ terminal'[i][n] = terminal[i][n]
      BY <1>2, <3>2 DEF IInv, OkIsClosed
    <3> QED BY <3>0, <3>1, <3>2
  <2>2. CASE i \notin ids
    <3>1. terminal'[i] = terminal[i]
      BY <1>1, <2>2, Recorded
    <3> QED BY <1>2, <3>1 DEF IInv, OkIsClosed
  <2> QED BY <2>1, <2>2
<1>3. \A reply \in replies' : reply.status = "Ok" => reply.responseTo \in closed
  BY DEF IInv, OkIsClosed
<1> QED BY <1>2, <1>3 DEF OkIsClosed

LEMMA SettlingLosses ==
  ASSUME IInv, NEW ids \in SUBSET Ids, NEW status \in TerminalStatus, status \notin Lost,
         Record(ids, status), run' = run, expired' = expired
  PROVE  LossesCounted'
<1>1. terminal \in [Ids -> Seq(TerminalStatus)] /\ status \in TerminalStatus
  BY DEF IInv, TypeOK
<1>0. \A j \in ids : \A k \in 1 .. Len(terminal'[j]) :
        \/ terminal'[j][k] = status
        \/ k \in 1 .. Len(terminal[j]) /\ terminal'[j][k] = terminal[j][k]
  BY <1>1, Recorded, SMTT(60)
<1>2. ASSUME run' = "dispatched", expired' = 0, NEW i \in Ids, NEW n \in 1 .. Len(terminal'[i])
      PROVE  terminal'[i][n] \notin Lost
  <2>1. \A j \in 1 .. Len(terminal[i]) : terminal[i][j] \notin Lost
    BY <1>2 DEF IInv, LossesCounted
  <2>2. CASE i \in ids
    <3>0. \/ terminal'[i][n] = status
          \/ n \in 1 .. Len(terminal[i]) /\ terminal'[i][n] = terminal[i][n]
      BY <1>0, <2>2
    <3>1. CASE terminal'[i][n] = status
      BY <3>1
    <3>2. CASE n \in 1 .. Len(terminal[i]) /\ terminal'[i][n] = terminal[i][n]
      BY <2>1, <3>2
    <3> QED BY <3>0, <3>1, <3>2
  <2>3. CASE i \notin ids
    <3>1. terminal'[i] = terminal[i]
      BY <1>1, <2>3, Recorded
    <3> QED BY <1>2, <2>1, <3>1
  <2> QED BY <2>2, <2>3
<1> QED BY <1>2 DEF LossesCounted

-----------------------------------------------------------------------------
(* The commands of a run get ids nobody has. *)
LEMMA DispatchInv ==
  ASSUME IInv, NEW targets \in SUBSET Targets, RunWithTeardown(targets)
  PROVE  IInv'
<1> DEFINE n == Cardinality(targets)
           ids == CommandIds(n)
<1>1. n \in Nat \ {0} /\ IsFiniteSet(targets)
  BY FS_Subset, FS_CardinalityType, FS_EmptySet DEF RunWithTeardown
<1>2. PICK failed \in SUBSET ids : DispatchTeardown(targets, ids, failed)
  BY DEF RunWithTeardown
<1>3. /\ next \in Int /\ ids = next .. next + n - 1 /\ ids \subseteq Ids
      /\ next \in ids /\ next + n - 1 \in ids
  BY <1>1, <1>2 DEF DispatchTeardown, CommandIds, IInv, TypeOK
<1>4. /\ DOMAIN plan' = ids
      /\ plan' \in [ids -> Targets]
  BY <1>2 DEF DispatchTeardown
<1>5. /\ \A i \in Ids : terminal'[i] = IF i \in failed THEN <<"ChannelUnavailable">> ELSE << >>
      /\ terminal' \in [Ids -> Seq(TerminalStatus)]
  <2>1. <<"ChannelUnavailable">> \in Seq(TerminalStatus) /\ << >> \in Seq(TerminalStatus)
    BY DEF TerminalStatus
  <2> QED BY <1>2, <2>1 DEF DispatchTeardown
<1>6. /\ DOMAIN pending' = DOMAIN pending \cup (ids \ failed)
      /\ \A i \in DOMAIN pending' :
           pending'[i] = IF i \in ids THEN [deadline |-> Stamp + TimeoutMs, sentAt |-> clock]
                                      ELSE pending[i]
      /\ pending' = [i \in DOMAIN pending' |-> pending'[i]]
  BY <1>2 DEF DispatchTeardown
<1>7. /\ next' = next + n /\ expired' = 0 /\ run' \in {"dispatched", "failed"}
      /\ run' = "dispatched" => failed = {}
      /\ requests' = requests \cup (ids \ failed)
      /\ UNCHANGED <<active, clock, connected, replies, closed>>
  BY <1>2 DEF DispatchTeardown, RunWithTeardown
<1>8. TypeOK'
  <2>1. next' \in FirstId .. LastId + 1
    BY <1>1, <1>3, <1>7 DEF IInv, TypeOK, Ids
  <2>2. /\ DOMAIN pending' \subseteq Ids
        /\ pending' \in [DOMAIN pending' -> [deadline : Nat, sentAt : Nat]]
    <3>1. [deadline |-> Stamp + TimeoutMs, sentAt |-> clock] \in [deadline : Nat, sentAt : Nat]
      BY DEF IInv, TypeOK, Stamp
    <3>2. \A i \in DOMAIN pending : pending[i] \in [deadline : Nat, sentAt : Nat]
      BY DEF IInv, TypeOK
    <3>3. \A i \in DOMAIN pending' : pending'[i] \in [deadline : Nat, sentAt : Nat]
      BY <1>6, <3>1, <3>2
    <3> QED BY <1>3, <1>6, <3>3 DEF IInv, TypeOK
  <2>3. run' \in RunOutcome /\ requests' \subseteq Ids
    BY <1>3, <1>7 DEF IInv, TypeOK, RunOutcome
  <2> QED BY <1>3, <1>4, <1>5, <1>7, <2>1, <2>2, <2>3 DEF IInv, TypeOK
<1>9. PendingIsOld'
  <2>1. \A i \in ids : i < next + n
    BY <1>1, <1>3
  <2>2. \A i \in DOMAIN pending : i \in Int /\ i < next
    BY DEF IInv, PendingIsOld, TypeOK, Ids
  <2>3. \A i \in DOMAIN pending : i < next + n
    BY <1>1, <1>3, <2>2
  <2>4. \A i \in DOMAIN pending' : i < next'
    BY <1>6, <1>7, <2>1, <2>3
  <2> QED BY <2>4 DEF PendingIsOld
<1>10. SettledOnce'
  <2>1. \A i \in ids : i \notin DOMAIN pending
    BY <1>1, <1>3 DEF IInv, PendingIsOld
  <2> QED BY <1>3, <1>4, <1>5, <1>6, <2>1 DEF SettledOnce
<1>11. OkIsClosed'
  BY <1>5, <1>7 DEF IInv, OkIsClosed
<1>12. LossesCounted'
  BY <1>5, <1>7 DEF LossesCounted
<1> QED BY <1>8, <1>9, <1>10, <1>11, <1>12 DEF IInv

LEMMA ReceiveInv ==
  ASSUME IInv, NEW reply \in replies, Receive(reply)
  PROVE  IInv'
<1> DEFINE id == reply.responseTo
<1>1. /\ id \in Ids /\ reply.status \in TerminalStatus \ Lost
      /\ reply.status = "Ok" => id \in closed
      /\ replies' \subseteq replies
      /\ UNCHANGED <<active, next, plan, run, expired, clock, connected, requests, closed>>
  BY DEF IInv, TypeOK, OkIsClosed, Receive, TerminalStatus, Lost
<1>2. CASE active /\ Reaches(pending, id)
  <2>1. /\ {id} \subseteq DOMAIN pending
        /\ Record({id}, reply.status)
        /\ pending' = Without(pending, {id})
    BY <1>2 DEF Receive, Reaches
  <2>2. TypeOK'
    BY <1>1, <2>1, SettlingTypes DEF IInv, TypeOK
  <2>3. SettledOnce' /\ PendingIsOld'
    BY <1>1, <2>1, SettlingSettles
  <2>4. OkIsClosed'
    BY <1>1, <2>1, SettlingOk
  <2>5. LossesCounted'
    BY <1>1, <2>1, SettlingLosses
  <2> QED BY <2>2, <2>3, <2>4, <2>5 DEF IInv
<1>3. CASE ~(active /\ Reaches(pending, id))
  <2>1. UNCHANGED <<terminal, pending>>
    BY <1>3 DEF Receive
  <2> QED BY <1>1, <2>1 DEF IInv, TypeOK, PendingIsOld, SettledOnce, OkIsClosed, LossesCounted
<1> QED BY <1>2, <1>3

LEMMA ExpireInv ==
  ASSUME IInv, Expire
  PROVE  IInv'
<1> DEFINE late == Overdue(pending, clock)
<1>1. /\ late \subseteq DOMAIN pending /\ late \subseteq Ids /\ late # {}
      /\ "Timeout" \in TerminalStatus
      /\ Record(late, "Timeout")
      /\ pending' = Without(pending, late)
      /\ expired' = expired + Cardinality(late)
      /\ UNCHANGED <<active, next, plan, run, clock, linkVars, closed>>
  BY DEF IInv, TypeOK, Expire, Overdue, TerminalStatus
<1>2. Cardinality(late) \in Nat \ {0}
  <2>1. IsFiniteSet(Ids)
    BY FS_Interval DEF Ids
  <2> QED BY <1>1, <2>1, FS_Subset, FS_CardinalityType, FS_EmptySet
<1>3. TypeOK'
  <2>1. expired' \in Nat
    BY <1>1, <1>2 DEF IInv, TypeOK
  <2>2. /\ DOMAIN pending' \subseteq Ids
        /\ pending' \in [DOMAIN pending' -> [deadline : Nat, sentAt : Nat]]
        /\ terminal' \in [Ids -> Seq(TerminalStatus)]
    BY <1>1, SettlingTypes DEF IInv
  <2> QED BY <1>1, <2>1, <2>2 DEF IInv, TypeOK, linkVars
<1>4. SettledOnce' /\ PendingIsOld'
  BY <1>1, SettlingSettles
<1>5. OkIsClosed'
  BY <1>1, SettlingOk DEF linkVars
<1>6. LossesCounted'
  BY <1>1, <1>2 DEF LossesCounted, IInv, TypeOK
<1> QED BY <1>3, <1>4, <1>5, <1>6 DEF IInv

LEMMA StopInv ==
  ASSUME IInv, Stop
  PROVE  IInv'
<1>1. /\ DOMAIN pending \subseteq Ids
      /\ "Cancelled" \in TerminalStatus \ Lost
      /\ Record(DOMAIN pending, "Cancelled")
      /\ pending' = Without(pending, DOMAIN pending)
      /\ active' = FALSE
      /\ UNCHANGED <<next, plan, run, expired, clock, linkVars, closed>>
  BY DEF IInv, TypeOK, Stop, Without, TerminalStatus, Lost
<1>2. TypeOK'
  BY <1>1, SettlingTypes DEF IInv, TypeOK, linkVars
<1>3. SettledOnce' /\ PendingIsOld'
  BY <1>1, SettlingSettles
<1>4. OkIsClosed'
  BY <1>1, SettlingOk DEF linkVars
<1>5. LossesCounted'
  BY <1>1, SettlingLosses
<1> QED BY <1>2, <1>3, <1>4, <1>5 DEF IInv

-----------------------------------------------------------------------------
LEMMA NextInv == IInv /\ [Next]_vars => IInv'
<1> SUFFICES ASSUME IInv, [Next]_vars PROVE IInv'
  OBVIOUS
<1> USE DEF IInv, TypeOK, PendingIsOld, SettledOnce, OkIsClosed, LossesCounted
<1>1. CASE Start
  BY <1>1 DEF Start, trackerVars, dispatchVars, linkVars
<1>2. CASE Stop
  BY <1>2, StopInv
<1>3. CASE RunFails \/ RunWithoutTeardown
  BY <1>3 DEF RunFails, RunWithoutTeardown, trackerVars, dispatchVars, linkVars, RunOutcome
<1>4. ASSUME NEW targets \in SUBSET Targets, RunWithTeardown(targets) PROVE IInv'
  BY <1>4, DispatchInv
<1>5. ASSUME NEW reply \in replies, Receive(reply) PROVE IInv'
  BY <1>5, ReceiveInv
<1>6. CASE Expire
  BY <1>6, ExpireInv
<1>7. CASE Tick
  BY <1>7 DEF Tick, trackerVars, dispatchVars, linkVars
<1>8. ASSUME NEW id \in requests, HandleRequest(id) PROVE IInv'
  <2>1. PICK status \in {"Ok", "Failed"}, sent \in BOOLEAN :
          /\ closed' = IF status = "Ok" THEN closed \cup {id} ELSE closed
          /\ replies' = IF sent THEN replies \cup {[responseTo |-> id, status |-> status]}
                                ELSE replies
    BY <1>8 DEF HandleRequest
  <2> QED BY <1>8, <2>1 DEF HandleRequest, trackerVars, dispatchVars
<1>9. ASSUME NEW id \in requests, IgnoreRequest(id) PROVE IInv'
  BY <1>9 DEF IgnoreRequest, trackerVars, dispatchVars
<1>10. CASE LoseLink \/ RestoreLink
  BY <1>10 DEF LoseLink, RestoreLink, trackerVars, dispatchVars
<1>11. CASE UNCHANGED vars
  BY <1>11 DEF vars
<1> QED BY <1>1, <1>2, <1>3, <1>4, <1>5, <1>6, <1>7, <1>8, <1>9, <1>10, <1>11 DEF Next

(* The facts above hold throughout every behaviour of the reconnect         *)
(* runtime service, its peer and its timer.                                 *)
THEOREM InvHolds == Spec => []IInv
BY InitInv, NextInv, PTL DEF Spec

(* The tracker, the dispatcher's tables and the packets on the link keep    *)
(* their types, and ids stay within what the tracker hands out.             *)
THEOREM TypeCorrect == Spec => []TypeOK
BY InvHolds, PTL DEF IInv

(* summarizeReconnectTeardownResponses() says ok only when the peer has     *)
(* closed every old transport of the run.                                   *)
THEOREM SummarySound == Spec => []SummaryIsSound
<1>1. IInv => SummaryIsSound
  <2> SUFFICES ASSUME IInv, SummaryOk, NEW i \in DOMAIN plan PROVE i \in closed
    BY DEF SummaryIsSound
  <2>1. i \in Ids /\ terminal[i] = <<"Ok">>
    BY DEF IInv, TypeOK, SummaryOk
  <2>2. 1 \in 1 .. Len(terminal[i]) /\ terminal[i][1] = "Ok"
    BY <2>1
  <2> QED BY <2>1, <2>2 DEF IInv, OkIsClosed
<1> QED BY <1>1, InvHolds, PTL

(* Every command of a run is pending or settled exactly once, whatever the  *)
(* answers, the timer, stop() and later runs do.                            *)
THEOREM OneSettlement == Spec => []SettledOnce
BY InvHolds, PTL DEF IInv

(* buildReconnectDiagnosticsReport() never says ok of a run of which a      *)
(* request expired or could not be sent.                                    *)
THEOREM LossesOwned == Spec => []ReportOwnsLosses
<1>1. IInv => ReportOwnsLosses
  BY DEF IInv, TypeOK, LossesCounted, ReportOwnsLosses, ReportOk, Lost
<1> QED BY <1>1, InvHolds, PTL
=============================================================================
