------------------------ MODULE DisplayTrackerProofs ------------------------
(***************************************************************************)
(* Theorems about a controlled desktop on its way to the viewer (Display),  *)
(* for any backends, desktop, failures and losses, and after them about     *)
(* network::RequestTracker (RequestTracker), in which the viewer keeps its  *)
(* requests for a keyframe, for any number of calls, ids, channels and any  *)
(* clock.                                                                   *)
(*                                                                          *)
(* That a recovery is bounded and that a delta follows its base are         *)
(* inductive with the types.  That a quiet picture is current is not: it    *)
(* needs to know, of the frame that the backend saw last, where it is.      *)
(* CalmInv says so, as long as nothing has failed: the newest frame on its  *)
(* way, held back or shown has that content or a keyframe is asked for      *)
(* (UpToDate), frames are nowhere out of order, so that none of them is     *)
(* dropped as stale (InOrder), and the backend is open, with the cached     *)
(* frame at hand for a keyframe (Steady).                                   *)
(*                                                                          *)
(* The tracker's invariant is Inv: none of its parts is inductive alone.    *)
(* That a terminal response is the last one needs that a call whose         *)
(* handler has had it waits under no id (else a late answer would reach     *)
(* it), which in turn needs that a call waits under one id only, which      *)
(* needs that an unissued call waits under none.                            *)
(***************************************************************************)
EXTENDS RequestTracker, Display, SequenceTheorems, TLAPS

Positive == Nat \ {0}
Frames == [run : Positive, id : Positive, key : BOOLEAN, content : Nat]

DeviceOk(d) ==
  d \in [kind : {d.kind}, run : Positive, open : BOOLEAN, nextId : Positive,
         seen : Nat, cached : Nat, status : {d.status}]
AgentOk(a) ==
  a \in [state : {"Attached", "Running", "Failed", "Stopped"}, opened : BOOLEAN,
         shape : {a.shape}]
ViewOk(v) ==
  /\ v \in [last : Frames \cup {NoFrame}, held : Seq(Frames), input : BOOLEAN,
            pending : SUBSET Nat, nextId : Positive, awaiting : BOOLEAN, lost : BOOLEAN]
  /\ Len(v.held) <= 1
OutcomeOk(w) ==
  /\ w \in [dev : {w.dev}, agent : {w.agent}, sent : Seq(Frames), ok : BOOLEAN, faults : Nat]
  /\ DeviceOk(w.dev) /\ AgentOk(w.agent)

DisplayTypeOK ==
  /\ desktop \in Positive
  /\ DeviceOk(dev) /\ AgentOk(agent) /\ ViewOk(view)
  /\ video \in Seq(Frames)
  /\ control \in Seq(Nat)
  /\ link \in BOOLEAN /\ congested \in BOOLEAN
  /\ paused \subseteq {"agent", "client"}
  /\ faults \in Nat /\ disruptions \in Nat

Newest == IF video # << >> THEN video[Len(video)]
          ELSE IF view.held # << >> THEN view.held[1] ELSE view.last

SteadyDev(d) == d.status \in {Ok, FrameTimeout} /\ (d.kind = "dxgi" => d.cached = d.seen)

Steady ==
  /\ SteadyDev(dev)
  /\ agent.state = "Running" => agent.opened /\ dev.open
  /\ ~link => "agent" \in paused /\ video = << >> /\ control = << >>

InOrder ==
  /\ view.last.id < dev.nextId
  /\ view.held # << >> => view.last.id < view.held[1].id /\ view.held[1].id < dev.nextId
  /\ \A n \in 1 .. Len(video) :
       /\ view.last.id < video[n].id /\ video[n].id < dev.nextId
       /\ view.held # << >> => view.held[1].id < video[n].id
  /\ \A m, n \in 1 .. Len(video) : m < n => video[m].id < video[n].id

UpToDate ==
  /\ dev.kind # "wgc" /\ view.nextId <= MaxRequests
  /\ agent.state = "Running" /\ "agent" \notin paused /\ dev.seen # 0
  => control # << >> \/ Newest.content = dev.seen

CalmInv == faults = 0 => Steady /\ InOrder /\ UpToDate

RecoveryOk(r) ==
  /\ r \in [backend : {r.backend}, attempts : Nat, last : {r.last}, cooling : BOOLEAN]
  /\ RecoveryLimit > 0 => r.attempts <= RecoveryLimit

LEMMA SuccessKeepsBound ==
  ASSUME NEW r, RecoveryOk(r), NEW backend
  PROVE  RecoveryOk(FrameSuccess(r, backend))
BY RecoveryLimitAssumption DEF RecoveryOk, FrameSuccess

LEMMA PlanKeepsBound ==
  ASSUME NEW r, RecoveryOk(r), NEW status, NEW backend, NEW plan,
         plan = Plan(r, status, backend)
  PROVE  /\ RecoveryOk(plan.next)
         /\ plan.action \in {"Reopen", "Recreate"} /\ RecoveryLimit > 0 =>
              plan.next.attempts < RecoveryLimit
<1> DEFINE next == IF SameBackend(r, backend)
                   THEN [r EXCEPT !.attempts = IF WindowExpired(r) THEN 0 ELSE @]
                   ELSE [FreshRecovery EXCEPT !.backend = backend]
           base == Decide(status)
<1>1. RecoveryOk(next)
  <2>1. next \in {[r EXCEPT !.attempts = 0], [r EXCEPT !.attempts = r.attempts],
                  [FreshRecovery EXCEPT !.backend = backend]}
    OBVIOUS
  <2>2. RecoveryOk([r EXCEPT !.attempts = 0]) /\ RecoveryOk([r EXCEPT !.attempts = r.attempts])
    BY RecoveryLimitAssumption DEF RecoveryOk
  <2>3. RecoveryOk([FreshRecovery EXCEPT !.backend = backend])
    <3>1. RecoveryOk(FreshRecovery)
      BY RecoveryLimitAssumption DEF RecoveryOk, FreshRecovery
    <3> QED BY <3>1 DEF RecoveryOk
  <2> HIDE DEF next
  <2> QED BY <2>1, <2>2, <2>3
<1>2. CASE status.code = "Ok"
  <2>1. plan = [action |-> "None", next |-> FrameSuccess(r, backend)]
    BY <1>2 DEF Plan
  <2> QED BY <2>1, SuccessKeepsBound
<1>3. CASE status.code # "Ok" /\ base \in Executable /\ r.cooling
  <2>1. plan = [action |-> "RetryNextFrame", next |-> [next EXCEPT !.cooling = TRUE]]
    BY <1>3 DEF Plan
  <2> HIDE DEF next
  <2>2. RecoveryOk([next EXCEPT !.cooling = TRUE])
    BY <1>1 DEF RecoveryOk
  <2> QED BY <2>1, <2>2
<1>4. CASE status.code # "Ok" /\ ~(base \in Executable /\ r.cooling)
  <2>1. plan = [action |-> IF base \in {"Reopen", "Recreate"} /\ Exhausted(next.attempts)
                           THEN "Switch" ELSE base,
                next |-> next]
    BY <1>4 DEF Plan
  <2> HIDE DEF next, base
  <2>2. plan.next = next
    BY <2>1
  <2>3. plan.action \in {"Reopen", "Recreate"} => ~Exhausted(next.attempts)
    BY <2>1
  <2>4. next.attempts \in Nat
    BY <1>1 DEF RecoveryOk
  <2>5. ~Exhausted(next.attempts) /\ RecoveryLimit > 0 => next.attempts < RecoveryLimit
    BY <2>4, RecoveryLimitAssumption DEF Exhausted
  <2> QED BY <1>1, <2>2, <2>3, <2>5
<1> QED BY <1>2, <1>3, <1>4

LEMMA AttemptKeepsBound ==
  ASSUME NEW plan, RecoveryOk(plan.next), NEW success \in BOOLEAN, NEW backend,
         plan.action \in Executable,
         plan.action \in {"Reopen", "Recreate"} /\ RecoveryLimit > 0 =>
           plan.next.attempts < RecoveryLimit
  PROVE  RecoveryOk(Attempted(plan, success, backend))
BY RecoveryLimitAssumption DEF RecoveryOk, Attempted, Executable

-----------------------------------------------------------------------------
LEMMA CloseOk ==
  ASSUME NEW d, DeviceOk(d)
  PROVE  /\ DeviceOk(Close(d))
         /\ Close(d).kind = d.kind /\ Close(d).nextId = d.nextId /\ Close(d).run = d.run
         /\ Close(d).status = d.status
         /\ ~Close(d).open /\ Close(d).seen = 0 /\ Close(d).cached = 0
BY DEF DeviceOk, Close, Positive

LEMMA OpenedOk ==
  ASSUME NEW d, DeviceOk(d), NEW status
  PROVE  /\ DeviceOk(Opened(d)) /\ DeviceOk(Refused(d, status))
         /\ Opened(d).nextId = d.nextId /\ Refused(d, status).nextId = d.nextId
         /\ Opened(d).kind = d.kind /\ Opened(d).open /\ Opened(d).status = Ok
         /\ Opened(d).seen = 0 /\ Opened(d).cached = 0
<1>1. DeviceOk(Close(d)) /\ Close(d).nextId = d.nextId /\ Close(d).kind = d.kind
      /\ Close(d).seen = 0 /\ Close(d).cached = 0
  BY CloseOk
<1>2. PICK e : e = Close(d)
  OBVIOUS
<1>3. Opened(d) = [e EXCEPT !.open = TRUE, !.status = Ok]
      /\ Refused(d, status) = [e EXCEPT !.status = status]
  BY <1>2 DEF Opened, Refused
<1> QED BY <1>1, <1>2, <1>3 DEF DeviceOk

(* An outcome with another device in it. *)
LEMMA DeviceReplaced ==
  ASSUME NEW w, OutcomeOk(w), NEW d, DeviceOk(d), NEW u, u = [w EXCEPT !.dev = d]
  PROVE  OutcomeOk(u) /\ u.dev = d /\ u.sent = w.sent /\ u.agent = w.agent /\ u.faults = w.faults
         /\ u.ok = w.ok
BY DEF OutcomeOk

LEMMA FailingOk ==
  ASSUME NEW w, OutcomeOk(w), NEW d, DeviceOk(d)
  PROVE  /\ OutcomeOk(Failing(w, d)) /\ Failing(w, d).dev = d /\ Failing(w, d).sent = w.sent
         /\ Failing(w, d).agent = w.agent /\ Failing(w, d).faults = w.faults + 1
<1>1. w.faults + 1 \in Nat
  BY DEF OutcomeOk
<1> QED BY <1>1 DEF OutcomeOk, Failing

LEMMA OpenOk ==
  ASSUME NEW w, OutcomeOk(w), NEW v \in Open(w)
  PROVE  /\ OutcomeOk(v) /\ v.sent = w.sent /\ v.agent = w.agent /\ v.dev.nextId = w.dev.nextId
         /\ v.faults >= w.faults
         /\ v.ok => v = [w EXCEPT !.dev = Opened(@), !.ok = TRUE]
<1>1. CASE v = [w EXCEPT !.dev = Opened(@), !.ok = TRUE]
  <2>1. PICK d : d = Opened(w.dev)
    OBVIOUS
  <2>2. DeviceOk(d) /\ d.nextId = w.dev.nextId
    BY <2>1, OpenedOk DEF OutcomeOk
  <2>3. v = [w EXCEPT !.dev = d, !.ok = TRUE]
    BY <1>1, <2>1
  <2>4. OutcomeOk(v) /\ v.sent = w.sent /\ v.agent = w.agent /\ v.dev.nextId = w.dev.nextId
        /\ v.faults = w.faults
    BY <2>2, <2>3 DEF OutcomeOk
  <2>5. w.faults \in Nat
    BY DEF OutcomeOk
  <2> QED BY <1>1, <2>4, <2>5
<1>2. ASSUME NEW s \in Failures, v = [Failing(w, Refused(w.dev, s)) EXCEPT !.ok = FALSE]
      PROVE  OutcomeOk(v) /\ v.sent = w.sent /\ v.agent = w.agent /\ v.dev.nextId = w.dev.nextId
             /\ v.faults = w.faults + 1 /\ ~v.ok
  <2>1. DeviceOk(Refused(w.dev, s)) /\ Refused(w.dev, s).nextId = w.dev.nextId
    BY OpenedOk DEF OutcomeOk
  <2>2. PICK u : u = Failing(w, Refused(w.dev, s))
    OBVIOUS
  <2>3. OutcomeOk(u) /\ u.dev = Refused(w.dev, s) /\ u.sent = w.sent /\ u.agent = w.agent
        /\ u.faults = w.faults + 1
    BY <2>1, <2>2, FailingOk
  <2>4. v = [u EXCEPT !.ok = FALSE]
    BY <1>2, <2>2
  <2> QED BY <2>1, <2>3, <2>4 DEF OutcomeOk
<1>3. w.faults \in Nat
  BY DEF OutcomeOk
<1>4. v = [w EXCEPT !.dev = Opened(@), !.ok = TRUE] \/
      \E s \in Failures : v = [Failing(w, Refused(w.dev, s)) EXCEPT !.ok = FALSE]
  BY DEF Open
<1> QED BY <1>1, <1>2, <1>3, <1>4

CaptureOk(w, c) ==
  /\ OutcomeOk(c.w) /\ c.frame \in Frames \cup {NoFrame}
  /\ c.w.sent = w.sent /\ c.w.agent = w.agent /\ c.w.dev.nextId = w.dev.nextId
  /\ c.w.faults >= w.faults

LEMMA NothingOk ==
  ASSUME NEW w, OutcomeOk(w), NEW status, NEW c \in Nothing(w, status)
  PROVE  CaptureOk(w, c)
<1>1. PICK d : d = [w.dev EXCEPT !.status = status]
  OBVIOUS
<1>2. DeviceOk(d) /\ d.nextId = w.dev.nextId
  BY <1>1 DEF DeviceOk, OutcomeOk
<1>3. c = [w |-> [w EXCEPT !.dev = d], frame |-> NoFrame]
  BY <1>1 DEF Nothing
<1>4. PICK u : u = [w EXCEPT !.dev = d]
  OBVIOUS
<1>f. OutcomeOk(u) /\ u.dev = d /\ u.sent = w.sent /\ u.agent = w.agent /\ u.faults = w.faults
      /\ w.faults \in Nat
  BY <1>2, <1>4, DeviceReplaced DEF OutcomeOk
<1>g. c.w = u /\ c.frame = NoFrame
  BY <1>3, <1>4
<1> QED BY <1>2, <1>f, <1>g DEF CaptureOk

LEMMA CapturedOk ==
  ASSUME NEW w, OutcomeOk(w), w.dev.nextId > 1, NEW key \in BOOLEAN, NEW content \in Nat,
         NEW c \in Captured(w, key, content)
  PROVE  CaptureOk(w, c)
<1>1. PICK d : d = [w.dev EXCEPT !.seen = content, !.status = Ok]
  OBVIOUS
<1>2. DeviceOk(d) /\ d.nextId = w.dev.nextId
  BY <1>1 DEF DeviceOk, OutcomeOk
<1>3. c = [w |-> [w EXCEPT !.dev = d], frame |-> Frame(w, key, content)]
  BY <1>1 DEF Captured
<1>4. PICK u : u = [w EXCEPT !.dev = d]
  OBVIOUS
<1>f. OutcomeOk(u) /\ u.dev = d /\ u.sent = w.sent /\ u.agent = w.agent /\ u.faults = w.faults
      /\ w.faults \in Nat
  BY <1>2, <1>4, DeviceReplaced DEF OutcomeOk
<1>5. Frame(w, key, content) \in Frames
  BY DEF Frame, Frames, OutcomeOk, DeviceOk, Positive
<1>g. c.w = u /\ c.frame = Frame(w, key, content)
  BY <1>3, <1>4
<1> QED BY <1>2, <1>5, <1>f, <1>g DEF CaptureOk

LEMMA FailsOk ==
  ASSUME NEW w, OutcomeOk(w), desktop \in Nat, NEW c \in CaptureFails(w)
  PROVE  CaptureOk(w, c) /\ c.w.faults = w.faults + 1
<1>0. PICK l : l = [w.dev EXCEPT !.seen = desktop]
  OBVIOUS
<1>1. PICK d \in {w.dev, Close(w.dev), l}, s \in Failures : c \in Nothing(Failing(w, d), s)
  BY <1>0 DEF CaptureFails
<1>2. DeviceOk(d) /\ d.nextId = w.dev.nextId
  <2>1. CASE d = l
    BY <1>0, <2>1 DEF OutcomeOk, DeviceOk
  <2>2. CASE d # l
    BY <1>1, <2>2, CloseOk DEF OutcomeOk
  <2> QED BY <2>1, <2>2
<1>3. PICK u : u = Failing(w, d)
  OBVIOUS
<1>4. OutcomeOk(u) /\ u.dev = d /\ u.sent = w.sent /\ u.agent = w.agent /\ u.faults = w.faults + 1
  BY <1>2, <1>3, FailingOk
<1>5. CaptureOk(u, c)
  BY <1>1, <1>3, <1>4, NothingOk
<1>6. c.w.faults = u.faults
  <2>1. c.w = [u EXCEPT !.dev = [@ EXCEPT !.status = s]]
    BY <1>1, <1>3 DEF Nothing
  <2>2. PICK e : e = [u.dev EXCEPT !.status = s]
    OBVIOUS
  <2>3. c.w = [u EXCEPT !.dev = e]
    BY <2>1, <2>2
  <2> QED BY <1>4, <2>3 DEF OutcomeOk
<1>7. w.faults \in Nat
  BY DEF OutcomeOk
<1> QED BY <1>2, <1>4, <1>5, <1>6, <1>7 DEF CaptureOk

LEMMA CaptureFromOk ==
  ASSUME NEW w, OutcomeOk(w), w.dev.nextId > 1, desktop \in Nat, NEW key \in BOOLEAN,
         NEW c \in CaptureFrom(w, key)
  PROVE  CaptureOk(w, c)
<1>1. CASE c \in CaptureFails(w)
  BY <1>1, FailsOk
<1>2. CASE c \in CaptureDxgi(w, key)
  <2>1. CASE w.dev.seen # desktop
    <3>1. PICK d : d = [w.dev EXCEPT !.cached = desktop]
      OBVIOUS
    <3>2. DeviceOk(d) /\ d.nextId = w.dev.nextId
      BY <3>1 DEF DeviceOk, OutcomeOk
    <3>3. PICK u : u = [w EXCEPT !.dev = d]
      OBVIOUS
    <3>4. OutcomeOk(u) /\ u.dev = d /\ u.sent = w.sent /\ u.agent = w.agent /\ u.faults = w.faults
      BY <3>2, <3>3, DeviceReplaced
    <3>5. c \in Captured(u, key, desktop)
      BY <1>2, <2>1, <3>1, <3>3 DEF CaptureDxgi
    <3>6. CaptureOk(u, c)
      BY <3>2, <3>4, <3>5, CapturedOk
    <3> QED BY <3>2, <3>4, <3>6 DEF CaptureOk
  <2>2. CASE w.dev.seen = desktop /\ key /\ w.dev.cached # 0
    <3>1. c \in Captured(w, TRUE, w.dev.cached)
      BY <1>2, <2>2 DEF CaptureDxgi
    <3>2. w.dev.cached \in Nat
      BY DEF OutcomeOk, DeviceOk
    <3> QED BY <3>1, <3>2, CapturedOk
  <2>3. CASE w.dev.seen = desktop /\ ~(key /\ w.dev.cached # 0)
    BY <1>2, <2>3, NothingOk DEF CaptureDxgi
  <2> QED BY <2>1, <2>2, <2>3
<1>3. CASE c \in CaptureWgc(w, key)
  <2>1. c \in Captured(w, key, desktop) \/ c \in Nothing(w, FrameTimeout)
    BY <1>3 DEF CaptureWgc
  <2> QED BY <2>1, CapturedOk, NothingOk
<1>4. CASE c \in CaptureGdi(w, key)
  BY <1>4, CapturedOk DEF CaptureGdi
<1> QED BY <1>1, <1>2, <1>3, <1>4 DEF CaptureFrom

LEMMA NumberedOk ==
  ASSUME NEW w, OutcomeOk(w)
  PROVE  /\ OutcomeOk(Numbered(w)) /\ Numbered(w).dev.nextId = w.dev.nextId + 1
         /\ Numbered(w).dev.nextId > 1
         /\ Numbered(w).sent = w.sent /\ Numbered(w).agent = w.agent
         /\ Numbered(w).faults = w.faults
         /\ Numbered(w).dev = [w.dev EXCEPT !.nextId = @ + 1]
<1>1. PICK d : d = [w.dev EXCEPT !.nextId = @ + 1]
  OBVIOUS
<1>2. DeviceOk(d) /\ d.nextId = w.dev.nextId + 1 /\ d.nextId > 1
  BY <1>1 DEF DeviceOk, OutcomeOk, Positive
<1>3. PICK u : u = Numbered(w)
  OBVIOUS
<1>4. u = [w EXCEPT !.dev = d]
  BY <1>1, <1>3 DEF Numbered, Counted
<1>5. OutcomeOk(u) /\ u.dev = d /\ u.sent = w.sent /\ u.agent = w.agent /\ u.faults = w.faults
  BY <1>2, <1>4, DeviceReplaced
<1> QED BY <1>1, <1>2, <1>3, <1>5

LEMMA CaptureNextFrameOk ==
  ASSUME NEW w, OutcomeOk(w), desktop \in Nat, NEW key \in BOOLEAN,
         NEW c \in CaptureNextFrame(w, key)
  PROVE  /\ OutcomeOk(c.w) /\ c.frame \in Frames \cup {NoFrame}
         /\ c.w.sent = w.sent /\ c.w.agent = w.agent /\ c.w.faults >= w.faults
         /\ w.dev.open => c \in CaptureFrom(Numbered(w), key)
<1>1. PICK u : u = Numbered(w)
  OBVIOUS
<1>2. OutcomeOk(u) /\ u.dev.nextId > 1 /\ u.sent = w.sent /\ u.agent = w.agent
      /\ u.faults = w.faults
  BY <1>1, NumberedOk
<1>3. CASE w.dev.open
  <2>1. c \in CaptureFrom(u, key)
    BY <1>1, <1>3 DEF CaptureNextFrame
  <2>2. CaptureOk(u, c)
    BY <1>2, <2>1, CaptureFromOk
  <2> QED BY <1>1, <1>2, <2>1, <2>2 DEF CaptureOk
<1>4. CASE ~w.dev.open
  <2>1. PICK v \in Open(u) :
          c \in IF v.ok \/ v.dev.kind = "gdi" THEN CaptureFrom(v, key)
                ELSE {[w |-> v, frame |-> NoFrame]}
    BY <1>1, <1>4 DEF CaptureNextFrame
  <2>2. OutcomeOk(v) /\ v.sent = u.sent /\ v.agent = u.agent /\ v.dev.nextId > 1
        /\ v.faults >= u.faults /\ v.faults \in Nat /\ u.faults \in Nat
    BY <1>2, OpenOk DEF OutcomeOk
  <2>3. CASE c \in CaptureFrom(v, key)
    <3>1. CaptureOk(v, c)
      BY <2>2, <2>3, CaptureFromOk
    <3>2. c.w.faults \in Nat
      BY <3>1 DEF CaptureOk, OutcomeOk
    <3> QED BY <1>2, <1>4, <2>2, <3>1, <3>2 DEF CaptureOk
  <2>4. CASE c = [w |-> v, frame |-> NoFrame]
    BY <1>2, <1>4, <2>2, <2>4
  <2> QED BY <2>1, <2>3, <2>4
<1> QED BY <1>3, <1>4

LEMMA KeyedOk ==
  ASSUME NEW f \in Frames, NEW shape
  PROVE  /\ Keyed(f, shape) \in Frames /\ Keyed(f, shape).id = f.id
         /\ Keyed(f, shape).content = f.content
<1>1. PICK k \in BOOLEAN : Keyed(f, shape) = [f EXCEPT !.key = k]
  BY DEF Keyed, Frames
<1> QED BY <1>1 DEF Frames

LEMMA SentOk ==
  ASSUME NEW w, OutcomeOk(w), NEW f \in Frames \cup {NoFrame}
  PROVE  OutcomeOk(Sent(w, f)) /\ Sent(w, f).dev = w.dev /\ Sent(w, f).faults = w.faults
         /\ Sent(w, f).agent.state = w.agent.state /\ Sent(w, f).agent.opened = w.agent.opened
         /\ \/ Sent(w, f).sent = w.sent /\ ~Sent(w, f).ok /\ (f = NoFrame \/ ~link)
            \/ /\ link /\ f \in Frames /\ Sent(w, f).ok
               /\ \E k \in Frames : k.id = f.id /\ k.content = f.content
                                    /\ Sent(w, f).sent = Append(w.sent, k)
<1>0. NoFrame \notin Frames
  BY DEF NoFrame, Frames, Positive
<1>1. CASE f = NoFrame \/ ~link
  <2>1. Sent(w, f) = [w EXCEPT !.ok = FALSE]
    BY <1>1 DEF Sent
  <2>2. PICK u : u = Sent(w, f)
    OBVIOUS
  <2>3. OutcomeOk(u) /\ u.dev = w.dev /\ u.faults = w.faults /\ u.agent = w.agent /\ u.sent = w.sent
        /\ ~u.ok
    BY <2>1, <2>2 DEF OutcomeOk
  <2> QED BY <1>1, <2>2, <2>3
<1>2. CASE f \in Frames /\ link
  <2>1. PICK k : k = Keyed(f, w.agent.shape)
    OBVIOUS
  <2>2. k \in Frames /\ k.id = f.id /\ k.content = f.content
    BY <1>2, <2>1, KeyedOk
  <2>3. PICK s : s = Append(w.sent, k)
    OBVIOUS
  <2>4. s \in Seq(Frames)
    BY <2>2, <2>3 DEF OutcomeOk
  <2>5. PICK a : a = [w.agent EXCEPT !.shape = Shape[f.content]]
    OBVIOUS
  <2>6. AgentOk(a) /\ a.state = w.agent.state /\ a.opened = w.agent.opened
    BY <2>5 DEF AgentOk, OutcomeOk
  <2>7. PICK u : u = Sent(w, f)
    OBVIOUS
  <2>8. u = [w EXCEPT !.ok = TRUE, !.sent = s, !.agent = a]
    BY <1>0, <1>2, <2>1, <2>3, <2>5, <2>7 DEF Sent
  <2>9. OutcomeOk(u) /\ u.dev = w.dev /\ u.faults = w.faults /\ u.agent = a /\ u.sent = s /\ u.ok
    BY <2>4, <2>6, <2>8 DEF OutcomeOk
  <2> QED BY <1>2, <2>2, <2>3, <2>6, <2>7, <2>9
<1> QED BY <1>0, <1>1, <1>2

(* What every outcome of a handler keeps. *)
LEMMA SendFrameOk ==
  ASSUME NEW w, OutcomeOk(w), desktop \in Nat, NEW key \in BOOLEAN, NEW v \in SendFrame(w, key)
  PROVE  OutcomeOk(v) /\ v.faults >= w.faults
<1>1. CASE ~key /\ congested
  <2>1. v = [w EXCEPT !.ok = FALSE]
    BY <1>1 DEF SendFrame
  <2>2. OutcomeOk(v) /\ v.faults = w.faults /\ w.faults \in Nat
    BY <2>1 DEF OutcomeOk
  <2> QED BY <2>2
<1>2. CASE ~(~key /\ congested)
  <2>1. PICK c \in CaptureNextFrame(w, key) : v = Sent(c.w, c.frame)
    BY <1>2 DEF SendFrame
  <2>2. OutcomeOk(c.w) /\ c.frame \in Frames \cup {NoFrame} /\ c.w.faults >= w.faults
    BY <2>1, CaptureNextFrameOk
  <2> QED BY <2>1, <2>2, SentOk
<1> QED BY <1>1, <1>2

LEMMA AgentReplaced ==
  ASSUME NEW w, OutcomeOk(w), NEW a, AgentOk(a), NEW u, u = [w EXCEPT !.agent = a]
  PROVE  OutcomeOk(u) /\ u.dev = w.dev /\ u.sent = w.sent /\ u.agent = a /\ u.faults = w.faults
         /\ u.ok = w.ok
BY DEF OutcomeOk

LEMMA StartAgentOk ==
  ASSUME NEW w, OutcomeOk(w), desktop \in Nat, NEW v \in StartAgent(w)
  PROVE  OutcomeOk(v) /\ v.faults >= w.faults
<1> DEFINE running(x) == [x EXCEPT !.agent = [@ EXCEPT !.opened = TRUE, !.state = "Running"]]
           failed(x)  == [x EXCEPT !.agent = [@ EXCEPT !.opened = FALSE, !.state = "Failed"]]
           opened     == {running(x) : x \in {u \in Open(w) : u.ok}}
<1>1. ASSUME NEW x, OutcomeOk(x)
      PROVE  OutcomeOk(running(x)) /\ OutcomeOk(failed(x))
             /\ running(x).faults = x.faults /\ failed(x).faults = x.faults
  <2>1. PICK a : a = [x.agent EXCEPT !.opened = TRUE, !.state = "Running"]
    OBVIOUS
  <2>2. PICK b : b = [x.agent EXCEPT !.opened = FALSE, !.state = "Failed"]
    OBVIOUS
  <2>3. AgentOk(a) /\ AgentOk(b)
    BY <1>1, <2>1, <2>2 DEF AgentOk, OutcomeOk
  <2>4. running(x) = [x EXCEPT !.agent = a] /\ failed(x) = [x EXCEPT !.agent = b]
    BY <2>1, <2>2
  <2>5. PICK y, z : y = running(x) /\ z = failed(x)
    OBVIOUS
  <2>6. OutcomeOk(y) /\ OutcomeOk(z) /\ y.faults = x.faults /\ z.faults = x.faults
    BY <1>1, <2>3, <2>4, <2>5, AgentReplaced
  <2> QED BY <2>5, <2>6
<1>2. StartAgent(w) = {failed(x) : x \in {u \in Open(w) : ~u.ok}} \cup
        {IF x.ok THEN x ELSE failed([x EXCEPT !.dev = Close(@)]) : x \in SendKeyFrame(opened)}
  BY DEF StartAgent
<1> HIDE DEF failed
<1>3. CASE \E x \in Open(w) : v = failed(x)
  <2>1. PICK x \in Open(w) : v = failed(x)
    BY <1>3
  <2>2. OutcomeOk(x) /\ x.faults >= w.faults
    BY OpenOk
  <2> QED BY <1>1, <2>1, <2>2
<1>4. CASE \E x \in SendKeyFrame(opened) :
             v = IF x.ok THEN x ELSE failed([x EXCEPT !.dev = Close(@)])
  <2>1. PICK u \in Open(w) : \E x \in SendFrame(running(u), TRUE) :
          v = IF x.ok THEN x ELSE failed([x EXCEPT !.dev = Close(@)])
    BY <1>4 DEF SendKeyFrame
  <2>2. OutcomeOk(u) /\ u.faults >= w.faults
    BY OpenOk
  <2> HIDE DEF running
  <2>x. PICK x \in SendFrame(running(u), TRUE) :
          v = IF x.ok THEN x ELSE failed([x EXCEPT !.dev = Close(@)])
    BY <2>1
  <2>3. OutcomeOk(x) /\ x.faults >= w.faults
    <3>1. OutcomeOk(running(u)) /\ running(u).faults = u.faults
      BY <1>1, <2>2
    <3>2. OutcomeOk(x) /\ x.faults >= running(u).faults
      BY <3>1, SendFrameOk
    <3>3. u.faults \in Nat /\ w.faults \in Nat /\ x.faults \in Nat
      BY <2>2, <3>2 DEF OutcomeOk
    <3> QED BY <2>2, <3>1, <3>2, <3>3
  <2>4. PICK d : d = Close(x.dev)
    OBVIOUS
  <2>5. PICK y : y = [x EXCEPT !.dev = d]
    OBVIOUS
  <2>6. OutcomeOk(y) /\ y.faults = x.faults
    <3>1. DeviceOk(d)
      BY <2>3, <2>4, CloseOk DEF OutcomeOk
    <3> QED BY <2>3, <2>5, <3>1, DeviceReplaced
  <2>7. v = x \/ v = failed(y)
    BY <2>x, <2>4, <2>5
  <2> QED BY <1>1, <2>3, <2>6, <2>7
<1> QED BY <1>2, <1>3, <1>4

LEMMA ReopenedOk ==
  ASSUME NEW w, OutcomeOk(w), desktop \in Nat, NEW v \in Reopened(w)
  PROVE  OutcomeOk(v) /\ v.faults >= w.faults
<1> DEFINE believed(x, open) == [x EXCEPT !.agent = [@ EXCEPT !.opened = open]]
           tried  == Open(believed(w, FALSE))
           opened == {believed(x, TRUE) : x \in {y \in tried : y.ok}}
<1>1. ASSUME NEW x, OutcomeOk(x), NEW open \in BOOLEAN
      PROVE  OutcomeOk(believed(x, open)) /\ believed(x, open).faults = x.faults
  <2>1. PICK a : a = [x.agent EXCEPT !.opened = open]
    OBVIOUS
  <2>2. AgentOk(a)
    BY <1>1, <2>1 DEF AgentOk, OutcomeOk
  <2>3. PICK y : y = believed(x, open)
    OBVIOUS
  <2>4. y = [x EXCEPT !.agent = a]
    BY <2>1, <2>3
  <2>5. OutcomeOk(y) /\ y.faults = x.faults
    BY <1>1, <2>2, <2>4, AgentReplaced
  <2> QED BY <2>3, <2>5
<1>2. Reopened(w) = {x \in tried : ~x.ok} \cup SendKeyFrame(opened)
  BY DEF Reopened
<1> HIDE DEF believed
<1>3. \A x \in tried : OutcomeOk(x) /\ x.faults >= w.faults
  <2>1. OutcomeOk(believed(w, FALSE)) /\ believed(w, FALSE).faults = w.faults
    BY <1>1
  <2> QED BY <2>1, OpenOk
<1>4. CASE v \in tried
  BY <1>3, <1>4
<1>5. CASE v \in SendKeyFrame(opened)
  <2>1. PICK x \in tried : v \in SendFrame(believed(x, TRUE), TRUE)
    BY <1>5 DEF SendKeyFrame
  <2> HIDE DEF tried
  <2>2. OutcomeOk(believed(x, TRUE)) /\ believed(x, TRUE).faults = x.faults /\ x.faults >= w.faults
    BY <1>1, <1>3
  <2>3. OutcomeOk(v) /\ v.faults >= believed(x, TRUE).faults
    BY <2>1, <2>2, SendFrameOk
  <2>4. v.faults \in Nat /\ x.faults \in Nat /\ w.faults \in Nat
    BY <1>3, <2>3 DEF OutcomeOk
  <2>5. v.faults >= x.faults
    BY <2>2, <2>3
  <2>6. v.faults >= w.faults
    BY <2>2, <2>4, <2>5
  <2> QED BY <2>3, <2>6
<1> QED BY <1>2, <1>4, <1>5

LEMMA RecoverOk ==
  ASSUME NEW w, OutcomeOk(w), desktop \in Nat, NEW r \in Recover(w)
  PROVE  OutcomeOk(r.w) /\ r.w.faults >= w.faults
<1> DEFINE plan == Plan(recovery, ReportedStatus(w), w.dev.kind)
           next == Failover(Candidates, request, w.dev.kind, TRUE)
           switched == {[w EXCEPT !.ok = FALSE]} \cup
                       IF next = "" \/ w.dev.run >= MaxRuns THEN {} ELSE ReplaceCapture(w, next)
           tried == IF plan.action \in {"Reopen", "Recreate"} THEN ReopenCapture(w)
                    ELSE IF plan.action = "Switch" THEN switched ELSE {}
<1>1. r = [w |-> w, recovery |-> plan.next] \/
      \E v \in tried : r = [w |-> v, recovery |-> Attempted(plan, v.ok, v.dev.kind)]
  BY DEF Recover
<1> HIDE DEF plan
<1> DEFINE Onward(v) == OutcomeOk(v) /\ v.faults >= w.faults
<1>2. Onward(w) /\ Onward([w EXCEPT !.ok = FALSE])
  <2>1. w.faults \in Nat
    BY DEF OutcomeOk
  <2>2. PICK u : u = [w EXCEPT !.ok = FALSE]
    OBVIOUS
  <2>3. OutcomeOk(u) /\ u.faults = w.faults
    BY <2>2 DEF OutcomeOk
  <2> QED BY <2>1, <2>2, <2>3
<1>3. \A v \in ReopenCapture(w) : Onward(v)
  <2>1. PICK u : u = CloseIfOpened(w)
    OBVIOUS
  <2>2. OutcomeOk(u) /\ u.faults = w.faults
    <3>1. DeviceOk(w.dev) /\ DeviceOk(Close(w.dev))
      BY CloseOk DEF OutcomeOk
    <3>2. PICK d : d = Close(w.dev)
      OBVIOUS
    <3>3. u = w \/ u = [w EXCEPT !.dev = d]
      BY <2>1, <3>2 DEF CloseIfOpened
    <3> QED BY <3>1, <3>2, <3>3, DeviceReplaced
  <2>3. \A v \in Reopened(u) : Onward(v)
    BY <2>2, ReopenedOk
  <2> QED BY <1>2, <2>1, <2>3 DEF ReopenCapture
<1>4. \A v \in ReplaceCapture(w, next) : Onward(v)
  <2> HIDE DEF next
  <2>1. PICK d : d = Device(next, w.dev.run + 1)
    OBVIOUS
  <2>2. DeviceOk(d)
    BY <2>1 DEF Device, DeviceOk, Positive, OutcomeOk
  <2>3. PICK u : u = [w EXCEPT !.dev = d]
    OBVIOUS
  <2>4. OutcomeOk(u) /\ u.faults = w.faults
    BY <2>2, <2>3, DeviceReplaced
  <2>5. \A v \in Reopened(u) : Onward(v)
    BY <2>4, ReopenedOk
  <2> QED BY <1>2, <2>1, <2>3, <2>5 DEF ReplaceCapture
<1>5. \A v \in tried : Onward(v)
  <2> HIDE DEF next
  <2> QED BY <1>2, <1>3, <1>4
<1> HIDE DEF tried
<1> QED BY <1>1, <1>2, <1>5
-----------------------------------------------------------------------------
(* What requestKeyFrame() leaves of the view v. *)
AsksOk(v, r) ==
  /\ ViewOk(r.view) /\ r.out \in Seq(Nat)
  /\ r.view.last = v.last /\ r.view.held = v.held /\ r.view.nextId >= v.nextId
  /\ link /\ r.view.nextId <= MaxRequests => r.out # << >>

LEMMA AskingOk ==
  ASSUME NEW v, ViewOk(v), NEW awaiting \in BOOLEAN
  PROVE  AsksOk(v, Asks(v, awaiting))
<1> USE DisplayAssumption
<1>0. v.nextId \in Nat /\ v.nextId + 1 \in Positive /\ MaxRequests \in Nat
  BY DEF ViewOk, Positive
<1>1. PICK asked : asked = [v EXCEPT !.nextId = @ + 1, !.awaiting = awaiting]
  OBVIOUS
<1>2. ViewOk(asked) /\ asked.last = v.last /\ asked.held = v.held /\ asked.pending = v.pending
      /\ asked.nextId = v.nextId + 1
  BY <1>0, <1>1 DEF ViewOk
<1>3. PICK r : r = Asks(v, awaiting)
  OBVIOUS
<1>4. CASE v.nextId > MaxRequests
  <2>1. r = [view |-> [v EXCEPT !.awaiting = awaiting], out |-> << >>]
    BY <1>3, <1>4 DEF Asks
  <2>2. PICK u : u = [v EXCEPT !.awaiting = awaiting]
    OBVIOUS
  <2>3. ViewOk(u) /\ u.last = v.last /\ u.held = v.held /\ u.nextId = v.nextId
    BY <2>2 DEF ViewOk
  <2>4. r.view = u /\ r.out = << >>
    BY <2>1, <2>2
  <2> QED BY <1>0, <1>3, <1>4, <2>3, <2>4 DEF AsksOk
<1>5. CASE v.nextId <= MaxRequests /\ link
  <2>1. r = [view |-> [asked EXCEPT !.pending = @ \cup {v.nextId}], out |-> <<v.nextId>>]
    BY <1>0, <1>1, <1>3, <1>5 DEF Asks
  <2>2. PICK u : u = [asked EXCEPT !.pending = @ \cup {v.nextId}]
    OBVIOUS
  <2>3. ViewOk(u) /\ u.last = v.last /\ u.held = v.held /\ u.nextId = v.nextId + 1
    BY <1>0, <1>2, <2>2 DEF ViewOk
  <2>4. r.view = u /\ r.out = <<v.nextId>>
    BY <2>1, <2>2
  <2> QED BY <1>0, <1>3, <2>3, <2>4 DEF AsksOk
<1>6. CASE v.nextId <= MaxRequests /\ ~link
  <2>1. r = [view |-> asked, out |-> << >>]
    BY <1>0, <1>1, <1>3, <1>6 DEF Asks
  <2>2. r.view = asked /\ r.out = << >>
    BY <2>1
  <2> QED BY <1>0, <1>2, <1>3, <1>6, <2>2 DEF AsksOk
<1> QED BY <1>0, <1>4, <1>5, <1>6

LEMMA DropsOk ==
  ASSUME NEW v, ViewOk(v), NEW f \in Frames
  PROVE  ViewOk(Drops(v, f)) /\ Drops(v, f).last = v.last /\ Drops(v, f).held = v.held
         /\ Drops(v, f).nextId = v.nextId
<1>1. PICK l \in BOOLEAN : Drops(v, f) = [v EXCEPT !.lost = l]
  BY DEF Drops, ViewOk
<1> QED BY <1>1 DEF ViewOk

LEMMA DecodeOk ==
  ASSUME NEW v, ViewOk(v), NEW f \in Frames, NEW d \in Decode(v, f)
  PROVE  /\ ViewOk(d.v) /\ d.v.last = v.last /\ d.v.nextId = v.nextId
         /\ d.out \in Frames \cup {NoFrame} /\ d.fault \in {0, 1} /\ d.more \in BOOLEAN
         /\ d.fault = 0 =>
              \/ ~d.more /\ v.held = << >> /\ d.v.held = << >> /\ d.out = f
              \/ ~d.more /\ v.held # << >> /\ d.v.held = <<f>> /\ d.out = v.held[1]
              \/ d.more /\ v.held = << >> /\ d.v.held = <<f>>
<1> DEFINE shows(held, out) == [v |-> [v EXCEPT !.held = held], out |-> out, fault |-> 0, more |-> FALSE]
           holds == [v |-> [v EXCEPT !.held = <<f>>, !.input = TRUE], out |-> NoFrame, fault |-> 0, more |-> TRUE]
           fails == [v |-> [v EXCEPT !.held = << >>, !.input = FALSE], out |-> NoFrame, fault |-> 1, more |-> FALSE]
<1>1. \/ v.held = << >> /\ d = shows(<< >>, f)
      \/ v.held # << >> /\ d = shows(<<f>>, Head(v.held))
      \/ v.held = << >> /\ d = holds
      \/ d = fails
  BY DEF Decode
<1> DEFINE holding(u, held) ==
             u = [v EXCEPT !.held = held] \/ \E input \in BOOLEAN : u = [v EXCEPT !.held = held, !.input = input]
<1>2. ASSUME NEW held \in Seq(Frames), Len(held) <= 1, NEW u, holding(u, held)
      PROVE  ViewOk(u) /\ u.last = v.last /\ u.held = held /\ u.nextId = v.nextId
  BY <1>2 DEF ViewOk
<1>3. /\ << >> \in Seq(Frames) /\ Len(<< >>) <= 1
      /\ <<f>> \in Seq(Frames) /\ Len(<<f>>) <= 1
  OBVIOUS
<1>4. CASE v.held = << >> /\ d = shows(<< >>, f)
  <2>1. d.v = [v EXCEPT !.held = << >>] /\ d.out = f /\ d.fault = 0 /\ ~d.more /\ d.more \in BOOLEAN
    BY <1>4
  <2>2. ViewOk(d.v) /\ d.v.last = v.last /\ d.v.held = << >> /\ d.v.nextId = v.nextId
    BY <1>2, <1>3, <2>1
  <2> QED BY <1>4, <2>1, <2>2
<1>5. CASE v.held # << >> /\ d = shows(<<f>>, Head(v.held))
  <2>1. d.v = [v EXCEPT !.held = <<f>>] /\ d.out = Head(v.held) /\ d.fault = 0 /\ ~d.more /\ d.more \in BOOLEAN
    BY <1>5
  <2>2. ViewOk(d.v) /\ d.v.last = v.last /\ d.v.held = <<f>> /\ d.v.nextId = v.nextId
    BY <1>2, <1>3, <2>1
  <2>3. v.held \in Seq(Frames) /\ v.held # << >>
    BY <1>5 DEF ViewOk
  <2>4. Head(v.held) = v.held[1] /\ v.held[1] \in Frames
    BY <2>3
  <2> QED BY <1>5, <2>1, <2>2, <2>4
<1>6. CASE v.held = << >> /\ d = holds
  <2>0. holding([v EXCEPT !.held = <<f>>, !.input = TRUE], <<f>>)
    OBVIOUS
  <2>1. d.v = [v EXCEPT !.held = <<f>>, !.input = TRUE] /\ d.out = NoFrame /\ d.fault = 0
        /\ d.more /\ d.more \in BOOLEAN
    BY <1>6
  <2>2. ViewOk(d.v) /\ d.v.last = v.last /\ d.v.held = <<f>> /\ d.v.nextId = v.nextId
    <3>1. holding(d.v, <<f>>)
      BY <2>0, <2>1
    <3> HIDE DEF holding
    <3> QED BY <1>2, <1>3, <3>1
  <2> QED BY <1>6, <2>1, <2>2
<1>7. CASE d = fails
  <2>0. holding([v EXCEPT !.held = << >>, !.input = FALSE], << >>)
    OBVIOUS
  <2>1. d.v = [v EXCEPT !.held = << >>, !.input = FALSE] /\ d.out = NoFrame /\ d.fault = 1
        /\ ~d.more /\ d.more \in BOOLEAN
    BY <1>7
  <2>2. ViewOk(d.v) /\ d.v.last = v.last /\ d.v.held = << >> /\ d.v.nextId = v.nextId
    <3>1. holding(d.v, << >>)
      BY <2>0, <2>1
    <3> HIDE DEF holding
    <3> QED BY <1>2, <1>3, <3>1
  <2> QED BY <2>1, <2>2
<1> QED BY <1>1, <1>4, <1>5, <1>6, <1>7

(* The new picture: later than the old one, and no gap between the two.  *)
Follows(last, out) == out \in Frames /\ out.id > last.id /\ ~Gap(last, out)

LEMMA ShownOk ==
  ASSUME NEW d, ViewOk(d.v), d.out \in Frames \cup {NoFrame}, NEW f \in Frames,
         NEW rendered \in BOOLEAN, NEW r, r = Shown(d, f, rendered)
  PROVE  /\ ViewOk(r.view) /\ r.out \in Seq(Nat) /\ r.view.held = d.v.held
         /\ r.view.nextId >= d.v.nextId
         /\ (r.view.last = d.v.last \/ (r.view.last = d.out /\ Follows(d.v.last, d.out)))
         /\ \/ link /\ r.view.nextId <= MaxRequests => r.out # << >>
            \/ d.more
            \/ d.out \in Frames /\ d.out.id <= d.v.last.id
            \/ rendered /\ r.view.last = d.out /\ d.out \in Frames
<1>0. d.v.awaiting \in BOOLEAN /\ d.v.nextId \in Nat
  BY DEF ViewOk, Positive
<1>1. PICK fed : fed = [d.v EXCEPT !.input = d.out.id < f.id]
  OBVIOUS
<1>2. ViewOk(fed) /\ fed.last = d.v.last /\ fed.held = d.v.held /\ fed.awaiting = d.v.awaiting
      /\ fed.nextId = d.v.nextId
  <2>1. \E b \in BOOLEAN : fed = [d.v EXCEPT !.input = b]
    <3> WITNESS (d.out.id < f.id) \in BOOLEAN
    <3> QED BY <1>1
  <2>2. PICK b \in BOOLEAN : fed = [d.v EXCEPT !.input = b]
    BY <2>1
  <2> QED BY <2>2 DEF ViewOk
<1>3. CASE d.more
  <2>1. r = Keeps(d.v)
    BY <1>3 DEF Shown
  <2> QED BY <1>0, <1>3, <2>1 DEF Keeps
<1>4. CASE ~d.more /\ d.out = NoFrame
  <2>1. r = Asks(d.v, d.v.awaiting)
    BY <1>4 DEF Shown
  <2> QED BY <1>0, <2>1, AskingOk DEF AsksOk
<1>5. CASE ~d.more /\ d.out # NoFrame /\ d.out.id <= d.v.last.id
  <2>1. r = Keeps(Drops(d.v, d.out))
    BY <1>5 DEF Shown
  <2> QED BY <1>0, <1>5, <2>1, DropsOk DEF Keeps
<1>6. CASE ~d.more /\ d.out # NoFrame /\ ~(d.out.id <= d.v.last.id) /\ Gap(d.v.last, d.out)
  <2>1. r = Asks(d.v, d.v.awaiting)
    BY <1>6 DEF Shown
  <2> QED BY <1>0, <2>1, AskingOk DEF AsksOk
<1>7. CASE ~d.more /\ d.out # NoFrame /\ ~(d.out.id <= d.v.last.id) /\ ~Gap(d.v.last, d.out)
  <2>1. d.out \in Frames /\ d.v.last \in Frames \cup {NoFrame}
    BY <1>7 DEF ViewOk
  <2>2. d.out.id \in Nat /\ d.v.last.id \in Nat
    BY <2>1 DEF Frames, Positive, NoFrame
  <2>3. Follows(d.v.last, d.out)
    BY <1>7, <2>1, <2>2 DEF Follows
  <2>4. CASE rendered
    <3>1. r = Keeps([fed EXCEPT !.last = d.out, !.awaiting = FALSE])
      BY <1>1, <1>7, <2>4 DEF Shown
    <3>2. PICK u : u = [fed EXCEPT !.last = d.out, !.awaiting = FALSE]
      OBVIOUS
    <3>3. ViewOk(u) /\ u.last = d.out /\ u.held = d.v.held /\ u.nextId = d.v.nextId
      BY <1>2, <2>1, <3>2 DEF ViewOk
    <3>4. r.view = u /\ r.out = << >>
      BY <3>1, <3>2 DEF Keeps
    <3>5. ViewOk(r.view) /\ r.out \in Seq(Nat) /\ r.view.held = d.v.held /\ r.view.last = d.out
          /\ r.view.nextId >= d.v.nextId
      BY <1>0, <3>3, <3>4
    <3> QED BY <2>1, <2>3, <2>4, <3>5, Zenon
  <2>5. CASE ~rendered
    <3>1. r = Asks(fed, fed.awaiting)
      BY <1>1, <1>7, <2>5 DEF Shown
    <3> QED BY <1>0, <1>2, <3>1, AskingOk DEF AsksOk
  <2> QED BY <2>4, <2>5
<1> QED BY <1>3, <1>4, <1>5, <1>6, <1>7

LEMMA RenderOk ==
  ASSUME ViewOk(view), NEW f \in Frames, NEW o \in RenderVideo(f)
  PROVE  /\ ViewOk(o.r.view) /\ o.r.out \in Seq(Nat) /\ o.fault \in {0, 1}
         /\ o.r.view.last = view.last \/ Follows(view.last, o.r.view.last)
<1>1. CASE o = [r |-> Asks(view, view.awaiting), fault |-> 0]
  <2>1. view.awaiting \in BOOLEAN
    BY DEF ViewOk
  <2>2. AsksOk(view, Asks(view, view.awaiting))
    BY <2>1, AskingOk
  <2>3. o.r = Asks(view, view.awaiting) /\ o.fault = 0
    BY <1>1
  <2> QED BY <2>2, <2>3 DEF AsksOk
<1>2. CASE o = [r |-> Keeps(Drops(view, f)), fault |-> 0]
  <2>1. PICK u : u = Drops(view, f)
    OBVIOUS
  <2>2. ViewOk(u) /\ u.last = view.last
    BY <2>1, DropsOk
  <2>3. o.r.view = u /\ o.r.out = << >> /\ o.fault = 0
    BY <1>2, <2>1 DEF Keeps
  <2> QED BY <2>2, <2>3
<1>3. ASSUME NEW d \in Decode(view, f), NEW rendered \in BOOLEAN, NEW k \in {d.fault, 1},
             o = [r |-> Shown(d, f, rendered), fault |-> k]
      PROVE  /\ ViewOk(o.r.view) /\ o.r.out \in Seq(Nat) /\ o.fault \in {0, 1}
             /\ o.r.view.last = view.last \/ Follows(view.last, o.r.view.last)
  <2>1. ViewOk(d.v) /\ d.v.last = view.last /\ d.out \in Frames \cup {NoFrame} /\ d.fault \in {0, 1}
    BY DecodeOk
  <2>2. o.r = Shown(d, f, rendered) /\ o.fault = k
    BY <1>3
  <2>3. /\ ViewOk(o.r.view) /\ o.r.out \in Seq(Nat)
        /\ (o.r.view.last = d.v.last \/ (o.r.view.last = d.out /\ Follows(d.v.last, d.out)))
    BY <2>1, <2>2, ShownOk
  <2> QED BY <2>1, <2>2, <2>3
<1> QED BY <1>1, <1>2, <1>3 DEF RenderVideo
-----------------------------------------------------------------------------
DisplayInv == DisplayTypeOK /\ RecoveryOk(recovery)

LEMMA NowOk == DisplayTypeOK => OutcomeOk(Now)
BY DEF DisplayTypeOK, OutcomeOk, Now

LEMMA CommitsOk ==
  ASSUME DisplayTypeOK, NEW w, OutcomeOk(w), NEW answers, Commits(w, answers)
  PROVE  DeviceOk(dev)' /\ AgentOk(agent)' /\ faults' \in Nat /\ video' \in Seq(Frames)
BY DEF DisplayTypeOK, OutcomeOk, Commits

LEMMA DisplayInitInv == DisplayInit => DisplayInv
<1> SUFFICES ASSUME DisplayInit PROVE DisplayInv
  OBVIOUS
<1>1. DeviceOk(dev)
  BY DEF DisplayInit, Device, DeviceOk, Positive
<1>2. AgentOk(agent)
  BY DEF DisplayInit, AgentOk
<1>3. ViewOk(view)
  BY DEF DisplayInit, ViewOk, Positive
<1>4. RecoveryOk(recovery)
  <2>1. RecoveryOk(FreshRecovery)
    BY RecoveryLimitAssumption DEF FreshRecovery, RecoveryOk
  <2> QED BY <2>1 DEF DisplayInit
<1>5. video \in Seq(Frames) /\ control \in Seq(Nat) /\ desktop \in Positive /\ paused = {}
      /\ faults \in Nat /\ disruptions \in Nat
  BY DEF DisplayInit, Positive
<1>6. link \in BOOLEAN /\ congested \in BOOLEAN
  BY DEF DisplayInit
<1> QED BY <1>1, <1>2, <1>3, <1>4, <1>5, <1>6 DEF DisplayInv, DisplayTypeOK

(* The handlers of the agent: each leaves an outcome of its operators. *)
LEMMA AgentSteps ==
  ASSUME DisplayTypeOK, Start \/ HandleControl \/ ResumeAgent \/ PumpAgent
  PROVE  /\ DeviceOk(dev)' /\ AgentOk(agent)' /\ faults' \in Nat /\ video' \in Seq(Frames)
         /\ UNCHANGED <<desktop, view, link, congested, disruptions>>
         /\ paused' \subseteq paused /\ control' \in {control, Tail(control)}
<1>0. OutcomeOk(Now) /\ desktop \in Nat
  BY NowOk DEF DisplayTypeOK, Positive
<1> DEFINE Keeping == DeviceOk(dev)' /\ AgentOk(agent)' /\ faults' \in Nat /\ video' \in Seq(Frames)
<1>1. ASSUME UNCHANGED <<dev, agent, faults, video>> PROVE Keeping
  BY <1>1 DEF DisplayTypeOK
<1>2. CASE Start
  <2>1. PICK w \in StartAgent(Now) : Commits(w, << >>)
    BY <1>2 DEF Start
  <2>2. OutcomeOk(w)
    BY <1>0, StartAgentOk
  <2>3. Keeping
    BY <2>1, <2>2, CommitsOk
  <2> QED BY <1>2, <2>3 DEF Start
<1>3. CASE HandleControl
  <2>1. ASSUME agent.state = "Running" PROVE Keeping
    <3>1. PICK w \in SendFrame(Now, TRUE) : Commits(w, <<[to |-> Head(control), ok |-> w.ok]>>)
      BY <1>3, <2>1 DEF HandleControl
    <3>2. OutcomeOk(w)
      BY <1>0, SendFrameOk
    <3> QED BY <3>1, <3>2, CommitsOk
  <2>2. Keeping
    BY <1>1, <1>3, <2>1 DEF HandleControl
  <2> QED BY <1>3, <2>2 DEF HandleControl
<1>4. CASE ResumeAgent
  <2>1. ASSUME agent.state = "Running" PROVE Keeping
    <3>1. PICK w \in UNION {IF v.ok THEN SendFrame(v, FALSE) ELSE {v} : v \in SendFrame(Now, TRUE)} :
            Commits(w, << >>)
      BY <1>4, <2>1 DEF ResumeAgent
    <3>2. \A v \in SendFrame(Now, TRUE) : OutcomeOk(v)
      BY <1>0, SendFrameOk
    <3>3. \A v \in SendFrame(Now, TRUE) : \A u \in SendFrame(v, FALSE) : OutcomeOk(u)
      BY <1>0, <3>2, SendFrameOk
    <3>4. OutcomeOk(w)
      BY <3>2, <3>3
    <3> QED BY <3>1, <3>4, CommitsOk
  <2>2. Keeping
    BY <1>1, <1>4, <2>1 DEF ResumeAgent
  <2> QED BY <1>4, <2>2 DEF ResumeAgent
<1>5. CASE PumpAgent
  <2>1. PICK w \in SendFrame(Now, FALSE) :
          \/ Commits(w, << >>)
          \/ \E r \in Recover(w) : Commits(r.w, << >>)
    BY <1>5 DEF PumpAgent
  <2>2. OutcomeOk(w)
    BY <1>0, SendFrameOk
  <2>3. \A r \in Recover(w) : OutcomeOk(r.w)
    BY <1>0, <2>2, RecoverOk
  <2>4. Keeping
    BY <2>1, <2>2, <2>3, CommitsOk
  <2> QED BY <1>5, <2>4 DEF PumpAgent
<1> QED BY <1>2, <1>3, <1>4, <1>5

LEMMA OkIsBoolean ==
  ASSUME NEW w, OutcomeOk(w)
  PROVE  w.ok \in BOOLEAN
BY DEF OutcomeOk

LEMMA RecoveryStep == DisplayInv /\ [DisplayNext]_displayVars => RecoveryOk(recovery)'
<1> SUFFICES ASSUME DisplayInv, [DisplayNext]_displayVars PROVE RecoveryOk(recovery)'
  OBVIOUS
<1> USE DEF DisplayInv
<1>1. CASE PumpAgent
  <2>1. PICK w \in SendFrame(Now, FALSE) :
          \/ recovery' = FrameSuccess(recovery, w.dev.kind)
          \/ recovery' = recovery
          \/ \E r \in Recover(w) : recovery' = r.recovery
    BY <1>1 DEF PumpAgent
  <2>2. OutcomeOk(w) /\ desktop \in Nat
    BY NowOk, SendFrameOk DEF DisplayTypeOK, Positive
  <2>3. ASSUME NEW r \in Recover(w) PROVE RecoveryOk(r.recovery)
    <3> DEFINE plan == Plan(recovery, ReportedStatus(w), w.dev.kind)
               next == Failover(Candidates, request, w.dev.kind, TRUE)
               switched == {[w EXCEPT !.ok = FALSE]} \cup
                           IF next = "" \/ w.dev.run >= MaxRuns THEN {} ELSE ReplaceCapture(w, next)
               tried == IF plan.action \in {"Reopen", "Recreate"} THEN ReopenCapture(w)
                        ELSE IF plan.action = "Switch" THEN switched ELSE {}
    <3>1. \/ r = [w |-> w, recovery |-> plan.next]
          \/ \E v \in tried : r = [w |-> v, recovery |-> Attempted(plan, v.ok, v.dev.kind)]
      BY <2>3 DEF Recover
    <3>2. RecoveryOk(plan.next) /\ (plan.action \in {"Reopen", "Recreate"} /\ RecoveryLimit > 0 =>
                                      plan.next.attempts < RecoveryLimit)
      BY PlanKeepsBound
    <3>3. tried # {} => plan.action \in Executable
      BY DEF Executable
    <3>4. ASSUME NEW v \in tried, r = [w |-> v, recovery |-> Attempted(plan, v.ok, v.dev.kind)]
          PROVE  RecoveryOk(r.recovery)
      <4>1. r \in Recover(w) /\ r.w = v
        BY <2>3, <3>4
      <4>2. v.ok \in BOOLEAN
        BY <2>2, <4>1, RecoverOk, OkIsBoolean
      <4> HIDE DEF plan, tried
      <4>3. RecoveryOk(Attempted(plan, v.ok, v.dev.kind))
        BY <3>2, <3>3, <4>2, AttemptKeepsBound
      <4> QED BY <3>4, <4>3
    <3> HIDE DEF plan, tried
    <3> QED BY <3>1, <3>2, <3>4
  <2> QED BY <2>1, <2>3, SuccessKeepsBound
<1>2. CASE TimePasses
  BY <1>2 DEF TimePasses, RecoveryOk
<1>3. CASE UNCHANGED recovery
  BY <1>3
<1> QED BY <1>1, <1>2, <1>3 DEF DisplayNext, displayVars, Start, Stop, HandleControl, ResumeAgent,
          ReceiveVideo, ReceiveReply, ResumeClient, ExpireRequest, PumpClient, DesktopChanges,
          Lose, Rebind, Congestion

LEMMA ReceivedOk ==
  ASSUME DisplayTypeOK, ReceiveVideo
  PROVE  /\ video # << >> /\ Head(video) \in Frames /\ video' = Tail(video) /\ video' \in Seq(Frames)
         /\ ViewOk(view)' /\ control' \in Seq(Nat) /\ faults' \in Nat
         /\ (view'.last = view.last \/ Follows(view.last, view'.last))
<1>1. video # << >> /\ Head(video) \in Frames /\ video' = Tail(video) /\ video' \in Seq(Frames)
  BY DEF DisplayTypeOK, ReceiveVideo
<1>2. PICK o \in RenderVideo(Head(video)) :
        view' = o.r.view /\ control' = control \o o.r.out /\ faults' = faults + o.fault
  BY DEF ReceiveVideo
<1>3. /\ ViewOk(o.r.view) /\ o.r.out \in Seq(Nat) /\ o.fault \in {0, 1}
      /\ (o.r.view.last = view.last \/ Follows(view.last, o.r.view.last))
  BY <1>1, RenderOk DEF DisplayTypeOK
<1>4. control' \in Seq(Nat) /\ faults' \in Nat
  BY <1>2, <1>3 DEF DisplayTypeOK
<1> QED BY <1>1, <1>2, <1>3, <1>4

LEMMA DisplayTypeStep == DisplayTypeOK /\ [DisplayNext]_displayVars => DisplayTypeOK'
<1> SUFFICES ASSUME DisplayTypeOK, [DisplayNext]_displayVars PROVE DisplayTypeOK'
  OBVIOUS
<1>1. CASE Start \/ HandleControl \/ ResumeAgent \/ PumpAgent
  <2>1. /\ DeviceOk(dev)' /\ AgentOk(agent)' /\ faults' \in Nat /\ video' \in Seq(Frames)
        /\ UNCHANGED <<desktop, view, link, congested, disruptions>>
        /\ paused' \subseteq paused /\ control' \in {control, Tail(control)}
    BY <1>1, AgentSteps
  <2>2. control' \in Seq(Nat)
    <3>1. CASE UNCHANGED control
      BY <3>1 DEF DisplayTypeOK
    <3>2. CASE control # << >> /\ control' = Tail(control)
      BY <3>2 DEF DisplayTypeOK
    <3> QED BY <1>1, <3>1, <3>2 DEF Start, HandleControl, ResumeAgent, PumpAgent
  <2> QED BY <2>1, <2>2 DEF DisplayTypeOK
<1>2. CASE Stop
  <2>1. DeviceOk(dev')
    <3>1. OutcomeOk(Now) /\ Now.dev = dev
      BY NowOk DEF Now
    <3>2. PICK d : d = Close(dev)
      OBVIOUS
    <3>3. DeviceOk(d)
      BY <3>2, CloseOk DEF DisplayTypeOK
    <3>4. PICK u : u = [Now EXCEPT !.dev = d]
      OBVIOUS
    <3>5. u.dev = d
      BY <3>1, <3>3, <3>4, DeviceReplaced
    <3>6. dev' = u.dev \/ dev' = Now.dev
      BY <1>2, <3>1, <3>2, <3>4 DEF Stop, CloseIfOpened
    <3> QED BY <3>1, <3>3, <3>5, <3>6 DEF DisplayTypeOK
  <2>2. AgentOk(agent')
    BY <1>2 DEF Stop, DisplayTypeOK, AgentOk
  <2>3. disruptions' \in Nat
    BY <1>2 DEF Stop, DisplayTypeOK
  <2> QED BY <1>2, <2>1, <2>2, <2>3 DEF Stop, DisplayTypeOK
<1>3. CASE ReceiveVideo
  BY <1>3, ReceivedOk DEF ReceiveVideo, DisplayTypeOK
<1>4. CASE ReceiveReply
  <2>1. ViewOk(view')
    BY <1>4 DEF ReceiveReply, DisplayTypeOK, ViewOk
  <2> QED BY <1>4, <2>1 DEF ReceiveReply, DisplayTypeOK
<1>5. ASSUME NEW awaiting \in BOOLEAN, AskNow(view, awaiting)
      PROVE  ViewOk(view)' /\ control' \in Seq(Nat)
  <2>1. PICK a : a = Asks(view, awaiting)
    OBVIOUS
  <2>2. AsksOk(view, a)
    BY <2>1, AskingOk DEF DisplayTypeOK
  <2>3. view' = a.view /\ control' = control \o a.out
    BY <1>5, <2>1 DEF AskNow
  <2> QED BY <2>2, <2>3 DEF AsksOk, DisplayTypeOK
<1>6. CASE ResumeClient
  <2>1. ViewOk(view)' /\ control' \in Seq(Nat)
    <3>1. (view.last # NoFrame) \in BOOLEAN
      OBVIOUS
    <3> QED BY <1>5, <1>6, <3>1 DEF ResumeClient
  <2> QED BY <1>6, <2>1 DEF ResumeClient, DisplayTypeOK
<1>7. CASE PumpClient
  <2>1. ViewOk(view)' /\ control' \in Seq(Nat)
    BY <1>5, <1>7 DEF PumpClient, DisplayTypeOK, ViewOk
  <2> QED BY <1>7, <2>1 DEF PumpClient, DisplayTypeOK
<1>8. CASE ExpireRequest
  <2>1. ViewOk(view')
    BY <1>8 DEF ExpireRequest, DisplayTypeOK, ViewOk
  <2> QED BY <1>8, <2>1 DEF ExpireRequest, DisplayTypeOK
<1>9. CASE DesktopChanges
  BY <1>9 DEF DesktopChanges, DisplayTypeOK, Positive
<1>10. CASE Lose
  <2>1. link' \in BOOLEAN
    BY <1>10 DEF Lose
  <2>2. video' \in Seq(Frames) /\ control' \in Seq(Nat)
    BY <1>10 DEF Lose
  <2>3. disruptions' \in Nat /\ paused' = {"agent", "client"}
    BY <1>10 DEF Lose, DisplayTypeOK
  <2> QED BY <1>10, <2>1, <2>2, <2>3 DEF Lose, DisplayTypeOK
<1>11. CASE Rebind
  BY <1>11 DEF Rebind, DisplayTypeOK
<1>12. CASE Congestion
  <2>1. congested' \in BOOLEAN /\ disruptions' \in Nat
    BY <1>12 DEF Congestion, DisplayTypeOK
  <2> QED BY <1>12, <2>1 DEF Congestion, DisplayTypeOK
<1>13. CASE TimePasses
  BY <1>13 DEF TimePasses, DisplayTypeOK
<1>14. CASE UNCHANGED displayVars
  BY <1>14 DEF displayVars, DisplayTypeOK
<1> QED BY <1>1, <1>2, <1>3, <1>4, <1>6, <1>7, <1>8, <1>9, <1>10, <1>11, <1>12, <1>13, <1>14 DEF DisplayNext

LEMMA DisplayInvHolds == DisplaySpec => []DisplayInv
<1>1. DisplayInit => DisplayInv
  BY DisplayInitInv
<1>2. DisplayInv /\ [DisplayNext]_displayVars => DisplayInv'
  BY DisplayTypeStep, RecoveryStep DEF DisplayInv
<1> QED BY <1>1, <1>2, PTL DEF DisplaySpec

(* However long a backend keeps failing, it is reopened at most              *)
(* RecoveryLimit times before another one is tried or the recovery window    *)
(* has passed (selectDisplayCaptureRecoveryPlan,                             *)
(* recordDisplayCaptureRecoveryAttempt).                                     *)
THEOREM RecoveryStaysBounded == DisplaySpec => []RecoveryIsBounded
<1>1. DisplayInv => RecoveryIsBounded
  BY DEF DisplayInv, RecoveryOk, RecoveryIsBounded
<1> QED BY <1>1, DisplayInvHolds, PTL

(* A delta is shown only on top of the frame it was made from               *)
(* (renderVideo).                                                           *)
THEOREM DeltasFollowTheirBase == DisplaySpec => DeltaFollowsItsBase
<1>1. DisplayInv /\ [DisplayNext]_displayVars
        => [view'.last # view.last /\ ~view'.last.key /\ view'.last.run = view.last.run
              => view'.last.id = view.last.id + 1]_displayVars
  <2> SUFFICES ASSUME DisplayInv, DisplayNext, view'.last # view.last, ~view'.last.key,
                      view'.last.run = view.last.run
               PROVE  view'.last.id = view.last.id + 1
    OBVIOUS
  <2>1. CASE ReceiveVideo
    <3>1. Follows(view.last, view'.last)
      BY <2>1, ReceivedOk DEF DisplayInv
    <3>2. view'.last \in Frames /\ view.last \in Frames \cup {NoFrame}
      BY <3>1 DEF Follows, DisplayInv, DisplayTypeOK, ViewOk
    <3>3. view.last # NoFrame /\ view.last \in Frames
      BY <3>2 DEF Frames, NoFrame, Positive
    <3>4. view'.last.id \in Nat /\ view.last.id \in Nat
      BY <3>2, <3>3 DEF Frames, Positive
    <3> QED BY <3>1, <3>3, <3>4 DEF Follows, Gap
  <2>2. ASSUME NEW awaiting \in BOOLEAN, AskNow(view, awaiting)
        PROVE  view'.last = view.last
    <3>1. AsksOk(view, Asks(view, awaiting))
      BY AskingOk DEF DisplayInv, DisplayTypeOK
    <3> QED BY <2>2, <3>1 DEF AskNow, AsksOk
  <2>3. CASE ResumeClient
    <3>1. (view.last # NoFrame) \in BOOLEAN
      OBVIOUS
    <3> QED BY <2>2, <2>3, <3>1 DEF ResumeClient
  <2>4. CASE PumpClient
    BY <2>2, <2>4 DEF PumpClient, DisplayInv, DisplayTypeOK, ViewOk
  <2>5. CASE ReceiveReply \/ ExpireRequest
    BY <2>5 DEF ReceiveReply, ExpireRequest, DisplayInv, DisplayTypeOK, ViewOk
  <2>6. CASE UNCHANGED view
    BY <2>6
  <2> QED BY <2>1, <2>3, <2>4, <2>5, <2>6 DEF DisplayNext, Start, Stop, HandleControl, ResumeAgent,
            PumpAgent, DesktopChanges, Lose, Rebind, Congestion, TimePasses
<1> QED BY <1>1, DisplayInvHolds, PTL DEF DisplaySpec, DeltaFollowsItsBase
-----------------------------------------------------------------------------
(* As long as nothing has failed.  A call of captureNextFrame() on an open   *)
(* backend brings a frame of the desktop or finds it unchanged; a backend    *)
(* other than Windows Graphics Capture always has a frame for a keyframe.    *)
CalmOutcome(w, v) ==
  /\ w.faults = 0 /\ SteadyDev(v.dev) /\ v.dev.open /\ v.dev.kind = w.dev.kind
  /\ v.dev.nextId = w.dev.nextId + 1

CalmCaptured(w, key, c) ==
  /\ CalmOutcome(w, c.w) /\ c.w.sent = w.sent /\ c.w.agent = w.agent
  /\ \/ c.frame = NoFrame /\ c.w.dev.seen = w.dev.seen /\ ~(key /\ w.dev.kind # "wgc")
     \/ /\ c.frame \in Frames /\ c.frame.id = w.dev.nextId
        /\ c.frame.content = c.w.dev.seen

(* The outcome u with another picture and another status in its device.  *)
Leaves(u, v, seen, status) ==
  /\ v.dev.seen = seen /\ v.dev.status = status
  /\ (u.dev.open => v.dev.open) /\ v.dev.kind = u.dev.kind
  /\ v.dev.cached = u.dev.cached /\ v.dev.nextId = u.dev.nextId
  /\ v.faults = u.faults /\ v.sent = u.sent /\ v.agent = u.agent

LEMMA FrameTaken ==
  ASSUME NEW u, OutcomeOk(u), NEW key \in BOOLEAN, NEW content \in Nat, NEW c \in Captured(u, key, content),
         u.dev.nextId > 1
  PROVE  /\ Leaves(u, c.w, content, Ok)
         /\ c.frame \in Frames /\ c.frame.id = u.dev.nextId - 1 /\ c.frame.content = content
<1>1. PICK d : d = [u.dev EXCEPT !.seen = content, !.status = Ok]
  OBVIOUS
<1>2. DeviceOk(d)
  BY <1>1 DEF DeviceOk, OutcomeOk
<1>3. PICK x : x = [u EXCEPT !.dev = d]
  OBVIOUS
<1>4. x.dev = d /\ x.faults = u.faults /\ x.sent = u.sent /\ x.agent = u.agent
  BY <1>2, <1>3, DeviceReplaced
<1>5. c.w = x /\ c.frame = Frame(u, key, content)
  BY <1>1, <1>3 DEF Captured
<1>6. Frame(u, key, content) \in Frames /\ Frame(u, key, content).id = u.dev.nextId - 1
      /\ Frame(u, key, content).content = content
  BY DEF Frame, Frames, OutcomeOk, DeviceOk, Positive
<1>7. /\ d.seen = content /\ d.status = Ok /\ (u.dev.open => d.open) /\ d.kind = u.dev.kind
      /\ d.cached = u.dev.cached /\ d.nextId = u.dev.nextId
  BY <1>1 DEF OutcomeOk, DeviceOk
<1> QED BY <1>4, <1>5, <1>6, <1>7 DEF Leaves

LEMMA NothingTaken ==
  ASSUME NEW u, OutcomeOk(u), NEW status, NEW c \in Nothing(u, status)
  PROVE  /\ Leaves(u, c.w, u.dev.seen, status)
         /\ c.frame = NoFrame
<1>1. PICK d : d = [u.dev EXCEPT !.status = status]
  OBVIOUS
<1>2. DeviceOk(d)
  BY <1>1 DEF DeviceOk, OutcomeOk
<1>3. PICK x : x = [u EXCEPT !.dev = d]
  OBVIOUS
<1>4. x.dev = d /\ x.faults = u.faults /\ x.sent = u.sent /\ x.agent = u.agent
  BY <1>2, <1>3, DeviceReplaced
<1>5. c.w = x /\ c.frame = NoFrame
  BY <1>1, <1>3 DEF Nothing
<1>7. /\ d.seen = u.dev.seen /\ d.status = status /\ (u.dev.open => d.open) /\ d.kind = u.dev.kind
      /\ d.cached = u.dev.cached /\ d.nextId = u.dev.nextId
  BY <1>1 DEF OutcomeOk, DeviceOk
<1> QED BY <1>4, <1>5, <1>7 DEF Leaves

LEMMA CalmCapture ==
  ASSUME NEW w, OutcomeOk(w), w.dev.open, SteadyDev(w.dev), desktop \in Positive,
         NEW key \in BOOLEAN, NEW c \in CaptureNextFrame(w, key), c.w.faults = 0
  PROVE  CalmCaptured(w, key, c)
<1>1. PICK u : u = Numbered(w)
  OBVIOUS
<1>2. /\ OutcomeOk(u) /\ u.dev.nextId = w.dev.nextId + 1 /\ u.dev.nextId > 1
      /\ u.sent = w.sent /\ u.agent = w.agent /\ u.faults = w.faults
      /\ u.dev = [w.dev EXCEPT !.nextId = @ + 1]
  BY <1>1, NumberedOk
<1>3. /\ u.dev.seen = w.dev.seen /\ u.dev.cached = w.dev.cached /\ u.dev.kind = w.dev.kind
      /\ u.dev.open /\ SteadyDev(u.dev)
  BY <1>2 DEF SteadyDev, OutcomeOk, DeviceOk
<1>4. c \in CaptureFrom(u, key) /\ desktop \in Nat /\ u.faults \in Nat /\ w.dev.nextId \in Nat
  BY <1>1, <1>2, CaptureNextFrameOk DEF OutcomeOk, DeviceOk, Positive
<1>5. c \notin CaptureFails(u)
  <2>1. c \in CaptureFails(u) => c.w.faults = u.faults + 1
    BY <1>2, <1>4, FailsOk
  <2> QED BY <1>4, <2>1
<1>6. ASSUME NEW content \in Nat, NEW k \in BOOLEAN, NEW x, OutcomeOk(x), c \in Captured(x, k, content),
             x.sent = u.sent, x.agent = u.agent, x.faults = u.faults,
             x.dev = u.dev \/ x.dev = [u.dev EXCEPT !.cached = content],
             x.dev.kind = "dxgi" => x.dev.cached = content
      PROVE  CalmCaptured(w, key, c)
  <2>1. DeviceOk(u.dev)
    BY <1>2 DEF OutcomeOk
  <2>2. /\ x.dev.nextId = u.dev.nextId /\ x.dev.kind = u.dev.kind /\ x.dev.open
    BY <1>3, <1>6, <2>1 DEF DeviceOk
  <2>3. /\ c.w.faults = x.faults /\ c.w.sent = x.sent /\ c.w.agent = x.agent
        /\ c.frame \in Frames /\ c.frame.id = x.dev.nextId - 1 /\ c.frame.content = content
        /\ c.w.dev.seen = content /\ c.w.dev.status = Ok
        /\ (x.dev.open => c.w.dev.open) /\ c.w.dev.kind = x.dev.kind
        /\ c.w.dev.cached = x.dev.cached /\ c.w.dev.nextId = x.dev.nextId
    BY <1>2, <1>6, <2>2, FrameTaken DEF Leaves
  <2>5. c.w.dev.open
    BY <2>2, <2>3
  <2>6. SteadyDev(c.w.dev)
    BY <1>6, <2>3 DEF SteadyDev
  <2> QED BY <1>2, <1>3, <1>4, <1>6, <2>2, <2>3, <2>5, <2>6 DEF CalmCaptured, CalmOutcome
<1>7. ASSUME c \in Nothing(u, FrameTimeout), ~(key /\ w.dev.kind # "wgc")
      PROVE  CalmCaptured(w, key, c)
  <2>n. Leaves(u, c.w, u.dev.seen, FrameTimeout) /\ c.frame = NoFrame
    <3>1. OutcomeOk(u)
      BY <1>2
    <3>2. c \in Nothing(u, FrameTimeout)
      BY <1>7
    <3>3. \A x \in Nothing(u, FrameTimeout) : Leaves(u, x.w, u.dev.seen, FrameTimeout) /\ x.frame = NoFrame
      BY <3>1, NothingTaken
    <3> QED BY <3>2, <3>3
  <2>1. /\ c.w.faults = u.faults /\ c.w.sent = u.sent /\ c.w.agent = u.agent
        /\ c.frame = NoFrame /\ c.w.dev.seen = u.dev.seen /\ c.w.dev.status = FrameTimeout
        /\ (u.dev.open => c.w.dev.open) /\ c.w.dev.kind = u.dev.kind
        /\ c.w.dev.cached = u.dev.cached /\ c.w.dev.nextId = u.dev.nextId
    BY <2>n DEF Leaves
  <2>3. c.w.dev.open
    BY <1>3, <2>1
  <2>4. SteadyDev(c.w.dev)
    BY <1>3, <2>1 DEF SteadyDev
  <2> QED BY <1>2, <1>3, <1>7, <2>1, <2>3, <2>4 DEF CalmCaptured, CalmOutcome
<1>8. CASE u.dev.kind = "dxgi" /\ c \in CaptureDxgi(u, key)
  <2>1. CASE u.dev.seen # desktop
    <3>1. PICK d : d = [u.dev EXCEPT !.cached = desktop]
      OBVIOUS
    <3>2. PICK x : x = [u EXCEPT !.dev = d]
      OBVIOUS
    <3>3. DeviceOk(d) /\ d.cached = desktop
      BY <1>2, <1>4, <3>1 DEF DeviceOk, OutcomeOk
    <3>4. OutcomeOk(x) /\ x.dev = d /\ x.sent = u.sent /\ x.agent = u.agent /\ x.faults = u.faults
      BY <1>2, <3>2, <3>3, DeviceReplaced
    <3>5. c \in Captured(x, key, desktop)
      BY <1>8, <2>1, <3>1, <3>2 DEF CaptureDxgi
    <3> QED BY <1>4, <1>6, <3>1, <3>3, <3>4, <3>5
  <2>2. CASE u.dev.seen = desktop /\ key /\ u.dev.cached # 0
    <3>1. c \in Captured(u, TRUE, u.dev.cached) /\ u.dev.cached \in Nat
      BY <1>2, <1>8, <2>2 DEF CaptureDxgi, OutcomeOk, DeviceOk
    <3> QED BY <1>2, <1>6, <3>1
  <2>3. CASE u.dev.seen = desktop /\ ~(key /\ u.dev.cached # 0)
    <3>1. c \in Nothing(u, FrameTimeout)
      BY <1>8, <2>3 DEF CaptureDxgi
    <3>2. u.dev.cached # 0
      BY <1>3, <1>8, <2>3 DEF SteadyDev, Positive
    <3> QED BY <1>7, <2>3, <3>1, <3>2
  <2> QED BY <2>1, <2>2, <2>3
<1>9. CASE u.dev.kind = "wgc" /\ c \in CaptureWgc(u, key)
  <2>1. c \in Captured(u, key, desktop) \/ c \in Nothing(u, FrameTimeout)
    BY <1>9 DEF CaptureWgc
  <2> QED BY <1>2, <1>3, <1>4, <1>6, <1>7, <1>9, <2>1
<1>10. CASE u.dev.kind = "gdi" /\ c \in CaptureGdi(u, key)
  BY <1>2, <1>4, <1>6, <1>10 DEF CaptureGdi
<1> QED BY <1>4, <1>5, <1>8, <1>9, <1>10 DEF CaptureFrom

(* sendFrame() then leaves a frame of what the backend has seen last, or     *)
(* nothing new.                                                              *)
CalmSent(w, key, v) ==
  /\ w.faults = 0 /\ SteadyDev(v.dev) /\ v.dev.open /\ v.dev.kind = w.dev.kind
  /\ v.dev.nextId \in Nat /\ v.dev.nextId >= w.dev.nextId
  /\ v.agent.state = w.agent.state /\ v.agent.opened = w.agent.opened
  /\ \/ /\ v.sent = w.sent /\ ~v.ok /\ (link => v.dev.seen = w.dev.seen)
        /\ ~(key /\ link /\ w.dev.kind # "wgc")
     \/ /\ link /\ v.ok
        /\ \E k \in Frames :
             /\ v.sent = Append(w.sent, k) /\ k.content = v.dev.seen
             /\ k.id = w.dev.nextId /\ v.dev.nextId = w.dev.nextId + 1

LEMMA CalmSend ==
  ASSUME NEW w, OutcomeOk(w), w.dev.open, SteadyDev(w.dev), desktop \in Positive,
         NEW key \in BOOLEAN, NEW v \in SendFrame(w, key), v.faults = 0
  PROVE  CalmSent(w, key, v)
<1>0. w.dev.nextId \in Nat
  BY DEF OutcomeOk, DeviceOk, Positive
<1>1. CASE ~key /\ congested
  <2>1. v = [w EXCEPT !.ok = FALSE]
    BY <1>1 DEF SendFrame
  <2>2. v.dev = w.dev /\ v.agent = w.agent /\ v.sent = w.sent /\ v.faults = w.faults /\ ~v.ok
    BY <2>1 DEF OutcomeOk
  <2> QED BY <1>0, <1>1, <2>2 DEF CalmSent
<1>2. CASE ~(~key /\ congested)
  <2>1. PICK c \in CaptureNextFrame(w, key) : v = Sent(c.w, c.frame)
    BY <1>2 DEF SendFrame
  <2>2. OutcomeOk(c.w) /\ c.frame \in Frames \cup {NoFrame}
    BY <2>1, CaptureNextFrameOk DEF Positive
  <2>3. /\ v.dev = c.w.dev /\ v.faults = c.w.faults
        /\ v.agent.state = c.w.agent.state /\ v.agent.opened = c.w.agent.opened
        /\ \/ v.sent = c.w.sent /\ ~v.ok /\ (c.frame = NoFrame \/ ~link)
           \/ /\ link /\ c.frame \in Frames /\ v.ok
              /\ \E k \in Frames : k.id = c.frame.id /\ k.content = c.frame.content
                                   /\ v.sent = Append(c.w.sent, k)
    BY <2>1, <2>2, SentOk
  <2>4. CalmCaptured(w, key, c)
    BY <2>1, <2>3, CalmCapture
  <2>5. NoFrame \notin Frames
    BY DEF NoFrame, Frames, Positive
  <2> QED BY <1>0, <2>3, <2>4, <2>5 DEF CalmSent, CalmCaptured, CalmOutcome
<1> QED BY <1>1, <1>2

(* A handler's outcome v: it has sent nothing or one or two frames, the last *)
(* of them of what the backend has seen.                                     *)
SentFrames(v) ==
  /\ \A n \in 1 .. Len(v.sent) : dev.nextId <= v.sent[n].id /\ v.sent[n].id < v.dev.nextId
  /\ \A m, n \in 1 .. Len(v.sent) : m < n => v.sent[m].id < v.sent[n].id
  /\ v.sent # << >> => v.sent[Len(v.sent)].content = v.dev.seen

Tidy(v) ==
  /\ faults = 0 /\ OutcomeOk(v) /\ SteadyDev(v.dev) /\ v.dev.kind = dev.kind
  /\ v.dev.nextId >= dev.nextId
  /\ v.agent.state = "Running" => v.agent.opened /\ v.dev.open
  /\ SentFrames(v)

LEMMA OneSent ==
  ASSUME NEW w, OutcomeOk(w), w.sent = << >>, w.dev.nextId = dev.nextId, NEW key \in BOOLEAN,
         NEW v, OutcomeOk(v), CalmSent(w, key, v)
  PROVE  SentFrames(v)
<1>1. CASE v.sent = w.sent
  BY <1>1 DEF SentFrames
<1>2. ASSUME NEW k \in Frames, v.sent = Append(w.sent, k), k.content = v.dev.seen,
             k.id = w.dev.nextId, v.dev.nextId = w.dev.nextId + 1
      PROVE  SentFrames(v)
  <2>1. v.sent = <<k>> /\ w.dev.nextId \in Nat
    BY <1>2 DEF OutcomeOk, DeviceOk, Positive
  <2> QED BY <1>2, <2>1 DEF SentFrames
<1> QED BY <1>1, <1>2 DEF CalmSent

LEMMA CalmStart ==
  ASSUME DisplayTypeOK, NEW v \in StartAgent(Now), v.faults = 0
  PROVE  /\ Tidy(v)
         /\ link /\ v.agent.state = "Running" /\ dev.kind # "wgc" => v.sent # << >>
<1>0. OutcomeOk(Now) /\ desktop \in Positive /\ desktop \in Nat /\ faults \in Nat /\ dev.nextId \in Nat
      /\ Now.dev = dev /\ Now.sent = << >> /\ Now.faults = faults
  BY NowOk DEF DisplayTypeOK, Positive, Now, DeviceOk
<1>1. OutcomeOk(v)
  BY <1>0, StartAgentOk
<1> DEFINE running(x) == [x EXCEPT !.agent = [@ EXCEPT !.opened = TRUE, !.state = "Running"]]
           failed(x)  == [x EXCEPT !.agent = [@ EXCEPT !.opened = FALSE, !.state = "Failed"]]
           opened     == {running(x) : x \in {u \in Open(Now) : u.ok}}
<1>2. ASSUME NEW x, OutcomeOk(x)
      PROVE  /\ OutcomeOk(running(x)) /\ OutcomeOk(failed(x))
             /\ running(x).faults = x.faults /\ failed(x).faults = x.faults
             /\ running(x).dev = x.dev /\ failed(x).dev = x.dev
             /\ running(x).sent = x.sent /\ failed(x).sent = x.sent
             /\ running(x).agent.state = "Running" /\ running(x).agent.opened
             /\ failed(x).agent.state = "Failed"
  <2>1. PICK a : a = [x.agent EXCEPT !.opened = TRUE, !.state = "Running"]
    OBVIOUS
  <2>2. PICK b : b = [x.agent EXCEPT !.opened = FALSE, !.state = "Failed"]
    OBVIOUS
  <2>3. AgentOk(a) /\ AgentOk(b) /\ a.state = "Running" /\ a.opened /\ b.state = "Failed"
    BY <1>2, <2>1, <2>2 DEF AgentOk, OutcomeOk
  <2>4. running(x) = [x EXCEPT !.agent = a] /\ failed(x) = [x EXCEPT !.agent = b]
    BY <2>1, <2>2
  <2>5. PICK y, z : y = running(x) /\ z = failed(x)
    OBVIOUS
  <2>6. /\ OutcomeOk(y) /\ y.faults = x.faults /\ y.dev = x.dev /\ y.sent = x.sent /\ y.agent = a
        /\ OutcomeOk(z) /\ z.faults = x.faults /\ z.dev = x.dev /\ z.sent = x.sent /\ z.agent = b
    BY <1>2, <2>3, <2>4, <2>5, AgentReplaced
  <2> QED BY <2>3, <2>5, <2>6
<1>3. StartAgent(Now) = {failed(x) : x \in {u \in Open(Now) : ~u.ok}} \cup
        {IF x.ok THEN x ELSE failed([x EXCEPT !.dev = Close(@)]) : x \in SendKeyFrame(opened)}
  BY DEF StartAgent
<1> HIDE DEF failed
<1>4. CASE \E x \in Open(Now) : ~x.ok /\ v = failed(x)
  <2>1. PICK x \in Open(Now) : ~x.ok /\ v = failed(x)
    BY <1>4
  <2>2. OutcomeOk(x) /\ x.faults = 0
    BY <1>0, <1>2, <2>1, OpenOk
  <2>3. ~x.ok => x.faults = faults + 1
    <3>1. x = [Now EXCEPT !.dev = Opened(@), !.ok = TRUE] \/
          \E s \in Failures : x = [Failing(Now, Refused(Now.dev, s)) EXCEPT !.ok = FALSE]
      BY DEF Open
    <3>2. ASSUME NEW s \in Failures, x = [Failing(Now, Refused(Now.dev, s)) EXCEPT !.ok = FALSE]
          PROVE  x.faults = faults + 1
      <4>1. DeviceOk(Refused(Now.dev, s))
        BY <1>0, OpenedOk DEF OutcomeOk
      <4>2. PICK u : u = Failing(Now, Refused(Now.dev, s))
        OBVIOUS
      <4>3. OutcomeOk(u) /\ u.faults = faults + 1
        BY <1>0, <4>1, <4>2, FailingOk
      <4>4. x = [u EXCEPT !.ok = FALSE]
        BY <3>2, <4>2
      <4> QED BY <4>3, <4>4 DEF OutcomeOk
    <3>3. x = [Now EXCEPT !.dev = Opened(@), !.ok = TRUE] => x.ok
      BY <1>0 DEF OutcomeOk
    <3> QED BY <3>1, <3>2, <3>3
  <2> QED BY <1>0, <2>1, <2>2, <2>3
<1>5. CASE \E x \in SendKeyFrame(opened) :
             v = IF x.ok THEN x ELSE failed([x EXCEPT !.dev = Close(@)])
  <2>1. PICK u \in Open(Now) : u.ok /\ \E x \in SendFrame(running(u), TRUE) :
          v = IF x.ok THEN x ELSE failed([x EXCEPT !.dev = Close(@)])
    BY <1>5 DEF SendKeyFrame
  <2> HIDE DEF running
  <2>2. PICK x \in SendFrame(running(u), TRUE) :
          v = IF x.ok THEN x ELSE failed([x EXCEPT !.dev = Close(@)])
    BY <2>1
  <2>3. OutcomeOk(u) /\ u.sent = << >> /\ u.dev.nextId = dev.nextId /\ u.faults >= faults
    BY <1>0, OpenOk
  <2>4. u = [Now EXCEPT !.dev = Opened(@), !.ok = TRUE]
    BY <1>0, <2>1, OpenOk
  <2>5. u.dev = Opened(dev) /\ u.faults = faults
    <3>1. PICK d : d = Opened(dev)
      OBVIOUS
    <3>2. u = [Now EXCEPT !.dev = d, !.ok = TRUE]
      BY <1>0, <2>4, <3>1
    <3> QED BY <1>0, <3>1, <3>2 DEF OutcomeOk
  <2>6. u.dev.open /\ u.dev.kind = dev.kind /\ SteadyDev(u.dev)
    <3>1. DeviceOk(dev)
      BY DEF DisplayTypeOK
    <3>2. PICK d : d = Opened(dev)
      OBVIOUS
    <3>3. d.kind = dev.kind /\ d.open /\ d.status = Ok /\ d.seen = 0 /\ d.cached = 0
      BY <3>1, <3>2, OpenedOk
    <3> QED BY <2>5, <3>2, <3>3 DEF SteadyDev
  <2>7. PICK y : y = running(u)
    OBVIOUS
  <2>8. /\ OutcomeOk(y) /\ y.faults = faults /\ y.dev = u.dev /\ y.sent = << >>
        /\ y.agent.state = "Running" /\ y.agent.opened
    BY <1>2, <2>3, <2>5, <2>7
  <2>9. OutcomeOk(x)
    BY <1>0, <2>2, <2>7, <2>8, SendFrameOk
  <2>10. PICK z : z = [x EXCEPT !.dev = Close(@)]
    OBVIOUS
  <2>11. /\ OutcomeOk(z) /\ z.faults = x.faults /\ z.sent = x.sent /\ z.dev = Close(x.dev)
         /\ DeviceOk(Close(x.dev)) /\ DeviceOk(x.dev)
    <3>1. PICK d : d = Close(x.dev)
      OBVIOUS
    <3>2. DeviceOk(d) /\ DeviceOk(x.dev)
      BY <2>9, <3>1, CloseOk DEF OutcomeOk
    <3>3. z = [x EXCEPT !.dev = d]
      BY <2>10, <3>1
    <3> QED BY <2>9, <3>1, <3>2, <3>3, DeviceReplaced
  <2>12. v = IF x.ok THEN x ELSE failed(z)
    BY <2>2, <2>10
  <2>13. x.faults = 0
    BY <1>2, <2>11, <2>12
  <2>14. CalmSent(y, TRUE, x)
    BY <1>0, <2>2, <2>6, <2>7, <2>8, <2>13, CalmSend
  <2>15. SentFrames(x)
    BY <2>3, <2>8, <2>9, <2>14, OneSent
  <2>16. CASE x.ok
    <3>1. v = x
      BY <2>12, <2>16
    <3>2. Tidy(v)
      BY <1>1, <2>3, <2>6, <2>8, <2>14, <2>15, <3>1 DEF Tidy, CalmSent
    <3>3. x.sent # << >>
      <4>1. PICK k \in Frames : x.sent = Append(y.sent, k)
        BY <2>14, <2>16 DEF CalmSent
      <4>2. x.sent = <<k>>
        BY <2>8, <4>1
      <4> QED BY <4>2
    <3> QED BY <3>1, <3>2, <3>3
  <2>17. CASE ~x.ok
    <3>1. v.sent = << >> /\ v.dev = Close(x.dev) /\ v.agent.state = "Failed"
      BY <1>2, <2>8, <2>11, <2>12, <2>14, <2>17 DEF CalmSent
    <3>2. v.dev.kind = x.dev.kind /\ v.dev.nextId = x.dev.nextId /\ v.dev.seen = 0 /\ v.dev.cached = 0
          /\ v.dev.status = x.dev.status
      BY <2>11, <3>1, CloseOk
    <3>3. SteadyDev(v.dev)
      BY <2>14, <3>2 DEF SteadyDev, CalmSent
    <3>4. SentFrames(v)
      BY <3>1 DEF SentFrames
    <3> QED BY <1>1, <2>3, <2>6, <2>8, <2>14, <3>1, <3>2, <3>3, <3>4 DEF Tidy, CalmSent
  <2> QED BY <2>16, <2>17
<1> QED BY <1>3, <1>4, <1>5

LEMMA CalmHandled ==
  ASSUME DisplayTypeOK, Steady, agent.state = "Running", NEW key \in BOOLEAN,
         NEW v \in SendFrame(Now, key), v.faults = 0
  PROVE  /\ Tidy(v) /\ v.agent.state = "Running"
         /\ \/ /\ v.sent = << >> /\ ~v.ok /\ (link => v.dev.seen = dev.seen)
               /\ ~(key /\ link /\ dev.kind # "wgc")
            \/ /\ link /\ v.ok
               /\ \E k \in Frames :
                    /\ v.sent = <<k>> /\ k.content = v.dev.seen
                    /\ k.id = dev.nextId /\ v.dev.nextId = dev.nextId + 1
<1>1. /\ OutcomeOk(Now) /\ Now.dev = dev /\ Now.agent = agent /\ Now.sent = << >> /\ Now.faults = faults
      /\ desktop \in Positive /\ desktop \in Nat
  BY NowOk DEF DisplayTypeOK, Positive, Now
<1>2. dev.open /\ SteadyDev(dev) /\ agent.opened
  BY DEF Steady
<1>3. OutcomeOk(v)
  BY <1>1, SendFrameOk
<1>4. PICK w : w = Now
  OBVIOUS
<1>5. CalmSent(w, key, v)
  BY <1>1, <1>2, <1>4, CalmSend
<1>6. SentFrames(v)
  BY <1>1, <1>3, <1>4, <1>5, OneSent
<1>7. Tidy(v) /\ v.agent.state = "Running"
  BY <1>1, <1>2, <1>3, <1>4, <1>5, <1>6 DEF Tidy, CalmSent
<1>8. \A k \in Frames : Append(<< >>, k) = <<k>>
  OBVIOUS
<1> QED BY <1>1, <1>4, <1>5, <1>7, <1>8 DEF CalmSent

LEMMA CalmAnswer ==
  ASSUME DisplayTypeOK, Steady, agent.state = "Running", NEW key \in BOOLEAN,
         NEW v \in SendFrame(Now, key), v.faults = 0
  PROVE  /\ Tidy(v)
         /\ v.sent = << >> /\ link => v.dev.seen = dev.seen
         /\ key /\ link /\ dev.kind # "wgc" => v.sent # << >>
<1>1. /\ Tidy(v) /\ v.agent.state = "Running"
      /\ \/ /\ v.sent = << >> /\ ~v.ok /\ (link => v.dev.seen = dev.seen)
            /\ ~(key /\ link /\ dev.kind # "wgc")
         \/ /\ link /\ v.ok
            /\ \E k \in Frames :
                 /\ v.sent = <<k>> /\ k.content = v.dev.seen
                 /\ k.id = dev.nextId /\ v.dev.nextId = dev.nextId + 1
  BY CalmHandled
<1>2. CASE v.sent = << >> /\ (link => v.dev.seen = dev.seen) /\ ~(key /\ link /\ dev.kind # "wgc")
  BY <1>1, <1>2
<1>3. CASE \E k \in Frames : v.sent = <<k>>
  <2>1. PICK k \in Frames : v.sent = <<k>>
    BY <1>3
  <2>2. v.sent # << >>
    BY <2>1
  <2> QED BY <1>1, <2>2
<1> QED BY <1>1, <1>2, <1>3

(* resumeAfterReconnect(): the keyframe and a frame after it.  *)
LEMMA CalmResumed ==
  ASSUME DisplayTypeOK, Steady, agent.state = "Running", NEW v \in SendFrame(Now, TRUE), v.ok,
         NEW u \in SendFrame(v, FALSE), u.faults = 0
  PROVE  Tidy(u) /\ u.agent.state = "Running" /\ u.sent # << >>
<1>1. OutcomeOk(Now) /\ desktop \in Positive /\ desktop \in Nat /\ dev.nextId \in Nat
  BY NowOk DEF DisplayTypeOK, Positive, DeviceOk
<1>2. OutcomeOk(v)
  BY <1>1, SendFrameOk
<1>3. OutcomeOk(u) /\ v.faults = 0
  <2>1. OutcomeOk(u) /\ u.faults >= v.faults
    BY <1>1, <1>2, SendFrameOk
  <2>2. v.faults \in Nat
    BY <1>2 DEF OutcomeOk
  <2> QED BY <2>1, <2>2
<1>4. Tidy(v) /\ v.agent.state = "Running" /\ link
      /\ \E k \in Frames :
           /\ v.sent = <<k>> /\ k.content = v.dev.seen
           /\ k.id = dev.nextId /\ v.dev.nextId = dev.nextId + 1
  BY <1>3, CalmHandled
<1>5. PICK k \in Frames : v.sent = <<k>> /\ k.content = v.dev.seen /\ k.id = dev.nextId
                          /\ v.dev.nextId = dev.nextId + 1
  BY <1>4
<1>6. CalmSent(v, FALSE, u)
  BY <1>1, <1>2, <1>4, CalmSend DEF Tidy
<1>7. SentFrames(u) /\ u.sent # << >>
  <2>1. CASE u.sent = v.sent /\ u.dev.seen = v.dev.seen
    BY <1>1, <1>5, <1>6, <2>1 DEF SentFrames, CalmSent
  <2>2. ASSUME NEW l \in Frames, u.sent = Append(v.sent, l), l.content = u.dev.seen,
               l.id = v.dev.nextId, u.dev.nextId = v.dev.nextId + 1
        PROVE  SentFrames(u) /\ u.sent # << >>
    <3>0. v.sent \in Seq(Frames) /\ Len(v.sent) = 1 /\ v.sent[1] = k
      BY <1>5
    <3>1. Len(u.sent) = 2 /\ u.sent[1] = k /\ u.sent[2] = l /\ u.sent # << >>
      BY <2>2, <3>0
    <3> QED BY <1>1, <1>5, <2>2, <3>1 DEF SentFrames
  <2> QED BY <1>4, <1>6, <2>1, <2>2 DEF CalmSent
<1> QED BY <1>1, <1>3, <1>4, <1>5, <1>6, <1>7 DEF Tidy, CalmSent

(* Nothing has failed, so there is nothing to recover from. *)
LEMMA CalmRecovers ==
  ASSUME DisplayTypeOK, Steady, agent.state = "Running", NEW w \in SendFrame(Now, FALSE), ~w.ok,
         NEW r \in Recover(w), r.w.faults = 0
  PROVE  r.w = w
<1>1. OutcomeOk(Now) /\ desktop \in Nat
  BY NowOk DEF DisplayTypeOK, Positive
<1>2. OutcomeOk(w) /\ w.faults \in Nat
  <2>1. OutcomeOk(w)
    BY <1>1, SendFrameOk
  <2> QED BY <2>1 DEF OutcomeOk
<1>3. w.faults = 0
  <2>1. r.w.faults >= w.faults
    BY <1>1, <1>2, RecoverOk
  <2> QED BY <1>2, <2>1
<1>4. Tidy(w) /\ w.agent.state = "Running"
  BY <1>3, CalmHandled
<1>5. PICK s : s = ReportedStatus(w)
  OBVIOUS
<1>6. s \in {Ok, FrameTimeout}
  BY <1>4, <1>5 DEF Tidy, SteadyDev, ReportedStatus
<1>7. PICK plan : plan = Plan(recovery, s, w.dev.kind)
  OBVIOUS
<1>8. plan.action \notin {"Reopen", "Recreate", "Switch"}
  <2>1. CASE s = Ok
    <3>1. s.code = "Ok"
      BY <2>1 DEF Ok
    <3>2. plan = [action |-> "None", next |-> FrameSuccess(recovery, w.dev.kind)]
      BY <1>7, <3>1 DEF Plan
    <3> QED BY <3>2
  <2>2. CASE s = FrameTimeout
    <3>1. s.code = "FrameTimeout"
      BY <2>2 DEF FrameTimeout
    <3>2. Decide(s) = "RetryNextFrame"
      BY <3>1 DEF Decide
    <3>3. plan.action = "RetryNextFrame"
      BY <1>7, <3>1, <3>2 DEF Plan, Executable
    <3> QED BY <3>3
  <2> QED BY <1>6, <2>1, <2>2
<1>9. r = [w |-> w, recovery |-> plan.next]
  BY <1>5, <1>7, <1>8 DEF Recover
<1> QED BY <1>9

(* What a handler of the agent that leaves v does to the invariant.  Without *)
(* a frame of its own it must leave the backend and the requests alone.      *)
LEMMA CalmCommits ==
  ASSUME DisplayTypeOK, DisplayTypeOK', CalmInv, NEW v, Tidy(v), NEW answers, Commits(v, answers),
         UNCHANGED <<view, link>>, paused' \subseteq paused,
         ~link => UNCHANGED <<paused, control>>,
         link /\ v.agent.state = "Running" /\ dev.kind # "wgc" /\ v.sent = << >> =>
           agent.state = "Running" /\ v.dev.seen = dev.seen /\ UNCHANGED <<control, paused>>
  PROVE  Steady' /\ InOrder' /\ UpToDate'
<1>1. Steady /\ InOrder /\ UpToDate /\ faults = 0
  BY DEF CalmInv, Tidy
<1>2. dev' = v.dev /\ agent' = v.agent /\ video' = IF link THEN video \o v.sent ELSE video
  BY DEF Commits
<1>3. Steady'
  <2>1. SteadyDev(dev)'
    BY <1>2 DEF Tidy, SteadyDev
  <2>2. agent'.state = "Running" => agent'.opened /\ dev'.open
    BY <1>2 DEF Tidy
  <2>3. ~link' => "agent" \in paused' /\ video' = << >> /\ control' = << >>
    BY <1>1, <1>2 DEF Steady
  <2> QED BY <2>1, <2>2, <2>3 DEF Steady
<1>4. /\ video \in Seq(Frames) /\ v.sent \in Seq(Frames) /\ dev.nextId \in Nat /\ v.dev.nextId \in Nat
      /\ dev.nextId <= v.dev.nextId /\ view \in [last : Frames \cup {NoFrame}, held : Seq(Frames),
            input : BOOLEAN, pending : SUBSET Nat, nextId : Positive, awaiting : BOOLEAN, lost : BOOLEAN]
  BY DEF DisplayTypeOK, Tidy, OutcomeOk, DeviceOk, Positive, ViewOk
<1>5. view.last.id \in Nat /\ (view.held # << >> => view.held[1].id \in Nat)
  <2>1. \A f \in Frames : f.id \in Nat
    BY DEF Frames, Positive
  <2>2. view.last.id \in Nat
    BY <1>4, <2>1 DEF NoFrame
  <2>3. view.held # << >> => view.held[1] \in Frames
    BY <1>4
  <2> QED BY <2>1, <2>2, <2>3
<1>6. CASE ~link
  <2>1. video' = video /\ video = << >>
    BY <1>1, <1>2, <1>6 DEF Steady
  <2>2. InOrder'
    BY <1>1, <1>2, <1>4, <1>5, <2>1 DEF InOrder
  <2>3. UpToDate'
    BY <1>1, <1>3, <1>6 DEF UpToDate, Steady
  <2> QED BY <1>3, <2>2, <2>3
<1>7. CASE link
  <2>1. video' = video \o v.sent /\ video' \in Seq(Frames)
    BY <1>2, <1>4, <1>7
  <2>2. Len(video') = Len(video) + Len(v.sent) /\ Len(video) \in Nat /\ Len(v.sent) \in Nat
    BY <1>4, <2>1
  <2>3. \A n \in 1 .. Len(video') :
          \/ n \in 1 .. Len(video) /\ video'[n] = video[n]
          \/ /\ n - Len(video) \in 1 .. Len(v.sent) /\ n > Len(video)
             /\ video'[n] = v.sent[n - Len(video)]
    BY <1>4, <2>1, <2>2
  <2>f. \A f \in Frames : f.id \in Nat
    BY DEF Frames, Positive
  <2>4. \A n \in 1 .. Len(video) : video[n].id \in Nat
    BY <1>4, <2>f
  <2>5. \A n \in 1 .. Len(v.sent) : v.sent[n].id \in Nat
    BY <1>4, <2>f
  <2>6. InOrder'
    <3>1. view.last.id < v.dev.nextId
          /\ (view.held # << >> => view.last.id < view.held[1].id /\ view.held[1].id < v.dev.nextId)
      BY <1>1, <1>4, <1>5 DEF InOrder
    <3>2. ASSUME NEW n \in 1 .. Len(video')
          PROVE  /\ view.last.id < video'[n].id /\ video'[n].id < v.dev.nextId
                 /\ view.held # << >> => view.held[1].id < video'[n].id
      <4>1. CASE n \in 1 .. Len(video) /\ video'[n] = video[n]
        BY <1>1, <1>4, <1>5, <2>4, <4>1 DEF InOrder
      <4>2. CASE n - Len(video) \in 1 .. Len(v.sent) /\ video'[n] = v.sent[n - Len(video)]
        <5>1. PICK i : i = video'[n].id
          OBVIOUS
        <5>2. i \in Nat /\ dev.nextId <= i /\ i < v.dev.nextId
          BY <2>5, <4>2, <5>1 DEF Tidy, SentFrames
        <5>3. view.last.id < dev.nextId /\ (view.held # << >> => view.held[1].id < dev.nextId)
          BY <1>1 DEF InOrder
        <5>4. view.last.id < i
          BY <1>4, <1>5, <5>2, <5>3
        <5>5. view.held # << >> => view.held[1].id < i
          BY <1>4, <1>5, <5>2, <5>3
        <5> QED BY <5>1, <5>2, <5>4, <5>5
      <4> QED BY <2>3, <4>1, <4>2
    <3>3. ASSUME NEW m \in 1 .. Len(video'), NEW n \in 1 .. Len(video'), m < n
          PROVE  video'[m].id < video'[n].id
      <4>1. CASE n \in 1 .. Len(video) /\ video'[n] = video[n]
        <5>1. m \in 1 .. Len(video) /\ video'[m] = video[m]
          BY <2>2, <2>3, <3>3, <4>1
        <5> QED BY <1>1, <3>3, <4>1, <5>1 DEF InOrder
      <4>2. CASE n - Len(video) \in 1 .. Len(v.sent) /\ video'[n] = v.sent[n - Len(video)]
        <5>1. CASE m \in 1 .. Len(video) /\ video'[m] = video[m]
          <6>1. PICK i, j : i = video'[m].id /\ j = video'[n].id
            OBVIOUS
          <6>2. j \in Nat /\ dev.nextId <= j
            BY <2>5, <4>2, <6>1 DEF Tidy, SentFrames
          <6>3. i \in Nat /\ i < dev.nextId
            BY <1>1, <2>4, <5>1, <6>1 DEF InOrder
          <6>4. i < j
            BY <1>4, <6>2, <6>3
          <6> QED BY <6>1, <6>4
        <5>2. CASE m - Len(video) \in 1 .. Len(v.sent) /\ video'[m] = v.sent[m - Len(video)]
          <6>1. PICK i, j : i = m - Len(video) /\ j = n - Len(video)
            OBVIOUS
          <6>2. i \in 1 .. Len(v.sent) /\ j \in 1 .. Len(v.sent) /\ i < j
            BY <2>2, <3>3, <4>2, <5>2, <6>1
          <6>3. v.sent[i].id < v.sent[j].id
            BY <6>2 DEF Tidy, SentFrames
          <6> QED BY <4>2, <5>2, <6>1, <6>3
        <5> QED BY <2>3, <5>1, <5>2
      <4> QED BY <2>3, <4>1, <4>2
    <3> QED BY <1>2, <3>1, <3>2, <3>3 DEF InOrder
  <2>7. UpToDate'
    <3>1. CASE v.sent # << >>
      <4>1. video' # << >> /\ Len(video') \in 1 .. Len(video') /\ Len(v.sent) \in 1 .. Len(v.sent)
        BY <1>4, <2>1, <2>2, <3>1
      <4>2. video'[Len(video')] = v.sent[Len(v.sent)]
        BY <2>2, <2>3, <4>1
      <4>3. Newest'.content = dev'.seen
        BY <1>2, <3>1, <4>1, <4>2 DEF Newest, Tidy, SentFrames
      <4> QED BY <4>3 DEF UpToDate
    <3>2. CASE v.sent = << >>
      <4>1. video' = video
        BY <1>4, <2>1, <3>2
      <4>2. Newest' = Newest
        BY <4>1 DEF Newest
      <4> QED BY <1>1, <1>2, <1>7, <3>2, <4>2 DEF UpToDate, Tidy
    <3> QED BY <3>1, <3>2
  <2> QED BY <1>3, <2>6, <2>7
<1> QED BY <1>6, <1>7

LEMMA CalmBefore ==
  ASSUME DisplayTypeOK, NEW key \in BOOLEAN, NEW v \in SendFrame(Now, key), v.faults = 0
  PROVE  faults = 0 /\ OutcomeOk(v)
<1>1. OutcomeOk(Now) /\ Now.faults = faults /\ faults \in Nat /\ desktop \in Nat
  BY NowOk DEF DisplayTypeOK, Positive, Now
<1>2. OutcomeOk(v) /\ v.faults >= faults
  BY <1>1, SendFrameOk
<1> QED BY <1>1, <1>2

LEMMA NotRunning ==
  ASSUME CalmInv, faults = 0, agent.state # "Running",
         UNCHANGED <<dev, agent, video, view, link>>,
         ~link => UNCHANGED <<paused, control>>
  PROVE  Steady' /\ InOrder' /\ UpToDate'
<1>1. Steady /\ InOrder
  BY DEF CalmInv
<1> QED BY <1>1 DEF Steady, InOrder, UpToDate

LEMMA CalmAgent ==
  ASSUME DisplayTypeOK, DisplayTypeOK', CalmInv, faults' = 0,
         Start \/ HandleControl \/ ResumeAgent \/ PumpAgent
  PROVE  Steady' /\ InOrder' /\ UpToDate'
<1>1. CASE Start
  <2>1. PICK v \in StartAgent(Now) : Commits(v, << >>)
    BY <1>1 DEF Start
  <2>2. v.faults = 0
    BY <2>1 DEF Commits
  <2>3. /\ Tidy(v)
        /\ link /\ v.agent.state = "Running" /\ dev.kind # "wgc" => v.sent # << >>
    BY <2>1, <2>2, CalmStart
  <2>4. UNCHANGED <<view, link, paused, control>>
    BY <1>1 DEF Start
  <2> QED BY <2>1, <2>3, <2>4, CalmCommits
<1>2. CASE HandleControl
  <2>0. UNCHANGED <<view, link, paused>> /\ control # << >>
    BY <1>2 DEF HandleControl
  <2>1. CASE agent.state = "Running"
    <3>1. PICK v \in SendFrame(Now, TRUE) : Commits(v, <<[to |-> Head(control), ok |-> v.ok]>>)
      BY <1>2, <2>1 DEF HandleControl
    <3>2. v.faults = 0
      BY <3>1 DEF Commits
    <3>3. faults = 0
      BY <3>2, CalmBefore
    <3>4. link /\ Steady
      BY <2>0, <3>3 DEF CalmInv, Steady
    <3>5. Tidy(v) /\ (dev.kind # "wgc" => v.sent # << >>)
      BY <2>1, <3>1, <3>2, <3>4, CalmAnswer
    <3> QED BY <2>0, <3>1, <3>4, <3>5, CalmCommits
  <2>2. CASE agent.state # "Running"
    <3>1. UNCHANGED <<dev, agent, faults, video>>
      BY <1>2, <2>2 DEF HandleControl
    <3>2. faults = 0
      BY <3>1
    <3>3. link
      BY <2>0, <3>2 DEF CalmInv, Steady
    <3> QED BY <2>0, <2>2, <3>1, <3>2, <3>3, NotRunning
  <2> QED BY <2>1, <2>2
<1>3. CASE ResumeAgent
  <2>0. UNCHANGED <<view, link, control>> /\ link /\ paused' = paused \ {"agent"}
    BY <1>3 DEF ResumeAgent
  <2>1. CASE agent.state = "Running"
    <3>1. PICK v \in SendFrame(Now, TRUE) : \E u \in IF v.ok THEN SendFrame(v, FALSE) ELSE {v} :
            Commits(u, << >>)
      BY <1>3, <2>1 DEF ResumeAgent
    <3>2. PICK u \in IF v.ok THEN SendFrame(v, FALSE) ELSE {v} : Commits(u, << >>)
      BY <3>1
    <3>3. u.faults = 0
      BY <3>2 DEF Commits
    <3>4. OutcomeOk(Now) /\ OutcomeOk(v) /\ desktop \in Nat
      BY NowOk, SendFrameOk DEF DisplayTypeOK, Positive
    <3>5. v.faults = 0
      <4>1. v.faults \in Nat
        BY <3>4 DEF OutcomeOk
      <4>2. u = v \/ u.faults >= v.faults
        BY <3>2, <3>4, SendFrameOk
      <4> QED BY <3>3, <4>1, <4>2
    <3>6. faults = 0
      BY <3>5, CalmBefore
    <3>7. Steady
      BY <3>6 DEF CalmInv
    <3>8. Tidy(u) /\ (dev.kind # "wgc" => u.sent # << >>)
      <4>1. CASE v.ok
        <5>1. u \in SendFrame(v, FALSE)
          BY <3>2, <4>1
        <5> QED BY <2>1, <3>3, <3>7, <4>1, <5>1, CalmResumed
      <4>2. CASE ~v.ok
        <5>1. u = v
          BY <3>2, <4>2
        <5> QED BY <2>0, <2>1, <3>1, <3>5, <3>7, <5>1, CalmAnswer
      <4> QED BY <4>1, <4>2
    <3>9. paused' \subseteq paused
      BY <2>0
    <3> QED BY <2>0, <3>2, <3>8, <3>9, CalmCommits
  <2>2. CASE agent.state # "Running"
    <3>1. UNCHANGED <<dev, agent, faults, video>>
      BY <1>3, <2>2 DEF ResumeAgent
    <3> QED BY <2>0, <2>2, <3>1, NotRunning
  <2> QED BY <2>1, <2>2
<1>4. CASE PumpAgent
  <2>0. UNCHANGED <<view, link, control, paused>> /\ agent.state = "Running"
    BY <1>4 DEF PumpAgent
  <2>1. PICK w \in SendFrame(Now, FALSE) :
          \/ Commits(w, << >>)
          \/ ~w.ok /\ \E r \in Recover(w) : Commits(r.w, << >>)
    BY <1>4 DEF PumpAgent
  <2>2. OutcomeOk(Now) /\ OutcomeOk(w) /\ desktop \in Nat /\ w.faults \in Nat
    <3>1. OutcomeOk(Now) /\ desktop \in Nat
      BY NowOk DEF DisplayTypeOK, Positive
    <3>2. OutcomeOk(w)
      BY <3>1, SendFrameOk
    <3> QED BY <3>1, <3>2 DEF OutcomeOk
  <2>3. ASSUME NEW r \in Recover(w), ~w.ok, Commits(r.w, << >>)
        PROVE  Commits(w, << >>)
    <3>1. r.w.faults = 0
      BY <2>3 DEF Commits
    <3>2. r.w.faults >= w.faults
      BY <2>2, RecoverOk
    <3>3. w.faults = 0
      BY <2>2, <3>1, <3>2
    <3>4. Steady
      BY <3>3, CalmBefore DEF CalmInv
    <3> QED BY <2>0, <2>3, <3>1, <3>4, CalmRecovers
  <2>4. Commits(w, << >>)
    BY <2>1, <2>3
  <2>5. w.faults = 0
    BY <2>4 DEF Commits
  <2>6. Steady
    BY <2>5, CalmBefore DEF CalmInv
  <2>7. Tidy(w) /\ (w.sent = << >> => (link => w.dev.seen = dev.seen))
    BY <2>0, <2>1, <2>5, <2>6, CalmAnswer
  <2> QED BY <2>0, <2>4, <2>7, CalmCommits
<1> QED BY <1>1, <1>2, <1>3, <1>4

(* The viewer's side.  What becomes of a frame when nothing fails: it is not *)
(* shown and another one is asked for, or it is shown, or the decoder holds  *)
(* it back and shows the one that it held.                                   *)
Continues(f, r) ==
  /\ r.view.nextId >= view.nextId
  /\ \/ /\ link /\ r.view.nextId <= MaxRequests => r.out # << >>
        /\ r.view.last = view.last /\ r.view.held \in {view.held, <<f>>}
     \/ r.view.last = f /\ r.view.held = << >> /\ view.held = << >>
     \/ /\ r.view.held = <<f>>
        /\ \/ view.held = << >> /\ r.view.last = view.last
           \/ view.held # << >> /\ r.view.last = view.held[1]

LEMMA RenderCalm ==
  ASSUME ViewOk(view), NEW f \in Frames, view.last.id < f.id,
         view.held # << >> => view.last.id < view.held[1].id,
         NEW o \in RenderVideo(f), o.fault = 0
  PROVE  Continues(f, o.r)
<1>0. /\ view.last.id \in Nat /\ f.id \in Nat /\ view.nextId \in Nat
      /\ view.held # << >> => view.held[1] \in Frames /\ view.held[1].id \in Nat
  <2>1. \A g \in Frames : g.id \in Nat
    BY DEF Frames, Positive
  <2>2. view.last.id \in Nat
    BY <2>1 DEF NoFrame, ViewOk
  <2>3. view.held # << >> => view.held[1] \in Frames
    BY DEF ViewOk
  <2>4. view.nextId \in Nat
    BY DEF ViewOk, Positive
  <2> QED BY <2>1, <2>2, <2>3, <2>4
<1>1. CASE o = [r |-> Asks(view, view.awaiting), fault |-> 0]
  <2>1. view.awaiting \in BOOLEAN
    BY DEF ViewOk
  <2>2. AsksOk(view, Asks(view, view.awaiting))
    BY <2>1, AskingOk
  <2>3. o.r = Asks(view, view.awaiting)
    BY <1>1
  <2> QED BY <2>2, <2>3 DEF AsksOk, Continues
<1>2. ASSUME NEW d \in Decode(view, f), NEW rendered \in BOOLEAN, d.fault = 0,
             o.r = Shown(d, f, rendered), rendered
      PROVE  Continues(f, o.r)
  <2>1. /\ ViewOk(d.v) /\ d.v.last = view.last /\ d.v.nextId = view.nextId /\ d.out \in Frames \cup {NoFrame}
        /\ \/ ~d.more /\ view.held = << >> /\ d.v.held = << >> /\ d.out = f
           \/ ~d.more /\ view.held # << >> /\ d.v.held = <<f>> /\ d.out = view.held[1]
           \/ d.more /\ view.held = << >> /\ d.v.held = <<f>>
    BY <1>2, DecodeOk
  <2>2. /\ o.r.view.held = d.v.held /\ o.r.view.nextId >= d.v.nextId
        /\ (o.r.view.last = d.v.last \/ (o.r.view.last = d.out /\ Follows(d.v.last, d.out)))
        /\ \/ link /\ o.r.view.nextId <= MaxRequests => o.r.out # << >>
           \/ d.more
           \/ d.out \in Frames /\ d.out.id <= d.v.last.id
           \/ rendered /\ o.r.view.last = d.out /\ d.out \in Frames
    BY ZenonT(40), <1>2, <2>1, ShownOk
  <2>3. CASE d.more
    <3>1. o.r = Keeps(d.v)
      BY <1>2, <2>3 DEF Shown
    <3>2. o.r.view = d.v
      BY <3>1 DEF Keeps
    <3> QED BY <1>0, <2>1, <2>3, <3>2 DEF Continues
  <2>4. CASE ~d.more
    <3>1. ~(d.out.id <= d.v.last.id)
      BY <1>0, <2>1, <2>4
    <3>2. PICK w, h : w = o.r.view.last /\ h = o.r.view.held
      OBVIOUS
    <3>3. /\ h = d.v.held
          /\ \/ w \in {view.last, d.out} /\ (link /\ o.r.view.nextId <= MaxRequests => o.r.out # << >>)
             \/ w = d.out
      BY <1>2, <2>1, <2>2, <2>4, <3>1, <3>2
    <3> QED BY <2>1, <2>2, <2>4, <3>2, <3>3 DEF Continues
  <2> QED BY <2>3, <2>4
<1>3. CASE o = [r |-> Keeps(Drops(view, f)), fault |-> 0] /\ f.id <= view.last.id
  BY <1>0, <1>3
<1>4. CASE \E d \in Decode(view, f) : o = [r |-> Shown(d, f, TRUE), fault |-> d.fault]
  <2>1. PICK d \in Decode(view, f) : o = [r |-> Shown(d, f, TRUE), fault |-> d.fault]
    BY <1>4
  <2>2. o.r = Shown(d, f, TRUE) /\ d.fault = 0
    BY <2>1
  <2> QED BY <1>2, <2>2
<1>5. CASE \E d : o = [r |-> Shown(d, f, FALSE), fault |-> 1]
  BY <1>5
<1> QED BY <1>1, <1>3, <1>4, <1>5 DEF RenderVideo

LEMMA CalmReceive ==
  ASSUME DisplayTypeOK, DisplayTypeOK', CalmInv, ReceiveVideo, faults' = 0
  PROVE  Steady' /\ InOrder' /\ UpToDate'
<1>1. video # << >> /\ video \in Seq(Frames) /\ video' = Tail(video) /\ ViewOk(view) /\ ViewOk(view')
      /\ faults \in Nat /\ control \in Seq(Nat) /\ dev.nextId \in Nat
      /\ UNCHANGED <<dev, agent, link, paused>>
  BY DEF ReceiveVideo, DisplayTypeOK, DeviceOk, Positive
<1>2. PICK f : f = video[1]
  OBVIOUS
<1>3. PICK o \in RenderVideo(f) :
        view' = o.r.view /\ control' = control \o o.r.out /\ faults' = faults + o.fault
  <2>1. Head(video) = f
    BY <1>1, <1>2
  <2> QED BY <2>1 DEF ReceiveVideo
<1>4. f \in Frames /\ Len(video) \in Nat /\ Len(video) >= 1
  BY <1>1, <1>2
<1>5. o.fault \in {0, 1} /\ o.r.out \in Seq(Nat)
  BY <1>1, <1>3, <1>4, RenderOk
<1>6. faults = 0 /\ o.fault = 0
  BY <1>1, <1>3, <1>5
<1>7. Steady /\ InOrder /\ UpToDate /\ link
  BY <1>1, <1>6 DEF CalmInv, Steady
<1>8. \A n \in 1 .. Len(video) : video[n].id \in Nat
  <2>1. \A g \in Frames : g.id \in Nat
    BY DEF Frames, Positive
  <2> QED BY <1>1, <2>1
<1>9. /\ view.last.id < f.id /\ f.id < dev.nextId /\ f.id \in Nat
      /\ view.held # << >> => view.last.id < view.held[1].id /\ view.held[1].id < f.id
  BY <1>2, <1>4, <1>7, <1>8 DEF InOrder
<1>10. Continues(f, o.r)
  BY <1>1, <1>3, <1>4, <1>6, <1>9, RenderCalm
<1>11. view.last.id \in Nat /\ (view.held # << >> => view.held[1].id \in Nat)
       /\ view.nextId \in Nat /\ view'.nextId \in Nat
  <2>1. \A g \in Frames : g.id \in Nat
    BY DEF Frames, Positive
  <2>2. view.last.id \in Nat
    BY <1>1, <2>1 DEF ViewOk, NoFrame
  <2>3. view.held # << >> => view.held[1] \in Frames
    BY <1>1 DEF ViewOk
  <2>4. view.nextId \in Nat /\ view'.nextId \in Nat
    BY <1>1 DEF ViewOk, Positive
  <2> QED BY <2>1, <2>2, <2>3, <2>4
<1>12. PICK last, held : last = view'.last /\ held = view'.held
  OBVIOUS
<1>13. /\ last.id \in Nat /\ last.id <= f.id
       /\ held # << >> => held[1].id \in Nat /\ last.id < held[1].id /\ held[1].id <= f.id
  <2>1. <<f>>[1] = f
    OBVIOUS
  <2> QED BY <1>3, <1>9, <1>10, <1>11, <1>12, <2>1 DEF Continues
<1>14. Len(video') = Len(video) - 1 /\ \A n \in 1 .. Len(video') : video'[n] = video[n + 1]
  BY <1>1
<1>15. Steady'
  BY <1>1, <1>7 DEF Steady, SteadyDev
<1>16. InOrder'
  <2>1. last.id < dev.nextId /\ (held # << >> => held[1].id < dev.nextId)
    BY <1>1, <1>9, <1>13
  <2>2. ASSUME NEW n \in 1 .. Len(video')
        PROVE  /\ last.id < video'[n].id /\ video'[n].id < dev.nextId
               /\ held # << >> => held[1].id < video'[n].id
    <3>1. n + 1 \in 1 .. Len(video) /\ 1 < n + 1 /\ 1 \in 1 .. Len(video)
      BY <1>4, <1>14
    <3>2. PICK i : i = video[n + 1].id
      OBVIOUS
    <3>3. i \in Nat /\ f.id < i /\ i < dev.nextId
      BY <1>2, <1>7, <1>8, <3>1, <3>2 DEF InOrder
    <3>4. last.id < i /\ (held # << >> => held[1].id < i)
      BY <1>9, <1>13, <3>3
    <3> QED BY <1>14, <3>2, <3>3, <3>4
  <2>3. ASSUME NEW m \in 1 .. Len(video'), NEW n \in 1 .. Len(video'), m < n
        PROVE  video'[m].id < video'[n].id
    <3>1. m + 1 \in 1 .. Len(video) /\ n + 1 \in 1 .. Len(video) /\ m + 1 < n + 1
      BY <1>4, <1>14, <2>3
    <3>2. video[m + 1].id < video[n + 1].id
      BY <1>7, <3>1 DEF InOrder
    <3> QED BY <1>14, <3>2
  <2> QED BY <1>1, <1>12, <1>13, <2>1, <2>2, <2>3 DEF InOrder
<1>17. UpToDate'
  <2>1. CASE control # << >>
    <3>1. control' # << >>
      BY <1>1, <1>3, <1>5, <2>1
    <3> QED BY <3>1 DEF UpToDate
  <2>2. CASE link /\ view'.nextId <= MaxRequests /\ o.r.out # << >>
    <3>1. control' # << >>
      BY <1>1, <1>3, <1>5, <2>2
    <3> QED BY <3>1 DEF UpToDate
  <2>3. CASE control = << >> /\ ~(link /\ view'.nextId <= MaxRequests /\ o.r.out # << >>)
    <3>1. CASE view'.nextId <= MaxRequests
      <4>1. view.nextId <= MaxRequests
        BY <1>3, <1>10, <1>11, <3>1, DisplayAssumption DEF Continues
      <4>2. \/ last = f /\ held = << >>
            \/ held = <<f>>
        BY <1>3, <1>7, <1>10, <1>12, <2>3, <3>1 DEF Continues
      <4>3. Newest' = Newest
        <5>1. CASE Len(video) = 1
          <6>1. video' = << >> /\ Newest = f
            BY <1>1, <1>2, <1>14, <5>1 DEF Newest
          <6>2. <<f>>[1] = f /\ <<f>> # << >>
            OBVIOUS
          <6> QED BY <1>12, <4>2, <6>1, <6>2 DEF Newest
        <5>2. CASE Len(video) # 1
          <6>1. video' # << >> /\ Len(video') \in 1 .. Len(video') /\ Len(video') + 1 = Len(video)
            BY <1>1, <1>4, <1>14, <5>2
          <6>2. video'[Len(video')] = video[Len(video)]
            BY <1>14, <6>1
          <6> QED BY <1>1, <6>1, <6>2 DEF Newest
        <5> QED BY <5>1, <5>2
      <4> QED BY <1>1, <1>7, <2>3, <4>1, <4>3 DEF UpToDate
    <3>2. CASE ~(view'.nextId <= MaxRequests)
      BY <3>2 DEF UpToDate
    <3> QED BY <3>1, <3>2
  <2> QED BY <2>1, <2>2, <2>3
<1> QED BY <1>15, <1>16, <1>17

(* The agent, its backend and the frames on their way are left alone, and   *)
(* no request gets lost.                                                    *)
LEMMA CalmElsewhere ==
  ASSUME DisplayTypeOK, CalmInv, faults = 0,
         UNCHANGED <<dev, agent, video>>, link => link', paused' \subseteq paused,
         ~link' => UNCHANGED <<paused, control>>,
         view'.last = view.last, view'.held = view.held, view'.nextId >= view.nextId,
         control # << >> => control' # << >>,
         "agent" \in paused => "agent" \in paused', view'.nextId \in Nat
  PROVE  Steady' /\ InOrder' /\ UpToDate'
<1>1. Steady /\ InOrder /\ UpToDate
  BY DEF CalmInv
<1>2. Newest' = Newest
  BY DEF Newest
<1>3. view'.nextId <= MaxRequests => view.nextId <= MaxRequests
  BY DisplayAssumption DEF DisplayTypeOK, ViewOk, Positive
<1>4. Steady'
  BY <1>1 DEF Steady, SteadyDev
<1>5. InOrder'
  BY <1>1 DEF InOrder
<1>6. UpToDate'
  BY <1>1, <1>2, <1>3 DEF UpToDate
<1> QED BY <1>4, <1>5, <1>6

LEMMA CalmAsks ==
  ASSUME DisplayTypeOK, NEW awaiting \in BOOLEAN, AskNow(view, awaiting)
  PROVE  /\ view'.last = view.last /\ view'.held = view.held /\ view'.nextId >= view.nextId
         /\ control # << >> => control' # << >>
<1>1. PICK a : a = Asks(view, awaiting)
  OBVIOUS
<1>2. AsksOk(view, a)
  BY <1>1, AskingOk DEF DisplayTypeOK
<1>3. view' = a.view /\ control' = control \o a.out
  BY <1>1 DEF AskNow
<1>4. control \in Seq(Nat)
  BY DEF DisplayTypeOK
<1> QED BY <1>2, <1>3, <1>4 DEF AsksOk

LEMMA CalmStep ==
  ASSUME DisplayTypeOK, DisplayTypeOK', CalmInv, [DisplayNext]_displayVars, faults' = 0
  PROVE  Steady' /\ InOrder' /\ UpToDate'
<1>0. ViewOk(view) /\ ViewOk(view') /\ view.nextId \in Nat /\ view'.nextId \in Nat
  BY DEF DisplayTypeOK, ViewOk, Positive
<1>1. CASE Start \/ HandleControl \/ ResumeAgent \/ PumpAgent
  BY <1>1, CalmAgent
<1>2. CASE ReceiveVideo
  BY <1>2, CalmReceive
<1>3. CASE Stop
  <2>1. /\ faults = 0 /\ agent.state \in {"Running", "Failed"} /\ agent'.state = "Stopped"
        /\ dev' = CloseIfOpened(Now).dev
        /\ UNCHANGED <<view, video, control, link, paused>>
    BY <1>3 DEF Stop, DisplayTypeOK, AgentOk
  <2>2. Steady /\ InOrder
    BY <2>1 DEF CalmInv
  <2>3. dev' = Close(dev) \/ dev' = dev
    <3>1. OutcomeOk(Now) /\ Now.dev = dev
      BY NowOk DEF Now
    <3>2. PICK d : d = Close(dev)
      OBVIOUS
    <3>3. DeviceOk(d)
      BY <3>2, CloseOk DEF DisplayTypeOK
    <3>4. PICK u : u = [Now EXCEPT !.dev = d]
      OBVIOUS
    <3>5. u.dev = d
      BY <3>1, <3>3, <3>4, DeviceReplaced
    <3>6. dev' = u.dev \/ dev' = Now.dev
      BY <2>1, <3>1, <3>2, <3>4 DEF CloseIfOpened
    <3> QED BY <3>1, <3>2, <3>5, <3>6
  <2>4. PICK e : e = Close(dev)
    OBVIOUS
  <2>5. e.nextId = dev.nextId /\ e.status = dev.status /\ e.seen = 0 /\ e.cached = 0
    BY <2>4, CloseOk DEF DisplayTypeOK
  <2>6. dev'.nextId = dev.nextId /\ SteadyDev(dev)'
    BY <2>2, <2>3, <2>4, <2>5 DEF Steady, SteadyDev
  <2>7. Steady'
    BY <2>1, <2>2, <2>6 DEF Steady
  <2>8. InOrder'
    BY <2>1, <2>2, <2>6 DEF InOrder
  <2>9. UpToDate'
    BY <2>1 DEF UpToDate
  <2> QED BY <2>7, <2>8, <2>9
<1>4. CASE ReceiveReply \/ ExpireRequest
  <2>1. view'.last = view.last /\ view'.held = view.held /\ view'.nextId = view.nextId
    BY <1>0, <1>4 DEF ReceiveReply, ExpireRequest, ViewOk
  <2> QED BY <1>0, <1>4, <2>1, CalmElsewhere DEF ReceiveReply, ExpireRequest
<1>5. CASE ResumeClient
  <2>1. /\ link /\ paused' = paused \ {"client"} /\ AskNow(view, view.last # NoFrame)
        /\ UNCHANGED <<dev, agent, video, link, faults>>
    BY <1>5 DEF ResumeClient
  <2>2. (view.last # NoFrame) \in BOOLEAN
    OBVIOUS
  <2>3. /\ view'.last = view.last /\ view'.held = view.held /\ view'.nextId >= view.nextId
        /\ control # << >> => control' # << >>
    BY <2>1, <2>2, CalmAsks
  <2> QED BY <1>0, <2>1, <2>3, CalmElsewhere
<1>6. CASE PumpClient
  <2>1. AskNow(view, view.awaiting) /\ UNCHANGED <<dev, agent, video, link, paused, faults>>
    BY <1>6 DEF PumpClient
  <2>2. view.awaiting \in BOOLEAN
    BY <1>0 DEF ViewOk
  <2>3. /\ view'.last = view.last /\ view'.held = view.held /\ view'.nextId >= view.nextId
        /\ control # << >> => control' # << >>
    BY <2>1, <2>2, CalmAsks
  <2>4. CASE link
    BY <1>0, <2>1, <2>3, <2>4, CalmElsewhere
  <2>5. CASE ~link
    <3>1. Steady /\ InOrder /\ UpToDate
      BY <2>1 DEF CalmInv
    <3>2. Asks(view, view.awaiting).out = << >>
      BY <2>5 DEF Asks
    <3>3. control' = control
      BY <2>1, <3>2 DEF AskNow, DisplayTypeOK
    <3> QED BY <1>0, <2>1, <2>3, <3>3, CalmElsewhere
  <2> QED BY <2>4, <2>5
<1>7. CASE DesktopChanges \/ TimePasses \/ Congestion \/ UNCHANGED displayVars
  <2>1. UNCHANGED <<dev, agent, video, link, paused, control, view, faults>>
    BY <1>7 DEF DesktopChanges, TimePasses, Congestion, displayVars
  <2> QED BY <1>0, <2>1, CalmElsewhere
<1>8. CASE Rebind
  <2>1. link' /\ UNCHANGED <<dev, agent, video, paused, control, view, faults>>
    BY <1>8 DEF Rebind
  <2> QED BY <1>0, <2>1, CalmElsewhere
<1>9. CASE Lose
  <2>1. /\ paused' = {"agent", "client"} /\ video' = << >> /\ control' = << >>
        /\ UNCHANGED <<dev, agent, view, faults>>
    BY <1>9 DEF Lose
  <2>2. Steady /\ InOrder
    BY <2>1 DEF CalmInv
  <2>3. Steady'
    BY <2>1, <2>2 DEF Steady, SteadyDev
  <2>4. InOrder'
    BY <2>1, <2>2 DEF InOrder
  <2>5. UpToDate'
    BY <2>1 DEF UpToDate
  <2> QED BY <2>3, <2>4, <2>5
<1> QED BY <1>1, <1>2, <1>3, <1>4, <1>5, <1>6, <1>7, <1>8, <1>9 DEF DisplayNext

LEMMA CalmInvHolds == DisplaySpec => []CalmInv
<1>1. DisplayInit => CalmInv
  <2> SUFFICES ASSUME DisplayInit PROVE Steady /\ InOrder /\ UpToDate
    BY DEF CalmInv
  <2>1. PICK kind : dev = Device(kind, 1)
    BY DEF DisplayInit
  <2>2. dev.status = Ok /\ dev.cached = 0 /\ dev.seen = 0 /\ dev.nextId = 1
    BY <2>1 DEF Device
  <2>3. view.last.id = 0 /\ view.held = << >> /\ video = << >> /\ link /\ agent.state = "Attached"
    BY DEF DisplayInit, NoFrame
  <2> QED BY <2>2, <2>3 DEF Steady, SteadyDev, InOrder, UpToDate
<1>2. DisplayTypeOK /\ DisplayTypeOK' /\ CalmInv /\ [DisplayNext]_displayVars => CalmInv'
  BY CalmStep DEF CalmInv
<1> QED BY <1>1, <1>2, DisplayInvHolds, PTL DEF DisplaySpec, DisplayInv

(* When the desktop has come to rest and nothing failed, the viewer shows    *)
(* it, whatever links were lost and deltas dropped meanwhile: what the       *)
(* backend saw last is the newest frame on its way, held back or shown, or a *)
(* keyframe is still asked for (sendFrame, requestRecoveryKeyFrame,          *)
(* resumeAfterReconnect).                                                    *)
THEOREM QuietPicturesAreCurrent == DisplaySpec => []QuietPictureIsCurrent
<1>1. DisplayTypeOK /\ CalmInv => QuietPictureIsCurrent
  <2> SUFFICES ASSUME DisplayTypeOK, CalmInv, Quiet, faults = 0, dev.kind # "wgc",
                      view.nextId <= MaxRequests
               PROVE  view.last.content = desktop
    BY DEF QuietPictureIsCurrent
  <2>1. UpToDate
    BY DEF CalmInv
  <2>2. Newest = view.last
    BY DEF Quiet, Newest
  <2>3. dev.seen # 0
    BY DEF Quiet, DisplayTypeOK, Positive
  <2> QED BY <2>1, <2>2, <2>3 DEF UpToDate, Quiet
<1> QED BY <1>1, DisplayInvHolds, CalmInvHolds, PTL DEF DisplayInv
-----------------------------------------------------------------------------
(* The request tracker. *)

USE IdModulusAssumption, TrackerAssumption

LEMMA HandedOutIsValid ==
  ASSUME NEW n \in MessageId
  PROVE  /\ HandedOut(n) \in MessageId \ {0}
         /\ AfterHandingOut(n) \in MessageId
BY DEF MessageId, HandedOut, AfterHandingOut, Wrap

LEMMA KindsDisjoint ==
  /\ \A k \in TerminalKind : IsTerminalResponse(k) /\ k \in ResponseKind
  /\ \A k \in InterimKind : ~IsTerminalResponse(k) /\ k \in ResponseKind
  /\ ResponseKind = TerminalKind \cup InterimKind
BY DEF TerminalKind, InterimKind, ResponseKind, IsTerminalResponse

(* What one callback adds to a handler's history. *)
LEMMA Heard ==
  ASSUME TypeOK, NEW ids \in SUBSET DOMAIN pending, NEW kind \in ResponseKind,
         Invoke(ids, kind), NEW c \in Calls
  PROVE  /\ heard' \in [Calls -> Seq(ResponseKind)]
         /\ (\A i \in ids : pending[i].call # c) => heard'[c] = heard[c]
         /\ (\E i \in ids : pending[i].call = c) => heard'[c] = Append(heard[c], kind)
BY DEF TypeOK, Invoke

LEMMA InitInv == Init => Inv
BY DEF Init, Inv, TypeOK, MessageId, TerminalIsLast, TrackedExactlyOnce,
       RefusedIsSilent, Waiting, Closed

LEMMA IssueInv ==
  ASSUME Inv, NEW c \in Calls, NEW k \in RequestKind, NEW ch \in Channels,
         NEW t \in Timeouts, NEW s \in {0, clock}, Issue(c, k, ch, t, s)
  PROVE  Inv'
<1> DEFINE id == HandedOut(nextMessageId)
<1> DEFINE r  == [kind |-> k, messageId |-> id, correlationId |-> id,
                  timeout |-> t, stamp |-> s]
<1>0. /\ id \in MessageId \ {0} /\ AfterHandingOut(nextMessageId) \in MessageId
      /\ heard' = heard /\ clock' = clock /\ issued[c] = "no"
      /\ nextMessageId' = AfterHandingOut(nextMessageId)
  BY HandedOutIsValid DEF Inv, TypeOK, Issue
<1>1. CASE TrackStatus(pending, r) = "Ok"
  <2>1. /\ id \notin DOMAIN pending
        /\ issued' = [issued EXCEPT ![c] = "tracked"]
        /\ pending' = [i \in DOMAIN pending \cup {id} |->
                        IF i = id THEN [call |-> c, channel |-> ch, deadline |-> Deadline(r)]
                        ELSE pending[i]]
    BY <1>1 DEF Issue, TrackStatus
  <2>2. Deadline(r) \in Nat
    BY DEF Deadline, Inv, TypeOK
  <2>3. TypeOK'
    BY <1>0, <2>1, <2>2 DEF Inv, TypeOK, Entry
  <2>4. \A d \in Calls : (Closed(d)' <=> Closed(d)) /\ (Waiting(d)' <=> Waiting(d) \/ d = c)
    BY <1>0, <2>1 DEF Closed, Waiting
  <2>5. ~Waiting(c) /\ ~Closed(c)
    BY <1>0 DEF Inv, TrackedExactlyOnce
  <2>6. \A d \in Calls : issued'[d] = "tracked" <=> (issued[d] = "tracked" \/ d = c)
    BY <2>1 DEF Inv, TypeOK
  <2>7. \A i, j \in DOMAIN pending' : pending'[i].call = pending'[j].call => i = j
    BY <2>1, <2>5 DEF Inv, TrackedExactlyOnce, Waiting
  <2>8. TrackedExactlyOnce'
    BY <2>4, <2>5, <2>6, <2>7 DEF Inv, TrackedExactlyOnce
  <2>9. TerminalIsLast' /\ RefusedIsSilent'
    BY <1>0, <2>6 DEF Inv, TerminalIsLast, RefusedIsSilent
  <2> QED BY <2>3, <2>8, <2>9 DEF Inv
<1>2. CASE TrackStatus(pending, r) # "Ok"
  <2>1. pending' = pending /\ issued' = [issued EXCEPT ![c] = "refused"]
    BY <1>2 DEF Issue
  <2>2. TypeOK'
    BY <1>0, <2>1 DEF Inv, TypeOK
  <2>3. \A d \in Calls : issued'[d] = "tracked" <=> issued[d] = "tracked"
    BY <1>0, <2>1 DEF Inv, TypeOK
  <2>4. TerminalIsLast' /\ TrackedExactlyOnce' /\ RefusedIsSilent'
    BY <1>0, <2>1, <2>3 DEF Inv, TerminalIsLast, TrackedExactlyOnce, RefusedIsSilent,
                            Waiting, Closed
  <2> QED BY <2>2, <2>4 DEF Inv
<1> QED BY <1>1, <1>2

(* The three ways a request ends: its handler hears a terminal kind and the *)
(* entry is erased.                                                         *)
LEMMA EndInv ==
  ASSUME Inv, NEW ids \in SUBSET DOMAIN pending, NEW kind \in TerminalKind,
         Invoke(ids, kind), pending' = Without(pending, ids),
         UNCHANGED <<nextMessageId, clock, issued>>
  PROVE  Inv'
<1> DEFINE Hit(c) == \E i \in ids : pending[i].call = c
<1>1. /\ DOMAIN pending' = DOMAIN pending \ ids
      /\ \A i \in DOMAIN pending' : pending'[i] = pending[i]
  BY DEF Without
<1>2. kind \in ResponseKind /\ IsTerminalResponse(kind)
  BY KindsDisjoint
<1>3. \A c \in Calls : /\ heard[c] \in Seq(ResponseKind)
                       /\ ~Hit(c) => heard'[c] = heard[c]
                       /\ Hit(c) => heard'[c] = Append(heard[c], kind)
  BY <1>2, Heard DEF Inv, TypeOK
<1>4. heard' \in [Calls -> Seq(ResponseKind)]
  BY <1>2 DEF Inv, TypeOK, Invoke
<1>5. TypeOK'
  <2>1. pending' \in [DOMAIN pending' -> Entry] /\ DOMAIN pending' \subseteq MessageId \ {0}
    BY <1>1 DEF Inv, TypeOK, Without
  <2> QED BY <2>1, <1>4 DEF Inv, TypeOK
<1>6. \A c \in Calls : Hit(c) => Waiting(c) /\ ~Closed(c)
  BY DEF Inv, TrackedExactlyOnce, Waiting
<1>7. \A c \in Calls : Waiting(c)' <=> Waiting(c) /\ ~Hit(c)
  BY <1>1 DEF Inv, TrackedExactlyOnce, Waiting
<1>8. \A c \in Calls : Closed(c)' <=> Closed(c) \/ Hit(c)
  <2> SUFFICES ASSUME NEW c \in Calls PROVE Closed(c)' <=> Closed(c) \/ Hit(c)
    OBVIOUS
  <2>1. CASE Hit(c)
    <3>1. heard'[c] = Append(heard[c], kind) /\ heard[c] \in Seq(ResponseKind)
      BY <1>3, <2>1
    <3>2. Len(heard'[c]) = Len(heard[c]) + 1 /\ heard'[c][Len(heard[c]) + 1] = kind
          /\ Len(heard[c]) \in Nat
      BY <3>1
    <3> QED BY <3>2, <2>1, <1>2 DEF Closed
  <2>2. CASE ~Hit(c)
    BY <1>3, <2>2 DEF Closed
  <2> QED BY <2>1, <2>2
<1>9. TerminalIsLast'
  <2> SUFFICES ASSUME NEW c \in Calls, NEW n \in 1 .. Len(heard'[c]),
                      IsTerminalResponse(heard'[c][n])
               PROVE  n = Len(heard'[c])
    BY DEF TerminalIsLast
  <2>1. CASE Hit(c)
    <3>1. heard'[c] = Append(heard[c], kind) /\ heard[c] \in Seq(ResponseKind)
      BY <1>3, <2>1
    <3>2. CASE n \in 1 .. Len(heard[c])
      BY <3>1, <3>2, <2>1, <1>6 DEF Closed
    <3> QED BY <3>1, <3>2
  <2>2. CASE ~Hit(c)
    BY <1>3, <2>2 DEF Inv, TerminalIsLast
  <2> QED BY <2>1, <2>2
<1>10. TrackedExactlyOnce'
  BY <1>1, <1>6, <1>7, <1>8 DEF Inv, TrackedExactlyOnce
<1>11. RefusedIsSilent'
  BY <1>3, <1>6 DEF Inv, RefusedIsSilent, TrackedExactlyOnce
<1> QED BY <1>5, <1>9, <1>10, <1>11 DEF Inv

(* An interim response: the handler hears it and goes on waiting. *)
LEMMA ProgressInv ==
  ASSUME Inv, NEW i \in DOMAIN pending, NEW kind \in InterimKind,
         Invoke({i}, kind), UNCHANGED <<nextMessageId, pending, clock, issued>>
  PROVE  Inv'
<1> DEFINE d == pending[i].call
<1>1. kind \in ResponseKind /\ ~IsTerminalResponse(kind)
  BY KindsDisjoint
<1>2. d \in Calls /\ Waiting(d) /\ ~Closed(d) /\ issued[d] = "tracked"
  BY DEF Inv, TypeOK, Entry, Waiting, TrackedExactlyOnce
<1>3. /\ heard[d] \in Seq(ResponseKind)
      /\ heard'[d] = Append(heard[d], kind)
      /\ \A c \in Calls \ {d} : heard'[c] = heard[c]
      /\ heard' \in [Calls -> Seq(ResponseKind)]
  BY <1>1, <1>2 DEF Inv, TypeOK, Invoke
<1>4. TypeOK'
  BY <1>3 DEF Inv, TypeOK
<1>5. \A n \in 1 .. Len(heard'[d]) : ~IsTerminalResponse(heard'[d][n])
  BY <1>1, <1>2, <1>3 DEF Closed
<1>6. \A c \in Calls : (Closed(c)' <=> Closed(c)) /\ (Waiting(c)' <=> Waiting(c))
  BY <1>2, <1>3, <1>5 DEF Closed, Waiting
<1>7. TerminalIsLast'
  BY <1>3, <1>5 DEF Inv, TerminalIsLast
<1>8. TrackedExactlyOnce'
  BY <1>6 DEF Inv, TrackedExactlyOnce
<1>9. RefusedIsSilent'
  BY <1>2, <1>3 DEF Inv, RefusedIsSilent
<1> QED BY <1>4, <1>7, <1>8, <1>9 DEF Inv

LEMMA CompleteEffect ==
  ASSUME NEW i \in MessageId, NEW k \in ResponseKind, Complete(i, k)
  PROVE  /\ i \in DOMAIN pending /\ Invoke({i}, k)
         /\ UNCHANGED <<nextMessageId, clock, issued>>
         /\ k \in TerminalKind => pending' = Without(pending, {i})
         /\ k \notin TerminalKind => k \in InterimKind /\ pending' = Without(pending, {})
BY KindsDisjoint DEF Complete, Reaches, Completed, IsTerminalResponse

LEMMA WithoutNone == TypeOK => Without(pending, {}) = pending
<1> SUFFICES ASSUME TypeOK PROVE Without(pending, {}) = pending
  OBVIOUS
<1> QED BY DEF Without, TypeOK

LEMMA NextInv == Inv /\ [Next]_vars => Inv'
<1> SUFFICES ASSUME Inv, [Next]_vars PROVE Inv'
  OBVIOUS
<1>1. CASE \E c \in Calls, k \in RequestKind, ch \in Channels, t \in Timeouts, s \in {0, clock} :
             Issue(c, k, ch, t, s)
  BY <1>1, IssueInv
<1>2. CASE \E i \in MessageId, k \in ResponseKind : Complete(i, k)
  <2> PICK i \in MessageId, k \in ResponseKind : Complete(i, k)
    BY <1>2
  <2>1. CASE k \in TerminalKind
    BY <2>1, CompleteEffect, EndInv
  <2>2. CASE k \notin TerminalKind
    BY <2>2, CompleteEffect, WithoutNone, ProgressInv DEF Inv
  <2> QED BY <2>1, <2>2
<1>3. CASE \E ch \in Channels : CancelByChannel(ch)
  BY <1>3, EndInv DEF CancelByChannel, OnChannel, TerminalKind
<1>4. CASE Expire
  BY <1>4, EndInv DEF Expire, Overdue, TerminalKind
<1>5. CASE Tick
  BY <1>5 DEF Tick, Inv, TypeOK, TerminalIsLast, TrackedExactlyOnce, RefusedIsSilent,
              Waiting, Closed
<1>6. CASE UNCHANGED vars
  BY <1>6 DEF vars, Inv, TypeOK, TerminalIsLast, TrackedExactlyOnce, RefusedIsSilent,
              Waiting, Closed
<1> QED BY <1>1, <1>2, <1>3, <1>4, <1>5, <1>6 DEF Next

THEOREM InvHolds == Spec => []Inv
<1>1. Init => Inv
  BY InitInv
<1>2. Inv /\ [Next]_vars => Inv'
  BY NextInv
<1> QED BY <1>1, <1>2, PTL DEF Spec

(* The types of the tracker's tables, the width of its ids included. *)
THEOREM TypeCorrect == Spec => []TypeOK
BY InvHolds, PTL DEF Inv

(* No duplicate, late answer, timeout or lost channel reaches a handler     *)
(* that has had its terminal response.                                      *)
THEOREM TerminalOnce == Spec => []TerminalIsLast
BY InvHolds, PTL DEF Inv

(* A tracked call is never lost and never kept after it ended. *)
THEOREM NeverLost == Spec => []TrackedExactlyOnce
BY InvHolds, PTL DEF Inv

-----------------------------------------------------------------------------
(* The refinement.  Each operation maps to one step of CallLifecycle. *)

LEMMA PhaseOf ==
  ASSUME Inv, NEW c \in Calls
  PROVE  /\ phase[c] = "unissued" <=> issued[c] = "no"
         /\ phase[c] = "open" <=> Waiting(c)
         /\ phase[c] = "closed" <=> Closed(c)
BY DEF Inv, TypeOK, TrackedExactlyOnce, phase

LEMMA IssueSimulates ==
  ASSUME Inv, Inv', NEW c \in Calls, NEW k \in RequestKind, NEW ch \in Channels,
         NEW t \in Timeouts, NEW s \in {0, clock}, Issue(c, k, ch, t, s)
  PROVE  Lifecycle!Issue(c)
<1> DEFINE id == HandedOut(nextMessageId)
<1>1. heard' = heard /\ issued[c] = "no" /\ ~Waiting(c)
  BY DEF Issue, Inv, TrackedExactlyOnce
<1>2. \/ /\ issued' = [issued EXCEPT ![c] = "refused"]
         /\ pending' = pending
      \/ /\ issued' = [issued EXCEPT ![c] = "tracked"]
         /\ id \in DOMAIN pending' /\ pending'[id].call = c
         /\ \A i \in DOMAIN pending : i \in DOMAIN pending' /\ pending'[i] = pending[i]
         /\ \A i \in DOMAIN pending' : i # id => i \in DOMAIN pending
  BY DEF Issue, TrackStatus
<1>3. phase[c] = "unissued"
  BY <1>1 DEF phase
<1>4. \E p \in {"refused", "open"} : phase' = [phase EXCEPT ![c] = p]
  <2>1. CASE issued' = [issued EXCEPT ![c] = "refused"] /\ pending' = pending
    <3>1. issued'[c] = "refused" /\ \A d \in Calls \ {c} : issued'[d] = issued[d]
      BY <2>1 DEF Inv, TypeOK
    <3>2. \A d \in Calls : Waiting(d)' <=> Waiting(d)
      BY <2>1 DEF Waiting
    <3>3. /\ phase'[c] = "refused" /\ DOMAIN phase' = Calls /\ DOMAIN phase = Calls
          /\ \A d \in Calls \ {c} : phase'[d] = phase[d]
      BY <3>1, <3>2 DEF phase
    <3>4. phase' = [phase EXCEPT ![c] = "refused"]
      BY <3>3 DEF phase
    <3> QED BY <3>4
  <2>2. CASE /\ issued' = [issued EXCEPT ![c] = "tracked"]
             /\ id \in DOMAIN pending' /\ pending'[id].call = c
             /\ \A i \in DOMAIN pending : i \in DOMAIN pending' /\ pending'[i] = pending[i]
             /\ \A i \in DOMAIN pending' : i # id => i \in DOMAIN pending
    <3>1. issued'[c] = "tracked" /\ \A d \in Calls \ {c} : issued'[d] = issued[d]
      BY <2>2 DEF Inv, TypeOK
    <3>2. Waiting(c)' /\ \A d \in Calls \ {c} : Waiting(d)' <=> Waiting(d)
      BY <2>2 DEF Waiting
    <3>3. /\ phase'[c] = "open" /\ DOMAIN phase' = Calls /\ DOMAIN phase = Calls
          /\ \A d \in Calls \ {c} : phase'[d] = phase[d]
      BY <3>1, <3>2 DEF phase
    <3>4. phase' = [phase EXCEPT ![c] = "open"]
      BY <3>3 DEF phase
    <3> QED BY <3>4
  <2> QED BY <1>2, <2>1, <2>2
<1> QED BY <1>1, <1>3, <1>4 DEF Lifecycle!Issue

LEMMA EndSimulates ==
  ASSUME Inv, NEW ids \in SUBSET DOMAIN pending, NEW kind \in TerminalKind,
         Invoke(ids, kind), pending' = Without(pending, ids), issued' = issued
  PROVE  \E S \in SUBSET Calls : Lifecycle!Close(S, kind)
<1> DEFINE S == {c \in Calls : \E i \in ids : pending[i].call = c}
<1>1. \A c \in S : phase[c] = "open"
  BY PhaseOf DEF Waiting
<1>2. \A c \in Calls : Waiting(c)' <=> Waiting(c) /\ c \notin S
  BY DEF Without, Inv, TrackedExactlyOnce, Waiting
<1>3. \A c \in Calls : c \in S => issued[c] = "tracked"
  BY DEF Inv, TrackedExactlyOnce, Waiting
<1>4. phase' = [c \in Calls |-> IF c \in S THEN "closed" ELSE phase[c]]
  BY <1>2, <1>3 DEF phase
<1>5. heard' = [c \in Calls |-> IF c \in S THEN Append(heard[c], kind) ELSE heard[c]]
  BY DEF Invoke
<1>6. Lifecycle!Close(S, kind)
  BY <1>1, <1>4, <1>5 DEF Lifecycle!Close, Lifecycle!Report
<1> QED BY <1>6

LEMMA ProgressSimulates ==
  ASSUME Inv, NEW i \in DOMAIN pending, NEW kind \in InterimKind,
         Invoke({i}, kind), pending' = pending, issued' = issued
  PROVE  Lifecycle!Progress(pending[i].call, kind)
<1>1. pending[i].call \in Calls /\ phase[pending[i].call] = "open"
  BY PhaseOf DEF Inv, TypeOK, Entry, Waiting
<1>2. phase' = phase
  BY DEF phase, Waiting
<1>3. heard' = [c \in Calls |-> IF c \in {pending[i].call} THEN Append(heard[c], kind) ELSE heard[c]]
  BY DEF Invoke
<1> QED BY <1>1, <1>2, <1>3 DEF Lifecycle!Progress, Lifecycle!Report

LEMMA StepSimulates == Inv /\ Inv' /\ [Next]_vars => [Lifecycle!Next]_(Lifecycle!vars)
<1> SUFFICES ASSUME Inv, Inv', [Next]_vars PROVE [Lifecycle!Next]_(Lifecycle!vars)
  OBVIOUS
<1>1. CASE \E c \in Calls, k \in RequestKind, ch \in Channels, t \in Timeouts, s \in {0, clock} :
             Issue(c, k, ch, t, s)
  BY <1>1, IssueSimulates DEF Lifecycle!Next
<1>2. CASE \E i \in MessageId, k \in ResponseKind : Complete(i, k)
  <2> PICK i \in MessageId, k \in ResponseKind : Complete(i, k)
    BY <1>2
  <2>1. CASE k \in TerminalKind
    BY <2>1, CompleteEffect, EndSimulates DEF Lifecycle!Next
  <2>2. CASE k \notin TerminalKind
    <3>1. i \in DOMAIN pending /\ Invoke({i}, k) /\ k \in InterimKind
          /\ pending' = pending /\ issued' = issued
      BY <2>2, CompleteEffect, WithoutNone DEF Inv
    <3>2. pending[i].call \in Calls
      BY <3>1 DEF Inv, TypeOK, Entry
    <3> QED BY <3>1, <3>2, ProgressSimulates DEF Lifecycle!Next
  <2> QED BY <2>1, <2>2
<1>3. CASE \E ch \in Channels : CancelByChannel(ch)
  BY <1>3, EndSimulates DEF CancelByChannel, OnChannel, TerminalKind, Lifecycle!Next
<1>4. CASE Expire
  BY <1>4, EndSimulates DEF Expire, Overdue, TerminalKind, Lifecycle!Next
<1>5. CASE Tick
  BY <1>5 DEF Tick, Lifecycle!vars, phase, Waiting
<1>6. CASE UNCHANGED vars
  BY <1>6 DEF vars, Lifecycle!vars, phase, Waiting
<1> QED BY <1>1, <1>2, <1>3, <1>4, <1>5, <1>6 DEF Next

LEMMA InitSimulates == Init => Lifecycle!Init
BY DEF Init, Lifecycle!Init, phase

(* The tracker, with its ids, deadlines and channels, does nothing its      *)
(* owners' view of a call (CallLifecycle) does not allow.                   *)
THEOREM RefinesLifecycle == Spec => ImplementsLifecycle
<1>1. Init => Lifecycle!Init
  BY InitSimulates
<1>2. Inv /\ Inv' /\ [Next]_vars => [Lifecycle!Next]_(Lifecycle!vars)
  BY StepSimulates
<1> QED BY <1>1, <1>2, InvHolds, PTL DEF Spec, ImplementsLifecycle, Lifecycle!Spec
=============================================================================
