------------------------------- MODULE Display -------------------------------
(***************************************************************************)
(* A controlled desktop on its way to the viewer: the capture backend, the  *)
(* DisplayAgentModule and the DisplayRuntimeService that pumps it on one    *)
(* side, the DisplayClientModule with its decoder and its own service on    *)
(* the other (src/src/modules/display, runtime/display,                     *)
(* platform/windows/display).                                               *)
(*                                                                          *)
(* The desktop is a counter of its contents.  A frame is [run, id, key,     *)
(* content]: run counts the capture objects, each of which numbers its own  *)
(* frames from 1.  Deadlines (the request timeout, the cooldown, the        *)
(* recovery window) pass at any time.  A handler that captures on its way   *)
(* is a set of outcomes: the records [dev, agent, sent, ok, faults] it may  *)
(* leave.                                                                   *)
(***************************************************************************)
EXTENDS DisplaySelection, DisplayRecovery

CONSTANTS Candidates,      \* capabilities of the capture backends
          Requests,        \* selection requests a profile may make
          Failures,        \* statuses a capture or an open may fail with
          Shape,           \* content -> geometry of the desktop
          Delays,          \* does the decoder hold frames back?
          MaxContent,      \* bound: contents of the desktop
          MaxFrames,       \* bound: frames of one capture object
          MaxRuns,         \* bound: capture objects
          MaxRequests,     \* bound: keyframe requests
          MaxFaults,       \* bound: failures of capture, decoder, renderer,
                           \* and disruptions
          MaxDisruptions   \* bound: losses of the link, congestions, stops

ASSUME DisplayAssumption ==
  /\ \A n \in {MaxContent, MaxFrames, MaxRuns, MaxRequests, MaxFaults, MaxDisruptions} : n \in Nat
  /\ Delays \in BOOLEAN

VARIABLES desktop, request, dev, agent, recovery, view, video, control, replies,
          link, paused, congested, faults, disruptions

displayVars == <<desktop, request, dev, agent, recovery, view, video, control, replies,
          link, paused, congested, faults, disruptions>>

NoFrame == [run |-> 0, id |-> 0, key |-> FALSE, content |-> 0]
Device(kind, run) ==
  [kind |-> kind, run |-> run, open |-> FALSE, nextId |-> 1, seen |-> 0, cached |-> 0,
   status |-> Ok]

DisplayInit ==
  /\ desktop = 1
  /\ request \in Requests
  /\ dev = Device(Select(Candidates, request), 1)
  /\ agent = [state |-> "Attached", opened |-> FALSE, shape |-> 0]
  /\ recovery = FreshRecovery
  /\ view = [last |-> NoFrame, held |-> << >>, input |-> FALSE, pending |-> {},
             nextId |-> 1, awaiting |-> FALSE, lost |-> FALSE]
  /\ video = << >> /\ control = << >> /\ replies = << >>
  /\ link = TRUE /\ paused = {} /\ congested = FALSE
  /\ faults = 0 /\ disruptions = 0

Now == [dev |-> dev, agent |-> agent, sent |-> << >>, ok |-> TRUE, faults |-> faults]
-----------------------------------------------------------------------------
(* The capture backends *)

Close(d) == [d EXCEPT !.open = FALSE, !.seen = 0, !.cached = 0]

(* open(): closes first, then opens anew or fails with some status.  *)
Opened(d) == [Close(d) EXCEPT !.open = TRUE, !.status = Ok]
Refused(d, status) == [Close(d) EXCEPT !.status = status]
Failing(w, d) == [w EXCEPT !.faults = @ + 1, !.dev = d]

Open(w) ==
  {[w EXCEPT !.dev = Opened(@), !.ok = TRUE]} \cup
  IF w.faults + disruptions >= MaxFaults THEN {}
  ELSE {[Failing(w, Refused(w.dev, s)) EXCEPT !.ok = FALSE] : s \in Failures}

Frame(w, key, content) ==
  [run |-> w.dev.run, id |-> w.dev.nextId - 1, key |-> key, content |-> content]

Nothing(w, status) ==
  {[w |-> [w EXCEPT !.dev = [@ EXCEPT !.status = status]], frame |-> NoFrame]}
Captured(w, key, content) ==
  {[w |-> [w EXCEPT !.dev = [@ EXCEPT !.seen = content, !.status = Ok]],
    frame |-> Frame(w, key, content)]}

(* A call of the system fails.  A backend that waits for frames closes      *)
(* itself when the wait fails; when a later call does, it stays open but    *)
(* the frame it had acquired is gone.                                       *)
CaptureFails(w) ==
  LET lost  == IF w.dev.seen # desktop THEN {[w.dev EXCEPT !.seen = desktop]} ELSE {}
      after == IF w.dev.kind = "gdi" THEN {w.dev} ELSE {Close(w.dev)} \cup lost
  IN IF w.faults + disruptions >= MaxFaults THEN {}
     ELSE UNION {Nothing(Failing(w, d), s) : d \in after, s \in Failures}

(* Fault: a keyframe on an unchanged desktop times out. *)
Faulty_CaptureDxgi(w, key) ==
  IF w.dev.seen = desktop THEN Nothing(w, FrameTimeout) ELSE Captured(w, key, desktop)

(* AcquireNextFrame() times out while the desktop does not change; the last *)
(* frame answers a request for a keyframe.                                  *)
CaptureDxgi(w, key) ==
  IF w.dev.seen # desktop
  THEN Captured([w EXCEPT !.dev = [@ EXCEPT !.cached = desktop]], key, desktop)
  ELSE IF key /\ w.dev.cached # 0 THEN Captured(w, TRUE, w.dev.cached)
  ELSE Nothing(w, FrameTimeout)

(* TryGetNextFrame() has nothing while the desktop does not change.  *)
CaptureWgc(w, key) ==
  IF w.dev.seen # desktop THEN Captured(w, key, desktop) ELSE Nothing(w, FrameTimeout)

(* BitBlt() copies whatever is on the screen. *)
CaptureGdi(w, key) == Captured(w, key, desktop)

(* captureNextFrame(): takes a number in any case and opens itself when it  *)
(* is closed, of which the module that owns it hears nothing.               *)
Counted(d)  == [d EXCEPT !.nextId = @ + 1]
Numbered(w) == [w EXCEPT !.dev = Counted(@)]

CaptureFrom(w, key) ==
  CaptureFails(w) \cup IF w.dev.kind = "dxgi" THEN CaptureDxgi(w, key)
                       ELSE IF w.dev.kind = "wgc" THEN CaptureWgc(w, key)
                       ELSE IF w.dev.kind = "gdi" THEN CaptureGdi(w, key)
                       ELSE {}

CaptureNextFrame(w, key) ==
  IF w.dev.open THEN CaptureFrom(Numbered(w), key)
  ELSE UNION {IF v.ok \/ v.dev.kind = "gdi" THEN CaptureFrom(v, key)
              ELSE {[w |-> v, frame |-> NoFrame]} : v \in Open(Numbered(w))}
-----------------------------------------------------------------------------
(* DisplayAgentModule *)

(* sendFrame(): the guards, the frame and the packet.  A change of shape    *)
(* turns a delta into a keyframe.  ok says whether a frame was sent, and    *)
(* "dropped" that none was tried.                                           *)
Keyed(f, shape) == [f EXCEPT !.key = @ \/ (shape # 0 /\ Shape[f.content] # shape)]

Sent(v, f) ==
  IF f = NoFrame \/ ~link THEN [v EXCEPT !.ok = FALSE]
  ELSE [v EXCEPT !.ok = TRUE, !.sent = Append(@, Keyed(f, v.agent.shape)),
                 !.agent = [@ EXCEPT !.shape = Shape[f.content]]]

SendFrame(w, key) ==
  IF ~key /\ congested THEN {[w EXCEPT !.ok = FALSE]}
  ELSE {Sent(c.w, c.frame) : c \in CaptureNextFrame(w, key)}

SendKeyFrame(ws) == UNION {SendFrame(w, TRUE) : w \in ws}

(* start() *)
StartAgent(w) ==
  LET running(v) == [v EXCEPT !.agent = [@ EXCEPT !.opened = TRUE, !.state = "Running"]]
      failed(v)  == [v EXCEPT !.agent = [@ EXCEPT !.opened = FALSE, !.state = "Failed"]]
      opened     == {running(v) : v \in {u \in Open(w) : u.ok}}
  IN {failed(v) : v \in {u \in Open(w) : ~u.ok}} \cup
     {IF v.ok THEN v ELSE failed([v EXCEPT !.dev = Close(@)]) : v \in SendKeyFrame(opened)}

(* The rest of reopenCapture() and replaceCapture() once the old capture is *)
(* closed.                                                                  *)
Reopened(w) ==
  LET believed(v, open) == [v EXCEPT !.agent = [@ EXCEPT !.opened = open]]
      tried  == Open(believed(w, FALSE))
      opened == {believed(v, TRUE) : v \in {x \in tried : x.ok}}
  IN {v \in tried : ~v.ok} \cup SendKeyFrame(opened)

CloseIfOpened(w) == IF w.agent.opened THEN [w EXCEPT !.dev = Close(@)] ELSE w

ReopenCapture(w) ==
  IF w.agent.state # "Running" THEN {[w EXCEPT !.ok = FALSE]}
  ELSE Reopened(CloseIfOpened(w))

(* replaceCapture() with a new capture object, whose frames start at 1. *)
ReplaceCapture(w, kind) ==
  IF w.agent.state # "Running" THEN {[w EXCEPT !.ok = FALSE]}
  ELSE Reopened([w EXCEPT !.dev = Device(kind, w.dev.run + 1)])

(* What a handler leaves behind. *)
Commits(w, answers) ==
  /\ dev' = w.dev
  /\ agent' = w.agent
  /\ faults' = w.faults
  /\ video' = IF link THEN video \o w.sent ELSE video
  /\ replies' = IF link THEN replies \o answers ELSE replies

MayDisrupt == disruptions < MaxDisruptions /\ faults + disruptions < MaxFaults
MayCapture == dev.nextId < MaxFrames

Start ==
  /\ agent.state \in {"Attached", "Stopped"}
  /\ MayCapture
  /\ \E w \in StartAgent(Now) : Commits(w, << >>)
  /\ UNCHANGED <<desktop, request, recovery, view, control, link, paused, congested, disruptions>>

(* stop(): the capture is closed when the module believes it open.  *)
Stop ==
  /\ agent.state \in {"Running", "Failed"}
  /\ MayDisrupt
  /\ disruptions' = disruptions + 1
  /\ dev' = CloseIfOpened(Now).dev
  /\ agent' = [agent EXCEPT !.state = "Stopped", !.opened = FALSE]
  /\ UNCHANGED <<desktop, request, recovery, view, video, control, replies, link, paused, congested, faults>>

(* handlePacket(): a request for a keyframe is answered when the keyframe   *)
(* has been sent or has failed.                                             *)
HandleControl ==
  /\ control # << >>
  /\ MayCapture
  /\ control' = Tail(control)
  /\ IF agent.state = "Running"
     THEN \E w \in SendFrame(Now, TRUE) :
            Commits(w, <<[to |-> Head(control), ok |-> w.ok]>>)
     ELSE UNCHANGED <<dev, agent, faults, video, replies>>
  /\ UNCHANGED <<desktop, request, recovery, view, link, paused, congested, disruptions>>

(* resumeAfterReconnect() *)
ResumeAgent ==
  /\ link /\ "agent" \in paused
  /\ MayCapture
  /\ paused' = paused \ {"agent"}
  /\ IF agent.state = "Running"
     THEN \E w \in UNION {IF v.ok THEN SendFrame(v, FALSE) ELSE {v} : v \in SendFrame(Now, TRUE)} :
            Commits(w, << >>)
     ELSE UNCHANGED <<dev, agent, faults, video, replies>>
  /\ UNCHANGED <<desktop, request, recovery, view, control, link, congested, disruptions>>

(* snapshot(): a capture the module did not open is never Ok.  *)
ReportedStatus(w) == IF ~w.agent.opened /\ w.dev.status = Ok THEN NotOpen ELSE w.dev.status

(* The recovery part of DisplayRuntimeService::pumpOnce(); the factory may  *)
(* fail to create the backend that was selected.                            *)
Recover(w) ==
  LET plan == Plan(recovery, ReportedStatus(w), w.dev.kind)
      next == Failover(Candidates, request, w.dev.kind, TRUE)
      switched == {[w EXCEPT !.ok = FALSE]} \cup
                  IF next = "" \/ w.dev.run >= MaxRuns THEN {} ELSE ReplaceCapture(w, next)
      tried == IF plan.action \in {"Reopen", "Recreate"} THEN ReopenCapture(w)
               ELSE IF plan.action = "Switch" THEN switched ELSE {}
  IN IF tried = {} THEN {[w |-> w, recovery |-> plan.next]}
     ELSE {[w |-> v, recovery |-> Attempted(plan, v.ok, v.dev.kind)] : v \in tried}

(* pumpOnce() on the agent's side. *)
PumpAgent ==
  /\ agent.state = "Running"
  /\ MayCapture
  /\ \E w \in SendFrame(Now, FALSE) :
       IF w.ok \/ congested
       THEN /\ Commits(w, << >>)
            /\ recovery' = IF w.ok THEN FrameSuccess(recovery, w.dev.kind) ELSE recovery
       ELSE \E r \in Recover(w) : Commits(r.w, << >>) /\ recovery' = r.recovery
  /\ UNCHANGED <<desktop, request, view, control, link, paused, congested, disruptions>>
-----------------------------------------------------------------------------
(* DisplayClientModule *)

(* requestKeyFrame(): a request that cannot be sent is completed at once.   *)
Asks(v, awaiting) ==
  LET asked == [v EXCEPT !.nextId = @ + 1, !.awaiting = awaiting]
  IN IF v.nextId > MaxRequests THEN [view |-> [v EXCEPT !.awaiting = awaiting], out |-> << >>]
     ELSE IF link THEN [view |-> [asked EXCEPT !.pending = @ \cup {v.nextId}], out |-> <<v.nextId>>]
     ELSE [view |-> asked, out |-> << >>]
Keeps(v) == [view |-> v, out |-> << >>]

(* Dropped as stale; lost remembers a keyframe newer than the picture.      *)
Drops(v, f) == [v EXCEPT !.lost = @ \/ (f.key /\ f.run > v.last.run)]

(* The decoder fails, needs more, or shows a frame: the one that it holds   *)
(* back before the one it is given.                                         *)
Decode(v, f) ==
  LET shows(held, out) == [v |-> [v EXCEPT !.held = held], out |-> out, fault |-> 0, more |-> FALSE]
      holds == [v |-> [v EXCEPT !.held = <<f>>, !.input = TRUE], out |-> NoFrame, fault |-> 0, more |-> TRUE]
      fails == [v |-> [v EXCEPT !.held = << >>, !.input = FALSE], out |-> NoFrame, fault |-> 1, more |-> FALSE]
  IN (IF v.held = << >> THEN {shows(<< >>, f)} ELSE {shows(<<f>>, Head(v.held))}) \cup
     (IF Delays /\ v.held = << >> THEN {holds} ELSE {}) \cup
     (IF faults + disruptions < MaxFaults THEN {fails} ELSE {})

(* Fault: any later frame continues the picture. *)
Faulty_Gap(last, f) == FALSE

Gap(last, f) == last # NoFrame /\ f.id > last.id + 1 /\ ~f.key

(* renderVideo() with one outcome of the decoder; the renderer may fail.    *)
Shown(d, f, rendered) ==
  LET fed == [d.v EXCEPT !.input = d.out.id < f.id]
  IN IF d.more THEN Keeps(d.v)
     ELSE IF d.out = NoFrame THEN Asks(d.v, d.v.awaiting)
     ELSE IF d.out.id <= d.v.last.id THEN Keeps(Drops(d.v, d.out))
     ELSE IF Gap(d.v.last, d.out) THEN Asks(d.v, d.v.awaiting)
     ELSE IF rendered THEN Keeps([fed EXCEPT !.last = d.out, !.awaiting = FALSE])
     ELSE Asks(fed, fed.awaiting)

RenderVideo(f) ==
  IF view.last = NoFrame /\ ~view.input /\ ~f.key
  THEN {[r |-> Asks(view, view.awaiting), fault |-> 0]}
  ELSE IF view.last # NoFrame /\ f.id <= view.last.id
  THEN {[r |-> Keeps(Drops(view, f)), fault |-> 0]}
  ELSE {[r |-> Shown(d, f, TRUE), fault |-> d.fault] : d \in Decode(view, f)} \cup
       {[r |-> Shown(d, f, FALSE), fault |-> 1] :
          d \in {e \in Decode(view, f) : e.fault = 0 /\ faults + disruptions < MaxFaults}}

ReceiveVideo ==
  /\ video # << >>
  /\ video' = Tail(video)
  /\ \E o \in RenderVideo(Head(video)) :
       /\ view' = o.r.view
       /\ control' = control \o o.r.out
       /\ faults' = faults + o.fault
  /\ UNCHANGED <<desktop, request, dev, agent, recovery, replies, link, paused, congested, disruptions>>

ReceiveReply ==
  /\ replies # << >>
  /\ replies' = Tail(replies)
  /\ view' = [view EXCEPT !.pending = @ \ {Head(replies).to}]
  /\ UNCHANGED <<desktop, request, dev, agent, recovery, video, control, link, paused, congested, faults, disruptions>>

AskNow(v, awaiting) ==
  LET a == Asks(v, awaiting) IN view' = a.view /\ control' = control \o a.out

ResumeClient ==
  /\ link /\ "client" \in paused
  /\ paused' = paused \ {"client"}
  /\ AskNow(view, view.last # NoFrame)
  /\ UNCHANGED <<desktop, request, dev, agent, recovery, video, replies, link, congested, faults, disruptions>>

(* pumpOnce() on the client's side: old requests expire, and while nothing  *)
(* has been shown, or nothing since the reconnect, another one is made.     *)
ExpireRequest ==
  /\ view.pending # {}
  /\ view' = [view EXCEPT !.pending = @ \ {CHOOSE i \in @ : \A j \in @ : i <= j}]
  /\ UNCHANGED <<desktop, request, dev, agent, recovery, video, control, replies, link, paused, congested, faults, disruptions>>

MonitorDue == view.pending = {} /\ (view.last = NoFrame \/ view.awaiting)

PumpClient ==
  /\ MonitorDue
  /\ view.nextId <= MaxRequests
  /\ AskNow(view, view.awaiting)
  /\ UNCHANGED <<desktop, request, dev, agent, recovery, video, replies, link, paused, congested, faults, disruptions>>
-----------------------------------------------------------------------------
DesktopChanges ==
  /\ desktop < MaxContent
  /\ desktop' = desktop + 1
  /\ UNCHANGED <<request, dev, agent, recovery, view, video, control, replies, link, paused, congested, faults, disruptions>>

Lose ==
  /\ link
  /\ MayDisrupt
  /\ link' = FALSE /\ paused' = {"agent", "client"}
  /\ disruptions' = disruptions + 1
  /\ video' = << >> /\ control' = << >> /\ replies' = << >>
  /\ UNCHANGED <<desktop, request, dev, agent, recovery, view, congested, faults>>

Rebind ==
  /\ ~link
  /\ link' = TRUE
  /\ UNCHANGED <<desktop, request, dev, agent, recovery, view, video, control, replies, paused, congested, faults, disruptions>>

Congestion ==
  /\ congested \/ MayDisrupt
  /\ congested' = ~congested
  /\ disruptions' = IF congested THEN disruptions ELSE disruptions + 1
  /\ UNCHANGED <<desktop, request, dev, agent, recovery, view, video, control, replies, link, paused, faults>>

TimePasses ==
  /\ recovery.cooling \/ recovery.last = "recent"
  /\ \/ recovery' = [recovery EXCEPT !.cooling = FALSE]
     \/ recovery' = [recovery EXCEPT !.cooling = FALSE, !.last = IF @ = "recent" THEN "old" ELSE @]
  /\ UNCHANGED <<desktop, request, dev, agent, view, video, control, replies, link, paused, congested, faults, disruptions>>

DisplayNext ==
  \/ Start \/ Stop \/ HandleControl \/ ResumeAgent \/ PumpAgent
  \/ ReceiveVideo \/ ReceiveReply \/ ResumeClient \/ ExpireRequest \/ PumpClient
  \/ DesktopChanges \/ Lose \/ Rebind \/ Congestion \/ TimePasses

DisplaySpec == DisplayInit /\ [][DisplayNext]_displayVars
-----------------------------------------------------------------------------
(* A backend that keeps failing is reopened at most RecoveryLimit times     *)
(* before another one is tried or the recovery window has passed            *)
(* (selectDisplayCaptureRecoveryPlan, recordDisplayCaptureRecoveryAttempt). *)
RecoveryIsBounded == RecoveryLimit > 0 => recovery.attempts <= RecoveryLimit

(* A delta is shown only on top of the frame it was made from, however many *)
(* frames were lost, held back or failed on the way, as long as one capture *)
(* object made both (renderVideo).                                          *)
DeltaFollowsItsBase ==
  [][view'.last # view.last /\ ~view'.last.key /\ view'.last.run = view.last.run
       => view'.last.id = view.last.id + 1]_displayVars

(* Nothing is on its way and nobody has anything left to ask for. *)
Quiet ==
  /\ video = << >> /\ control = << >> /\ replies = << >> /\ view.held = << >>
  /\ link /\ paused = {} /\ ~congested
  /\ agent.state = "Running" /\ dev.open /\ dev.seen = desktop
  /\ ~MonitorDue /\ view.pending = {}

(* When the desktop has come to rest and nothing failed, the viewer shows   *)
(* it, whatever links were lost and deltas dropped meanwhile (sendFrame,    *)
(* requestRecoveryKeyFrame, resumeAfterReconnect): the gap a dropped frame  *)
(* leaves is closed by a keyframe.  Windows Graphics Capture has no frame   *)
(* to offer for it while the desktop is at rest.                            *)
QuietPictureIsCurrent ==
  Quiet /\ faults = 0 /\ dev.kind # "wgc" /\ view.nextId <= MaxRequests => view.last.content = desktop

(* A keyframe made after the picture that is shown is not dropped as stale  *)
(* (replaceCapture sends one so that the viewer can go on).                 *)
FreshKeyframeIsShown == ~view.lost

(* A module that has stopped no longer captures the screen (stop).          *)
CaptureClosedWhenStopped == agent.state = "Stopped" => ~dev.open
=============================================================================
