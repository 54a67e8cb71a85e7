---------------------------- MODULE LinuxClipboard ----------------------------
(***************************************************************************)
(* The Linux clipboard endpoint: remote offers published as promises of    *)
(* the X11 selection, targets rendered when a local application pastes,    *)
(* file lists presented as paths of a promise file system, and local       *)
(* copies noticed and announced to the peer.                               *)
(*                                                                         *)
(* Three kinds of threads meet at one mutex.  The main thread runs the     *)
(* event loop; a remote read that it waits for pumps that loop, so that    *)
(* the calls it has open form a stack (stack, the last one running).  The  *)
(* selection library (clipbus, external) calls back on a thread of its     *)
(* own, and each read of a promised path comes from a helper thread of the *)
(* file system.  An action is what one of them does between two calls that *)
(* leave the mutex.                                                        *)
(***************************************************************************)
EXTENDS Integers, FiniteSets, SequencesExt

CONSTANTS
  Offers,      \* the peer's offers, numbered from 1 in the order they come
  FileLists,   \* the choices of which of them carry a file list
  NodesOf,     \* the nodes (index, object and relative path) of their files
  Pasters,     \* requests for a target, numbered in the order they come
  Readers,     \* reads of a promised path by local applications
  MaxRequests, \* bound: requests and reads altogether
  MaxCopies,   \* bound: local copies
  MaxDepth     \* bound: calls open on the main thread

ASSUME OffersAssumption ==
  /\ Offers = 1..Cardinality(Offers)
  /\ FileLists \subseteq SUBSET Offers
  /\ Pasters \subseteq Nat
  /\ MaxRequests \in Nat /\ MaxCopies \in Nat /\ MaxDepth \in Nat

None == 0
Chunks == 1            \* chunks of a rendered target's stream
Targets == {"text", "uris"}

VARIABLES
  native,     \* the selection: who owns it, and the number of local copies
  notices,    \* callbacks about the owner that are still to be delivered
  ep,         \* what the endpoint keeps under its mutex
  stack,      \* the calls open on the main thread
  paste,      \* every request for a target, with the stream that serves it
  open,       \* every read of a promised path
  peer,       \* the next offer to come, and those that carry a file list
  announced,  \* the copy announced last, unless a change was missed since
  missed,     \* what a change was missed to since the last snapshot
  overtaken   \* a target was being rendered when the cache was last cleared

vars == <<native, notices, ep, stack, paste, open, peer, announced, missed,
          overtaken>>
FileOffers == peer.files

Idle == [at |-> "idle", target |-> "text", left |-> 0, sent |-> 0,
         got |-> None, seen |-> {}, excused |-> FALSE]

Closed == [at |-> "idle", path |-> None, via |-> None, node |-> None, got |-> None]

Init ==
  /\ peer \in [next : {1}, files : FileLists]
  /\ native = [owner |-> "them", copies |-> 0]
  /\ notices = <<>>
  /\ ep = [published |-> None, publication |-> None,
           registered |-> {}, cache |-> None, pending |-> TRUE]
  /\ stack = <<>>
  /\ paste = [r \in Pasters |-> Idle]
  /\ open = [r \in Readers |-> Closed]
  /\ announced = {}
  /\ missed = "nothing" /\ overtaken = FALSE
-----------------------------------------------------------------------------
(* The main thread.  It takes up new work when it has none, or while the   *)
(* running call waits for the peer, which pumps the event loop; a snapshot *)
(* waits on a condition variable and pumps nothing.                        *)
Running == Last(stack)
AtTop(call, at) == stack # <<>> /\ Running.call = call /\ Running.at = at
LoopRuns ==
  Len(stack) < MaxDepth /\ (stack # <<>> => Running.at = "remote")
Frame(call, offer, at, got) ==
  [call |-> call, offer |-> offer, at |-> at, got |-> got]
Call(call, offer, at) == stack' = Append(stack, Frame(call, offer, at, {}))
Proceed(at) == stack' = [stack EXCEPT ![Len(stack)].at = at]
Return == stack' = Front(stack)

Bounded ==
  Cardinality({r \in Pasters : paste[r].at # "idle"})
    + Cardinality({r \in Readers : open[r].at # "idle"}) < MaxRequests
Waiting(r) == paste[r].at \in {"posted", "rendering", "streaming"}
Rendering ==
  \E i \in DOMAIN stack : stack[i].call = "render" /\ stack[i].at = "remote"

(* What replaces the published bundle drops the streams under way and the  *)
(* cache of rendered targets, and changes what the waiting pastes may get. *)
Replaced(p, bundle) ==
  [r \in Pasters |->
     IF ~ Waiting(r) THEN p[r]
     ELSE [p[r] EXCEPT !.seen = @ \cup {bundle},
                       !.left = 0,
                       !.excused = @ \/ p[r].at = "streaming"]]
Replace(bundle) ==
  paste' = Replaced(paste, bundle) /\ overtaken' = Rendering
-----------------------------------------------------------------------------
(* publishBundle().  An offer with a file list is listed first, by a read  *)
(* of the peer.  Then, under the mutex, the bundle and its publication     *)
(* replace the old ones; a bundle without files takes the publication away.*)
Promised(offer) == IF offer \in FileOffers THEN offer ELSE None
Faulty_Installed(e, offer) ==
  [e EXCEPT !.published = offer, !.publication = Promised(offer),
            !.registered = @ \cup ({Promised(offer)} \ {None})]
Installed(e, offer) ==
  [e EXCEPT !.published = offer, !.publication = Promised(offer),
            !.registered = @ \cup ({Promised(offer)} \ {None}),
            !.cache = None]

Publish ==
  /\ LoopRuns /\ peer.next \in Offers
  /\ peer' = [peer EXCEPT !.next = @ + 1]
  /\ IF peer.next \in FileOffers
     THEN /\ Call("publish", peer.next, "remote")
          /\ UNCHANGED <<ep, paste, overtaken>>
     ELSE /\ Call("publish", peer.next, "set")
          /\ ep' = Installed(ep, peer.next)
          /\ Replace(peer.next)
  /\ UNCHANGED <<native, notices, open, announced, missed>>

PublishListed ==
  /\ AtTop("publish", "remote")
  /\ \/ /\ ep' = Installed(ep, Running.offer)
        /\ Replace(Running.offer)
        /\ Proceed("set")
     \/ Return /\ UNCHANGED <<ep, paste, overtaken>>
  /\ UNCHANGED <<native, notices, open, peer, announced, missed>>

(* Then the old provider is unregistered and the targets are offered to    *)
(* the selection, which may tell of the new owner, ourselves.              *)
Unregistered(e) == [e EXCEPT !.registered = @ \cap {e.publication}]
PublishOffers ==
  /\ AtTop("publish", "set")
  /\ ep' = Unregistered(ep)
  /\ native' = [native EXCEPT !.owner = "us"]
  /\ \/ UNCHANGED notices
     \/ notices' = Append(notices, "changed")
  /\ Proceed("offered")
  /\ UNCHANGED <<paste, open, peer, announced, missed, overtaken>>

PublishRefused ==
  /\ AtTop("publish", "set")
  /\ ep' = IF Running.offer \in FileOffers
           THEN [ep EXCEPT !.publication = None, !.registered = {}]
           ELSE Unregistered(ep)
  /\ Return
  /\ UNCHANGED <<native, notices, paste, open, peer, announced,
                 missed, overtaken>>

(* The books are kept after the call: a change noticed in between is       *)
(* taken for our own.                                                      *)
MissedTo(what) == missed' = what /\ announced' = {}
Booked(e) == [e EXCEPT !.pending = FALSE]
PublishBooked ==
  /\ AtTop("publish", "offered")
  /\ ep' = Booked(ep)
  /\ IF ep.pending THEN MissedTo("overlap") ELSE UNCHANGED <<missed, announced>>
  /\ Return
  /\ UNCHANGED <<native, notices, paste, open, peer, overtaken>>
-----------------------------------------------------------------------------
(* The selection.  A local copy takes it; the library tells of it, and of  *)
(* the ownership we lose, in either order.                                 *)
Copy ==
  /\ native.copies < MaxCopies
  /\ native' = [owner |-> "them", copies |-> native.copies + 1]
  /\ IF native.owner = "us"
     THEN \E told \in {<<"lost", "changed">>, <<"changed", "lost">>} :
            notices' = notices \o told
     ELSE notices' = Append(notices, "changed")
  /\ UNCHANGED <<ep, stack, paste, open, peer, announced, missed,
                 overtaken>>

(* A notice marks a change; a snapshot that is open does not see it.       *)
Noted(what) ==
  /\ notices # <<>> /\ Head(notices) = what
  /\ notices' = Tail(notices)
  /\ IF \E i \in DOMAIN stack : stack[i].call = "pump"
     THEN MissedTo("overlap")
     ELSE UNCHANGED <<missed, announced>>
  /\ UNCHANGED <<native, stack, open, peer>>

Faulty_TargetsChanged ==
  /\ Noted("changed")
  /\ ep' = [ep EXCEPT !.pending = @ \/ ep.published = None]
  /\ UNCHANGED <<paste, overtaken>>
TargetsChanged ==
  /\ Noted("changed")
  /\ ep' = [ep EXCEPT !.pending = TRUE]
  /\ UNCHANGED <<paste, overtaken>>

OwnerLost ==
  /\ Noted("lost")
  /\ ep' = [ep EXCEPT !.pending = TRUE, !.published = None,
                       !.publication = None, !.cache = None,
                       !.registered = @ \ {ep.publication}]
  /\ Replace(None)
-----------------------------------------------------------------------------
(* ClipboardRuntimeService::pumpOnce(): a pending change is read from the  *)
(* selection and announced.  requestTargets() and requestTargetData() give *)
(* up after a time; a target that we own ourselves would have to be        *)
(* rendered by this thread.                                                *)
Snapshots == {{}} \cup (IF native.owner = "them" THEN {{native.copies}} ELSE {})
PumpReads ==
  /\ LoopRuns /\ ep.pending
  /\ \E got \in Snapshots :
       /\ stack' = Append(stack, Frame("pump", None, "read", got))
       /\ IF got = {} THEN MissedTo("overlap")
          ELSE missed' = "nothing" /\ UNCHANGED announced
  /\ UNCHANGED <<native, notices, ep, paste, open, peer, overtaken>>

(* The change is consumed, whatever was read and noticed in the meantime,  *)
(* and before what was read is announced.  The policy may deny that, and   *)
(* announceLocalBundle() fail, when the module does not run or the packet  *)
(* cannot be sent: nothing tries it again.                                 *)
Consumed(e) == [e EXCEPT !.pending = FALSE]
PumpEnds ==
  /\ AtTop("pump", "read")
  /\ ep' = Consumed(ep)
  /\ \/ Running.got = {} /\ UNCHANGED <<announced, missed>>
     \/ Running.got # {} /\ announced' = Running.got /\ UNCHANGED missed
     \/ Running.got # {} /\ MissedTo("refusal")
  /\ Return
  /\ UNCHANGED <<native, notices, paste, open, peer, overtaken>>
-----------------------------------------------------------------------------
(* handleTargetRequest() posts the request of a local application to the   *)
(* main thread.                                                            *)
RequestTarget(r, target) ==
  /\ Bounded /\ paste[r].at = "idle" /\ native.owner = "us"
  /\ \A q \in Pasters : q < r => paste[q].at # "idle"
  /\ paste' = [paste EXCEPT ![r].at = "posted", ![r].target = target,
                            ![r].seen = {ep.published}]
  /\ UNCHANGED <<native, notices, ep, stack, open, peer, announced,
                 missed, overtaken>>

Streaming(p, bytes) ==
  [p EXCEPT !.at = "streaming", !.got = bytes, !.left = Chunks]
Faulty_Failed(p) == p
Failed(p) == [Idle EXCEPT !.at = "failed"]

(* A target that is at hand: the paths of the publication, or the cache.   *)
AtHand(target) == IF target = "uris" THEN ep.publication ELSE ep.cache
HasText(offer) == offer \in Offers \ FileOffers
Begin(r, offer, at) ==
  stack' = Append(stack, Frame("render", offer, at, {r}))
RenderAtHand(r) ==
  /\ LoopRuns /\ paste[r].at = "posted" /\ AtHand(paste[r].target) # None
  /\ Begin(r, AtHand(paste[r].target), "stream")
  /\ paste' = [paste EXCEPT
       ![r].at = "rendering",
       ![r].excused = @ \/ (paste[r].target = "text" /\ overtaken)]
  /\ UNCHANGED <<native, notices, ep, open, peer, announced, missed,
                 overtaken>>

(* A target that has to be read from the peer, or that nobody offers.      *)
Render(r) ==
  /\ LoopRuns /\ paste[r].at = "posted" /\ AtHand(paste[r].target) = None
  /\ IF paste[r].target = "text" /\ HasText(ep.published)
     THEN /\ paste' = [paste EXCEPT ![r].at = "rendering"]
          /\ Begin(r, ep.published, "remote")
     ELSE paste' = [paste EXCEPT ![r] = Failed(@)] /\ UNCHANGED stack
  /\ UNCHANGED <<native, notices, ep, open, peer, announced, missed,
                 overtaken>>

(* What was read goes into the cache, when it is small.                    *)
Rendered ==
  /\ AtTop("render", "remote")
  /\ \/ /\ ep' \in {ep, [ep EXCEPT !.cache = Running.offer]}
        /\ Proceed("stream")
        /\ UNCHANGED paste
     \/ /\ \E r \in Running.got : paste' = [paste EXCEPT ![r] = Failed(@)]
        /\ Return
        /\ UNCHANGED ep
  /\ UNCHANGED <<native, notices, open, peer, announced, missed,
                 overtaken>>

(* The mutex was free since the target was taken.  Its stream is entered   *)
(* and begun, when the application still waits for it.                     *)
StreamBegins ==
  /\ AtTop("render", "stream")
  /\ \E r \in Running.got :
       \/ paste' = [paste EXCEPT ![r] = Streaming(@, Running.offer)]
       \/ paste' = [paste EXCEPT ![r] = Failed(@)]
  /\ Return
  /\ UNCHANGED <<native, notices, ep, open, peer, announced, missed,
                 overtaken>>

(* handleStreamReady(): the next chunk, or the end of the stream, which is *)
(* also what a stream that is no longer there comes to.                    *)
Ended(p) ==
  IF p.excused THEN [Idle EXCEPT !.at = "ok", !.excused = TRUE]
  ELSE [Idle EXCEPT !.at = "ok", !.got = p.got,
                    !.sent = p.sent, !.seen = p.seen \cap {p.got}]
Chunk(p) ==
  IF p.left = 0 THEN Ended(p)
  ELSE [p EXCEPT !.left = @ - 1, !.sent = @ + 1]
StreamReady(r) ==
  /\ paste[r].at = "streaming"
  /\ paste' = [paste EXCEPT ![r] = Chunk(@)]
  /\ UNCHANGED <<native, notices, ep, stack, open, peer, announced,
                 missed, overtaken>>
-----------------------------------------------------------------------------
(* handleFusePromiseRead(): a read of a path under an old or the present   *)
(* publication is resolved by its node in the present one.                 *)
ReadPath(r, path, node) ==
  /\ Bounded /\ open[r].at = "idle"
  /\ path \in ep.registered /\ node \in NodesOf[path]
  /\ open' = [open EXCEPT ![r] = [at |-> "called", path |-> path,
                                  via |-> None, node |-> node, got |-> None]]
  /\ UNCHANGED <<native, notices, ep, stack, paste, peer, announced,
                 missed, overtaken>>

Unread == [Closed EXCEPT !.at = "failed"]
Faulty_Resolved(o) ==
  IF ep.publication # None
  THEN [o EXCEPT !.at = "posted", !.via = ep.publication]
  ELSE Unread
Resolved(o) ==
  IF ep.publication # None /\ o.node \in NodesOf[ep.publication]
  THEN [o EXCEPT !.at = "posted", !.via = ep.publication]
  ELSE Unread
ResolvePath(r) ==
  /\ open[r].at = "called"
  /\ open' = [open EXCEPT ![r] = Resolved(@)]
  /\ UNCHANGED <<native, notices, ep, stack, paste, peer, announced,
                 missed, overtaken>>

(* The object is locked, read and unlocked on the main thread, by the      *)
(* identity that the node had in its publication.                          *)
ReadFile(r) ==
  /\ LoopRuns /\ open[r].at = "posted"
  /\ open' = [open EXCEPT ![r].at = "reading"]
  /\ stack' = Append(stack, Frame("file", open[r].via, "remote", {r}))
  /\ UNCHANGED <<native, notices, ep, paste, peer, announced, missed,
                 overtaken>>

Answers(o, offer) == {[o EXCEPT !.at = "ok", !.got = offer], Unread}
FileRead ==
  /\ AtTop("file", "remote")
  /\ \E r \in Running.got : \E answer \in Answers(open[r], Running.offer) :
       open' = [open EXCEPT ![r] = answer]
  /\ Return
  /\ UNCHANGED <<native, notices, ep, paste, peer, announced, missed,
                 overtaken>>
-----------------------------------------------------------------------------
MainReturns ==
  \/ PublishListed \/ PublishOffers \/ PublishRefused \/ PublishBooked
  \/ PumpEnds \/ Rendered \/ StreamBegins \/ FileRead
Library == TargetsChanged \/ OwnerLost

Next ==
  \/ Publish \/ Copy \/ PumpReads \/ MainReturns \/ Library
  \/ \E r \in Pasters :
       \/ \E target \in Targets : RequestTarget(r, target)
       \/ RenderAtHand(r) \/ Render(r) \/ StreamReady(r)
  \/ \E r \in Readers :
       \/ \E path \in FileOffers : \E node \in NodesOf[path] :
            ReadPath(r, path, node)
       \/ ResolvePath(r) \/ ReadFile(r)

(* Every remote read and every wait of the endpoint ends at its timeout,   *)
(* the event loop takes up what is posted to it, and the threads of the    *)
(* libraries run.                                                          *)
Fairness ==
  /\ WF_vars(MainReturns) /\ WF_vars(Library)
  /\ \A r \in Pasters : /\ WF_vars(RenderAtHand(r) \/ Render(r))
                        /\ WF_vars(StreamReady(r))
  /\ \A r \in Readers : WF_vars(ResolvePath(r)) /\ WF_vars(ReadFile(r))
Spec == Init /\ [][Next]_vars /\ Fairness
-----------------------------------------------------------------------------
(* What a local application is given is a whole target of an offer that    *)
(* was published while it waited, unless a publication or the loss of the  *)
(* selection cut into its stream or into a rendering before it: the cache  *)
(* and the streams belong to one published bundle (renderNativeTarget,     *)
(* handleStreamReady).                                                     *)
PasteGetsWhatWasOffered ==
  \A r \in Pasters :
     paste[r].at = "ok" /\ ~ paste[r].excused =>
       paste[r].got \in paste[r].seen /\ paste[r].sent = Chunks

(* The paths of one publication are served at a time: but for the moment   *)
(* between its two sections in publishBundle(), an offer that was replaced,*)
(* refused or lost keeps no provider.  A read of an old path is given a    *)
(* file of the present offer only where both list one at the same place,   *)
(* and nothing otherwise (publishBundle, handleOwnerLost,                  *)
(* handleFusePromiseRead).                                                 *)
OldPathsServeOnlySharedPlaces ==
  /\ AtTop("publish", "set") \/ ep.registered \subseteq {ep.publication}
  /\ \A r \in Readers :
       open[r].at = "ok" => open[r].node \in NodesOf[open[r].got]

(* What a reader may expect on top: a promised path serves the offer it*)
(* was published for, or nothing.  The code does not keep it for two offers*)
(* that list a file at the same place (handleFusePromiseRead).             *)
PathServesItsOffer ==
  \A r \in Readers : open[r].at = "ok" => open[r].got = open[r].path

(* When nothing is under way, what was announced last is what was copied   *)
(* last, unless a change came while the one before was being read, or an   *)
(* offer published, or it could not be read, or its announcement was denied*)
(* or failed (pumpOnce, publishBundle).                                    *)
Quiescent ==
  stack = <<>> /\ notices = <<>> /\ ~ ep.pending /\ native.owner = "them"
ChangeMissedOnlyToOverlapOrRefusal ==
  Quiescent /\ missed = "nothing" => announced = {native.copies}

(* What the documents ask on top: what could not be announced is announced *)
(* after the rebind.  The code announces again what it announced last      *)
(* (resumeAfterReconnect), and the change that was refused is consumed.    *)
RefusedChangeIsAnnounced ==
  Quiescent /\ missed # "overlap" => announced = {native.copies}

(* Every request for a target and every read of a promised path ends,      *)
(* also those that wait while the main thread is blocked in a snapshot or  *)
(* in other requests (completeTargetRequestAsync, failPendingTargetRequest,*)
(* handleFusePromiseRead).                                                 *)
EveryRequestEnds ==
  /\ \A r \in Pasters : paste[r].at = "posted" ~> paste[r].at \in {"ok", "failed"}
  /\ \A r \in Readers : open[r].at = "called" ~> open[r].at \in {"ok", "failed"}
=============================================================================
