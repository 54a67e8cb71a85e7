# FusionDesk in TLA+

FusionDesk is a remote desktop in C++ whose `src/src/core`, `src/src/runtime`
and `src/src/modules` hold the protocol: sessions, channels, modules
and the reconnect machinery that keeps them going when a link is lost.  This
project specifies that machinery in TLA+, checks it with TLC on small
instances and proves the main invariants with TLAPS for every instance.

## The system

| Component | State | Operations | Hard because | Correct when |
|---|---|---|---|---|
| request tracker (`core/network/request_tracker.cpp`) | pending requests, next id | track, complete, cancelByChannel, expire | late and duplicate answers, timers, ids that wrap | each call has one terminal answer |
| channel registry, router, scheduler, manager (`core/network`) | entry per channel, link per channel, queue | register, bind, rebind, mark, enqueue, flush | two tables written one after the other; limits shared by priorities | ready means routed; backlog bounded; nothing but stale frames is dropped |
| module host and ingress (`core/module`) | module states, subscriptions | mount, batch start, pause, replay, resume, stop | batches that fail half way, repeated starts | a running module hears each route once |
| session (`core/session`) | session state, reconnect report | start, reconnect, stop | a reconnect touches channels and modules, each of which may fail | the report is true; a reconnect returns |
| reconnect coordinator and teardown (`runtime/connection`) | plan, responses, tracker, expired counter | run, answer, expire, stop | overlapping runs, lost answers, timers, restarts | each request is settled once; ok means the peer said so |
| Qt transports (`runtime/qt`) | active, pending and retired sockets | prepare, commit, close | partial failure of a preparation or a commit | the live link is never the one closed |
| bring-up of a session (`apps/pc/common`, `runtime/connection`): peer profile and module inventory exchange | phase of each shell, listeners, dialled channels, agreed codec | ask, negotiate, listen, dial, mount, compare, start | bounded waits on both sides, processes that end, a second client | ok means listening; modules start against the real peer; every bring-up settles |
| clipboard (`modules/clipboard`, `runtime/feature`) | formats, locks, reads, reservations, blocked calls | copy, announce, read, lock, acknowledge, cancel | blocked calls pump the event loop and nest; both peers number their requests alike | a call returns its own content and never spins; window and registry keep their books |
| Linux clipboard endpoint (`platform/linux/clipboard`) | published bundle and its publication, cache, streams, pending change | publish, render, stream, resolve a path, notice, snapshot | three kinds of threads, waits that nest, callbacks of the selection library | a paste gets a whole offered target; an old path serves another offer only at a place both list; a change is lost only to a named overlap or refusal |
| display (`modules/display`, `runtime/display`) | frame numbers, decoder, capture backend, recovery | capture, send, keyframe, switch backend, show | dropped deltas, failing backends, reconnects, decoders that hold frames back | no delta without its base; the picture at rest is the desktop |
| codecs of the display (`runtime/display`) | preferences and capabilities | select, negotiate, pin | two negotiations from different lists | both sides run one codec |
| session manager, runtime host | sessions by id | create, find, stop | duplicate ids, shutdown order | every session is stopped once |
| input (`modules/input`) | pressed keys, focus | event, release | loss of focus, reconnect | nothing stays pressed |
| protocol (`core/protocol`) | decoder buffer, capabilities | encode, decode, negotiate | partial frames, limits | both peers choose the same |
| tunnel, other platforms, adapters, apps | operating system resources | I/O | | |

A session owns a `NetworkManager` (registry, router and scheduler) and a
`ModuleHost`; the host subscribes modules with the router through the ingress
registry.  `SessionMainline` binds the channels, mounts and starts
modules.  When links degrade, the reconnect coordinator has new transports
prepared, calls `Session::reconnect` and then asks the peer to close the old
transports; a tracker and a QTimer watch over the answers.  The rest of the
runtime talks to these by synchronous calls on one thread: what interleaves
are the calls of timers, sockets and the shell, the packets of the peer, and
what modules do when they are called back.  The display and clipboard modules
are pumped by services of `runtime/display` and `runtime/feature`.  A paste of
remote content blocks in a service that pumps the event loop while it waits, and
the Linux clipboard endpoint adds threads of its own under a mutex.

## The modules

| Module | Models | Based on |
|---|---|---|
| `CallLifecycle` | what the owner of a call may rely on (abstract) | |
| `Tracking` | ids, kinds and tables of a request tracker | |
| `RequestTracker` | `RequestTracker` with its callers, peers and clock | `Tracking`, implements `CallLifecycle` |
| `ChannelRegistry` | the registry's entries and transitions | |
| `NetworkManager` | registry, router and scheduler together | `ChannelRegistry` |
| `ModuleHost` | modules, batch starts, ingress tokens | |
| `Session` | the session over registry and host | `ChannelRegistry`, `ModuleHost` |
| `ReconnectTeardown` | run, teardown requests, peer, timer, report | `Tracking` |
| `TransportConnector` | the Qt transports of a session: active, pending, retired | `ChannelRegistry` |
| `ClipboardRegistry` | the transfer source registry and the large-data window, as operators | |
| `Clipboard` | two peers' clipboard modules, announcer and blocking remote reader | `ClipboardRegistry` |
| `LinuxClipboard` | the Linux endpoint with its threads, selection and promised paths | |
| `DisplaySelection`, `DisplayRecovery` | backend selection and failover, recovery plan, as operators | |
| `Display` | capture, agent module, client module, decoder, both services, the link between | `DisplaySelection`, `DisplayRecovery` |
| `DisplayCodec` | codec selection, negotiation and pinning, as operators | |
| `Bringup` | two shells that negotiate, mount and start | `DisplayCodec` |
| `*Proofs` | the theorems about the module of that name; `DisplayTrackerProofs` about `Display` and `RequestTracker`, in which the viewer keeps its requests for a keyframe | |
| `MC*` | the values the runs give to the constants | |

State and actions.  Each variable is a member of the C++ class, or several
members that are always written together, and its declaration names it.  An
action is a whole handler.  Packets, payloads, messages and diagnostics texts
are left out; a packet is its channel, type, key frame flag and a sequence number that
identifies it, a request its id, a link a model value with the key of its
channel.  A `Faulty_` operator is a plausible mistake in the operator it
precedes: it is used by nothing, and the runs find every one of them when it
takes the place of the right one.

`RequestTracker`.  `pending` is `pending_`, `heard` what each handler has been
given.  Ids are taken modulo `IdModulus` (2^64 in the code); 0 is skipped,
and the table refuses an id that is in use.  Message kinds are abstracted to
what the tracker asks of them.  Handlers run as part of the step, because
every handler of the repository only records the answer.

`NetworkManager`.  `entries` are the registry's, `routes` the router's channels,
`queued` the scheduler's queues as a set of packets with sequence numbers
(a queue is the packets of a lane in the order of `seq`).  Packet types determine
priority, limit and drop policy as `defaultSendOptions()` does; `result` is
what the last call returned.

`ModuleHost` and `Session`.  A subscription is a token with the number of the
registration that made it, so that a token left behind by an earlier
registration can be told from a new one.  `Session::reconnect` is one synchronous call in the
code; the model takes it in the steps at which `session.state_changed` is
published, and no other call starts in between.  A module whose `start()` may
fail is in `Fallible`.  `startAllowedModules` starts all mounted modules, which
then have to be `Startable`, or rolls back; with `allowPartialStart` it starts
what it can (`StartsPartly`).  A channel in `Bare` is bound without being marked
ready.  A request may name several links for one channel, because
`Session::reconnect` does not compare their keys: they are rebound in turn, and the
last that succeeds is the route.

`ReconnectTeardown`.  One run sends one request per channel; requests and
replies are sets on the link, answered in any order, lost with the link or
because the peer's handler is not started or cannot send.  Two runs may
overlap: the dispatcher forgets the plan, the tracker does not.  The clock
`sentAt` is kept beside the deadline because the code computes the latter
from a stamp that is always 0.

`TransportConnector`.  A link is a TCP transport with the `QtPacketChannel`
made for it.  `active` and `pending` are the connector's maps; of the retired
list only the keys are kept, for its weak pointers lead to transports that are
closed.  No call of the manager lets Qt process events while it waits, so every call is
one step, and between two calls the peer may close any link.
`ConnectTcpChannel` stands for one profile of its call, because no profile depends on
another; for the calls that prepare replacements it does matter that a key may be
named twice, and `Final` and `Superseded` state what the loop over the
profiles comes to.  `ReconnectSession` is the caller that takes the
replacements it was given to the session itself, as the header allows; the
connector then learns nothing of it.  `ReleaseSession` is what the owner of
the session calls last, and nothing is assumed to follow it.
`Session::reconnect` appears by its effect on the tables; `Session` has its steps.

`ClipboardRegistry` and `Clipboard`.  `peer[p]` is one side: the members of the
module, of the announcing service and of the reader, with `calls`, the remote
calls blocked inside one another, of which only the innermost polls.  `slot` is
`lastReadResult` and its siblings with `lastReadResponseTo`: one place per kind
of call, which every handler writes.  An offer number, not the bundle, is the
key of the registry, as in the code.  A handler is an effect: the side it
leaves and the packets it sends.  `Lose`, `PauseForReconnect`, `Rebind` and
`ResumeAfterReconnect` are what a session's reconnect does to the module.
The native clipboard behind it may refuse to publish.

`LinuxClipboard`.  `ep` is what the mutex guards.  `stack` holds the calls open on the main
thread: a wait for a remote read pumps the event loop and so may take up a publication,
another rendering or a file read; a snapshot waits on a condition variable and
takes up nothing.  `paste` and `open` are the requests of local applications
with their streams; between the answer to a rendering and the begin of its
stream the mutex is free, and `StreamBegins` is a step of its own.  The pump
consumes a change before it announces it, and an announcement that the policy
denies or the link refuses is not repeated.  The selection library (clipbus, external) delivers its notices in order,
late, and from its own thread.  `missed`, `overtaken` and `excused` are
history: they say when the endpoint's own bookkeeping gave something up, and
appear in the properties only.

`Display`.  A frame is its capture object, its number, whether it is a keyframe and the
content of the desktop it shows.  Handlers that capture on their way are sets of
outcomes, because capture, decoder and renderer may fail.  `CaptureDxgi`,
`CaptureWgc` and `CaptureGdi` are the three Windows backends by what they
return on a desktop at rest; a capture that fails closes the backend or, when
the frame had been acquired, leaves it open with that frame lost.  Deadlines, cooldowns and recovery windows pass at
any time.

`DisplayCodec` and `Bringup`.  `Agreement` and `Confirmed` are the two negotiations,
the agent's and the client's from the pinned requests, as functions of the options of both.
Messages of the control connection are two queues in order; an agent outlives
its clients.  An inventory is the version of the modules it lists, a client's
as well as the agent's: a client compares always, and an agent that has waited for
the inventory starts only when it accepts the client's version.  A shell is
a sequence of bounded waits, each of which ends in a step or with the process.

## The runs

| Run | Expects | Shows |
|---|---|---|
| `request_tracker` | pass | type, `TrackedExactlyOnce`, `EveryCallCloses`, and that `RequestTracker` implements `CallLifecycle` |
| `network_manager` | pass | type, `BacklogBounded`, `ReadyMeansRouted`, `PressureNeverUnderstates`, `OnlyStaleDeltasDropped` |
| `session` | pass | type, `IngressExactlyOnce`, `ReportHonest`, `StopSilences`, `EveryReconnectReturns` |
| `reconnect_teardown` | pass | type, `SummaryIsSound`, `SettledOnce`, `ReportOwnsLosses`, `EveryTeardownEnds` |
| `transport_connector` | pass | `NoStrayTransport`, `TeardownHonest`, `ReconnectSettled`, `LiveUntilRebound` |
| `clipboard` | pass | `ReadReturnsOwnContent`, `WindowMatchesReservations`, `RegistryIsSound`, `ContentRespectsPolicy`, `AnswerLostOnlyToOverlap`, `PasteNeverSpins` |
| `paste_crosses` | violation | when both sides paste, a read may return what another request was answered |
| `display` | pass | `RecoveryIsBounded`, `QuietPictureIsCurrent`, `DeltaFollowsItsBase` |
| `stale_after_switch` | violation | the keyframe of a new capture object is dropped as stale |
| `bringup` | pass | `OkMeansListening`, `FirstPairAgrees`, `StartedAgainstRealPeer`, `BringupSettles` |
| `linux_clipboard` | pass | `PasteGetsWhatWasOffered`, `OldPathsServeOnlySharedPlaces`, `ChangeMissedOnlyToOverlapOrRefusal`, `EveryRequestEnds` |
| `stale_path` | violation | when two offers list a file at the same place, a path of the first is given a file of the second |

Some definitions state what a document says and the code does not do; they
stand beside their modules and can be checked by adding them to a
configuration: `CriticalBypassesBacklog` (`NetworkManager`),
`OnlyRunningModulesReceive` (`Session`), `OnlyTimedOutExpire` and
`ReportTellsTeardown` (`ReconnectTeardown`), `OldClosedOnlyAfterRebind`
(`TransportConnector`), `CaptureClosedWhenStopped` (`Display`),
`LocksEndWithTheirRequest` (`Clipboard`), `CodecsAgree` (`Bringup`) and
`RefusedChangeIsAnnounced` (`LinuxClipboard`): the clipboard documents ask that a copy
made while the link is down be announced after the rebind
(`CLIPBOARD_REDIRECTION_FOUNDATION.md`, `LINUX_CLIPBOARD_IMPLEMENTATION_PLAN.md`),
and the change that was refused has been consumed by then.
`TerminalIsLast` (`RequestTracker`) and `DecoderSuitsBoth` (`Bringup`) hold
and follow from properties that the runs check.

Bounds.  `request_tracker`: `IdModulus` is 3, so the ids are 1 and 2 before they
wrap (0 is skipped), and an id comes round again while calls with it are pending; each call is issued once, the
clock stops after every deadline has passed.  `network_manager`: the depth
limits keep the order of `defaultSendOptions()` (video 2, critical 256, bulk 512,
interactive and normal 1024) at 2, 3, 3, 4 and 4; no bulk packet is sent, three links of which two compete for one
channel, `MaxPackets` packets (enough to fill the video or critical limit and push one more) and
`MaxChanges` changes of the tables.  `session`: the agent's two modules, one with
two routes on different channels, a registered and an unregistered channel,
a spare link that may be bound without being marked ready, `MaxCalls` binds, starts and reconnects,
and up to `MaxDegraded` degraded channels in a request; the shortest
counterexample of any mutant needs fewer.  `reconnect_teardown`: two channels, ids
for two full runs, and a clock with values before, at and after a deadline.
`transport_connector`: four transports of one channel and one of a channel
that is registered only when it is bound, two profiles in a call: enough for a
live transport, a call that names its key twice, and a retry.  Its
behaviours end when all transports have been made.
`clipboard`: each side copies once, under the same offer number; one side makes
two remote calls of every kind, one inside the other if it likes, with a window
of one range and one loss or stop: two calls are what crosses results, and the
far side of a call serves everything a caller may ask.  `paste_crosses` lets both sides
call.  `display`: three contents, the last of another size, five
frames of one capture object, two objects, two keyframe requests and two
failures or disruptions: a frame can be dropped, the gap noticed, the request
lost and repeated, and the backend be switched.  `bringup`: two
clients in turn, seven requests and four agents, which include every codec
outcome, an endpoint taken, doubled or of the wrong session.
`linux_clipboard`: two offers, one or both with files, which list a file at the same
place while the first lists another beside it, two
requests in all of two applications and one reader of a path, one local copy, two calls open at once:
a publication or a copy can fall between any two steps of a rendering, a stream
or a path.
Every bound is a constant with "bound" in its comment.  Sets of
interchangeable model values are declared symmetric in the runs without
liveness.  Deadlock is not checked where a bounded behaviour ends with
everything answered, bound or stopped, as the code may, too.

Fairness.  `Tick` and `Expire` are weakly fair: `QtTimerBridge` runs a repeating
QTimer that calls `expire()` for as long as the service is active, and time passes.
`ReconnectStep` is weakly fair: a synchronous call runs to its end.
`AgentStep` and `ClientStep` of `Bringup` are weakly fair, each as a whole: a
shell is an event loop with a timer behind every wait.  In `LinuxClipboard` the
returns of the main thread are weakly fair, because each remote read and each
wait has a timeout; the library's notices and the helper threads, because
threads run; and taking up a posted request, one by one, because the event loop
takes posted calls in order.  Nothing is assumed of the peer, of links or
of the user.  `Clipboard` and `Display` state no fairness: `PasteNeverSpins`
says as an invariant that a blocked loop always has a way out, and `QuietPictureIsCurrent`
what holds whenever nothing is under way.

## What is proved

The theorems hold for all values of the constants that satisfy the named
assumptions (`TrackingAssumption`, `NetworkAssumption`, `SessionAssumption`,
`TeardownAssumption`, `ConnectorAssumption`, `OffersAssumption`,
`BringupAssumption`, `ClipboardAssumption`, `DisplayAssumption`,
`RecoveryLimitAssumption`: finite or typed sets, positive limits, the first id
within the id space).  Every one follows from an inductive invariant.

- `DisplayTrackerProofs`, the tracker: `InvHolds` for `Inv`, which adds to the three
  invariants that a refused call hears nothing (`RefusedIsSilent`): without it
  a call refused and then found in the table could not be excluded.
  `TypeCorrect`, `TerminalOnce` and `NeverLost` are its conjuncts;
  `RefinesLifecycle` maps every step to a step or a stutter of
  `CallLifecycle` under the mapping `phase`.
- `DisplayTrackerProofs`, the display: a handler that captures is a set of
  outcomes, so the lemmas say what each outcome of `Open`, `CaptureNextFrame`,
  `SendFrame`, `StartAgent`, `Reopened`, `Recover`, `Decode` and `Shown` is
  (`OutcomeOk`, `CaptureOk`, `AsksOk`), and the handlers follow from them.
  `RecoveryStaysBounded` is inductive with the types: an attempt is planned
  below the limit, and counted only then.  `DeltasFollowTheirBase` is the action
  property: a picture is replaced only by one that `Follows` it.
  `QuietPicturesAreCurrent` is about where the frame is that the backend saw
  last.  While nothing has failed (`CalmInv`), the newest frame on its way, held
  back or shown has that content, or a keyframe has been asked for and not yet
  answered (`UpToDate`).  For a dropped delta that needs the gap it leaves to be
  noticed, hence numbers that rise along the way (`InOrder`), and for the keyframe a
  backend that is open and has something to answer with (`Steady`): a
  timeout never leads to a recovery (`CalmRecovers`).
- `NetworkManagerProofs`: `BoundedBacklog` is inductive for one limit at a time
  (`WithinDepth`), because the code compares the packets of all lanes with the
  limit of the newcomer; `PressureIsHonest` and `ReadyIsRouted` use the type
  invariant and lemmas on the cardinality of the queue; `AcceptedIsKept` is an
  action property.
- `SessionProofs`: `InvHolds` for the conjunction of the properties with the
  facts that tie tokens to registrations (the registration of a token is the
  one its module owns and is not from the future) and, for the report, what a
  reconnect in progress has already done: each channel whose link was rebound is
  routed over one of the replacements (`InPlace`, per channel).  `StoppedIsSilent` is an action
  property.
- `ReconnectTeardownProofs`: `InvHolds` for `SettledOnce` with three facts it
  needs: ids are handed out in order (`PendingIsOld`: a new run's ids are not
  pending), an ok, recorded or on its way, is the peer's word (`OkIsClosed`),
  and what is lost of any run is counted (`LossesCounted`).

- `TransportConnectorProofs`: `NothingStrays` (every open transport of a key is
  its active or its pending one) is inductive together with the type invariant,
  whose part `Table` says that each map files a transport under its own key.
  `TeardownAnswers` and `OkIsSettled` follow from it at the step that answers
  and survive while only the peer acts; `LiveKept` is the action property.
  `LastExists`, from the well-foundedness of `<` on `Nat`, gives the last
  profile of a key in a call of any length.

- `LinuxClipboardProofs`: `LinuxClipboardInvariant` for a conjunction with one
  part per property and one about the stack: a snapshot is always the last
  call (`StackInv`); every rendering serves a request of its own, with an offer that
  was published while the request waited (`RenderInv`); cache and publication are of
  the published bundle (`CacheInv`); an unannounced copy is told of, pending or
  missed, to an overlap or to a refusal (`ChangeInv`); a read is of a place that the
  publication it goes through lists (`FileInv`), and no other publication keeps a
  provider once its successor's is registered (`ProviderInv`).  Without `RenderInv` the answer of one rendering could be taken for
  another's.  Most actions leave each part alone, which the lemma `NothingNew`
  says once for the four ways to change the stack.
  `OldPathsAreServedOnlyAtSharedPlaces` assumes nothing of the places: two offers may
  list the same ones, as they do in the code, whose node ids start again with each
  offer.  What may then be served is shown by the run `stale_path`.

- `BringupProofs`: about the negotiation first.  `NegotiatedTogether` and `SelectedOnly`
  say that an agreement is two selections narrowed to one codec, `PinnedSelection`
  that a side pinned to its selection selects it again; with them
  `CodecsOfAPair` gives both sides one codec for every pair of options,
  whatever is probed.  Then about the protocol: `Speaks` says of every answer
  on its way or received that it is true of the agent as it is, and holds as long as
  the agent has handled one request (`handled = 1`); `RequestsInv` ties it to the
  client that waits, because the connection of an earlier one is gone.
  `FirstPairShareACodec` joins the two.

- `ClipboardProofs`: `ClipboardInvariant` for `Inv`, which says of each side and
  of the packets on their way to it what the handlers rely on.  The window is
  exact because a reservation is made once per request: `QueuesOk` has requests
  arrive in the order of their numbers, each newer than every reservation made.
  A success is permitted because an answer that says ok is one its sender may
  give (`ResponseOk`), of the kind of the request that waits for it, which the
  asking side was allowed to make (`PendingOk`); and because a result that one
  kind of call left behind can only be taken by a call of that kind.  A step of
  one side is `Leads`, `TakesOff` and `Appends`, and `StepKeeps` needs no more of
  it; each handler is one lemma about the effect it returns (`GoodEffect`).

  Nested pastes need a second invariant, `NestInv`.  For one side (`NestedOk`)
  it says that requests that wait belong to calls that block, that the stack
  is numbered from the bottom up, and that at most `before` requests older than
  a call wait: therefore the call on top leaves its loop once its own request
  has ended (`PastesDoNotSpin`).  Between the sides (`OrderOk`) it says that a
  request has at most one packet, itself or its answer on one of two channels, and
  that each channel answers in the order of the requests; `Spent` says that none
  is left once the answer was heard.  A call that never overlapped another
  then keeps its answer until it returns (`OverlapOk`), which is
  `AnswersAreLostOnlyToOverlap`.  `NextStep` reduces every action to what it
  does to the calls and packets (`Stepped`): seven changes of a stack
  (`Turns`), or an answer taken from a queue (`Hearing`).

  `OneSideReadsItsOwn` is about one side that pastes, `MaxCalls` of the other
  being 0: when both paste, the property is false (`paste_crosses`), for a cancel
  of the peer's request ends a request of one's own with the same number.  The place
  of the reads can name one request and hold the result of another, because
  every late response is noted there.  `OwnOk` says why no read takes it: while the
  answer to a read that has ended is still on its way, every request that
  waits is younger and what the place holds is no success.  Reads are
  answered over small_data alone (`KindsOk`: only ranges are large), whose order makes a
  late answer arrive before those of younger reads.

Only model-checked: the liveness properties under fairness, and the properties
that documents claim and the code does not have.
TLAPS reaches neither liveness under fairness nor ENABLED, and it cannot prove by
induction what a recursive definition computes; the specifications have no
recursive operators.

## Where code and documents disagree

See "findings" in `PROJECT.json`: `paste_crosses`, `stale_after_switch` and
`stale_path`.  What the definitions named under the runs say is claimed by a
document, too.

## The plan

Done: the modules above.  What would come next:

1. `TransportConnector` composed with `Session` and `ReconnectTeardown`: what
   the peer answers about the old transport against what each side has rebound.
2. `InputState`: ordering of input events over focus and control changes.
3. `SessionManager` with `RuntimeHost`; capability negotiation and module
   compatibility as pure operators checked against reference definitions; the
   tunnel executor's order of candidates.
4. `Clipboard` over `LinuxClipboard`: the endpoint in place of the native
   clipboard that may refuse.
5. The clipboard endpoints of Windows, macOS and Qt, on the pattern of
   `LinuxClipboard`.

## Not modelled

The bytes of packets, frames and sockets (`core/protocol/packet_codec.cpp`,
the codecs of `modules/*`, `adapters/qt`): they are conversions and I/O, and appear as
messages and as links that open and close.  User interface, product controller
(`pc_product_session_controller.cpp`, used by its tests only) and the test programs.
The clipboards of Windows and macOS and the Qt endpoint, input injection, drag
and drop (events without an answer), the H.264 codec itself, device handling of the
capture backends.  Of the Linux endpoint: `clearPublishedBundle` (called by tests
only), construction and destruction, conversion of formats, reading of local
files; that unregistering a provider does not wait for its reads is assumed of
the file system library.  Of the bring-up: wire format, diagnostics, command lines other than
the codec options.  Of the display: geometry in pixels, colours, monitors,
throughput counters.
The agent-side teardown dispatch (off in every caller), malformed
teardown requests, the selection of channels in
`reconnect_orchestration_plan.cpp`, the JSON files of transport profiles and the
creation of listeners, diagnostics texts and counters.  Handlers
of the tracker that call back into it: there are none yet.

What is modelled is about a seventh of the implementation's lines.  Close to
half of the rest is platform code, adapters and shells, which wrap the operating
system; much of the other half builds reports and serialises them.
