-------------------------- MODULE TransportConnector --------------------------
(***************************************************************************)
(* The Qt TCP transports of one session: QtSessionTransportConnector and    *)
(* the calls of QtRuntimeTransportManager that drive it                     *)
(* (src/src/runtime/qt/qt_transport_profile.cpp), over the channel registry *)
(* and the router.                                                          *)
(*                                                                          *)
(* A link is one transport with the QtPacketChannel made for it; its state  *)
(* is Open exactly when it is in "open".  Everything here runs on one       *)
(* thread and no call processes events while it waits, so each call is one  *)
(* step; between calls the peer may close any link.                         *)
(***************************************************************************)
EXTENDS ChannelRegistry, Naturals

CONSTANTS Keys,            \* channel keys of the profiles
          MinimumChannels, \* keys registered when the session is created
          Links, KeyOf,    \* transports that may be made, and the key of each
          MaxProfiles      \* bound: profiles in one call

ASSUME ConnectorAssumption ==
  /\ Keys \subseteq ChannelKey
  /\ MinimumChannels \subseteq Keys
  /\ NoLink \notin Links
  /\ KeyOf \in [Links -> Keys]
  /\ MaxProfiles \in Nat \ {0}

VARIABLES session,   \* Session::state_, between calls
          entries,   \* the registry's entries
          routes,    \* the router's channels
          open,      \* transports in state Open
          unused,    \* transports not made yet
          attached,  \* the manager has a connector for the session
          active,    \* activeTransports_
          pending,   \* pendingReconnectTransports_
          retired,   \* keys of retiredTransports_, whose transports are all closed
          offered,   \* profiles whose replacements a caller of prepare...() holds
          outcome    \* what the last call answered

vars == <<session, entries, routes, open, unused, attached, active, pending, retired,
          offered, outcome>>

Empty == [k \in {} |-> NoLink]
NoOutcome == [op |-> "none"]

Init ==
  /\ session = "Created"
  /\ entries = [k \in MinimumChannels |-> RegisteredEntry]
  /\ routes = Empty
  /\ open = {}
  /\ unused = Links
  /\ attached = TRUE
  /\ active = Empty
  /\ pending = Empty
  /\ retired = {}
  /\ offered = <<>>
  /\ outcome = NoOutcome

(* f with the links of g in place of its own. *)
Updated(f, g) ==
  [k \in DOMAIN f \cup DOMAIN g |-> IF k \in DOMAIN g THEN g[k] ELSE f[k]]

LinksIn(f) == {f[k] : k \in DOMAIN f}

(* replaceActiveTransport() for the links of g, none of them active before: *)
(* the old active transports are closed and retired.                        *)
Replaced(g) == {active[k] : k \in DOMAIN active \cap DOMAIN g}

MakeActive(g) ==
  /\ active' = Updated(active, g)
  /\ retired' = retired \cup (DOMAIN active \cap DOMAIN g)

-----------------------------------------------------------------------------
(* The session around the connector. *)
StartSession ==
  /\ session = "Created"
  /\ session' = "Running"
  /\ UNCHANGED <<entries, routes, open, unused, attached, active, pending, retired,
                 offered, outcome>>

StopSession ==
  /\ session # "Stopped"
  /\ session' = "Stopped"
  /\ UNCHANGED <<entries, routes, open, unused, attached, active, pending, retired,
                 offered, outcome>>

(* The socket reports a disconnect or an error, or a write on it fails. *)
CloseLink(link) ==
  /\ link \in open
  /\ open' = open \ {link}
  /\ UNCHANGED <<session, entries, routes, unused, attached, active, pending, retired,
                 offered, outcome>>

-----------------------------------------------------------------------------
(* bindTransport(): the registry and the router name the new channel before *)
(* markReady() refuses a transport that is not open; the connector keeps    *)
(* its old active transport then.                                           *)
BindTransport(link, alive) ==
  LET key == KeyOf[link]
      e   == Bound(IF key \in DOMAIN entries THEN entries[key] ELSE RegisteredEntry, link)
      new == [k \in {key} |-> link]
  IN /\ attached
     /\ link \in unused
     /\ unused' = unused \ {link}
     /\ entries' = Updated(entries, [k \in {key} |-> IF alive THEN MadeReady(e) ELSE e])
     /\ routes' = Updated(routes, new)
     /\ IF alive
        THEN /\ MakeActive(new)
             /\ open' = (open \ Replaced(new)) \cup {link}
        ELSE UNCHANGED <<active, retired, open>>
     /\ outcome' = NoOutcome
     /\ UNCHANGED <<session, attached, pending, offered>>

(* One profile of connectTcpChannels() whose open() succeeds; one whose     *)
(* open() fails changes nothing, and no profile depends on another.         *)
ConnectTcpChannel(link) == BindTransport(link, TRUE)

(* The accepted socket may be disconnected already. *)
AdoptTcpChannel(link) == \E alive \in BOOLEAN : BindTransport(link, alive)

-----------------------------------------------------------------------------
(* A profile names a key and the transport its open() makes, NoLink when    *)
(* open() fails.                                                            *)
Profile == [key : Keys, link : Links \cup {NoLink}]
Profiles == UNION {[1 .. n -> Profile] : n \in 1 .. MaxProfiles}

Opens(profiles, i) == profiles[i].link # NoLink

Made(profiles) == {profiles[i].link : i \in {j \in DOMAIN profiles : Opens(profiles, j)}}

AllOpen(profiles) == \A i \in DOMAIN profiles : Opens(profiles, i)

Matched(profiles) ==
  \A i \in DOMAIN profiles : Opens(profiles, i) => KeyOf[profiles[i].link] = profiles[i].key

(* Each open() that succeeds makes a transport of its own. *)
Attempt(profiles) ==
  /\ attached
  /\ Matched(profiles)
  /\ Made(profiles) \subseteq unused
  /\ \A i, j \in DOMAIN profiles :
       Opens(profiles, i) /\ profiles[i].link = profiles[j].link => i = j
  /\ unused' = unused \ Made(profiles)

(* The replacement each prepared key ends up with: a profile supersedes the *)
(* earlier ones of its key.                                                 *)
Final(profiles) ==
  [k \in {KeyOf[l] : l \in Made(profiles)} |->
     LET I == {i \in DOMAIN profiles : Opens(profiles, i) /\ profiles[i].key = k}
     IN profiles[CHOOSE i \in I : \A j \in I : j <= i].link]

(* prepareReplacement() closes a pending transport it supersedes. *)
Superseded(profiles) ==
  {pending[k] : k \in DOMAIN pending \cap DOMAIN Final(profiles)}
    \cup (Made(profiles) \ LinksIn(Final(profiles)))

(* Fault: the transport a replacement supersedes is not closed. *)
Faulty_OpenAfter(profiles) == open \cup Made(profiles)

OpenAfter(profiles) == (open \cup Made(profiles)) \ Superseded(profiles)

(* Fault: the active transport is closed as soon as a replacement is ready. *)
Faulty_Prepare(profiles) ==
  /\ pending' = Updated(pending, Final(profiles))
  /\ open' = OpenAfter(profiles) \ Replaced(Final(profiles))
  /\ outcome' = [op |-> "prepare", keys |-> DOMAIN Final(profiles)]
  /\ UNCHANGED <<session, entries, routes, attached, active, retired>>

Prepare(profiles) ==
  /\ pending' = Updated(pending, Final(profiles))
  /\ open' = OpenAfter(profiles)
  /\ outcome' = [op |-> "prepare", keys |-> DOMAIN Final(profiles)]
  /\ UNCHANGED <<session, entries, routes, attached, active, retired>>

PrepareTcpChannelReplacements(profiles) ==
  /\ Attempt(profiles)
  /\ Prepare(profiles)
  /\ offered' = profiles

-----------------------------------------------------------------------------
(* Session::reconnect() with a replacement for every transport made, in     *)
(* order; "opened" are the transports open by then.                         *)
Accepts == session = "Running"

ReconnectOk(profiles, opened) ==
  /\ \A l \in Made(profiles) : KeyOf[l] \in DOMAIN entries
  /\ Made(profiles) \subseteq opened

(* Every key with a replacement is degraded first and rebound then; one the *)
(* registry does not know is refused.                                       *)
Rebind(profiles, opened) ==
  LET new   == Final(profiles)
      keys  == DOMAIN new \cap DOMAIN entries
      e(k)  == Bound(MadeDegraded(entries[k]), new[k])
  IN /\ entries' = Updated(entries,
                     [k \in keys |-> IF CanBeReady(e(k), opened) THEN MadeReady(e(k)) ELSE e(k)])
     /\ routes' = Updated(routes, [k \in keys |-> new[k]])

(* A paused or resumed module may find a link broken while writing to it. *)
Broken(links) == links \subseteq LinksIn(routes) \cup LinksIn(routes')

(* A caller that holds replacements takes them to the session itself; the   *)
(* connector does not learn of it.                                          *)
ReconnectSession ==
  /\ offered # <<>>
  /\ Accepts
  /\ Rebind(offered, open)
  /\ \E links \in SUBSET open : Broken(links) /\ open' = open \ links
  /\ offered' = <<>>
  /\ outcome' = NoOutcome
  /\ UNCHANGED <<session, unused, attached, active, pending, retired>>

(* Fault: a committed replacement is reset instead of erased. *)
FaultyReset_Commit(profiles) ==
  /\ MakeActive(Final(profiles))
  /\ pending' = [k \in DOMAIN pending \cup DOMAIN Final(profiles) |->
                   IF k \in DOMAIN Final(profiles) THEN NoLink ELSE pending[k]]

(* Fault: the connector forgets which transport is active now. *)
Faulty_Commit(profiles) ==
  /\ UNCHANGED <<active, retired>>
  /\ pending' = [k \in DOMAIN pending \ DOMAIN Final(profiles) |-> pending[k]]

(* commitReconnectedChannels() *)
Commit(profiles) ==
  /\ MakeActive(Final(profiles))
  /\ pending' = [k \in DOMAIN pending \ DOMAIN Final(profiles) |-> pending[k]]

Finished(profiles, ok) ==
  outcome' = [op |-> "reconnect", keys |-> DOMAIN Final(profiles), ok |-> ok]

(* reconnectPrepared(): one call prepares, reconnects and commits; it stops *)
(* where preparing failed, and leaves the replacements pending when the     *)
(* session refuses or reports an error.                                     *)
Reconnect(profiles) ==
  /\ Attempt(profiles)
  /\ UNCHANGED offered
  /\ \/ /\ ~(AllOpen(profiles) /\ Accepts)
        /\ Prepare(profiles)
     \/ /\ AllOpen(profiles)
        /\ Accepts
        /\ Rebind(profiles, OpenAfter(profiles))
        /\ UNCHANGED <<session, attached>>
        /\ \E links \in SUBSET OpenAfter(profiles) :
             /\ Broken(links)
             /\ \/ /\ ReconnectOk(profiles, OpenAfter(profiles))
                   /\ Commit(profiles)
                   /\ open' = (OpenAfter(profiles) \ Replaced(Final(profiles))) \ links
                   /\ Finished(profiles, TRUE)
                \/ /\ ~ReconnectOk(profiles, OpenAfter(profiles))
                   /\ pending' = Updated(pending, Final(profiles))
                   /\ open' = OpenAfter(profiles) \ links
                   /\ Finished(profiles, FALSE)
                   /\ UNCHANGED <<active, retired>>

ReconnectTcpChannels(profiles) == Reconnect(profiles)

(* acceptListenerTcpChannel(): a bound channel is replaced, any other       *)
(* adopted.  An accepted socket that is disconnected already is refused     *)
(* like one that cannot be opened.                                          *)
AcceptListenerTcpChannel(key, link) ==
  \/ /\ key \in DOMAIN entries
     /\ entries[key].bound
     /\ Reconnect(<<[key |-> key, link |-> link]>>)
  \/ /\ ~(key \in DOMAIN entries /\ entries[key].bound)
     /\ link # NoLink
     /\ KeyOf[link] = key
     /\ AdoptTcpChannel(link)

-----------------------------------------------------------------------------
(* closeOldTransport(), answering the peer's teardown request. *)
Answer(key, status) == outcome' = [op |-> "teardown", key |-> key, status |-> status]

(* Fault: a replacement that is still pending is not looked for. *)
Faulty_CloseOldTransport(key) ==
  /\ \/ ~attached /\ Answer(key, "NotFound") /\ UNCHANGED retired
     \/ /\ attached /\ key \notin DOMAIN entries
        /\ Answer(key, "ChannelUnavailable") /\ UNCHANGED retired
     \/ /\ attached /\ key \in DOMAIN entries
        /\ Answer(key, "Closed") /\ retired' = retired \ {key}
  /\ UNCHANGED <<session, entries, routes, open, unused, attached, active, pending, offered>>

CloseOldTransport(key) ==
  /\ \/ ~attached /\ Answer(key, "NotFound") /\ UNCHANGED retired
     \/ /\ attached /\ key \notin DOMAIN entries
        /\ Answer(key, "ChannelUnavailable") /\ UNCHANGED retired
     \/ /\ attached /\ key \in DOMAIN entries /\ key \in DOMAIN pending
        /\ Answer(key, "Conflict") /\ UNCHANGED retired
     \/ /\ attached /\ key \in DOMAIN entries /\ key \notin DOMAIN pending
        /\ Answer(key, "Closed") /\ retired' = retired \ {key}
  /\ UNCHANGED <<session, entries, routes, open, unused, attached, active, pending, offered>>

(* releaseSession(), the last call of its owner: transports that only the   *)
(* connector held are destroyed, and so closed.  What the registry and the  *)
(* router hold stays; the socket group may hold another.                    *)
ReleaseSession ==
  /\ attached
  /\ attached' = FALSE
  /\ active' = Empty
  /\ pending' = Empty
  /\ retired' = {}
  /\ \E kept \in SUBSET open : open \cap LinksIn(routes) \subseteq kept /\ open' = kept
  /\ outcome' = NoOutcome
  /\ UNCHANGED <<session, entries, routes, unused, offered>>

Next ==
  \/ StartSession \/ StopSession \/ ReconnectSession \/ ReleaseSession
  \/ \E l \in Links : CloseLink(l) \/ ConnectTcpChannel(l) \/ AdoptTcpChannel(l)
  \/ \E p \in Profiles : PrepareTcpChannelReplacements(p) \/ ReconnectTcpChannels(p)
  \/ \E k \in Keys, l \in Links \cup {NoLink} : AcceptListenerTcpChannel(k, l)
  \/ \E k \in Keys : CloseOldTransport(k)

Spec == Init /\ [][Next]_vars
-----------------------------------------------------------------------------
Entry == [state : ChannelLifecycleState, bound : BOOLEAN, ready : BOOLEAN,
          channel : Links \cup {NoLink}, level : PressureLevel, queuedPackets : Nat]

LinksOf(k) == {l \in Links : KeyOf[l] = k}

Table(f, made) ==
  /\ DOMAIN f \subseteq Keys
  /\ f \in [DOMAIN f -> made]
  /\ \A k \in DOMAIN f : KeyOf[f[k]] = k

TypeOK ==
  /\ session \in {"Created", "Running", "Stopped"}
  /\ DOMAIN entries \subseteq Keys
  /\ entries \in [DOMAIN entries -> Entry]
  /\ Table(routes, Links \ unused)
  /\ open \subseteq Links \ unused
  /\ unused \subseteq Links
  /\ attached \in BOOLEAN
  /\ Table(active, Links \ unused)
  /\ Table(pending, Links \ unused)
  /\ retired \subseteq Keys
  /\ offered \in Profiles \cup {<<>>}
  /\ Matched(offered)
  /\ Made(offered) \cap unused = {}

Current(k) == IF k \in DOMAIN active THEN {active[k]} ELSE {}
Waiting(k) == IF k \in DOMAIN pending THEN {pending[k]} ELSE {}

(* No reconnect, however it fails or is repeated, leaves a socket open that *)
(* nobody will close: a key has at most its active transport and one        *)
(* replacement open (prepareReplacement, replaceActiveTransport,            *)
(* commitReconnectedChannels).                                              *)
NoStrayTransport ==
  attached => \A k \in Keys : open \cap LinksOf(k) \subseteq Current(k) \cup Waiting(k)

(* The peer is told "closed" only when no transport of the channel is open  *)
(* but the active one (closeOldTransport).                                  *)
TeardownHonest ==
  outcome.op = "teardown" /\ outcome.status = "Closed" =>
    open \cap LinksOf(outcome.key) \subseteq Current(outcome.key)

(* A reconnect that answers ok has switched every table: nothing is pending *)
(* any more, connector, registry and router name the same transport, and    *)
(* every other transport of the key is closed (reconnectPrepared).          *)
ReconnectSettled ==
  outcome.op = "reconnect" /\ outcome.ok =>
    \A k \in outcome.keys :
      /\ k \notin DOMAIN pending
      /\ k \in DOMAIN routes /\ Current(k) = {routes[k]}
      /\ entries[k].channel = routes[k]
      /\ open \cap LinksOf(k) \subseteq Current(k)

(* Preparing replacements does not take a key off the air: when none was    *)
(* pending for it, the transport it is routed on stays open                 *)
(* (prepareTcpChannelReplacements, before Session::reconnect).              *)
LiveUntilRebound ==
  [][outcome'.op = "prepare" /\ unused' # unused =>
       \A k \in DOMAIN routes :
         k \notin DOMAIN pending /\ routes[k] \in open => routes[k] \in open']_vars

(* What RUNTIME_HOST_AND_SESSION_MANAGER_DESIGN.md says without that        *)
(* condition: "runtime/qt commits and closes old concrete transports only   *)
(* after Session rebind succeeds".                                          *)
OldClosedOnlyAfterRebind ==
  [][outcome'.op = "prepare" /\ unused' # unused =>
       \A k \in DOMAIN routes : routes[k] \in open => routes[k] \in open']_vars
=============================================================================
