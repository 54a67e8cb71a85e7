------------------------------- MODULE Session -------------------------------
(***************************************************************************)
(* session::Session (src/src/core/session/session.cpp) over its channel     *)
(* registry and its ModuleHost, driven as SessionMainline drives it         *)
(* (src/src/runtime/session/session_mainline.cpp): start, channel binding,  *)
(* mounting, batch starts, reconnects and stop, in any order the API        *)
(* admits.                                                                  *)
(*                                                                          *)
(* reconnect() is one synchronous call.  It is taken in the steps at which  *)
(* session.state_changed is published and the modules are called, so that   *)
(* what a module or a diagnostics reader sees in between is a state here;   *)
(* while it runs, a link closes only because a resumed module's write       *)
(* fails.  Between calls a link may close at any time.                      *)
(***************************************************************************)
EXTENDS ChannelRegistry, ModuleHost, FiniteSets

CONSTANTS Keys,             \* channel keys a request may name
          MinimumChannels,  \* keys registered when the session is created
          Links, KeyOf,     \* IChannel instances and the key of each
          Bare,             \* links bound with SessionMainlineChannel::markReady false
          MaxDegraded,      \* bound: keys a request degrades (each by itself)
          MaxCalls          \* bound: bindings, batch starts and reconnects in a behaviour

ASSUME SessionAssumption ==
  /\ Keys \subseteq ChannelKey
  /\ MinimumChannels \subseteq Keys
  /\ NoLink \notin Links
  /\ KeyOf \in [Links -> Keys]
  /\ Bare \subseteq Links
  /\ RequiredChannels \in [Modules -> SUBSET Keys]
  /\ OtherChannels \in [Modules -> SUBSET Keys]
  /\ RequiredModules \in [Modules -> SUBSET Modules]
  /\ Consumes \in [Modules -> SUBSET (Keys \X STRING)]
  /\ Fallible \subseteq Modules
  /\ MaxDegraded \in Nat
  /\ MaxCalls \in Nat

VARIABLES state,     \* Session::state_
          hosted,    \* moduleHost_ has been created
          entries,   \* the registry's entries
          routes,    \* the router's channels
          open,      \* links whose isOpen() is true
          request,   \* the ReconnectRequest being served
          pending,   \* its replacements not yet rebound
          paused,    \* modules told to pause and not yet to resume
          ok,        \* lastReconnectReport_.ok
          calls      \* bindings, batch starts and reconnects so far

vars == <<hostVars, state, hosted, entries, routes, open, request, pending, paused, ok, calls>>
channelVars == <<entries, routes, open>>
reconnectVars == <<request, pending, paused, ok>>

SessionState == {"Created", "Running", "Reconnecting", "Draining", "NetworkReady", "Stopped"}
Reconnecting == state \in {"Reconnecting", "Draining", "NetworkReady"}

NoRequest == [degraded |-> {}, replacements |-> {}]

Init ==
  /\ HostInit
  /\ state = "Created"
  /\ hosted = FALSE
  /\ entries = [k \in MinimumChannels |-> RegisteredEntry]
  /\ routes = [k \in {} |-> NoLink]
  /\ open = Links
  /\ request = NoRequest
  /\ pending = {}
  /\ paused = {}
  /\ ok = FALSE
  /\ calls = 0

(* No API call is made while reconnect() runs. *)
Idle == ~Reconnecting /\ calls' = calls

Call ==
  /\ ~Reconnecting
  /\ calls < MaxCalls
  /\ calls' = calls + 1

ReadyKeys == {k \in DOMAIN entries : IsReady(entries[k])}
BoundLinks == {routes[k] : k \in DOMAIN routes}

(* NetworkManager::rebindChannel(): bind, route, markReady.  bindChannel()  *)
(* leaves the last to its caller.                                           *)
Rebinding(link, markReady) ==
  LET key == KeyOf[link]
      e   == Bound(entries[key], link)
  IN /\ entries' = [entries EXCEPT ![key] = IF markReady /\ CanBeReady(e, open)
                                            THEN MadeReady(e) ELSE e]
     /\ routes' = [k \in DOMAIN routes \cup {key} |-> IF k = key THEN link ELSE routes[k]]

-----------------------------------------------------------------------------
(* start(): Authorizing to MountingModules in one go. *)
Start ==
  /\ Idle
  /\ state = "Created"
  /\ state' = "Running"
  /\ hosted' = TRUE
  /\ UNCHANGED <<hostVars, channelVars, reconnectVars>>

(* bindMainlineChannel(): bindChannel() and then markReady(), unless the    *)
(* channel's markReady is false.                                            *)
BindMainlineChannel(link) ==
  /\ Call
  /\ KeyOf[link] \in DOMAIN entries               \* else NotFound
  /\ Rebinding(link, link \notin Bare)
  /\ UNCHANGED <<hostVars, state, hosted, open, reconnectVars>>

(* mountProfileModules() adds the modules one by one, whatever the state.   *)
Mount(m) ==
  /\ Idle
  /\ hosted
  /\ AddModule(m)
  /\ UNCHANGED <<state, hosted, channelVars, reconnectVars>>

(* startProfileModules(), whatever the session state: all modules or none   *)
(* unless its options allow a partial start.  A start that fails may have   *)
(* found its link broken while writing to it.                               *)
StartAllowedModules(denied) ==
  /\ Call
  /\ hosted
  /\ LET startable == Startable(ReadyKeys, denied)
     IN \/ startable = Mounted /\ StartsAll /\ UNCHANGED open
        \/ /\ startable = Mounted
           /\ \E i \in DOMAIN order : RollsBackAt(i)
           /\ \E broken \in SUBSET BoundLinks : open' = open \ broken
        \/ \E failing \in SUBSET (startable \cap Fallible) :
             /\ StartsPartly(startable, failing)
             /\ \E broken \in SUBSET BoundLinks :
                  /\ failing = {} => broken = {}
                  /\ open' = open \ broken
  /\ UNCHANGED <<state, hosted, entries, routes, reconnectVars>>

Stop ==
  /\ Idle
  /\ state # "Stopped"
  /\ state' = "Stopped"
  /\ IF hosted THEN StopAll ELSE UNCHANGED hostVars
  /\ UNCHANGED <<hosted, channelVars, reconnectVars>>

CloseLink(link) ==
  /\ Idle
  /\ link \in open
  /\ open' = open \ {link}
  /\ UNCHANGED <<hostVars, state, hosted, entries, routes, reconnectVars>>

-----------------------------------------------------------------------------
(* reconnect(), step by step. *)

(* A request may name several links for one key: the last one rebound wins. *)
Request(degraded, replacements) ==
  /\ Cardinality(degraded) <= MaxDegraded
  /\ request' = [degraded |-> degraded, replacements |-> replacements]

(* Fault: degrading a key the registry does not know makes an entry for it. *)
Faulty_BeginReconnect(degraded, replacements) ==
  /\ Call
  /\ state = "Running"
  /\ state' = "Reconnecting"
  /\ Request(degraded, replacements)
  /\ pending' = replacements
  /\ paused' = paused
  /\ entries' = [k \in DOMAIN entries \cup degraded |->
                   IF k \notin DOMAIN entries THEN MadeDegraded(RegisteredEntry)
                   ELSE IF k \in degraded THEN MadeDegraded(entries[k]) ELSE entries[k]]
  /\ ok' = TRUE
  /\ UNCHANGED <<hostVars, hosted, routes, open>>

BeginReconnect(degraded, replacements) ==
  /\ Call
  /\ state = "Running"
  /\ state' = "Reconnecting"
  /\ Request(degraded, replacements)
  /\ pending' = replacements
  /\ paused' = paused
  /\ entries' = [k \in DOMAIN entries |-> IF k \in degraded THEN MadeDegraded(entries[k])
                                                            ELSE entries[k]]
  /\ ok' = (degraded \subseteq DOMAIN entries)
  /\ UNCHANGED <<hostVars, hosted, routes, open>>

(* affectedReconnectChannels() *)
AffectedKeys == request.degraded \cup {KeyOf[l] : l \in request.replacements}
Affected == AffectedBy(AffectedKeys)

PauseModules ==
  /\ state = "Reconnecting"
  /\ state' = "Draining"
  /\ paused' = paused \cup (Running \cap Affected)
  /\ UNCHANGED <<hostVars, hosted, channelVars, request, pending, ok, calls>>

(* Fault: the report keeps the result of the last replacement only. *)
Faulty_Rebind(link) ==
  /\ state = "Draining"
  /\ link \in pending
  /\ pending' = pending \ {link}
  /\ IF KeyOf[link] \in DOMAIN entries
     THEN /\ Rebinding(link, TRUE)
          /\ ok' = (link \in open)
     ELSE /\ ok' = FALSE
          /\ UNCHANGED <<entries, routes>>
  /\ UNCHANGED <<hostVars, state, hosted, open, request, paused, calls>>

(* The order of the replacements is the caller's. *)
Rebind(link) ==
  /\ state = "Draining"
  /\ link \in pending
  /\ pending' = pending \ {link}
  /\ IF KeyOf[link] \in DOMAIN entries
     THEN /\ Rebinding(link, TRUE)
          /\ ok' = (ok /\ link \in open)
     ELSE /\ ok' = FALSE
          /\ UNCHANGED <<entries, routes>>
  /\ UNCHANGED <<hostVars, state, hosted, open, request, paused, calls>>

(* A module of this model that consumes packets always gets tokens. *)
ReplayModuleIngress ==
  /\ state = "Draining"
  /\ pending = {}
  /\ state' = "NetworkReady"
  /\ ReplayIngress(Affected)
  /\ UNCHANGED <<hosted, channelVars, reconnectVars, calls>>

(* Fault: a reconnect that went wrong resumes nothing. *)
Faulty_ResumeModules ==
  /\ state = "NetworkReady"
  /\ state' = "Running"
  /\ paused' = IF ok THEN paused \ (Running \cap Affected) ELSE paused
  /\ \E broken \in SUBSET BoundLinks : open' = open \ broken
  /\ request' = NoRequest
  /\ UNCHANGED <<hostVars, hosted, entries, routes, pending, ok, calls>>

(* resumeAfterReconnect() asks for fresh state, or sends it: a write may fail. *)
ResumeModules ==
  /\ state = "NetworkReady"
  /\ state' = "Running"
  /\ paused' = paused \ (Running \cap Affected)
  /\ \E broken \in SUBSET BoundLinks : open' = open \ broken
  /\ request' = NoRequest
  /\ UNCHANGED <<hostVars, hosted, entries, routes, pending, ok, calls>>

ReconnectStep ==
  PauseModules \/ (\E l \in Links : Rebind(l)) \/ ReplayModuleIngress \/ ResumeModules

Next ==
  \/ Start \/ Stop
  \/ \E l \in Links : BindMainlineChannel(l) \/ CloseLink(l)
  \/ \E m \in Modules : Mount(m)
  \/ \E denied \in SUBSET Mounted : StartAllowedModules(denied)
  \/ \E degraded \in SUBSET Keys, replacements \in SUBSET Links :
       BeginReconnect(degraded, replacements)
  \/ ReconnectStep

Spec == Init /\ [][Next]_vars

(* reconnect() runs to its end once it has been called. *)
FairSpec == Spec /\ WF_vars(ReconnectStep)
-----------------------------------------------------------------------------
Token == [module : Modules, route : Keys \X STRING, registration : Nat \ {0}]

Entry == [state : ChannelLifecycleState, bound : BOOLEAN, ready : BOOLEAN,
          channel : Links \cup {NoLink}, level : PressureLevel, queuedPackets : Nat]

TypeOK ==
  /\ mods \in [Modules -> ModuleState]
  /\ order \in Seq(Mounted)
  /\ subs \subseteq Token
  /\ owned \in [Modules -> Nat]
  /\ made \in Nat
  /\ state \in SessionState
  /\ hosted \in BOOLEAN
  /\ entries \in [MinimumChannels -> Entry]
  /\ DOMAIN routes \subseteq MinimumChannels
  /\ routes \in [DOMAIN routes -> Links]
  /\ open \subseteq Links
  /\ request \in [degraded : SUBSET Keys, replacements : SUBSET Links]
  /\ pending \subseteq request.replacements
  /\ paused \subseteq Modules
  /\ ok \in BOOLEAN
  /\ calls \in Nat

(* A packet on a route reaches each module at most once, and every running  *)
(* module that consumes it exactly once: no restart, rollback, replay or    *)
(* stop leaves a token behind, doubles one or loses one                     *)
(* (ModuleIngressRegistry::registerManifest and unregisterModule).          *)
IngressExactlyOnce ==
  /\ \A s, t \in subs : s.module = t.module /\ s.route = t.route => s = t
  /\ \A m \in Running : \A r \in Consumes[m] :
       \E s \in subs : s.module = m /\ s.route = r
  /\ \A s \in subs : mods[s.module] \in {"Running", "Failed"}

(* A reconnect reported as ok has what it promises by the time modules are  *)
(* resumed: each key a replacement was named for is ready and sends on the  *)
(* replacement (on one of them, if the request named several), and every    *)
(* running module it concerns is subscribed (Session::reconnect,            *)
(* lastReconnectReport_.ok).                                                *)
ReportHonest ==
  state = "NetworkReady" /\ ok =>
    /\ \A key \in {KeyOf[l] : l \in request.replacements} :
         /\ key \in DOMAIN routes /\ IsReady(entries[key])
         /\ entries[key].channel = routes[key]
         /\ routes[key] \in request.replacements /\ routes[key] \in open
    /\ \A m \in Running \cap Affected : Consumes[m] # {} => owned[m] # 0

(* Stopping a session silences it: no module runs and no packet is routed   *)
(* to one any more, also not to a module whose start failed (stopAll).      *)
StopSilences ==
  [][state # "Stopped" /\ state' = "Stopped" => Running' = {} /\ subs' = {}]_vars

(* A reconnect comes back, whatever failed on the way, and every module it  *)
(* paused has been resumed by then (Session::reconnect).                    *)
EveryReconnectReturns ==
  state = "Reconnecting" ~> state = "Running" /\ paused = {}

(* What FUSIONDESK_ARCHITECTURE.md says of module ingress: "ingress routes  *)
(* become active only after the module starts successfully."                *)
OnlyRunningModulesReceive ==
  \A s \in subs : mods[s.module] = "Running"
=============================================================================
