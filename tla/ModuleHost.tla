----------------------------- MODULE ModuleHost -----------------------------
(***************************************************************************)
(* module::ModuleHost (src/src/core/module/module_host.cpp) and the         *)
(* ModuleIngressRegistry it owns (module_ingress.cpp): the modules of one   *)
(* session, started as a batch, paused and resumed around a reconnect and   *)
(* stopped together, and the router subscriptions made for them.            *)
(*                                                                          *)
(* A module is what the host sees of it: its manifest (constants), its      *)
(* state and whether start() may fail.  A token is the registration that    *)
(* made it, so that one left behind by an earlier registration shows.       *)
(* Session.tla gives these operations their callers.                        *)
(***************************************************************************)
EXTENDS Integers, Sequences

CONSTANTS Modules,          \* modules the profile may mount
          Consumes,         \* module -> routes <<channel key, packet type>> it consumes
          RequiredChannels, \* module -> channel keys it requires
          OtherChannels,    \* module -> channel keys it uses if they are there
          RequiredModules,  \* module -> modules that must be mounted
          Fallible          \* modules whose start() opens devices or sends, and may fail

ModuleState == {"Created", "Attached", "Running", "Stopped", "Failed"}

VARIABLES mods,    \* module -> its state; "Created": not in ModuleHost::modules_
          order,   \* moduleOrder_
          subs,    \* NetworkRouter::subscriptions_ made for modules
          owned,   \* tokensByModule_: module -> registration whose tokens it lists, 0 if none
          made     \* registrations made so far

hostVars == <<mods, order, subs, owned, made>>

HostInit ==
  /\ mods = [m \in Modules |-> "Created"]
  /\ order = <<>>
  /\ subs = {}
  /\ owned = [m \in Modules |-> 0]
  /\ made = 0

Mounted == {m \in Modules : mods[m] # "Created"}
Running == {m \in Modules : mods[m] = "Running"}
Uses(m) == RequiredChannels[m] \cup OtherChannels[m]

-----------------------------------------------------------------------------
(* ModuleIngressRegistry *)

(* unregisterModule() for each module of S: the tokens the registry lists. *)
Unregistered(S) == {s \in subs : s.module \notin S \/ s.registration # owned[s.module]}

UnregisterModules(S) ==
  /\ subs' = Unregistered(S)
  /\ owned' = [m \in Modules |-> IF m \in S THEN 0 ELSE owned[m]]
  /\ made' = made

TokensFor(S) ==
  UNION {{[module |-> m, route |-> r, registration |-> made + 1] : r \in Consumes[m]} : m \in S}

(* Fault: the earlier tokens of the module are not given back first. *)
Faulty_RegisterManifests(S) ==
  /\ subs' = subs \cup TokensFor(S)
  /\ owned' = [m \in Modules |-> IF m \in S THEN made + 1 ELSE owned[m]]
  /\ made' = made + 1

(* registerManifest() for each module of S, which all consume packets. *)
RegisterManifests(S) ==
  /\ subs' = Unregistered(S) \cup TokensFor(S)
  /\ owned' = [m \in Modules |-> IF m \in S THEN made + 1 ELSE owned[m]]
  /\ made' = made + 1

Consumers(S) == {m \in S : Consumes[m] # {}}

-----------------------------------------------------------------------------
(* addModule(): role, platform and attach() are satisfied by the profile.   *)
AddModule(m) ==
  /\ m \notin Mounted
  /\ mods' = [mods EXCEPT ![m] = "Attached"]
  /\ order' = Append(order, m)
  /\ UNCHANGED <<subs, owned, made>>

(* What the preflight loop of startAllowedModules() lets start: "denied"    *)
(* are the modules the policy or their peer's version forbids.              *)
Startable(ready, denied) ==
  {m \in Mounted \ denied : /\ RequiredModules[m] \subseteq Mounted
                           /\ RequiredChannels[m] \subseteq ready}

StartsAll ==
  /\ mods' = [m \in Modules |-> IF m \in Mounted THEN "Running" ELSE mods[m]]
  /\ RegisterManifests(Consumers(Mounted))
  /\ UNCHANGED order

(* The module at place i fails to start: those started before it in this    *)
(* batch are unregistered and stopped again, those after it are not         *)
(* touched, and neither is what an earlier batch registered for itself.     *)
RollsBackAt(i) ==
  LET before == {order[j] : j \in 1 .. i - 1}
  IN /\ order[i] \in Fallible
     /\ mods' = [m \in Modules |-> IF m \in before THEN "Stopped"
                                   ELSE IF m = order[i] THEN "Failed" ELSE mods[m]]
     /\ UnregisterModules(before)
     /\ UNCHANGED order

(* With allowPartialStart what may start is started, one by one; a module   *)
(* of "failing" does not come up and takes no other with it, and what may   *)
(* not start is left as it is.                                              *)
StartsPartly(startable, failing) ==
  /\ mods' = [m \in Modules |-> IF m \in failing THEN "Failed"
                                ELSE IF m \in startable THEN "Running" ELSE mods[m]]
  /\ RegisterManifests(Consumers(startable \ failing))
  /\ UNCHANGED order

(* replayRunningModuleIngressForReconnect() *)
ReplayIngress(affected) ==
  /\ RegisterManifests(Consumers(Running \cap affected))
  /\ UNCHANGED <<mods, order>>

(* Fault: only modules that still run are taken off the router. *)
Faulty_StopAll ==
  /\ mods' = [m \in Modules |-> IF m \in Mounted THEN "Stopped" ELSE mods[m]]
  /\ UnregisterModules(Running)
  /\ UNCHANGED order

StopAll ==
  /\ mods' = [m \in Modules |-> IF m \in Mounted THEN "Stopped" ELSE mods[m]]
  /\ UnregisterModules(Mounted)
  /\ UNCHANGED order

(* affectedByReconnect(): every module when no channel is named. *)
AffectedBy(keys) == {m \in Modules : keys = {} \/ Uses(m) \cap keys # {}}
=============================================================================
