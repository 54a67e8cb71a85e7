---------------------------- MODULE SessionProofs ----------------------------
(***************************************************************************)
(* Proofs about Session.tla for every profile of modules, every channel     *)
(* table and every number of calls: module ingress is exact, and a          *)
(* reconnect reported as ok has done what the report says.                  *)
(*                                                                          *)
(* Neither property is inductive.  Ingress needs to know that the tokens in *)
(* the router are exactly those the ingress registry lists, that what is    *)
(* listed is complete, and whose tokens may be listed.  The report needs to *)
(* know what already holds for the replacements rebound so far.             *)
(***************************************************************************)
EXTENDS Session, SequenceTheorems, TLAPS

(* The router's tokens are those the ingress registry lists. *)
NoStaleToken ==
  \A s \in subs : /\ s.registration = owned[s.module]
                  /\ s.route \in Consumes[s.module]

(* What the ingress registry lists for a module covers its manifest. *)
Complete ==
  \A m \in Modules : owned[m] # 0 =>
    \A r \in Consumes[m] : [module |-> m, route |-> r, registration |-> owned[m]] \in subs

(* Which modules are listed. *)
WhoIsListed ==
  \A m \in Modules :
    /\ mods[m] = "Running" /\ Consumes[m] # {} => owned[m] # 0
    /\ owned[m] # 0 => mods[m] \in {"Running", "Failed"}

HostTypeOK ==
  /\ mods \in [Modules -> ModuleState]
  /\ order \in Seq(Mounted)
  /\ subs \subseteq Token
  /\ owned \in [Modules -> Nat]
  /\ made \in Nat

HostInv == HostTypeOK /\ NoStaleToken /\ Complete /\ WhoIsListed

-----------------------------------------------------------------------------
(* The registry's two operations keep what it lists and the router in step. *)

LEMMA UnregisterKeeps ==
  ASSUME HostInv, NEW S \in SUBSET Modules, UnregisterModules(S)
  PROVE  /\ subs' \subseteq Token /\ owned' \in [Modules -> Nat] /\ made' \in Nat
         /\ NoStaleToken' /\ Complete'
         /\ \A m \in Modules : owned'[m] = IF m \in S THEN 0 ELSE owned[m]
<1>1. \A s \in subs : s.registration # 0 /\ s.module \in Modules
  BY DEF HostInv, HostTypeOK, Token
<1>2. \A s \in subs' : s \in subs /\ s.module \notin S
  BY <1>1 DEF UnregisterModules, Unregistered, HostInv, NoStaleToken
<1>3. owned' = [m \in Modules |-> IF m \in S THEN 0 ELSE owned[m]] /\ made' = made
  BY DEF UnregisterModules
<1>4. subs' \subseteq Token /\ owned' \in [Modules -> Nat] /\ made' \in Nat
  BY <1>2, <1>3 DEF HostInv, HostTypeOK
<1>5. NoStaleToken'
  BY <1>1, <1>2, <1>3 DEF HostInv, NoStaleToken
<1>6. ASSUME NEW m \in Modules, owned'[m] # 0, NEW r \in Consumes[m]
      PROVE  [module |-> m, route |-> r, registration |-> owned'[m]] \in subs'
  <2>1. m \notin S /\ owned'[m] = owned[m]
    BY <1>3, <1>6
  <2>2. [module |-> m, route |-> r, registration |-> owned[m]] \in subs
    BY <2>1, <1>6 DEF HostInv, Complete
  <2> QED
    BY <2>1, <2>2 DEF UnregisterModules, Unregistered
<1>7. Complete'
  BY <1>6 DEF Complete
<1> QED
  BY <1>3, <1>4, <1>5, <1>7

LEMMA RegisterKeeps ==
  ASSUME HostInv, NEW S \in SUBSET Modules, RegisterManifests(S)
  PROVE  /\ subs' \subseteq Token /\ owned' \in [Modules -> Nat] /\ made' \in Nat
         /\ NoStaleToken' /\ Complete'
         /\ \A m \in Modules : owned'[m] = IF m \in S THEN made + 1 ELSE owned[m]
<1> USE SessionAssumption
<1>1. \A s \in subs : s.module \in Modules
  BY DEF HostInv, HostTypeOK, Token
<1>2. owned' = [m \in Modules |-> IF m \in S THEN made + 1 ELSE owned[m]] /\ made' = made + 1
  BY DEF RegisterManifests
<1>3. made \in Nat /\ made + 1 \in Nat \ {0}
  BY DEF HostInv, HostTypeOK
<1>4. \A s \in subs' : \/ s \in subs /\ s.module \notin S
                       \/ \E m \in S : \E r \in Consumes[m] :
                            s = [module |-> m, route |-> r, registration |-> made + 1]
  BY DEF RegisterManifests, Unregistered, TokensFor, HostInv, NoStaleToken
<1>5. TokensFor(S) \subseteq Token
  <2>1. \A m \in S : \A r \in Consumes[m] : r \in Keys \X STRING
    OBVIOUS
  <2> QED
    BY <2>1, <1>3 DEF TokensFor, Token
<1>6. subs' \subseteq Token /\ owned' \in [Modules -> Nat] /\ made' \in Nat
  <2>1. subs' \subseteq Token
    BY <1>5 DEF RegisterManifests, Unregistered, HostInv, HostTypeOK
  <2> QED
    BY <2>1, <1>2, <1>3 DEF HostInv, HostTypeOK
<1>7. NoStaleToken'
  <2> SUFFICES ASSUME NEW s \in subs'
               PROVE  s.registration = owned'[s.module] /\ s.route \in Consumes[s.module]
    BY DEF NoStaleToken
  <2>1. CASE s \in subs /\ s.module \notin S
    BY <2>1, <1>1, <1>2 DEF HostInv, NoStaleToken
  <2>2. CASE \E m \in S : \E r \in Consumes[m] :
               s = [module |-> m, route |-> r, registration |-> made + 1]
    BY <2>2, <1>2
  <2> QED
    BY <2>1, <2>2, <1>4
<1>8. ASSUME NEW m \in Modules, owned'[m] # 0, NEW r \in Consumes[m]
      PROVE  [module |-> m, route |-> r, registration |-> owned'[m]] \in subs'
  <2>1. CASE m \in S
    BY <2>1, <1>2 DEF RegisterManifests, TokensFor
  <2>2. CASE m \notin S
    <3>1. owned'[m] = owned[m]
      BY <2>2, <1>2
    <3>2. [module |-> m, route |-> r, registration |-> owned[m]] \in subs
      BY <3>1, <1>8 DEF HostInv, Complete
    <3> QED
      BY <3>1, <3>2, <2>2 DEF RegisterManifests, Unregistered
  <2> QED
    BY <2>1, <2>2
<1>9. Complete'
  BY <1>8 DEF Complete
<1> QED
  BY <1>2, <1>6, <1>7, <1>9

-----------------------------------------------------------------------------
(* Every host operation preserves what the host relies on. *)

LEMMA AddKeeps ==
  ASSUME HostInv, NEW m \in Modules, AddModule(m)
  PROVE  HostInv'
<1>1. mods' = [mods EXCEPT ![m] = "Attached"] /\ m \notin Mounted /\ mods[m] = "Created"
  BY DEF AddModule, Mounted
<1>2. mods' \in [Modules -> ModuleState] /\ Mounted' = Mounted \cup {m}
  BY <1>1 DEF HostInv, HostTypeOK, ModuleState, Mounted
<1>3. order' \in Seq(Mounted')
  <2>1. order \in Seq(Mounted') /\ m \in Mounted'
    BY <1>2 DEF HostInv, HostTypeOK
  <2> QED
    BY <2>1, AppendProperties DEF AddModule
<1>4. subs' = subs /\ owned' = owned /\ made' = made
  BY DEF AddModule
<1>5. WhoIsListed'
  BY <1>1, <1>4 DEF HostInv, HostTypeOK, WhoIsListed
<1>6. NoStaleToken' /\ Complete'
  BY <1>4 DEF HostInv, NoStaleToken, Complete
<1> QED
  BY <1>2, <1>3, <1>4, <1>5, <1>6 DEF HostInv, HostTypeOK

LEMMA StartsAllKeeps ==
  ASSUME HostInv, StartsAll
  PROVE  HostInv'
<1> DEFINE S == Consumers(Mounted)
<1>1. S \in SUBSET Modules /\ RegisterManifests(S)
  BY DEF StartsAll, Consumers, Mounted
<1>2. /\ subs' \subseteq Token /\ owned' \in [Modules -> Nat] /\ made' \in Nat
      /\ NoStaleToken' /\ Complete'
      /\ \A m \in Modules : owned'[m] = IF m \in S THEN made + 1 ELSE owned[m]
  BY <1>1, RegisterKeeps
<1>3. mods' = [m \in Modules |-> IF m \in Mounted THEN "Running" ELSE mods[m]] /\ order' = order
  BY DEF StartsAll
<1>4. mods' \in [Modules -> ModuleState] /\ Mounted' = Mounted
  BY <1>3 DEF HostInv, HostTypeOK, ModuleState, Mounted
<1>5. \A m \in Modules :
                          /\ Consumes[m] # {} /\ m \in Mounted => owned'[m] # 0
                          /\ m \notin Mounted => mods'[m] = "Created" /\ owned'[m] = 0
                          /\ m \in Mounted => mods'[m] = "Running"
  <2>1. made + 1 # 0
    BY DEF HostInv, HostTypeOK
  <2> QED
    BY <1>2, <1>3, <2>1 DEF HostInv, HostTypeOK, WhoIsListed, Consumers, Mounted
<1>6. WhoIsListed'
  BY <1>5 DEF WhoIsListed
<1> QED
  BY <1>2, <1>3, <1>4, <1>6 DEF HostInv, HostTypeOK

LEMMA RollbackKeeps ==
  ASSUME HostInv, NEW i \in DOMAIN order, RollsBackAt(i)
  PROVE  HostInv'
<1> DEFINE before == {order[j] : j \in 1 .. i - 1}
<1>1. order \in Seq(Mounted) /\ i \in 1 .. Len(order)
  BY DEF HostInv, HostTypeOK
<1>2. \A j \in 1 .. Len(order) : order[j] \in Mounted
  BY <1>1
<1>3. before \subseteq Mounted /\ order[i] \in Mounted
  BY <1>1, <1>2
<1>4. before \in SUBSET Modules /\ UnregisterModules(before)
  BY <1>3 DEF RollsBackAt, Mounted
<1>5. /\ mods' = [m \in Modules |-> IF m \in before THEN "Stopped"
                                    ELSE IF m = order[i] THEN "Failed" ELSE mods[m]]
      /\ order' = order
  BY DEF RollsBackAt
<1> HIDE DEF before
<1>6. /\ subs' \subseteq Token /\ owned' \in [Modules -> Nat] /\ made' \in Nat
      /\ NoStaleToken' /\ Complete'
      /\ \A m \in Modules : owned'[m] = IF m \in before THEN 0 ELSE owned[m]
  BY <1>4, UnregisterKeeps
<1>7. mods' \in [Modules -> ModuleState] /\ Mounted' = Mounted
  BY <1>3, <1>5 DEF HostInv, HostTypeOK, ModuleState, Mounted
<1>8. WhoIsListed'
  BY <1>5, <1>6 DEF HostInv, HostTypeOK, WhoIsListed
<1> QED
  BY <1>5, <1>6, <1>7, <1>8 DEF HostInv, HostTypeOK

LEMMA StartsPartlyKeeps ==
  ASSUME HostInv, NEW startable \in SUBSET Mounted, NEW failing \in SUBSET startable,
         StartsPartly(startable, failing)
  PROVE  HostInv'
<1> DEFINE S == Consumers(startable \ failing)
<1>1. S \in SUBSET Modules /\ RegisterManifests(S)
  BY DEF StartsPartly, Consumers, Mounted
<1>2. /\ subs' \subseteq Token /\ owned' \in [Modules -> Nat] /\ made' \in Nat
      /\ NoStaleToken' /\ Complete'
      /\ \A m \in Modules : owned'[m] = IF m \in S THEN made + 1 ELSE owned[m]
  BY <1>1, RegisterKeeps
<1>3. /\ mods' = [m \in Modules |-> IF m \in failing THEN "Failed"
                                    ELSE IF m \in startable THEN "Running" ELSE mods[m]]
      /\ order' = order
  BY DEF StartsPartly
<1>4. mods' \in [Modules -> ModuleState] /\ Mounted' = Mounted
  BY <1>3 DEF HostInv, HostTypeOK, ModuleState, Mounted
<1>5. WhoIsListed'
  <2>1. made + 1 # 0
    BY DEF HostInv, HostTypeOK
  <2>2. \A m \in Modules : m \in S <=> m \in startable /\ m \notin failing /\ Consumes[m] # {}
    BY DEF Consumers
  <2> HIDE DEF S
  <2> QED
    BY <1>2, <1>3, <2>1, <2>2 DEF HostInv, HostTypeOK, WhoIsListed
<1> QED
  BY <1>2, <1>3, <1>4, <1>5 DEF HostInv, HostTypeOK

LEMMA ReplayKeeps ==
  ASSUME HostInv, NEW T, ReplayIngress(T)
  PROVE  HostInv'
<1> DEFINE S == Consumers(Running \cap T)
<1>1. S \in SUBSET Modules /\ RegisterManifests(S)
  BY DEF ReplayIngress, Consumers, Running
<1>2. /\ subs' \subseteq Token /\ owned' \in [Modules -> Nat] /\ made' \in Nat
      /\ NoStaleToken' /\ Complete'
      /\ \A m \in Modules : owned'[m] = IF m \in S THEN made + 1 ELSE owned[m]
  BY <1>1, RegisterKeeps
<1>3. mods' = mods /\ order' = order
  BY DEF ReplayIngress
<1>4. WhoIsListed'
  <2>1. made + 1 # 0
    BY DEF HostInv, HostTypeOK
  <2> QED
    BY <1>2, <1>3, <2>1 DEF HostInv, HostTypeOK, WhoIsListed, Consumers, Running
<1> QED
  BY <1>2, <1>3, <1>4 DEF HostInv, HostTypeOK, Mounted

LEMMA StopAllKeeps ==
  ASSUME HostInv, StopAll
  PROVE  HostInv' /\ Running' = {} /\ subs' = {}
<1>1. Mounted \in SUBSET Modules /\ UnregisterModules(Mounted)
  BY DEF StopAll, Mounted
<1>2. mods' = [m \in Modules |-> IF m \in Mounted THEN "Stopped" ELSE mods[m]] /\ order' = order
  BY DEF StopAll
<1>3. /\ subs' \subseteq Token /\ owned' \in [Modules -> Nat] /\ made' \in Nat
      /\ NoStaleToken' /\ Complete'
      /\ \A m \in Modules : owned'[m] = IF m \in Mounted THEN 0 ELSE owned[m]
  BY <1>1, UnregisterKeeps
<1>4. mods' \in [Modules -> ModuleState] /\ Mounted' = Mounted
  BY <1>2 DEF HostInv, HostTypeOK, ModuleState, Mounted
<1>5. \A m \in Modules : owned'[m] = 0 /\ mods'[m] # "Running"
  BY <1>2, <1>3 DEF HostInv, WhoIsListed, Mounted
<1>6. HostInv'
  BY <1>2, <1>3, <1>4, <1>5 DEF HostInv, HostTypeOK, WhoIsListed
<1>7. subs' = {}
  BY <1>3, <1>5 DEF NoStaleToken, Token
<1> QED
  BY <1>5, <1>6, <1>7 DEF Running

-----------------------------------------------------------------------------
(* The whole session. *)

(* The key is ready and sends on a link that was named to replace its own. *)
InPlace(key) ==
  /\ key \in MinimumChannels /\ key \in DOMAIN routes
  /\ IsReady(entries[key])
  /\ entries[key].channel = routes[key]
  /\ routes[key] \in request.replacements /\ routes[key] \in open

(* Every key rebound so far is in place if the report still says ok. *)
ReboundInPlace ==
  /\ state = "Reconnecting" => pending = request.replacements
  /\ state = "NetworkReady" => pending = {}
  /\ state \in {"Draining", "NetworkReady"} /\ ok =>
       \A l \in request.replacements \ pending : InPlace(KeyOf[l])

SessionTypeOK ==
  /\ state \in SessionState
  /\ hosted \in BOOLEAN
  /\ entries \in [MinimumChannels -> Entry]
  /\ DOMAIN routes \subseteq MinimumChannels
  /\ routes \in [DOMAIN routes -> Links]
  /\ open \subseteq Links
  /\ request \in [degraded : SUBSET Keys, replacements : SUBSET Links]
  /\ pending \subseteq request.replacements
  /\ paused \subseteq Modules
  /\ ok \in BOOLEAN
  /\ calls \in Nat

NoHostNoModules == ~hosted => \A m \in Modules : mods[m] = "Created"

IInv ==
  /\ HostInv
  /\ SessionTypeOK
  /\ NoHostNoModules
  /\ ReboundInPlace
  /\ state = "NetworkReady" =>
       \A m \in Running \cap Affected : Consumes[m] # {} => owned[m] # 0

LEMMA IInvImpliesProperties ==
  ASSUME IInv
  PROVE  TypeOK /\ IngressExactlyOnce /\ ReportHonest
<1>1. TypeOK
  BY DEF IInv, HostInv, HostTypeOK, SessionTypeOK, TypeOK
<1>2. IngressExactlyOnce
  <2>1. ASSUME NEW s \in subs, NEW t \in subs, s.module = t.module, s.route = t.route
        PROVE  s = t
    BY SMTT(30), <2>1 DEF IInv, HostInv, HostTypeOK, NoStaleToken, Token
  <2>2. ASSUME NEW m \in Running, NEW r \in Consumes[m]
        PROVE  \E s \in subs : s.module = m /\ s.route = r
    <3>1. m \in Modules /\ owned[m] # 0
      BY <2>2 DEF IInv, HostInv, WhoIsListed, Running
    <3>2. [module |-> m, route |-> r, registration |-> owned[m]] \in subs
      BY <3>1, <2>2 DEF IInv, HostInv, Complete
    <3> QED
      BY <3>2
  <2>3. ASSUME NEW s \in subs
        PROVE  mods[s.module] \in {"Running", "Failed"}
    <3>1. s.module \in Modules /\ s.registration # 0 /\ s.registration = owned[s.module]
      BY DEF IInv, HostInv, HostTypeOK, NoStaleToken, Token
    <3> QED
      BY <3>1 DEF IInv, HostInv, WhoIsListed
  <2> QED
    BY <2>1, <2>2, <2>3 DEF IngressExactlyOnce
<1>3. ReportHonest
  BY DEF IInv, ReboundInPlace, InPlace, ReportHonest
<1> QED
  BY <1>1, <1>2, <1>3

LEMMA InitHolds == Init => IInv
<1> SUFFICES ASSUME Init PROVE IInv
  OBVIOUS
<1> USE SessionAssumption DEF Init, HostInit
<1>1. HostInv
  <2>1. Mounted = {}
    BY DEF Mounted
  <2>2. order \in Seq(Mounted)
    BY EmptySeq
  <2> QED
    BY <2>1, <2>2 DEF HostInv, HostTypeOK, ModuleState, NoStaleToken, Complete, WhoIsListed
<1>2. SessionTypeOK
  <2>1. entries \in [MinimumChannels -> Entry]
    BY DEF RegisteredEntry, Entry, ChannelLifecycleState, PressureLevel
  <2>2. request \in [degraded : SUBSET Keys, replacements : SUBSET Links]
    BY DEF NoRequest
  <2> QED
    BY <2>1, <2>2 DEF SessionTypeOK, SessionState, NoRequest
<1>3. NoHostNoModules /\ ReboundInPlace
  BY DEF NoHostNoModules, ReboundInPlace, Reconnecting
<1> QED
  BY <1>1, <1>2, <1>3 DEF IInv

LEMMA HostUnchanged ==
  ASSUME HostInv, UNCHANGED hostVars
  PROVE  HostInv' /\ Running' = Running /\ owned' = owned /\ mods' = mods
  BY DEF HostInv, hostVars, HostTypeOK, NoStaleToken, Complete, WhoIsListed, Mounted, Running

(* What a rebinding does to the channel table. *)
LEMMA RebindingDoes ==
  ASSUME SessionTypeOK, NEW link \in Links, KeyOf[link] \in DOMAIN entries,
         NEW markReady \in BOOLEAN, Rebinding(link, markReady)
  PROVE  /\ entries' \in [MinimumChannels -> Entry]
         /\ DOMAIN routes' \subseteq MinimumChannels
         /\ routes' \in [DOMAIN routes' -> Links]
         /\ DOMAIN routes \subseteq DOMAIN routes'
         /\ KeyOf[link] \in MinimumChannels /\ KeyOf[link] \in DOMAIN routes'
         /\ routes'[KeyOf[link]] = link
         /\ entries'[KeyOf[link]].channel = link
         /\ markReady /\ link \in open => IsReady(entries'[KeyOf[link]])
         /\ \A k \in DOMAIN routes : k # KeyOf[link] => routes'[k] = routes[k]
         /\ \A k \in MinimumChannels : k # KeyOf[link] => entries'[k] = entries[k]
<1> DEFINE key == KeyOf[link]
           e   == Bound(entries[key], link)
           n   == IF markReady /\ CanBeReady(e, open) THEN MadeReady(e) ELSE e
<1>1. key \in MinimumChannels /\ entries[key] \in Entry
  BY DEF SessionTypeOK
<1>2. entries' = [entries EXCEPT ![key] = n]
  BY DEF Rebinding
<1>3. routes' = [k \in DOMAIN routes \cup {key} |-> IF k = key THEN link ELSE routes[k]]
  BY DEF Rebinding
<1>4. e \in Entry /\ e.channel = link
  BY <1>1 DEF Bound, Entry, ChannelLifecycleState
<1>5. link \in open => CanBeReady(e, open)
  <2>1. link # NoLink
    BY SessionAssumption
  <2> QED
    BY <1>4, <2>1 DEF CanBeReady
<1> HIDE DEF e
<1>6. n \in Entry /\ n.channel = link
  BY <1>4 DEF MadeReady, Entry, ChannelLifecycleState
<1>7. markReady /\ link \in open => IsReady(n)
  BY <1>4, <1>5 DEF MadeReady, IsReady, Entry
<1> HIDE DEF n
<1>8. entries' \in [MinimumChannels -> Entry] /\ entries'[key] = n
  BY <1>1, <1>2, <1>6 DEF SessionTypeOK
<1>9. /\ DOMAIN routes' = DOMAIN routes \cup {key}
      /\ routes' \in [DOMAIN routes' -> Links]
  BY <1>3 DEF SessionTypeOK
<1> QED
  BY <1>1, <1>2, <1>3, <1>6, <1>7, <1>8, <1>9 DEF SessionTypeOK

LEMMA RebindKeeps ==
  ASSUME IInv, NEW link \in Links, Rebind(link)
  PROVE  IInv'
<1>1. /\ state = "Draining" /\ state' = "Draining" /\ link \in pending
      /\ pending' = pending \ {link} /\ request' = request
      /\ UNCHANGED <<hostVars, hosted, open, paused, calls>>
  BY DEF Rebind
<1>2. HostInv' /\ NoHostNoModules'
  BY <1>1, HostUnchanged DEF IInv, NoHostNoModules
<1>3. request \in [degraded : SUBSET Keys, replacements : SUBSET Links]
  BY DEF IInv, SessionTypeOK
<1>5. link \in request.replacements
  BY <1>1 DEF IInv, SessionTypeOK
<1>6. CASE KeyOf[link] \in DOMAIN entries
  <2>1. Rebinding(link, TRUE) /\ ok' = (ok /\ link \in open)
    BY <1>6 DEF Rebind
  <2>2. SessionTypeOK /\ (ok => \A l \in request.replacements \ pending : InPlace(KeyOf[l]))
    BY <1>1 DEF IInv, ReboundInPlace
  <2>3. SessionTypeOK'
    BY <1>1, <1>3, <1>6, <2>1, <2>2, RebindingDoes DEF SessionTypeOK
  <2>4. ASSUME ok', NEW l \in request.replacements \ pending'
        PROVE  InPlace(KeyOf[l])'
    <3>1. ok /\ link \in open
      BY <2>1, <2>4
    <3>2. CASE KeyOf[l] = KeyOf[link]
      <4>1. /\ KeyOf[link] \in MinimumChannels /\ KeyOf[link] \in DOMAIN routes'
            /\ IsReady(entries'[KeyOf[link]]) /\ routes'[KeyOf[link]] = link
            /\ entries'[KeyOf[link]].channel = link
        BY <1>6, <2>1, <2>2, <3>1, RebindingDoes
      <4>2. InPlace(KeyOf[link])'
        BY <1>1, <1>5, <3>1, <4>1 DEF InPlace, IsReady
      <4> QED
        BY <3>2, <4>2
    <3>3. CASE KeyOf[l] # KeyOf[link]
      <4>1. l \in request.replacements \ pending
        BY <1>1, <2>4, <3>3
      <4>2. InPlace(KeyOf[l])
        BY <2>2, <3>1, <4>1
      <4>3. routes'[KeyOf[l]] = routes[KeyOf[l]] /\ entries'[KeyOf[l]] = entries[KeyOf[l]]
            /\ KeyOf[l] \in DOMAIN routes'
        BY <1>6, <2>1, <2>2, <3>3, <4>2, RebindingDoes DEF InPlace
      <4> QED
        BY <1>1, <4>2, <4>3 DEF InPlace
    <3> QED
      BY <3>2, <3>3
  <2>5. ReboundInPlace'
    BY <1>1, <2>4 DEF ReboundInPlace
  <2> QED
    BY <1>1, <1>2, <2>3, <2>5 DEF IInv
<1>7. CASE KeyOf[link] \notin DOMAIN entries
  <2>1. ok' = FALSE /\ UNCHANGED <<entries, routes>>
    BY <1>7 DEF Rebind
  <2>2. SessionTypeOK'
    BY <1>1, <2>1 DEF IInv, SessionTypeOK
  <2>3. ReboundInPlace'
    BY <1>1, <2>1 DEF ReboundInPlace
  <2> QED
    BY <1>1, <1>2, <2>2, <2>3 DEF IInv
<1> QED
  BY <1>6, <1>7

(* Between calls the report's obligations rest. *)
LEMMA AtRest ==
  ASSUME state' \notin {"Reconnecting", "Draining", "NetworkReady"}
  PROVE  ReboundInPlace' /\ state' # "NetworkReady"
  BY DEF ReboundInPlace

LEMMA StepPreserves == IInv /\ [Next]_vars => IInv'
<1> SUFFICES ASSUME IInv, [Next]_vars PROVE IInv'
  OBVIOUS
<1> USE SessionAssumption
<1>0. HostInv /\ SessionTypeOK /\ NoHostNoModules /\ ReboundInPlace
  BY DEF IInv
<1>1. CASE Start
  <2>1. /\ state' = "Running" /\ hosted' = TRUE
        /\ UNCHANGED <<hostVars, channelVars, reconnectVars>> /\ calls' = calls
    BY <1>1 DEF Start, Idle
  <2>2. SessionTypeOK'
    BY <1>0, <2>1 DEF SessionTypeOK, SessionState, channelVars, reconnectVars
  <2> QED
    BY <1>0, <2>1, <2>2, HostUnchanged, AtRest DEF IInv, NoHostNoModules
<1>2. CASE Stop
  <2>1. /\ state' = "Stopped" /\ hosted' = hosted
        /\ UNCHANGED <<channelVars, reconnectVars>> /\ calls' = calls
    BY <1>2 DEF Stop, Idle
  <2>2. SessionTypeOK'
    BY <1>0, <2>1 DEF SessionTypeOK, SessionState, channelVars, reconnectVars
  <2>3. HostInv'
    BY <1>0, <1>2, HostUnchanged, StopAllKeeps DEF Stop
  <2>4. NoHostNoModules'
    BY <1>0, <1>2, <2>1 DEF Stop, NoHostNoModules, hostVars
  <2> QED
    BY <2>1, <2>2, <2>3, <2>4, AtRest DEF IInv
<1>3. ASSUME NEW l \in Links, BindMainlineChannel(l) PROVE IInv'
  <2>1. /\ ~Reconnecting /\ calls' = calls + 1 /\ KeyOf[l] \in DOMAIN entries
        /\ Rebinding(l, l \notin Bare) /\ (l \notin Bare) \in BOOLEAN
        /\ UNCHANGED <<hostVars, state, hosted, open, reconnectVars>>
    BY <1>3 DEF BindMainlineChannel, Call
  <2>2. SessionTypeOK'
    <3>1. /\ entries' \in [MinimumChannels -> Entry]
          /\ DOMAIN routes' \subseteq MinimumChannels
          /\ routes' \in [DOMAIN routes' -> Links]
      BY <1>0, <2>1, RebindingDoes
    <3>2. calls \in Nat
      BY <1>0 DEF SessionTypeOK
    <3> QED
      BY <1>0, <2>1, <3>1, <3>2 DEF SessionTypeOK, reconnectVars
  <2> QED
    BY <1>0, <2>1, <2>2, HostUnchanged, AtRest DEF IInv, NoHostNoModules, Reconnecting
<1>4. ASSUME NEW l \in Links, CloseLink(l) PROVE IInv'
  <2>1. /\ ~Reconnecting /\ open' \subseteq open
        /\ UNCHANGED <<hostVars, state, hosted, entries, routes, reconnectVars>> /\ calls' = calls
    BY <1>4 DEF CloseLink, Idle
  <2>2. SessionTypeOK'
    BY <1>0, <2>1 DEF SessionTypeOK, reconnectVars
  <2> QED
    BY <1>0, <2>1, <2>2, HostUnchanged, AtRest DEF IInv, NoHostNoModules, Reconnecting
<1>5. ASSUME NEW m \in Modules, Mount(m) PROVE IInv'
  <2>1. /\ ~Reconnecting /\ hosted /\ AddModule(m)
        /\ UNCHANGED <<state, hosted, channelVars, reconnectVars>> /\ calls' = calls
    BY <1>5 DEF Mount, Idle
  <2>2. SessionTypeOK'
    BY <1>0, <2>1 DEF SessionTypeOK, channelVars, reconnectVars
  <2> QED
    BY <1>0, <2>1, <2>2, AddKeeps, AtRest DEF IInv, NoHostNoModules, Reconnecting
<1>6. ASSUME NEW denied, StartAllowedModules(denied) PROVE IInv'
  <2>1. /\ ~Reconnecting /\ hosted /\ calls' = calls + 1 /\ open' \subseteq open
        /\ UNCHANGED <<state, hosted, entries, routes, reconnectVars>>
    BY <1>6 DEF StartAllowedModules, Call
  <2>2. HostInv'
    <3>1. CASE StartsAll
      BY <1>0, <3>1, StartsAllKeeps
    <3>2. CASE \E i \in DOMAIN order : RollsBackAt(i)
      BY <1>0, <3>2, RollbackKeeps
    <3>3. CASE \E startable \in SUBSET Mounted :
                 \E failing \in SUBSET startable : StartsPartly(startable, failing)
      BY <1>0, <3>3, StartsPartlyKeeps
    <3>4. \A ready : Startable(ready, denied) \in SUBSET Mounted
      BY DEF Startable
    <3> QED
      BY <1>6, <3>1, <3>2, <3>3, <3>4 DEF StartAllowedModules
  <2>3. SessionTypeOK'
    BY <1>0, <2>1 DEF SessionTypeOK, reconnectVars
  <2> QED
    BY <2>1, <2>2, <2>3, AtRest DEF IInv, NoHostNoModules, Reconnecting
<1>7. ASSUME NEW degraded \in SUBSET Keys, NEW replacements \in SUBSET Links,
             BeginReconnect(degraded, replacements)
      PROVE  IInv'
  <2>1. /\ state' = "Reconnecting" /\ calls' = calls + 1
        /\ Request(degraded, replacements) /\ pending' = replacements
        /\ UNCHANGED <<hostVars, hosted, routes, open, paused>>
    BY <1>7 DEF BeginReconnect, Call
  <2>2. entries' \in [MinimumChannels -> Entry]
    <3>1. \A k \in MinimumChannels : entries[k] \in Entry /\ MadeDegraded(entries[k]) \in Entry
      <4>1. ASSUME NEW e \in Entry PROVE MadeDegraded(e) \in Entry
        BY DEF MadeDegraded, Entry, ChannelLifecycleState
      <4>2. entries \in [MinimumChannels -> Entry]
        BY <1>0 DEF SessionTypeOK
      <4> QED
        BY <4>1, <4>2
    <3>2. entries' = [k \in MinimumChannels |->
                        IF k \in degraded THEN MadeDegraded(entries[k]) ELSE entries[k]]
      BY <1>0, <1>7 DEF BeginReconnect, SessionTypeOK
    <3> QED
      BY <3>1, <3>2
  <2>3. SessionTypeOK'
    BY <1>0, <1>7, <2>1, <2>2 DEF BeginReconnect, SessionTypeOK, SessionState, Request
  <2>4. ReboundInPlace'
    BY <2>1 DEF ReboundInPlace, Request
  <2> QED
    BY <1>0, <2>1, <2>3, <2>4, HostUnchanged DEF IInv, NoHostNoModules
<1>8. CASE PauseModules
  <2>1. /\ state = "Reconnecting" /\ state' = "Draining"
        /\ UNCHANGED <<hostVars, hosted, channelVars, request, pending, ok, calls>>
    BY <1>8 DEF PauseModules
  <2>2. SessionTypeOK'
    BY <1>0, <1>8, <2>1 DEF SessionTypeOK, SessionState, channelVars, PauseModules, Running
  <2>3. ReboundInPlace'
    BY <1>0, <2>1 DEF ReboundInPlace
  <2> QED
    BY <1>0, <2>1, <2>2, <2>3, HostUnchanged DEF IInv, NoHostNoModules
<1>9. ASSUME NEW l \in Links, Rebind(l) PROVE IInv'
  BY <1>9, RebindKeeps
<1>10. CASE ReplayModuleIngress
  <2>1. /\ state = "Draining" /\ state' = "NetworkReady" /\ pending = {}
        /\ ReplayIngress(Affected)
        /\ UNCHANGED <<hosted, channelVars, reconnectVars, calls>>
    BY <1>10 DEF ReplayModuleIngress
  <2>2. HostInv' /\ mods' = mods
    BY <1>0, <2>1, ReplayKeeps DEF ReplayIngress
  <2>3. SessionTypeOK'
    BY <1>0, <2>1 DEF SessionTypeOK, SessionState, channelVars, reconnectVars
  <2>4. ReboundInPlace'
    BY <1>0, <2>1 DEF ReboundInPlace, InPlace, channelVars, reconnectVars
  <2>5. \A m \in Running' \cap Affected' : Consumes[m] # {} => owned'[m] # 0
    BY <2>2 DEF HostInv, WhoIsListed, Running
  <2> QED
    BY <1>0, <2>1, <2>2, <2>3, <2>4, <2>5 DEF IInv, NoHostNoModules
<1>11. CASE ResumeModules
  <2>1. /\ state' = "Running" /\ open' \subseteq open /\ request' = NoRequest /\ pending = {}
        /\ paused' \subseteq paused
        /\ UNCHANGED <<hostVars, hosted, entries, routes, pending, ok, calls>>
    BY <1>0, <1>11 DEF ResumeModules, ReboundInPlace
  <2>2. SessionTypeOK'
    <3>1. request' \in [degraded : SUBSET Keys, replacements : SUBSET Links] /\ pending' = {}
      BY <2>1 DEF NoRequest
    <3> QED
      BY <1>0, <2>1, <3>1 DEF SessionTypeOK, SessionState
  <2> QED
    BY <1>0, <2>1, <2>2, HostUnchanged, AtRest DEF IInv, NoHostNoModules
<1>12. CASE UNCHANGED vars
  <2>1. HostInv' /\ Running' = Running
    BY <1>0, <1>12, HostUnchanged DEF vars
  <2>2. SessionTypeOK' /\ NoHostNoModules' /\ ReboundInPlace'
    BY <1>0, <1>12 DEF vars, hostVars, SessionTypeOK, NoHostNoModules, ReboundInPlace, InPlace
  <2> QED
    BY <1>12, <2>1, <2>2 DEF IInv, vars, hostVars, Affected, AffectedKeys
<1> QED
  BY <1>1, <1>2, <1>3, <1>4, <1>5, <1>6, <1>7, <1>8, <1>9, <1>10, <1>11, <1>12
  DEF Next, ReconnectStep

-----------------------------------------------------------------------------
(* The inductive invariant holds throughout: start, reconnect and stop of   *)
(* Session and the batch operations of ModuleHost all preserve it.          *)
THEOREM InvHolds == Spec => []IInv
  BY InitHolds, StepPreserves, PTL DEF Spec

(* The types, for Session::entries_, the ingress registry and the report.   *)
THEOREM TypeCorrect == Spec => []TypeOK
  BY InvHolds, IInvImpliesProperties, PTL

(* Module ingress is exact, whatever batches are started, rolled back,      *)
(* replayed or stopped (ModuleIngressRegistry).                             *)
THEOREM ExactIngress == Spec => []IngressExactlyOnce
  BY InvHolds, IInvImpliesProperties, PTL

(* A reconnect reported as ok has rebound everything it was asked to        *)
(* (Session::reconnect).                                                    *)
THEOREM HonestReport == Spec => []ReportHonest
  BY InvHolds, IInvImpliesProperties, PTL

(* Session::stop leaves no module running and none reachable.               *)
THEOREM StoppedIsSilent == Spec => StopSilences
<1>1. ASSUME IInv, [Next]_vars
      PROVE  [state # "Stopped" /\ state' = "Stopped" => Running' = {} /\ subs' = {}]_vars
  <2> SUFFICES ASSUME Next, state # "Stopped", state' = "Stopped"
               PROVE  Running' = {} /\ subs' = {}
    BY <1>1
  <2>1. Stop
    BY DEF Next, ReconnectStep, Start, BindMainlineChannel, CloseLink, Mount,
           StartAllowedModules, BeginReconnect, PauseModules, Rebind, ReplayModuleIngress,
           ResumeModules
  <2>2. CASE hosted
    BY <1>1, <2>1, <2>2, StopAllKeeps DEF Stop, IInv
  <2>3. CASE ~hosted
    <3>1. UNCHANGED hostVars
      BY <2>1, <2>3 DEF Stop
    <3>2. \A m \in Modules : mods[m] = "Created" /\ owned[m] = 0
      BY <1>1, <2>3 DEF IInv, NoHostNoModules, HostInv, WhoIsListed
    <3>3. subs = {}
      BY <1>1, <3>2 DEF IInv, HostInv, HostTypeOK, NoStaleToken, Token
    <3> QED
      BY <3>1, <3>2, <3>3 DEF hostVars, Running
  <2> QED
    BY <2>2, <2>3
<1> QED
  BY <1>1, InvHolds, PTL DEF Spec, StopSilences
=============================================================================
