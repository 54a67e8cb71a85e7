------------------------------- MODULE Bringup ------------------------------
(***************************************************************************)
(* How a client shell and an agent shell bring a session up over its        *)
(* control channel (apps/pc/common/pc_app_shell.cpp): the client asks for   *)
(* media channels and a display codec with an FDPP peer profile request,    *)
(* the agent negotiates, listens and answers, the client dials the          *)
(* channels, both mount their modules with the codec agreed on, exchange    *)
(* their module inventories and start once the channels are ready.  The     *)
(* services on either end are PeerProfileRuntimeService and                 *)
(* ModuleInventoryRuntimeService; every wait is a bounded event loop.       *)
(*                                                                          *)
(* An agent outlives its clients: when a client process ends another one    *)
(* may connect to the same agent.                                           *)
(***************************************************************************)
EXTENDS DisplayCodec

CONSTANTS
  Required,       \* channels the display modules need before they start
  Busy,           \* endpoints of the agent's host that other programs hold
  AgentSession,   \* the agent's session id
  Requests,       \* profile requests a client may be started with
  AgentSides,     \* codec options an agent may be started with
  Versions,       \* versions of the modules on either side
  Accepted,       \* versions of the agent's that the client's are compatible with
  AcceptedClients,\* versions of the client's that the agent's are compatible with
  MaxClients      \* bound: client processes in a behaviour

ASSUME BringupAssumption ==
  /\ AgentSides \subseteq Sides /\ {r.side : r \in Requests} \subseteq Sides
  /\ {r.version : r \in Requests} \subseteq Versions /\ 0 \notin Versions
  /\ MaxClients \in Nat

VARIABLES agent, client,
          toAgent, toClient,   \* the control connection, in order
          dialled              \* media channels the client has connected

vars == <<agent, client, toAgent, toClient, dialled>>

None == [kind |-> "none"]

Init ==
  /\ \E side \in AgentSides, version \in Versions, waits \in BOOLEAN :
       agent = [phase |-> "serving", side |-> side, version |-> version,
                waits |-> waits, asked |-> FALSE, agreed |-> FALSE, with |-> None,
                handled |-> 0, encoder |-> NoCodec, serves |-> FALSE,
                remote |-> 0, peer |-> 0, listening |-> {}, ready |-> {}]
  /\ client = [run |-> 0, phase |-> "exited", request |-> None, awaits |-> "none",
               answer |-> None, decoder |-> NoCodec, version |-> 0]
  /\ toAgent = << >> /\ toClient = << >> /\ dialled = {}

AgentAlive == agent.phase # "exited"
ClientAlive == client.phase # "exited"

(* What the agent's handler negotiates from its own request and the         *)
(* client's, and what the client negotiates once more from the two pinned   *)
(* requests it is sent back: functions of the options of both.              *)
ClientSides == {r.side : r \in Requests}

Agreement ==
  [a \in AgentSides |-> [c \in ClientSides |->
     Negotiate(RequestOf(a, "encode"), RequestOf(c, "decode"))]]

Confirmed ==
  [a \in AgentSides |-> [c \in ClientSides |->
     LET agreed == Agreement[a][c]
     IN IF agreed = NoAgreement THEN NoAgreement
        ELSE Negotiate(Pinned(RequestOf(a, "encode"), agreed.encoder),
                       Pinned(RequestOf(c, "decode"), agreed.decoder))]]

EncoderOf ==
  [a \in AgentSides |-> [c \in ClientSides |-> Created(a, "encode", Agreement[a][c])]]
DecoderOf ==
  [a \in AgentSides |-> [c \in ClientSides |-> Created(c, "decode", Confirmed[a][c])]]

(***************************************************************************)
(* The agent                                                                *)
(***************************************************************************)

(* resolvePeerConnectionPlan(): channels and endpoints must be distinct;    *)
(* every failure is reported and nothing is resolved.                       *)
PlanResolves(channels) ==
  /\ channels # << >>
  /\ \A i, j \in DOMAIN channels :
       i # j => channels[i].key # channels[j].key
                /\ channels[i].endpoint # channels[j].endpoint

(* listenTcpChannelsInternal(): each channel on its own; those that could   *)
(* be opened stay open when another one fails.                              *)
Opened(channels) ==
  {c \in Range(channels) : c.endpoint \notin Busy \cup {l.endpoint : l \in agent.listening}}

(* Fault: the answer does not depend on the listeners. *)
Faulty_Exchange(request) ==
  LET plan    == PlanResolves(request.channels)
      agreed  == Agreement[agent.side][request.side] # NoAgreement
      listens == plan /\ agreed /\ request.session = AgentSession
      opened  == IF listens THEN Opened(request.channels) ELSE {}
  IN [state |-> [agent EXCEPT !.asked = @ \/ plan,
                              !.agreed = IF plan THEN agreed ELSE @,
                              !.with = IF plan THEN request.side ELSE @,
                              !.handled = @ + 1,
                              !.listening = @ \cup opened],
      reply |-> [kind |-> "profile", ok |-> listens,
                 channels |-> Range(request.channels), pinned |-> agent.side]]

(* PeerProfileService::handleRequest() with the agent's exchange handlers:  *)
(* the plan, the codec (handleAgentDisplayCodecPeerProfileExchange), then   *)
(* the listeners (applyAgentListenProfile).  What the codec handler wrote   *)
(* stays when a later handler fails.                                        *)
Exchange(request) ==
  LET plan     == PlanResolves(request.channels)
      agreed   == Agreement[agent.side][request.side] # NoAgreement
      listens  == plan /\ agreed /\ request.session = AgentSession
      opened   == IF listens THEN Opened(request.channels) ELSE {}
      ok       == listens /\ opened = Range(request.channels)
  IN [state |-> [agent EXCEPT !.asked = @ \/ plan,
                              !.agreed = IF plan THEN agreed ELSE @,
                              !.with = IF plan THEN request.side ELSE @,
                              !.handled = @ + 1,
                              !.listening = @ \cup opened],
      reply |-> [kind |-> "profile", ok |-> ok,
                 channels |-> Range(request.channels), pinned |-> agent.side]]

Reply(message) == toClient' = IF ClientAlive THEN Append(toClient, message) ELSE toClient

AgentHandlesProfile ==
  /\ AgentAlive /\ toAgent # << >> /\ Head(toAgent).kind = "profile"
  /\ LET x == Exchange(Head(toAgent).request)
     IN agent' = x.state /\ Reply(x.reply)
  /\ toAgent' = Tail(toAgent)
  /\ UNCHANGED <<client, dialled>>

(* ModuleInventoryService::handleRequest() keeps the last inventory it was  *)
(* sent; until the modules are mounted the service is not subscribed and    *)
(* the router drops the request.                                            *)
AgentHandlesInventory ==
  /\ AgentAlive /\ toAgent # << >> /\ Head(toAgent).kind = "inventory"
  /\ IF agent.serves
     THEN /\ agent' = [agent EXCEPT !.remote = Head(toAgent).version]
          /\ Reply([kind |-> "inventory", ok |-> TRUE, version |-> agent.version])
     ELSE UNCHANGED <<agent, toClient>>
  /\ toAgent' = Tail(toAgent)
  /\ UNCHANGED <<client, dialled>>

AgentEnds ==
  /\ agent' = [agent EXCEPT !.phase = "exited", !.listening = {}, !.ready = {}]
  /\ toAgent' = << >> /\ dialled' = {}
  /\ UNCHANGED <<client, toClient>>

(* waitForAgentDisplayCodecPeerProfileNegotiation(), then                   *)
(* makeProfileDependencies() and the mount, which start the inventory       *)
(* service before the event loop runs again.                                *)
AgentMounts ==
  /\ agent.phase = "serving" /\ agent.asked
  /\ IF ~agent.agreed THEN AgentEnds
     ELSE /\ agent' = [agent EXCEPT
               !.phase = IF agent.waits THEN "inventory" ELSE "channels",
               !.encoder = EncoderOf[agent.side][agent.with],
               !.serves = TRUE]
          /\ UNCHANGED <<client, toAgent, toClient, dialled>>

(* waitForModuleInventory() of a responder told to wait, which then has the *)
(* versions of its peer.                                                    *)
AgentHasInventory ==
  /\ agent.phase = "inventory" /\ agent.remote # 0
  /\ agent' = [agent EXCEPT !.phase = "channels", !.peer = agent.remote]
  /\ UNCHANGED <<client, toAgent, toClient, dialled>>

(* buildLinkChannelBindingReport(): a channel that is only listening does   *)
(* not count.                                                               *)
ChannelsReady(ready) == Required \subseteq ready

(* waitForRequiredModuleChannels() and the start of the modules, which an   *)
(* agent that has waited makes depend on the versions of its peer; without  *)
(* an inventory no version is compared.                                     *)
AgentStarts ==
  /\ agent.phase = "channels" /\ ChannelsReady(agent.ready)
  /\ IF agent.waits => agent.peer \in AcceptedClients
     THEN /\ agent' = [agent EXCEPT !.phase = "started"]
          /\ UNCHANGED <<client, toAgent, toClient, dialled>>
     ELSE AgentEnds

(* Each of the agent's waits ends with the process when its time is up. *)
AgentTimesOut ==
  /\ \/ agent.phase = "serving" /\ ~agent.asked
     \/ agent.phase = "inventory" /\ agent.remote = 0
     \/ agent.phase = "channels" /\ ~ChannelsReady(agent.ready)
  /\ AgentEnds

(* acceptListenerTcpChannel(): the server's event follows the connect. *)
AgentAccepts(key) ==
  /\ AgentAlive /\ key \in dialled \ agent.ready
  /\ agent' = [agent EXCEPT !.ready = @ \cup {key}]
  /\ UNCHANGED <<client, toAgent, toClient, dialled>>

(* A closed connection shows at the next poll of the transports. *)
AgentNoticesClose ==
  /\ AgentAlive /\ ~(agent.ready \subseteq dialled)
  /\ agent' = [agent EXCEPT !.ready = @ \cap dialled]
  /\ UNCHANGED <<client, toAgent, toClient, dialled>>

(***************************************************************************)
(* The client                                                               *)
(***************************************************************************)

(* A client process: runClientPeerProfileExchange() sends its request over  *)
(* the control channel it has just connected.                               *)
ClientBegins(request) ==
  /\ ~ClientAlive /\ client.run < MaxClients /\ AgentAlive
  /\ client' = [run |-> client.run + 1, phase |-> "profile", request |-> request,
                awaits |-> "profile", answer |-> None, decoder |-> NoCodec,
                version |-> 0]
  /\ toAgent' = <<[kind |-> "profile", request |-> request]>>
  /\ toClient' = << >> /\ dialled' = {}
  /\ UNCHANGED agent

ClientEnds ==
  /\ client' = [client EXCEPT !.phase = "exited", !.awaits = "none", !.answer = None]
  /\ toClient' = << >> /\ dialled' = {}
  /\ UNCHANGED <<agent, toAgent>>

(* Fault: the answered request stays pending. *)
Faulty_ClientReceives ==
  /\ ClientAlive /\ toClient # << >>
  /\ client' = IF client.awaits = Head(toClient).kind
               THEN [client EXCEPT !.answer = Head(toClient)] ELSE client
  /\ toClient' = Tail(toClient)
  /\ UNCHANGED <<agent, toAgent, dialled>>

(* The subscribed handlers hand a response to the tracker of its service;   *)
(* one that nothing waits for any more is dropped.                          *)
ClientReceives ==
  /\ ClientAlive /\ toClient # << >>
  /\ client' = IF client.awaits = Head(toClient).kind
               THEN [client EXCEPT !.awaits = "none", !.answer = Head(toClient)]
               ELSE client
  /\ toClient' = Tail(toClient)
  /\ UNCHANGED <<agent, toAgent, dialled>>

(* The tracker expires the request: a Timeout error completes it. *)
ClientExpires ==
  /\ ClientAlive /\ client.awaits # "none"
  /\ client' = [client EXCEPT !.awaits = "none",
                              !.answer = [kind |-> client.awaits, ok |-> FALSE]]
  /\ UNCHANGED <<agent, toAgent, toClient, dialled>>

(* connectTcpChannels(): the dialled endpoint must be listening. *)
Reachable(channels) == AgentAlive /\ channels \subseteq agent.listening

(* applyCompletedClientProfiles(), readClientDisplayCodecPeerProfile-       *)
(* Completion(), which negotiates once more between the pinned requests,    *)
(* the mount and the request for the inventory: one run of the shell        *)
(* without an event loop.                                                   *)
ClientMounts ==
  LET answer == client.answer
      agreed == Confirmed[answer.pinned][client.request.side] # NoAgreement
  IN /\ client.phase = "profile" /\ answer.kind = "profile"
     /\ IF answer.ok /\ Reachable(answer.channels) /\ agreed
        THEN /\ client' = [client EXCEPT
                  !.phase = "inventory", !.answer = None, !.awaits = "inventory",
                  !.decoder = DecoderOf[answer.pinned][client.request.side]]
             /\ dialled' = {c.key : c \in answer.channels}
             /\ toAgent' = Append(toAgent, [kind |-> "inventory",
                                         version |-> client.request.version])
             /\ UNCHANGED <<agent, toClient>>
        ELSE ClientEnds

(* waitForModuleInventory(): a terminal failure ends the shell. *)
ClientHasInventory ==
  /\ client.phase = "inventory" /\ client.answer.kind = "inventory"
  /\ IF client.answer.ok
     THEN /\ client' = [client EXCEPT !.phase = "channels", !.answer = None,
                                      !.version = client.answer.version]
          /\ UNCHANGED <<agent, toAgent, toClient, dialled>>
     ELSE ClientEnds

(* Fault: does not wait for the inventory; without one nothing is compared. *)
Faulty_ClientStarts ==
  /\ client.phase \in {"inventory", "channels"} /\ ChannelsReady(dialled)
  /\ IF client.version \in Accepted \cup {0}
     THEN /\ client' = [client EXCEPT !.phase = "started"]
          /\ UNCHANGED <<agent, toAgent, toClient, dialled>>
     ELSE ClientEnds

(* The modules start when their channels are ready and the versions of the  *)
(* peer's modules are compatible (evaluatePeerVersions()).                  *)
ClientStarts ==
  /\ client.phase = "channels" /\ ChannelsReady(dialled)
  /\ IF client.version \in Accepted
     THEN /\ client' = [client EXCEPT !.phase = "started"]
          /\ UNCHANGED <<agent, toAgent, toClient, dialled>>
     ELSE ClientEnds

(* Fault: the wait for the channels has no end. *)
Faulty_ClientTimesOut ==
  /\ client.phase \in {"profile", "inventory"} /\ client.answer = None
  /\ ClientEnds

(* The bounded waits of the shell. *)
ClientTimesOut ==
  /\ \/ client.phase \in {"profile", "inventory"} /\ client.answer = None
     \/ client.phase = "channels" /\ ~ChannelsReady(dialled)
  /\ ClientEnds

(* The user closes the client, or it crashes. *)
ClientLeaves == ClientAlive /\ ClientEnds

AgentStep ==
  \/ AgentHandlesProfile \/ AgentHandlesInventory \/ AgentMounts \/ AgentHasInventory
  \/ AgentStarts \/ AgentTimesOut \/ AgentNoticesClose
  \/ \E key \in Required : AgentAccepts(key)

ClientStep ==
  \/ ClientReceives \/ ClientExpires \/ ClientMounts \/ ClientHasInventory
  \/ ClientStarts \/ ClientTimesOut

Next == \/ AgentStep \/ ClientStep \/ ClientLeaves
        \/ \E request \in Requests : ClientBegins(request)

Spec == Init /\ [][Next]_vars
FairSpec == Spec /\ WF_vars(AgentStep) /\ WF_vars(ClientStep)

(***************************************************************************)
(* Properties                                                               *)
(***************************************************************************)

(* The shape of the state: the phases are those of the two shells, a       *)
(* request awaits at most one answer and an answer is never left beside it. *)
TypeOK ==
  /\ agent.phase \in {"serving", "inventory", "channels", "started", "exited"}
  /\ client.phase \in {"profile", "inventory", "channels", "started", "exited"}
  /\ client.awaits \in {"none", "profile", "inventory"}
  /\ client.awaits # "none" => client.answer = None
  /\ agent.ready \subseteq Required /\ dialled \subseteq Required
  /\ Len(toAgent) <= 2 /\ Len(toClient) <= 2

(* An answer that says ok stands for listeners: while the agent lives, it   *)
(* listens on every channel such an answer names, on its way or received    *)
(* and not applied yet (applyAgentListenProfile before the reply is sent).  *)
OkMeansListening ==
  \A m \in Range(toClient) \cup {client.answer} :
    m.kind = "profile" /\ m.ok /\ AgentAlive => m.channels \subseteq agent.listening

(* The decoder a client mounts is one its own options allow, and its codec  *)
(* is one the agent's options can encode, whatever happened to either side  *)
(* in between.                                                              *)
DecoderSuitsBoth ==
  client.decoder # NoCodec =>
    /\ Usable(client.decoder, RequestOf(client.request.side, "decode"))
    /\ \E c \in Range(Capabilities(agent.side)) :
         c.codec = client.decoder.codec /\ Usable(c, RequestOf(agent.side, "encode"))

(* Both sides are pinned to one codec before their modules start: the       *)
(* frames the agent encodes are those the client decodes.                   *)
CodecsAgree ==
  client.phase = "started" /\ agent.phase \in {"inventory", "channels", "started"}
    => client.decoder.codec = agent.encoder.codec

(* ... which holds as long as the agent has answered one request only.      *)
FirstPairAgrees == agent.handled = 1 => CodecsAgree

(* A client's modules run only against the version the agent really has,    *)
(* taken from the agent's own answer, and it is one they are compatible     *)
(* with: a timeout or an error never passes for an inventory.               *)
StartedAgainstRealPeer ==
  client.phase = "started" => client.version = agent.version /\ agent.version \in Accepted

(* Every bring-up settles: each client process starts or exits, and so does *)
(* the agent, whoever disappears meanwhile (the bounded waits).             *)
BringupSettles ==
  /\ client.phase \in {"profile", "inventory", "channels"}
       ~> client.phase \in {"started", "exited"}
  /\ agent.phase = "serving" ~> agent.phase \in {"started", "exited"}
=============================================================================
