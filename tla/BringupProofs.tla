---------------------------- MODULE BringupProofs ----------------------------
(***************************************************************************)
(* Proofs about Bringup and the codec negotiation it rests on: whatever the *)
(* options of two sides are, an agreement that the client confirms gives    *)
(* both sides one codec; and over every order of messages, timeouts and     *)
(* exits the two shells act on one such agreement.                          *)
(***************************************************************************)
EXTENDS Bringup, SequenceTheorems, TLAPS

Traits == {"encode", "decode", "lowLatency", "available", "fallback"}
CodecSet ==
  [adapter : {"mf.h264", "raw_frame"}, codec : {"h264", "raw"}, priority : Nat,
   traits : SUBSET Traits]

LEMMA CapabilitiesAre ==
  ASSUME NEW side \in Sides
  PROVE  /\ H264Capability(side) \in CodecSet /\ RawFrame \in CodecSet
         /\ Capabilities(side) = <<H264Capability(side), RawFrame>>
<1>. DEFINE traits == {"encode", "decode", "lowLatency"}
                        \cup (IF side.h264 THEN {"available"} ELSE {})
<1>1. traits \in SUBSET Traits
  BY DEF Traits
<1>2. H264Capability(side) = [adapter |-> "mf.h264", codec |-> "h264", priority |-> 90,
                              traits |-> traits]
  BY DEF H264Capability, Capability
<1>3. H264Capability(side) \in CodecSet
  <2>. HIDE DEF traits
  <2>. QED
    BY <1>1, <1>2 DEF CodecSet
<1>4. RawFrame \in CodecSet
  <2>. DEFINE raw == {"encode", "decode", "lowLatency", "available", "fallback"}
  <2>1. raw \in SUBSET Traits
    BY DEF Traits
  <2>2. RawFrame = [adapter |-> "raw_frame", codec |-> "raw", priority |-> 5,
                    traits |-> raw]
    BY DEF RawFrame, Capability
  <2>. HIDE DEF raw
  <2>. QED
    BY <2>1, <2>2 DEF CodecSet
<1>. QED
  BY <1>3, <1>4 DEF Capabilities

LEMMA PreferencesAre ==
  ASSUME NEW side \in Sides
  PROVE  Preference(side.option) \in
           {<<"raw">>, <<"h264", "raw">>, <<"h265", "h264", "raw">>,
            <<"av1", "h264", "raw">>, <<"h264", "h265", "raw">>}
  BY DEF Preference, Sides, Options

LEMMA ScoreIsInt ==
  ASSUME NEW c \in CodecSet, NEW request, Usable(c, request),
         Len(request.preference) \in Nat,
         DOMAIN request.preference = 1 .. Len(request.preference)
  PROVE  Score(c, request) \in Int
<1>. DEFINE n == Len(request.preference)
            rank == CHOOSE i \in 1 .. n : request.preference[i] = c.codec
<1>1. \E i \in 1 .. n : request.preference[i] = c.codec
  BY DEF Usable, Range
<1>2. rank \in 1 .. n
  BY <1>1
<1>3. rank \in Int /\ n \in Int /\ c.priority \in Int
  BY <1>2 DEF CodecSet
<1>4. \A trait, k : k \in Int => (IF trait \in c.traits THEN k ELSE 0) \in Int
  OBVIOUS
<1>5. Score(c, request) =
        c.priority + (n + 1 - rank) * 30
          + (IF "hardware" \in c.traits THEN 20 ELSE 0)
          + (IF "zeroCopy" \in c.traits THEN 10 ELSE 0)
          + (IF "lowLatency" \in c.traits THEN 5 ELSE 0)
          + (2 - (IF "fallback" \in c.traits THEN 2 ELSE 0))
  BY DEF Score
<1>. HIDE DEF rank, n
<1>. QED
  BY SMTT(30), <1>3, <1>5

(* Of one or two candidates the selection takes one that is usable, when    *)
(* there is one.                                                            *)
LEMMA SelectOfTwo ==
  ASSUME NEW a \in CodecSet, NEW b \in CodecSet, NEW request,
         request.candidates = <<a, b>>,
         Len(request.preference) \in Nat,
         DOMAIN request.preference = 1 .. Len(request.preference)
  PROVE  \/ Select(request) = NoCodec
         \/ Select(request) \in {a, b} /\ Usable(Select(request), request)
<1>. DEFINE cs == request.candidates
            usable == {i \in DOMAIN cs : Usable(cs[i], request)}
            beats(i, j) == \/ Score(cs[i], request) > Score(cs[j], request)
                           \/ Score(cs[i], request) = Score(cs[j], request) /\ i <= j
<1>1. DOMAIN cs = {1, 2} /\ cs[1] = a /\ cs[2] = b
  OBVIOUS
<1>2. \A i \in usable : Score(cs[i], request) \in Int
  BY <1>1, ScoreIsInt
<1>3. ASSUME usable # {}
      PROVE  \E i \in usable : \A j \in usable : beats(i, j)
  <2>1. usable \subseteq {1, 2}
    BY <1>1
  <2>2. CASE usable = {1, 2}
    BY <1>2, <2>2
  <2>3. CASE usable = {1}
    BY <1>2, <2>3
  <2>4. CASE usable = {2}
    BY <1>2, <2>4
  <2>. HIDE DEF usable
  <2>. QED
    BY <1>3, <2>1, <2>2, <2>3, <2>4
<1>4. Select(request) = IF usable = {} THEN NoCodec
                        ELSE cs[CHOOSE i \in usable : \A j \in usable : beats(i, j)]
  BY DEF Select
<1>5. ASSUME usable # {}
      PROVE  (CHOOSE i \in usable : \A j \in usable : beats(i, j)) \in usable
  <2>. HIDE DEF usable, beats
  <2>. QED
    BY <1>3, <1>5
<1>. QED
  BY <1>1, <1>4, <1>5

LEMMA SelectOfOne ==
  ASSUME NEW a, NEW request, request.candidates = <<a>>
  PROVE  /\ Select(request) \in {NoCodec, a}
         /\ Usable(a, request) /\ Score(a, request) \in Int => Select(request) = a
<1>. DEFINE usable == {i \in DOMAIN request.candidates : Usable(request.candidates[i], request)}
            beats(i, j) ==
              \/ Score(request.candidates[i], request) > Score(request.candidates[j], request)
              \/ Score(request.candidates[i], request) = Score(request.candidates[j], request)
                   /\ i <= j
<1>1. DOMAIN request.candidates = {1} /\ request.candidates[1] = a
  OBVIOUS
<1>2. usable = IF Usable(a, request) THEN {1} ELSE {}
  BY <1>1
<1>3. Select(request) = IF usable = {} THEN NoCodec
        ELSE request.candidates[CHOOSE i \in usable : \A j \in usable : beats(i, j)]
  BY DEF Select
<1>4. ASSUME Usable(a, request)
      PROVE  (CHOOSE i \in usable : \A j \in usable : beats(i, j)) = 1
  <2>1. usable = {1} /\ \A j \in usable : beats(1, j)
    BY <1>1, <1>2, <1>4
  <2>. HIDE DEF usable, beats
  <2>. QED
    BY <2>1
<1>. QED
  BY <1>1, <1>2, <1>3, <1>4

(* The requests the two sides select with: those made from their options,   *)
(* narrowed to one codec.                                                   *)
LEMMA SelectedOnly ==
  ASSUME NEW side \in Sides, NEW direction, NEW codec
  PROVE  LET request == Only(RequestOf(side, direction), codec)
         IN Select(request) # NoCodec =>
              /\ Select(request) \in CodecSet
              /\ Usable(Select(request), request)
              /\ Select(request).codec = codec
<1>. DEFINE request == Only(RequestOf(side, direction), codec)
<1>1. /\ request.candidates = <<H264Capability(side), RawFrame>>
      /\ request.preference = <<codec>>
  BY CapabilitiesAre DEF Only, RequestOf
<1>2. Len(request.preference) = 1 /\ DOMAIN request.preference = 1 .. 1
  BY <1>1
<1>. HIDE DEF request
<1>3. \/ Select(request) = NoCodec
      \/ /\ Select(request) \in {H264Capability(side), RawFrame}
         /\ Usable(Select(request), request)
  BY <1>1, <1>2, CapabilitiesAre, SelectOfTwo
<1>4. Usable(Select(request), request) => Select(request).codec = codec
  <2>1. Range(request.preference) = {codec}
    BY <1>1, <1>2 DEF Range
  <2>. QED
    BY <2>1 DEF Usable
<1>5. Select(request) # NoCodec =>
        /\ Select(request) \in CodecSet
        /\ Usable(Select(request), request)
        /\ Select(request).codec = codec
  BY <1>3, <1>4, CapabilitiesAre
<1>. QED
  BY <1>5 DEF request

(* What a side selects from the pinned request is the codec it is pinned to. *)
LEMMA PinnedSelection ==
  ASSUME NEW side \in Sides, NEW direction, NEW codec, NEW selected \in CodecSet,
         Usable(selected, Only(RequestOf(side, direction), codec))
  PROVE  Select(Pinned(RequestOf(side, direction), selected)) = selected
<1>. DEFINE request == Pinned(RequestOf(side, direction), selected)
            narrowed == Only(RequestOf(side, direction), codec)
<1>1. /\ request.candidates = <<selected>> /\ request.preference = <<selected.codec>>
      /\ request.adapter = selected.adapter /\ request.direction = direction
      /\ request.software = side.software
      /\ narrowed.direction = direction /\ narrowed.software = side.software
  BY DEF Pinned, RequestOf, Only
<1>2. Len(request.preference) = 1 /\ DOMAIN request.preference = 1 .. 1
      /\ request.preference[1] = selected.codec
  BY <1>1
<1>. HIDE DEF request, narrowed
<1>3. Usable(selected, narrowed)
  BY DEF narrowed
<1>4. Usable(selected, request)
  <2>1. selected.codec \in Range(request.preference)
    BY <1>2 DEF Range
  <2>2. /\ {"available", direction} \subseteq selected.traits
        /\ "hardware" \in selected.traits \/ side.software
    BY <1>1, <1>3 DEF Usable
  <2>. QED
    BY <1>1, <2>1, <2>2 DEF Usable
<1>5. Score(selected, request) \in Int
  BY <1>2, <1>4, ScoreIsInt
<1>6. Select(request) = selected
  BY <1>1, <1>4, <1>5, SelectOfOne
<1>. QED
  BY <1>6 DEF request

(* A negotiation that succeeds: both sides selected for one codec. *)
LEMMA NegotiatedTogether ==
  ASSUME NEW enc, NEW dec, Negotiate(enc, dec) # NoAgreement,
         DOMAIN enc.preference \subseteq 1 .. 3
  PROVE  \E i \in DOMAIN enc.preference :
           /\ Select(Only(enc, enc.preference[i])) # NoCodec
           /\ Select(Only(dec, enc.preference[i])) # NoCodec
           /\ Negotiate(enc, dec) =
                [encoder |-> Select(Only(enc, enc.preference[i])),
                 decoder |-> Select(Only(dec, enc.preference[i]))]
<1>. DEFINE attempt(i) == [encoder |-> Select(Only(enc, enc.preference[i])),
                           decoder |-> Select(Only(dec, enc.preference[i]))]
            works == {i \in CommonPreference(enc, dec) :
                        attempt(i).encoder # NoCodec /\ attempt(i).decoder # NoCodec}
            best == CHOOSE i \in works : \A j \in works : i <= j
<1>1. Negotiate(enc, dec) = IF works = {} THEN NoAgreement ELSE attempt(best)
  BY DEF Negotiate
<1>2. works # {} /\ Negotiate(enc, dec) = attempt(best)
  BY <1>1
<1>3. works \subseteq DOMAIN enc.preference
  BY DEF CommonPreference
<1>4. \E i \in works : \A j \in works : i <= j
  <2>. HIDE DEF works
  <2>1. works \subseteq {1, 2, 3}
    BY <1>3
  <2>2. CASE 1 \in works
    BY <2>1, <2>2
  <2>3. CASE 1 \notin works /\ 2 \in works
    BY <2>1, <2>3
  <2>4. CASE 1 \notin works /\ 2 \notin works
    <3>1. PICK i \in works : TRUE
      BY <1>2
    <3>2. works = {3}
      BY <2>1, <2>4, <3>1
    <3>. QED
      BY <3>2
  <2>. QED
    BY <2>2, <2>3, <2>4
<1>5. best \in works
  <2>. HIDE DEF works
  <2>. QED
    BY <1>4
<1>6. attempt(best).encoder = Select(Only(enc, enc.preference[best]))
      /\ attempt(best).decoder = Select(Only(dec, enc.preference[best]))
  OBVIOUS
<1>7. best \in DOMAIN enc.preference
  BY <1>3, <1>5
<1>8. attempt(best).encoder # NoCodec /\ attempt(best).decoder # NoCodec
  BY <1>5
<1>. HIDE DEF best
<1>. QED
  BY <1>2, <1>6, <1>7, <1>8

(* When the client's second negotiation confirms the agreement, the codec   *)
(* objects the two sides create are of one codec.                           *)
LEMMA CodecsOfAPair ==
  ASSUME NEW a \in AgentSides, NEW c \in ClientSides, Confirmed[a][c] # NoAgreement
  PROVE  EncoderOf[a][c].codec = DecoderOf[a][c].codec
<1>. DEFINE ra == RequestOf(a, "encode")
            rc == RequestOf(c, "decode")
            agreed == Negotiate(ra, rc)
            again == Negotiate(Pinned(ra, agreed.encoder), Pinned(rc, agreed.decoder))
<1>1. a \in Sides /\ c \in Sides
  BY BringupAssumption DEF ClientSides
<1>2. Agreement[a][c] = agreed
  BY DEF Agreement
<1>3. agreed # NoAgreement /\ Confirmed[a][c] = again
  BY <1>2 DEF Confirmed
<1>4. again # NoAgreement
  BY <1>3
<1>5. PICK i \in DOMAIN ra.preference :
        /\ Select(Only(ra, ra.preference[i])) # NoCodec
        /\ Select(Only(rc, ra.preference[i])) # NoCodec
        /\ agreed = [encoder |-> Select(Only(ra, ra.preference[i])),
                     decoder |-> Select(Only(rc, ra.preference[i]))]
  <2>1. ra.preference = Preference(a.option)
    BY DEF RequestOf
  <2>2. DOMAIN ra.preference \subseteq 1 .. 3
    BY <1>1, <2>1, PreferencesAre
  <2>. HIDE DEF ra, rc
  <2>. QED
    BY <1>3, <2>2, NegotiatedTogether
<1>. DEFINE codec == ra.preference[i]
<1>6. /\ agreed.encoder = Select(Only(ra, codec)) /\ agreed.encoder # NoCodec
      /\ agreed.decoder = Select(Only(rc, codec)) /\ agreed.decoder # NoCodec
  BY <1>5
<1>. HIDE DEF codec
<1>7. /\ agreed.encoder \in CodecSet /\ agreed.encoder.codec = codec
      /\ Usable(agreed.encoder, Only(ra, codec))
  BY <1>1, <1>6, SelectedOnly
<1>8. /\ agreed.decoder \in CodecSet /\ agreed.decoder.codec = codec
      /\ Usable(agreed.decoder, Only(rc, codec))
  BY <1>1, <1>6, SelectedOnly
<1>. HIDE DEF agreed
<1>9. /\ Select(Pinned(ra, agreed.encoder)) = agreed.encoder
      /\ Select(Pinned(rc, agreed.decoder)) = agreed.decoder
  BY <1>1, <1>7, <1>8, PinnedSelection
<1>10. EncoderOf[a][c] = agreed.encoder
  <2>1. EncoderOf[a][c] = Created(a, "encode", Agreement[a][c])
    BY DEF EncoderOf
  <2>. QED
    BY <1>2, <1>9, <2>1 DEF Created
<1>11. again.decoder = agreed.decoder
  <2>. DEFINE pa == Pinned(ra, agreed.encoder)
              pc == Pinned(rc, agreed.decoder)
  <2>1. /\ pa.preference = <<codec>> /\ pc.preference = <<codec>>
        /\ DOMAIN pa.preference = {1} /\ pa.preference[1] = codec
    BY <1>7, <1>8 DEF Pinned, RequestOf
  <2>2. Only(pc, codec) = pc
    <3>1. pc = [rc EXCEPT !.preference = <<codec>>,
                          !.adapter = agreed.decoder.adapter,
                          !.candidates = <<agreed.decoder>>]
      BY <1>8 DEF Pinned
    <3>2. DOMAIN rc = {"direction", "preference", "adapter", "software", "candidates"}
      BY DEF RequestOf
    <3>. HIDE DEF rc, pc
    <3>. QED
      BY <3>1, <3>2 DEF Only
  <2>3. PICK j \in DOMAIN pa.preference :
          again = [encoder |-> Select(Only(pa, pa.preference[j])),
                   decoder |-> Select(Only(pc, pa.preference[j]))]
    <3>. HIDE DEF pa, pc
    <3>1. Negotiate(pa, pc) # NoAgreement
      BY <1>4 DEF pa, pc
    <3>2. DOMAIN pa.preference \subseteq 1 .. 3
      BY <2>1
    <3>. QED
      BY <3>1, <3>2, NegotiatedTogether DEF pa, pc
  <2>. HIDE DEF pa, again
  <2>4. again.decoder = Select(pc)
    BY <2>1, <2>2, <2>3
  <2>. QED
    BY <1>9, <2>4
<1>12. DecoderOf[a][c] = agreed.decoder
  <2>1. DecoderOf[a][c] = Created(c, "decode", Confirmed[a][c])
    BY DEF DecoderOf
  <2>. HIDE DEF again
  <2>. QED
    BY <1>3, <1>9, <1>11, <2>1 DEF Created
<1>. QED
  BY <1>7, <1>8, <1>10, <1>12

(***************************************************************************)
(* The inductive invariant                                                  *)
(***************************************************************************)

Channels == UNION {Range(r.channels) : r \in Requests}
ProfileReplies == [kind : {"profile"}, ok : BOOLEAN, channels : SUBSET Channels,
                   pinned : AgentSides]
InventoryReplies == [kind : {"inventory"}, ok : {TRUE}, version : Versions]
Replies == ProfileReplies \cup InventoryReplies
Failures == [kind : {"profile", "inventory"}, ok : {FALSE}]
Asked == [kind : {"profile"}, request : Requests] \cup
         [kind : {"inventory"}, version : Versions]

Encoders == {NoCodec} \cup UNION {{EncoderOf[a][c] : c \in ClientSides} : a \in AgentSides}
Decoders == {NoCodec} \cup UNION {{DecoderOf[a][c] : c \in ClientSides} : a \in AgentSides}

AgentSet ==
  [phase : {"serving", "inventory", "channels", "started", "exited"},
   side : AgentSides, version : Versions, waits : BOOLEAN, asked : BOOLEAN,
   agreed : BOOLEAN, with : ClientSides \cup {None}, handled : Nat,
   encoder : Encoders,
   serves : BOOLEAN, remote : Versions \cup {0},
   peer : Versions \cup {0}, listening : SUBSET Channels,
   ready : SUBSET Required]

ClientSet ==
  [run : Nat, phase : {"profile", "inventory", "channels", "started", "exited"},
   request : Requests \cup {None}, awaits : {"none", "profile", "inventory"},
   answer : Replies \cup Failures \cup {None},
   decoder : Decoders,
   version : Versions \cup {0}]

TypeInv ==
  /\ agent \in AgentSet /\ client \in ClientSet
  /\ toAgent \in Seq(Asked) /\ toClient \in Seq(Replies)
  /\ client.phase # "exited" => client.request \in Requests

(* The agent mounts for the options it negotiated with last. *)
AgentInv ==
  /\ agent.asked => agent.with \in ClientSides /\ agent.handled >= 1
  /\ agent.phase \in {"inventory", "channels", "started"} =>
       /\ agent.asked
       /\ agent.handled = 1 => agent.encoder = EncoderOf[agent.side][agent.with]

(* A profile request on its way is the last client's. *)
RequestsInv ==
  \A m \in Range(toAgent) : m.kind = "profile" => m.request = client.request

(* An answer, on its way or received, speaks for the agent as it is. *)
Speaks(m) ==
  /\ m.kind = "profile" /\ m.ok =>
       /\ m.pinned = agent.side /\ agent.handled >= 1
       /\ agent.handled = 1 => agent.with = client.request.side
       /\ AgentAlive => m.channels \subseteq agent.listening
  /\ m.kind = "inventory" /\ m.ok => m.version = agent.version

AnswersInv == \A m \in Range(toClient) \cup {client.answer} : Speaks(m)

(* What the client took over from the answers it applied. *)
ClientInv ==
  /\ client.phase \in {"inventory", "channels", "started"} =>
       /\ Confirmed[agent.side][client.request.side] # NoAgreement
       /\ client.decoder = DecoderOf[agent.side][client.request.side]
       /\ agent.handled >= 1
       /\ agent.handled = 1 => agent.with = client.request.side
  /\ client.phase \in {"channels", "started"} => client.version = agent.version
  /\ client.phase = "started" => client.version \in Accepted

Inv == TypeInv /\ AgentInv /\ RequestsInv /\ AnswersInv /\ ClientInv

LEMMA InitInv == Init => Inv
<1>. SUFFICES ASSUME Init PROVE Inv
  OBVIOUS
<1>1. PICK side \in AgentSides, version \in Versions, waits \in BOOLEAN :
        agent = [phase |-> "serving", side |-> side, version |-> version,
                 waits |-> waits, asked |-> FALSE, agreed |-> FALSE, with |-> None,
                 handled |-> 0, encoder |-> NoCodec, serves |-> FALSE,
                 remote |-> 0, peer |-> 0, listening |-> {}, ready |-> {}]
  BY DEF Init
<1>2. agent \in AgentSet /\ agent.phase = "serving" /\ ~agent.asked
  BY <1>1 DEF AgentSet, Encoders
<1>3. client \in ClientSet /\ client.phase = "exited" /\ client.answer = None
  BY DEF Init, ClientSet, Decoders
<1>4. /\ toAgent \in Seq(Asked) /\ toClient \in Seq(Replies)
      /\ Range(toAgent) = {} /\ Range(toClient) = {}
  BY DEF Init, Range
<1>5. None.kind = "none"
  BY DEF None
<1>6. AnswersInv
  BY <1>3, <1>4, <1>5 DEF AnswersInv, Speaks
<1>. QED
  BY <1>2, <1>3, <1>4, <1>6 DEF Inv, TypeInv, AgentInv, RequestsInv, ClientInv

LEMMA TakeOne ==
  ASSUME NEW S, NEW s \in Seq(S), s # << >>
  PROVE  /\ Tail(s) \in Seq(S) /\ Head(s) \in S /\ Head(s) \in Range(s)
         /\ Range(Tail(s)) \subseteq Range(s)
  BY HeadTailProperties DEF Range

LEMMA AddOne ==
  ASSUME NEW S, NEW s \in Seq(S), NEW e \in S
  PROVE  Append(s, e) \in Seq(S) /\ Range(Append(s, e)) = Range(s) \cup {e}
  BY AppendProperties DEF Range

(* An answer says no more of an agent that has ended, and a client that     *)
(* ends forgets its answers.                                                *)
LEMMA AgentEndsKeeps ==
  ASSUME Inv, AgentEnds
  PROVE  Inv'
<1>1. /\ agent' = [agent EXCEPT !.phase = "exited", !.listening = {}, !.ready = {}]
      /\ agent \in AgentSet /\ toAgent' = << >>
      /\ client' = client /\ toClient' = toClient
  BY DEF AgentEnds, Inv, TypeInv
<1>2. /\ agent' \in AgentSet /\ agent'.phase = "exited"
      /\ agent'.asked = agent.asked /\ agent'.with = agent.with
      /\ agent'.handled = agent.handled /\ agent'.side = agent.side
      /\ agent'.version = agent.version
  BY <1>1 DEF AgentSet
<1>3. toAgent' \in Seq(Asked) /\ Range(toAgent') = {}
  BY <1>1 DEF Range
<1>4. TypeInv'
  BY <1>1, <1>2, <1>3 DEF Inv, TypeInv
<1>5. AgentInv'
  BY <1>2 DEF Inv, AgentInv
<1>6. RequestsInv'
  BY <1>3 DEF RequestsInv
<1>7. AnswersInv'
  <2>1. \A m : Speaks(m) => Speaks(m)'
    BY <1>1, <1>2 DEF Speaks, AgentAlive
  <2>. QED
    BY <1>1, <2>1 DEF Inv, AnswersInv
<1>8. ClientInv'
  BY <1>1, <1>2 DEF Inv, ClientInv
<1>. QED
  BY <1>4, <1>5, <1>6, <1>7, <1>8 DEF Inv

LEMMA ClientEndsKeeps ==
  ASSUME Inv, ClientEnds
  PROVE  Inv'
<1>1. /\ client' = [client EXCEPT !.phase = "exited", !.awaits = "none", !.answer = None]
      /\ client \in ClientSet /\ toClient' = << >>
      /\ agent' = agent /\ toAgent' = toAgent
  BY DEF ClientEnds, Inv, TypeInv
<1>2. /\ client' \in ClientSet /\ client'.phase = "exited" /\ client'.answer = None
      /\ client'.request = client.request
  BY <1>1 DEF ClientSet
<1>3. toClient' \in Seq(Replies) /\ Range(toClient') = {} /\ None.kind = "none"
  BY <1>1 DEF Range, None
<1>4. TypeInv'
  BY <1>1, <1>2, <1>3 DEF Inv, TypeInv
<1>5. AgentInv'
  BY <1>1 DEF Inv, AgentInv
<1>6. RequestsInv'
  BY <1>1, <1>2 DEF Inv, RequestsInv
<1>7. AnswersInv'
  BY <1>2, <1>3 DEF AnswersInv, Speaks
<1>8. ClientInv'
  BY <1>2 DEF ClientInv
<1>. QED
  BY <1>4, <1>5, <1>6, <1>7, <1>8 DEF Inv

(* A step of the agent that leaves its answers true: its options, version   *)
(* and negotiation stay as they are and no listener closes.                 *)
Undisturbed ==
  /\ agent'.side = agent.side /\ agent'.version = agent.version
  /\ agent'.handled = agent.handled /\ agent'.with = agent.with
  /\ agent'.asked = agent.asked
  /\ agent.listening \subseteq agent'.listening
  /\ agent'.phase # "exited" => agent.phase # "exited"

LEMMA UndisturbedKeeps ==
  ASSUME Inv, Undisturbed, UNCHANGED client
  PROVE  ClientInv' /\ \A m : Speaks(m) => Speaks(m)'
<1>1. \A m : Speaks(m) => Speaks(m)'
  BY DEF Speaks, AgentAlive, Undisturbed
<1>2. ClientInv'
  BY DEF Inv, ClientInv, Undisturbed
<1>. QED
  BY <1>1, <1>2

LEMMA AgentMountsKeeps ==
  ASSUME Inv, AgentMounts
  PROVE  Inv'
<1>1. CASE ~agent.agreed
  BY <1>1, AgentEndsKeeps DEF AgentMounts
<1>2. CASE agent.agreed
  <2>. DEFINE phase == IF agent.waits THEN "inventory" ELSE "channels"
              encoder == EncoderOf[agent.side][agent.with]
  <2>1. /\ agent' = [agent EXCEPT !.phase = phase, !.encoder = encoder, !.serves = TRUE]
        /\ agent \in AgentSet /\ agent.asked /\ agent.phase = "serving"
        /\ client' = client /\ toAgent' = toAgent /\ toClient' = toClient
    BY <1>2 DEF AgentMounts, Inv, TypeInv
  <2>2. agent.with \in ClientSides /\ agent.side \in AgentSides
    BY <2>1 DEF Inv, AgentInv, AgentSet
  <2>3. encoder \in Encoders
    BY <2>2 DEF Encoders
  <2>4. phase \in {"inventory", "channels"}
    OBVIOUS
  <2>. HIDE DEF encoder, phase
  <2>5. /\ agent' \in AgentSet /\ agent'.asked /\ agent'.encoder = encoder
        /\ Undisturbed
    BY <2>1, <2>3, <2>4 DEF AgentSet, Undisturbed
  <2>6. TypeInv'
    BY <2>1, <2>5 DEF Inv, TypeInv
  <2>7. AgentInv'
    BY <2>1, <2>5 DEF Inv, AgentInv, Undisturbed, encoder
  <2>8. RequestsInv'
    BY <2>1 DEF Inv, RequestsInv
  <2>9. AnswersInv' /\ ClientInv'
    BY <2>1, <2>5, UndisturbedKeeps DEF Inv, AnswersInv
  <2>. QED
    BY <2>6, <2>7, <2>8, <2>9 DEF Inv
<1>. QED
  BY <1>1, <1>2

(* The waits of the agent, once it has mounted. *)
LEMMA AgentWaitsKeep ==
  ASSUME Inv, AgentHasInventory \/ AgentStarts
  PROVE  Inv'
<1>0. CASE AgentEnds
  BY <1>0, AgentEndsKeeps
<1>1. CASE ~AgentEnds
  <2>1. PICK phase \in {"channels", "started"}, peer \in {agent.peer, agent.remote} :
          /\ agent' = [agent EXCEPT !.phase = phase, !.peer = peer]
          /\ agent \in AgentSet /\ agent.phase \in {"inventory", "channels"}
          /\ client' = client /\ toAgent' = toAgent /\ toClient' = toClient
    <3>1. agent \in AgentSet
      BY DEF Inv, TypeInv
    <3>2. CASE AgentHasInventory
      BY <3>1, <3>2 DEF AgentHasInventory
    <3>3. CASE AgentStarts
      <4>1. agent.phase = "channels" /\ agent' = [agent EXCEPT !.phase = "started"]
            /\ UNCHANGED <<client, toAgent, toClient>>
        BY <1>1, <3>3 DEF AgentStarts
      <4>2. agent' = [agent EXCEPT !.phase = "started", !.peer = agent.peer]
        BY <3>1, <4>1 DEF AgentSet
      <4> QED
        BY <3>1, <4>1, <4>2
    <3> QED
      BY <3>2, <3>3
  <2>2. agent' \in AgentSet /\ Undisturbed /\ agent'.encoder = agent.encoder
    BY <2>1 DEF AgentSet, Undisturbed
  <2>3. TypeInv'
    BY <2>1, <2>2 DEF Inv, TypeInv
  <2>4. AgentInv'
    BY <2>1, <2>2 DEF Inv, AgentInv, Undisturbed
  <2>5. RequestsInv'
    BY <2>1 DEF Inv, RequestsInv
  <2>6. AnswersInv' /\ ClientInv'
    BY <2>1, <2>2, UndisturbedKeeps DEF Inv, AnswersInv
  <2>. QED
    BY <2>3, <2>4, <2>5, <2>6 DEF Inv
<1>. QED
  BY <1>0, <1>1

LEMMA AgentTransportKeeps ==
  ASSUME Inv, AgentNoticesClose \/ \E key \in Required : AgentAccepts(key)
  PROVE  Inv'
<1>1. PICK ready \in SUBSET Required :
        /\ agent' = [agent EXCEPT !.ready = ready]
        /\ agent \in AgentSet
        /\ client' = client /\ toAgent' = toAgent /\ toClient' = toClient
  <2>1. agent \in AgentSet /\ agent.ready \subseteq Required
    BY DEF Inv, TypeInv, AgentSet
  <2>2. CASE AgentNoticesClose
    BY <2>1, <2>2 DEF AgentNoticesClose
  <2>3. CASE \E key \in Required : AgentAccepts(key)
    BY ZenonT(40), <2>1, <2>3 DEF AgentAccepts
  <2>. QED
    BY <2>2, <2>3
<1>2. agent' \in AgentSet /\ Undisturbed /\ agent'.encoder = agent.encoder
      /\ agent'.phase = agent.phase
  BY <1>1 DEF AgentSet, Undisturbed
<1>3. TypeInv'
  BY <1>1, <1>2 DEF Inv, TypeInv
<1>4. AgentInv'
  BY <1>1, <1>2 DEF Inv, AgentInv, Undisturbed
<1>5. RequestsInv'
  BY <1>1 DEF Inv, RequestsInv
<1>6. AnswersInv' /\ ClientInv'
  BY <1>1, <1>2, UndisturbedKeeps DEF Inv, AnswersInv
<1>. QED
  BY <1>3, <1>4, <1>5, <1>6 DEF Inv

LEMMA AgentHandlesInventoryKeeps ==
  ASSUME Inv, AgentHandlesInventory
  PROVE  Inv'
<1>. DEFINE reply == [kind |-> "inventory", ok |-> TRUE, version |-> agent.version]
<1>1. /\ agent \in AgentSet /\ toClient \in Seq(Replies)
      /\ toAgent \in Seq(Asked) /\ toAgent # << >>
      /\ client' = client /\ toAgent' = Tail(toAgent)
  BY DEF AgentHandlesInventory, Inv, TypeInv
<1>2. reply \in Replies
  BY <1>1 DEF AgentSet, Replies, InventoryReplies
<1>3. \/ agent' = [agent EXCEPT !.remote = Head(toAgent).version] /\ Reply(reply)
      \/ UNCHANGED <<agent, toClient>>
  BY DEF AgentHandlesInventory
<1>. HIDE DEF reply
<1>4. agent' \in AgentSet /\ Undisturbed /\ agent'.encoder = agent.encoder
      /\ agent'.phase = agent.phase
  <2>1. Head(toAgent) \in Asked /\ Head(toAgent).kind = "inventory"
    BY <1>1, TakeOne DEF AgentHandlesInventory
  <2>2. Head(toAgent).version \in Versions
    BY <2>1 DEF Asked
  <2>. QED
    BY <1>1, <1>3, <2>2 DEF AgentSet, Undisturbed
<1>5. /\ toClient' \in Seq(Replies)
      /\ Range(toClient') \subseteq Range(toClient) \cup {reply}
  <2>1. /\ Append(toClient, reply) \in Seq(Replies)
        /\ Range(Append(toClient, reply)) = Range(toClient) \cup {reply}
    BY <1>1, <1>2, AddOne
  <2>2. toClient' \in {toClient, Append(toClient, reply)}
    BY <1>3 DEF Reply
  <2>. QED
    BY <1>1, <2>1, <2>2
<1>6. toAgent' \in Seq(Asked) /\ Range(toAgent') \subseteq Range(toAgent)
  BY <1>1, TakeOne
<1>7. TypeInv'
  BY <1>1, <1>4, <1>5, <1>6 DEF Inv, TypeInv
<1>8. AgentInv'
  BY <1>4 DEF Inv, AgentInv, Undisturbed
<1>9. RequestsInv'
  BY <1>1, <1>6 DEF Inv, RequestsInv
<1>10. Speaks(reply)
  BY DEF Speaks, reply
<1>11. AnswersInv' /\ ClientInv'
  <2>1. ClientInv' /\ \A m : Speaks(m) => Speaks(m)'
    BY <1>1, <1>4, UndisturbedKeeps
  <2>2. \A m \in Range(toClient') \cup {client'.answer} : Speaks(m)
    BY <1>1, <1>5, <1>10 DEF Inv, AnswersInv
  <2>. QED
    BY <2>1, <2>2 DEF AnswersInv
<1>. QED
  BY <1>7, <1>8, <1>9, <1>11 DEF Inv

(* The answer to a profile request says ok only when the agent listens, and *)
(* as long as it is the agent's first one it is about the codecs agreed on. *)
LEMMA AgentHandlesProfileKeeps ==
  ASSUME Inv, AgentHandlesProfile
  PROVE  Inv'
<1>. DEFINE request == Head(toAgent).request
            x == Exchange(request)
            plan == PlanResolves(request.channels)
            agreed == Agreement[agent.side][request.side] # NoAgreement
            listens == plan /\ agreed /\ request.session = AgentSession
            opened == IF listens THEN Opened(request.channels) ELSE {}
            ok == listens /\ opened = Range(request.channels)
            asked == agent.asked \/ plan
            settled == IF plan THEN agreed ELSE agent.agreed
            with == IF plan THEN request.side ELSE agent.with
            handled == agent.handled + 1
            listening == agent.listening \cup opened
            answer == [kind |-> "profile", ok |-> ok,
                      channels |-> Range(request.channels), pinned |-> agent.side]
<1>1. /\ agent \in AgentSet /\ client \in ClientSet /\ toClient \in Seq(Replies)
      /\ toAgent \in Seq(Asked) /\ toAgent # << >> /\ Head(toAgent).kind = "profile"
      /\ client' = client /\ toAgent' = Tail(toAgent)
  BY DEF AgentHandlesProfile, Inv, TypeInv
<1>2. Head(toAgent) \in Asked /\ Head(toAgent) \in Range(toAgent)
      /\ toAgent' \in Seq(Asked) /\ Range(toAgent') \subseteq Range(toAgent)
  BY <1>1, TakeOne
<1>3. request \in Requests /\ request = client.request
  BY <1>1, <1>2 DEF Inv, RequestsInv, Asked
<1>4. request.side \in ClientSides /\ Range(request.channels) \subseteq Channels
  BY <1>3 DEF ClientSides, Channels
<1>5. opened \subseteq Channels
  BY <1>4 DEF Opened
<1>6. answer \in Replies
  BY <1>1, <1>4 DEF AgentSet, Replies, ProfileReplies
<1>7. /\ agent' = [agent EXCEPT !.asked = asked, !.agreed = settled, !.with = with,
                                !.handled = handled, !.listening = listening]
      /\ Reply(answer)
  BY DEF AgentHandlesProfile, Exchange
<1>8. ok \in BOOLEAN /\ plan \in BOOLEAN /\ agreed \in BOOLEAN
      /\ (ok => plan /\ opened = Range(request.channels))
  BY DEF PlanResolves
<1>9. /\ asked \in BOOLEAN /\ settled \in BOOLEAN /\ with \in ClientSides \cup {None}
      /\ handled \in Nat /\ listening \in SUBSET Channels
  <2>1. asked \in BOOLEAN
    OBVIOUS
  <2>2. settled \in BOOLEAN /\ with \in ClientSides \cup {None}
    <3>1. CASE plan
      BY <1>4, <1>8, <3>1
    <3>2. CASE ~plan
      BY <1>1, <3>2 DEF AgentSet
    <3>. QED
      BY <3>1, <3>2
  <2>3. handled \in Nat /\ listening \in SUBSET Channels
    BY <1>1, <1>5 DEF AgentSet
  <2>. QED
    BY <2>1, <2>2, <2>3
<1>10. /\ (agent.asked => asked) /\ (plan => with = request.side)
       /\ (~plan => (asked => agent.asked) /\ with = agent.with)
       /\ handled = agent.handled + 1 /\ handled > 0 /\ agent.handled \in Nat
       /\ listening = agent.listening \cup opened
  BY <1>1, <1>8 DEF AgentSet
<1>11. PICK reply \in Replies :
         /\ Reply(reply) /\ reply.kind = "profile" /\ reply.ok = ok
         /\ reply.pinned = agent.side /\ reply.channels = Range(request.channels)
  BY <1>6, <1>7
<1>. HIDE DEF answer, plan, agreed, listens, opened, ok, with, request, asked, settled,
              handled, listening
<1>12. /\ agent' \in AgentSet /\ agent'.phase = agent.phase
       /\ agent'.side = agent.side /\ agent'.version = agent.version
       /\ agent'.handled = handled /\ agent'.with = with
       /\ agent'.asked = asked /\ agent'.encoder = agent.encoder
       /\ agent'.listening = listening
  BY <1>1, <1>7, <1>9 DEF AgentSet
<1>13. /\ toClient' \in Seq(Replies)
       /\ Range(toClient') \subseteq Range(toClient) \cup {reply}
  <2>1. /\ Append(toClient, reply) \in Seq(Replies)
        /\ Range(Append(toClient, reply)) = Range(toClient) \cup {reply}
    BY <1>1, AddOne
  <2>2. toClient' \in {toClient, Append(toClient, reply)}
    BY <1>11 DEF Reply
  <2>. QED
    BY <1>1, <2>1, <2>2
<1>14. TypeInv'
  BY <1>1, <1>2, <1>12, <1>13 DEF Inv, TypeInv
<1>15. AgentInv'
  <2>1. agent'.asked => agent'.with \in ClientSides /\ agent'.handled >= 1
    <3>1. CASE plan
      BY <1>4, <1>10, <1>12, <3>1
    <3>2. CASE ~plan
      BY <1>10, <1>12, <3>2 DEF Inv, AgentInv
    <3>. QED
      BY <1>8, <3>1, <3>2
  <2>2. ASSUME agent'.phase \in {"inventory", "channels", "started"}
        PROVE  /\ agent'.asked
               /\ agent'.handled = 1 => agent'.encoder = EncoderOf[agent'.side][agent'.with]
    <3>1. agent.asked /\ agent.handled >= 1
      BY <1>12, <2>2 DEF Inv, AgentInv
    <3>2. asked
      BY <1>8, <1>10, <3>1
    <3>. QED
      BY <1>10, <1>12, <3>1, <3>2
  <2>. QED
    BY <2>1, <2>2 DEF AgentInv
<1>16. RequestsInv'
  BY <1>1, <1>2 DEF Inv, RequestsInv
<1>17. AnswersInv'
  <2>1. \A m : Speaks(m) => Speaks(m)'
    BY <1>1, <1>10, <1>12 DEF Speaks, AgentAlive
  <2>2. Speaks(reply)'
    <3>1. ok => /\ with = client'.request.side
                /\ Range(request.channels) \subseteq listening
      BY <1>1, <1>3, <1>8, <1>10
    <3>. QED
      BY <1>10, <1>11, <1>12, <3>1 DEF Speaks, AgentAlive
  <2>3. \A m \in Range(toClient') \cup {client'.answer} : m = reply \/ Speaks(m)
    BY <1>1, <1>13 DEF Inv, AnswersInv
  <2>. QED
    BY <2>1, <2>2, <2>3 DEF AnswersInv
<1>18. ClientInv'
  BY <1>1, <1>10, <1>12 DEF Inv, ClientInv
<1>. QED
  BY <1>14, <1>15, <1>16, <1>17, <1>18 DEF Inv

(***************************************************************************)
(* The client                                                               *)
(***************************************************************************)

LEMMA ClientBeginsKeeps ==
  ASSUME Inv, NEW request \in Requests, ClientBegins(request)
  PROVE  Inv'
<1>. DEFINE message == [kind |-> "profile", request |-> request]
<1>1. /\ client' = [run |-> client.run + 1, phase |-> "profile", request |-> request,
                    awaits |-> "profile", answer |-> None, decoder |-> NoCodec,
                    version |-> 0]
      /\ client \in ClientSet /\ toAgent' = <<message>> /\ toClient' = << >>
      /\ agent' = agent
  BY DEF ClientBegins, Inv, TypeInv
<1>2. /\ client' \in ClientSet /\ client'.phase = "profile" /\ client'.answer = None
      /\ client'.request = request
  BY <1>1 DEF ClientSet, Decoders
<1>3. message \in Asked /\ message.request = request
  BY DEF Asked
<1>. HIDE DEF message
<1>4. /\ toAgent' \in Seq(Asked) /\ Range(toAgent') = {message}
      /\ toClient' \in Seq(Replies) /\ Range(toClient') = {}
      /\ None.kind = "none"
  BY <1>1, <1>3 DEF Range, None
<1>5. TypeInv'
  BY <1>1, <1>2, <1>4 DEF Inv, TypeInv
<1>6. AgentInv'
  BY <1>1 DEF Inv, AgentInv
<1>7. RequestsInv'
  BY <1>2, <1>3, <1>4 DEF RequestsInv
<1>8. AnswersInv'
  BY <1>2, <1>4 DEF AnswersInv, Speaks
<1>9. ClientInv'
  BY <1>2 DEF ClientInv
<1>. QED
  BY <1>5, <1>6, <1>7, <1>8, <1>9 DEF Inv

LEMMA ClientReceivesKeeps ==
  ASSUME Inv, ClientReceives
  PROVE  Inv'
<1>. DEFINE head == Head(toClient)
<1>1. /\ client \in ClientSet /\ toClient \in Seq(Replies) /\ toClient # << >>
      /\ agent' = agent /\ toAgent' = toAgent /\ toClient' = Tail(toClient)
  BY DEF ClientReceives, Inv, TypeInv
<1>2. /\ toClient' \in Seq(Replies) /\ Range(toClient') \subseteq Range(toClient)
      /\ head \in Replies /\ head \in Range(toClient)
  BY <1>1, TakeOne
<1>3. \/ client' = [client EXCEPT !.awaits = "none", !.answer = head]
      \/ client' = client
  BY DEF ClientReceives
<1>. HIDE DEF head
<1>4. /\ client' \in ClientSet /\ client'.phase = client.phase
      /\ client'.request = client.request /\ client'.answer \in {client.answer, head}
      /\ client'.decoder = client.decoder /\ client'.version = client.version
  BY <1>1, <1>2, <1>3 DEF ClientSet
<1>5. TypeInv'
  BY <1>1, <1>2, <1>4 DEF Inv, TypeInv
<1>6. AgentInv'
  BY <1>1 DEF Inv, AgentInv
<1>7. RequestsInv'
  BY <1>1, <1>4 DEF Inv, RequestsInv
<1>8. AnswersInv'
  <2>1. \A m : Speaks(m) => Speaks(m)'
    BY <1>1, <1>4 DEF Speaks, AgentAlive
  <2>. QED
    BY <1>2, <1>4, <2>1 DEF Inv, AnswersInv
<1>9. ClientInv'
  BY <1>1, <1>4 DEF Inv, ClientInv
<1>. QED
  BY <1>5, <1>6, <1>7, <1>8, <1>9 DEF Inv

LEMMA ClientExpiresKeeps ==
  ASSUME Inv, ClientExpires
  PROVE  Inv'
<1>1. PICK failure \in Failures :
        /\ client \in ClientSet /\ failure.ok = FALSE
        /\ client' = [client EXCEPT !.awaits = "none", !.answer = failure]
        /\ agent' = agent /\ toAgent' = toAgent /\ toClient' = toClient
  <2>. DEFINE failure == [kind |-> client.awaits, ok |-> FALSE]
  <2>1. /\ client \in ClientSet /\ client.awaits # "none"
        /\ client' = [client EXCEPT !.awaits = "none", !.answer = failure]
        /\ agent' = agent /\ toAgent' = toAgent /\ toClient' = toClient
    BY DEF ClientExpires, Inv, TypeInv
  <2>2. failure \in Failures /\ failure.ok = FALSE
    BY <2>1 DEF Failures, ClientSet
  <2>. HIDE DEF failure
  <2>. QED
    BY <2>1, <2>2
<1>2. /\ client' \in ClientSet /\ client'.phase = client.phase
      /\ client'.request = client.request /\ client'.answer = failure
      /\ client'.decoder = client.decoder /\ client'.version = client.version
  BY <1>1 DEF ClientSet
<1>3. TypeInv'
  BY <1>1, <1>2 DEF Inv, TypeInv
<1>4. AgentInv'
  BY <1>1 DEF Inv, AgentInv
<1>5. RequestsInv'
  BY <1>1, <1>2 DEF Inv, RequestsInv
<1>6. AnswersInv'
  <2>1. \A m : Speaks(m) => Speaks(m)'
    BY <1>1, <1>2 DEF Speaks, AgentAlive
  <2>2. Speaks(failure)'
    BY <1>1 DEF Speaks
  <2>. QED
    BY <1>1, <1>2, <2>1, <2>2 DEF Inv, AnswersInv
<1>7. ClientInv'
  BY <1>1, <1>2 DEF Inv, ClientInv
<1>. QED
  BY <1>3, <1>4, <1>5, <1>6, <1>7 DEF Inv

(* A client mounts for an answer that says ok, with the codec that answer   *)
(* and its own request pin it to.                                           *)
LEMMA ClientMountsKeeps ==
  ASSUME Inv, ClientMounts
  PROVE  Inv'
<1>. DEFINE answer == client.answer
            request == client.request
            agreed == Confirmed[answer.pinned][request.side] # NoAgreement
            decoder == DecoderOf[answer.pinned][request.side]
<1>1. CASE ClientEnds
  BY <1>1, ClientEndsKeeps
<1>2. CASE ~ClientEnds
  <2>. DEFINE message == [kind |-> "inventory", version |-> request.version]
  <2>1. /\ client.phase = "profile" /\ answer.kind = "profile" /\ answer.ok /\ agreed
        /\ client' = [client EXCEPT !.phase = "inventory", !.answer = None,
                                    !.awaits = "inventory", !.decoder = decoder]
        /\ toAgent' = Append(toAgent, message)
        /\ agent' = agent /\ toClient' = toClient
    BY <1>2 DEF ClientMounts
  <2>2. /\ client \in ClientSet /\ toAgent \in Seq(Asked) /\ request \in Requests
        /\ answer \in Replies \cup Failures \cup {None}
    BY <2>1 DEF Inv, TypeInv, ClientSet
  <2>3. Speaks(answer)
    BY DEF Inv, AnswersInv
  <2>4. /\ answer.pinned = agent.side /\ agent.handled >= 1
        /\ agent.handled = 1 => agent.with = request.side
    BY <2>1, <2>3 DEF Speaks
  <2>5. agent.side \in AgentSides /\ request.side \in ClientSides
    BY <2>2 DEF Inv, TypeInv, AgentSet, ClientSides
  <2>6. decoder \in Decoders
    BY <2>4, <2>5 DEF Decoders
  <2>7. message \in Asked /\ message.kind = "inventory"
    <3>1. request.version \in Versions
      BY <2>2, BringupAssumption
    <3>. QED
      BY <3>1 DEF Asked
  <2>. HIDE DEF message, decoder
  <2>8. /\ client' \in ClientSet /\ client'.phase = "inventory" /\ client'.answer = None
        /\ client'.request = request /\ client'.decoder = decoder
    BY <2>1, <2>2, <2>6 DEF ClientSet
  <2>9. toAgent' \in Seq(Asked) /\ Range(toAgent') = Range(toAgent) \cup {message}
    BY <2>1, <2>2, <2>7, AddOne
  <2>10. TypeInv'
    BY <2>1, <2>2, <2>8, <2>9 DEF Inv, TypeInv
  <2>11. AgentInv'
    BY <2>1 DEF Inv, AgentInv
  <2>12. RequestsInv'
    BY <2>7, <2>8, <2>9 DEF Inv, RequestsInv
  <2>13. AnswersInv'
    <3>1. \A m : Speaks(m) => Speaks(m)'
      BY <2>1, <2>8 DEF Speaks, AgentAlive
    <3>2. Speaks(None)'
      BY DEF Speaks, None
    <3>. QED
      BY <2>1, <2>8, <3>1, <3>2 DEF Inv, AnswersInv
  <2>14. ClientInv'
    BY <2>1, <2>4, <2>8 DEF ClientInv, decoder
  <2>. QED
    BY <2>10, <2>11, <2>12, <2>13, <2>14 DEF Inv
<1>. QED
  BY <1>1, <1>2

(* Only an inventory that came from the agent lets a client go on. *)
LEMMA ClientGoesOnKeeps ==
  ASSUME Inv, ClientHasInventory \/ ClientStarts
  PROVE  Inv'
<1>1. CASE ClientEnds
  BY <1>1, ClientEndsKeeps
<1>2. CASE ~ClientEnds
  <2>1. \/ /\ client.phase = "inventory" /\ client.answer.kind = "inventory"
           /\ client.answer.ok
           /\ client' = [client EXCEPT !.phase = "channels", !.answer = None,
                                       !.version = client.answer.version]
        \/ /\ client.phase = "channels" /\ client.version \in Accepted
           /\ client' = [client EXCEPT !.phase = "started"]
    BY <1>2 DEF ClientHasInventory, ClientStarts
  <2>2. /\ client \in ClientSet /\ agent \in AgentSet
        /\ agent' = agent /\ toAgent' = toAgent /\ toClient' = toClient
    BY <1>2 DEF ClientHasInventory, ClientStarts, Inv, TypeInv
  <2>3. Speaks(client.answer)
    BY DEF Inv, AnswersInv
  <2>4. PICK phase \in {"channels", "started"} :
          /\ client' \in ClientSet /\ client'.phase = phase
          /\ client.phase \in {"inventory", "channels"}
          /\ client'.request = client.request /\ client'.decoder = client.decoder
          /\ client'.answer \in {client.answer, None}
          /\ client'.version = agent.version
          /\ phase = "started" => client'.version \in Accepted
    <3>1. CASE client.phase = "inventory"
      <4>1. client.answer.version = agent.version /\ agent.version \in Versions
        BY <2>1, <2>2, <2>3, <3>1 DEF Speaks, AgentSet
      <4>2. client' = [client EXCEPT !.phase = "channels", !.answer = None,
                                     !.version = agent.version]
        BY <2>1, <3>1, <4>1
      <4>. QED
        BY <2>2, <3>1, <4>1, <4>2 DEF ClientSet
    <3>2. CASE client.phase = "channels"
      <4>1. client.version = agent.version
        BY <3>2 DEF Inv, ClientInv
      <4>. QED
        BY <2>1, <2>2, <3>2, <4>1 DEF ClientSet
    <3>. QED
      BY <2>1, <3>1, <3>2
  <2>5. TypeInv'
    BY <2>2, <2>4 DEF Inv, TypeInv
  <2>6. AgentInv'
    BY <2>2 DEF Inv, AgentInv
  <2>7. RequestsInv'
    BY <2>2, <2>4 DEF Inv, RequestsInv
  <2>8. AnswersInv'
    <3>1. \A m : Speaks(m) => Speaks(m)'
      BY <2>2, <2>4 DEF Speaks, AgentAlive
    <3>2. Speaks(None)'
      BY DEF Speaks, None
    <3>. QED
      BY <2>2, <2>4, <3>1, <3>2 DEF Inv, AnswersInv
  <2>9. ClientInv'
    BY <2>2, <2>4 DEF Inv, ClientInv
  <2>. QED
    BY <2>5, <2>6, <2>7, <2>8, <2>9 DEF Inv
<1>. QED
  BY <1>1, <1>2

LEMMA StutterKeeps ==
  ASSUME Inv, UNCHANGED vars
  PROVE  Inv'
<1>1. agent' = agent /\ client' = client /\ toAgent' = toAgent /\ toClient' = toClient
  BY DEF vars
<1>2. TypeInv' /\ AgentInv'
  BY <1>1 DEF Inv, TypeInv, AgentInv
<1>3. RequestsInv' /\ ClientInv'
  BY <1>1 DEF Inv, RequestsInv, ClientInv
<1>4. \A m : Speaks(m) => Speaks(m)'
  BY <1>1 DEF Speaks, AgentAlive
<1>5. AnswersInv'
  BY <1>1, <1>4 DEF Inv, AnswersInv
<1>. QED
  BY <1>2, <1>3, <1>5 DEF Inv

LEMMA NextInv == Inv /\ [Next]_vars => Inv'
<1>. SUFFICES ASSUME Inv, [Next]_vars PROVE Inv'
  OBVIOUS
<1>1. CASE AgentStep
  BY <1>1, AgentHandlesProfileKeeps, AgentHandlesInventoryKeeps, AgentMountsKeeps,
     AgentWaitsKeep, AgentEndsKeeps, AgentTransportKeeps
     DEF AgentStep, AgentTimesOut
<1>2. CASE ClientStep
  BY <1>2, ClientReceivesKeeps, ClientExpiresKeeps, ClientMountsKeeps,
     ClientGoesOnKeeps, ClientEndsKeeps
     DEF ClientStep, ClientTimesOut
<1>3. CASE ClientLeaves
  BY <1>3, ClientEndsKeeps DEF ClientLeaves
<1>4. CASE \E request \in Requests : ClientBegins(request)
  BY <1>4, ClientBeginsKeeps
<1>5. CASE UNCHANGED vars
  BY <1>5, StutterKeeps
<1>. QED
  BY <1>1, <1>2, <1>3, <1>4, <1>5 DEF Next

(* Over every order of messages, timeouts and exits of the two shells, the  *)
(* messages on their way, what the client keeps of the answers it applied   *)
(* and what the agent mounted stay true of one negotiation (peer profile    *)
(* exchange and mount in pc_app_shell.cpp).                                 *)
THEOREM BringupInvariant == Spec => []Inv
<1>. QED
  BY InitInv, NextInv, PTL DEF Spec

(* A profile answer that says ok is sent after the agent listens on every   *)
(* channel it names and stays true while the agent lives                    *)
(* (applyAgentListenProfile before the reply).                              *)
THEOREM AnswersMeanListening == Spec => []OkMeansListening
<1>1. Inv => OkMeansListening
  BY DEF Inv, AnswersInv, Speaks, OkMeansListening
<1>. QED
  BY <1>1, BringupInvariant, PTL

(* For every pair of codec options: when the agent has answered one request *)
(* only, it encodes with the codec the client decodes                       *)
(* (applyPeerCodecNegotiationToRequest on either side).                     *)
THEOREM FirstPairShareACodec == Spec => []FirstPairAgrees
<1>1. Inv => FirstPairAgrees
  <2>. SUFFICES ASSUME Inv, agent.handled = 1, client.phase = "started",
                       agent.phase \in {"inventory", "channels", "started"}
                PROVE  client.decoder.codec = agent.encoder.codec
    BY DEF FirstPairAgrees, CodecsAgree
  <2>. DEFINE a == agent.side
              c == client.request.side
  <2>1. /\ Confirmed[a][c] # NoAgreement /\ client.decoder = DecoderOf[a][c]
        /\ agent.with = c
    BY DEF Inv, ClientInv
  <2>2. agent.encoder = EncoderOf[a][c] /\ c \in ClientSides
    BY <2>1 DEF Inv, AgentInv
  <2>3. a \in AgentSides
    BY DEF Inv, TypeInv, AgentSet
  <2>4. EncoderOf[a][c].codec = DecoderOf[a][c].codec
    BY <2>1, <2>2, <2>3, CodecsOfAPair
  <2>. QED
    BY <2>1, <2>2, <2>4
<1>. QED
  BY <1>1, BringupInvariant, PTL

(* A client's modules start only against the version the agent runs, which  *)
(* is one they accept: neither a timeout nor an answer to another request   *)
(* passes for an inventory (waitForModuleInventory, evaluatePeerVersions).  *)
THEOREM StartsAreChecked == Spec => []StartedAgainstRealPeer
<1>1. Inv => StartedAgainstRealPeer
  BY DEF Inv, ClientInv, StartedAgainstRealPeer
<1>. QED
  BY <1>1, BringupInvariant, PTL
=============================================================================
