---------------------------- MODULE DisplayCodec ----------------------------
(***************************************************************************)
(* How the two sides of a session agree on a display codec: selection among *)
(* the codecs a side can run (display_codec_selection.cpp), the negotiation *)
(* of an encoder with a decoder (display_codec_negotiation.cpp), and the    *)
(* requests the shell makes from its options and pins to the outcome        *)
(* (pc_profile_options.cpp, pc_profile_dependencies.cpp).                   *)
(* Memory types, pixel formats, architectures and frame sizes are left out: *)
(* every codec of a side has those of its platform.  The desktop build      *)
(* selects between a MediaFoundation H.264 adapter and raw frames.          *)
(***************************************************************************)
EXTENDS Integers, Sequences, FiniteSets, Functions

Capability(adapter, codec, priority, traits) ==
  [adapter |-> adapter, codec |-> codec, priority |-> priority, traits |-> traits]

(* A side: the codec option it was given ("" for none), the adapter asked   *)
(* for by name ("" for none), whether its H.264 adapter was probed and may  *)
(* be selected, and whether software codecs are allowed.                    *)
Options == {"", "raw", "h264", "h265", "av1", "auto"}
Sides == [option : Options, adapter : STRING, h264 : BOOLEAN, software : BOOLEAN]

H264Capability(side) ==
  Capability("mf.h264", "h264", 90,
             {"encode", "decode", "lowLatency"}
               \cup (IF side.h264 THEN {"available"} ELSE {}))

RawFrame ==
  Capability("raw_frame", "raw", 5,
             {"encode", "decode", "lowLatency", "available", "fallback"})

(* makeDisplayCodecBackendFactory(): the registry lists its factories' codecs. *)
Capabilities(side) == <<H264Capability(side), RawFrame>>

(* displayCodecPreferenceOptionValue(): every explicit choice but raw keeps *)
(* raw frames as its last resort.                                           *)
Preference(option) ==
  CASE option \in {"", "raw"} -> <<"raw">>
    [] option = "h264"        -> <<"h264", "raw">>
    [] option = "h265"        -> <<"h265", "h264", "raw">>
    [] option = "av1"         -> <<"av1", "h264", "raw">>
    [] option = "auto"        -> <<"h264", "h265", "raw">>

(* makeDisplayCodecSelectionRequest(), with the factory's capabilities. *)
RequestOf(side, direction) ==
  [direction |-> direction, preference |-> Preference(side.option),
   adapter |-> side.adapter, software |-> side.software,
   candidates |-> Capabilities(side)]

(* candidateUsable(); only hardware adapters pass when software is denied. *)
Usable(c, request) ==
  /\ request.adapter # "" => c.adapter = request.adapter
  /\ {"available", request.direction} \subseteq c.traits
  /\ c.codec \in Range(request.preference)
  /\ "hardware" \in c.traits \/ request.software

(* scoreCandidate() with codecPreferenceScore(). *)
Score(c, request) ==
  LET n        == Len(request.preference)
      rank     == CHOOSE i \in 1..n : request.preference[i] = c.codec
      points(trait, k) == IF trait \in c.traits THEN k ELSE 0
  IN c.priority + (n + 1 - rank) * 30 + points("hardware", 20)
       + points("zeroCopy", 10) + points("lowLatency", 5) + (2 - points("fallback", 2))

NoCodec == Capability("", "", 0, {})

(* selectDisplayCodec(): the first of the best, NoCodec when none is usable. *)
Select(request) ==
  LET cs       == request.candidates
      usable   == {i \in DOMAIN cs : Usable(cs[i], request)}
      beats(i, j) == LET a == Score(cs[i], request)
                         b == Score(cs[j], request)
                     IN a > b \/ (a = b /\ i <= j)
  IN IF usable = {} THEN NoCodec
     ELSE cs[CHOOSE i \in usable : \A j \in usable : beats(i, j)]

(* commonCodecPreference(): the encoder's order, what both sides listed. *)
CommonPreference(enc, dec) ==
  {i \in DOMAIN enc.preference : enc.preference[i] \in Range(dec.preference)}

Only(request, codec) == [request EXCEPT !.preference = <<codec>>]

NoAgreement == [encoder |-> NoCodec, decoder |-> NoCodec]

(* negotiateDisplayCodec(): the first common codec both can select. *)
Negotiate(enc, dec) ==
  LET attempt(i) == [encoder |-> Select(Only(enc, enc.preference[i])),
                     decoder |-> Select(Only(dec, enc.preference[i]))]
      works      == {i \in CommonPreference(enc, dec) :
                       attempt(i).encoder # NoCodec /\ attempt(i).decoder # NoCodec}
  IN IF works = {} THEN NoAgreement
     ELSE attempt(CHOOSE i \in works : \A j \in works : i <= j)

(* pinnedDisplayCodecRequest() *)
Pinned(request, selected) ==
  [request EXCEPT !.preference = <<selected.codec>>, !.adapter = selected.adapter,
                  !.candidates = <<selected>>]

(* Fault: the side selects by its own options again, without the pin. *)
Faulty_Created(side, direction, agreed) == Select(RequestOf(side, direction))

(* makeProfileDependencies() with applyPeerCodecNegotiationToRequest(): the *)
(* codec object a side creates once a negotiation succeeded.                *)
Created(side, direction, agreed) ==
  Select(Pinned(RequestOf(side, direction),
                IF direction = "encode" THEN agreed.encoder ELSE agreed.decoder))
=============================================================================
