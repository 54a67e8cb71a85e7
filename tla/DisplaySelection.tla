-------------------------- MODULE DisplaySelection --------------------------
(***************************************************************************)
(* How runtime/display picks a capture backend: a pure function of the      *)
(* capabilities that the factories report and of the request               *)
(* (display_capture_backend_selection.cpp and ..._failover.cpp).            *)
(* A capability lists the sources and memory types a backend produces; the  *)
(* names of platforms, architectures and SoC profiles are compared alike    *)
(* and are left out, as every candidate of one table has those of its own   *)
(* platform.                                                                *)
(***************************************************************************)
EXTENDS Integers, Sequences, FiniteSets

Capability(id, priority, sources, traits) ==
  [id |-> id, priority |-> priority, sources |-> sources, traits |-> traits]

(* defaultDisplayCaptureBackendCapabilities(), those of Windows. *)
WindowsBackends ==
  <<Capability("dxgi", 90, {"Monitor"}, {"zeroCopy", "hotplug", "cursor", "service"}),
    Capability("wgc", 85, {"Monitor", "Window"}, {"zeroCopy", "hotplug"}),
    Capability("gdi", 10, {"Monitor"}, {"fallback", "service"})>>

(* A request: adapter is "" unless one is asked for by name. *)
Usable(c, request) ==
  /\ request.adapter # "" => c.id = request.adapter
  /\ c.id \in request.available
  /\ "fallback" \in c.traits => request.allowFallback
  /\ request.source \in c.sources
  /\ "consent" \in c.traits => request.permissionGranted
  /\ request.serviceSession => "service" \in c.traits

Score(c, request) ==
  LET points(trait, n) == IF trait \in c.traits THEN n ELSE 0
  IN c.priority + (IF request.preferZeroCopy THEN points("zeroCopy", 20) ELSE 0)
       + (5 - points("fallback", 5)) + points("hotplug", 3) + points("dirty", 2)
       + points("cursor", 1)

(* selectDisplayCaptureBackend(): the first of the best; "" for none.       *)
Select(candidates, request) ==
  LET usable == {i \in DOMAIN candidates : Usable(candidates[i], request)}
      better(i, j) == LET a == Score(candidates[i], request)
                          b == Score(candidates[j], request)
                      IN a > b \/ (a = b /\ i <= j)
  IN IF ~request.policyAllows \/ usable = {} THEN ""
     ELSE candidates[CHOOSE i \in usable : \A j \in usable : better(i, j)].id

(* selectDisplayCaptureBackendFailover(): the failed backend is taken out;  *)
(* an adapter asked for by name is not replaced unless that is overridden.  *)
Failover(candidates, request, failed, honorRequested) ==
  LET without == SelectSeq(candidates, LAMBDA c : c.id # failed)
  IN IF \/ honorRequested /\ request.adapter = failed
        \/ Len(without) = Len(candidates)
     THEN ""
     ELSE Select(without, IF honorRequested THEN request
                          ELSE [request EXCEPT !.adapter = ""])
=============================================================================
