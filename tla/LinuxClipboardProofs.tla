------------------------- MODULE LinuxClipboardProofs -------------------------
(***************************************************************************)
(* Proofs about LinuxClipboard.  The inductive invariant has the shape of  *)
(* the stack of calls, and what each of the three properties needs to know *)
(* of the calls that are open.  Most actions disturb one of  *)
(* them; the others follow from what the action does to the stack, which   *)
(* NoNew says without sequences.                                           *)
(***************************************************************************)
EXTENDS LinuxClipboard, SequenceTheorems, TLAPS

Bundle == Offers \cup {None}
Nodes == {None} \cup UNION {NodesOf[o] : o \in Offers}
Calls == {"publish", "pump", "render", "file"}
Places == {"remote", "set", "offered", "read", "stream"}
Reasons == {"nothing", "overlap", "refusal"}
Frames == [call : Calls, offer : Bundle, at : Places,
           got : SUBSET (Pasters \cup Readers \cup Nat)]
Pastes == [at : {"idle", "posted", "rendering", "streaming", "ok", "failed"},
           target : Targets, left : Nat, sent : Nat, got : Bundle,
           seen : SUBSET Bundle, excused : BOOLEAN]
Opens == [at : {"idle", "called", "posted", "reading", "ok", "failed"},
          path : Bundle, via : Bundle, node : Nodes, got : Bundle]

TypeInv ==
  /\ native \in [owner : {"us", "them"}, copies : Nat]
  /\ notices \in Seq({"changed", "lost"})
  /\ ep \in [published : Bundle, publication : Bundle,
             registered : SUBSET Offers, cache : Bundle, pending : BOOLEAN]
  /\ stack \in Seq(Frames)
  /\ paste \in [Pasters -> Pastes]
  /\ open \in [Readers -> Opens]
  /\ peer \in [next : Nat, files : FileLists]
  /\ missed \in Reasons /\ overtaken \in BOOLEAN

Opened == 1..Len(stack)

(* A snapshot is the last call: nothing runs inside it.                    *)
StackInv ==
  \A i \in Opened : stack[i].call = "pump" => i = Len(stack) /\ stack[i].at = "read"

(* Each rendering call serves a request of its own, of an offer that was   *)
(* published while it waited, unless it is excused; while it reads, that   *)
(* offer is the published one, and the cache and the publication are of    *)
(* the published bundle, unless it was overtaken.                          *)
RenderInv ==
  /\ \A i \in Opened : stack[i].call = "render" =>
       \E r \in Pasters : /\ stack[i].got = {r} /\ paste[r].at = "rendering"
                          /\ stack[i].offer \in paste[r].seen \/ paste[r].excused
  /\ \A i, j \in Opened :
       stack[i].call = "render" /\ stack[j].call = "render"
         /\ stack[i].got = stack[j].got => i = j
  /\ overtaken \/ \A i \in Opened :
       stack[i].call = "render" /\ stack[i].at = "remote" =>
         stack[i].offer = ep.published
CacheInv ==
  /\ overtaken \/ ep.cache \in {None, ep.published}
  /\ ep.publication \in {None, ep.published}
RequestInv(p) ==
  /\ p.at = "posted" => ep.published \in p.seen
  /\ p.at \in {"idle", "posted", "rendering"} => p.sent = 0
  /\ p.at = "streaming" =>
       p.excused \/ (p.got \in p.seen /\ p.left + p.sent = Chunks)
  /\ p.at = "ok" => p.excused \/ (p.got \in p.seen /\ p.sent = Chunks)
PasteInv == RenderInv /\ CacheInv /\ \A r \in Pasters : RequestInv(paste[r])

(* Each file call serves a read of its own, of the offer that its path was *)
(* resolved in, which lists a file at its place.                           *)
ReadInv(o) ==
  /\ o.at \in {"posted", "reading"} => o.node \in NodesOf[o.via]
  /\ o.at = "ok" => o.node \in NodesOf[o.got]
FileInv ==
  /\ \A i \in Opened : stack[i].call = "file" =>
       \E r \in Readers : /\ stack[i].got = {r} /\ open[r].at = "reading"
                          /\ stack[i].offer = open[r].via
  /\ \A i, j \in Opened :
       stack[i].call = "file" /\ stack[j].call = "file"
         /\ stack[i].got = stack[j].got => i = j
  /\ \A r \in Readers : ReadInv(open[r])

(* Only the paths of the publication are served, but for those that a      *)
(* publish call is about to unregister.                                    *)
ProviderInv ==
  AtTop("publish", "set") \/ ep.registered \subseteq {ep.publication}

(* A copy that is not announced is told of, pending, or missed; and what a *)
(* snapshot holds is the last copy, unless it was told of another.         *)
Told == \E i \in 1..Len(notices) : notices[i] = "changed"
Quiet == native.owner = "them" /\ missed = "nothing" /\ ~ Told
ChangeInv ==
  Quiet => /\ ep.pending \/ announced = {native.copies}
           /\ \A i \in Opened :
                stack[i].call = "pump" => stack[i].got = {native.copies}

Inv == TypeInv /\ StackInv /\ PasteInv /\ FileInv /\ ProviderInv /\ ChangeInv
-----------------------------------------------------------------------------
(* What the three ways to change the stack do to it.                       *)
LEMMA PushedStack ==
  ASSUME stack \in Seq(Frames), NEW f \in Frames, stack' = Append(stack, f)
  PROVE  /\ stack' \in Seq(Frames)
         /\ Len(stack') = Len(stack) + 1
         /\ stack'[Len(stack)+1] = f
         /\ \A i \in Opened : stack'[i] = stack[i]
  BY DEF Opened

LEMMA PoppedStack ==
  ASSUME stack \in Seq(Frames), stack # <<>>, Return
  PROVE  /\ stack' \in Seq(Frames)
         /\ Len(stack') = Len(stack) - 1
         /\ \A i \in 1..Len(stack') : stack'[i] = stack[i]
<1>. DEFINE n == Len(stack) - 1
<1>1. n \in Nat /\ n <= Len(stack) /\ \A i \in 1..n : stack[i] \in Frames
  OBVIOUS
<1>2. stack' = SubSeq(stack, 1, n)
  BY DEF Return, Front
<1>. HIDE DEF n
<1>3. /\ stack' \in Seq(Frames)
      /\ Len(stack') = IF 1 <= n THEN n-1+1 ELSE 0
      /\ \A i \in 1..n-1+1 : stack'[i] = stack[1+i-1]
  BY <1>1, <1>2, SubSeqProperties
<1>4. Len(stack') = n
  BY <1>1, <1>3
<1>5. \A i \in 1..n : stack'[i] = stack[i]
  BY <1>1, <1>3
<1>6. n = Len(stack) - 1
  BY DEF n
<1>. QED
  BY <1>3, <1>4, <1>5, <1>6

LEMMA PlacedStack ==
  ASSUME stack \in Seq(Frames), stack # <<>>,
         NEW at \in Places, Proceed(at)
  PROVE  /\ stack' \in Seq(Frames)
         /\ Len(stack') = Len(stack)
         /\ \A i \in Opened : /\ stack'[i].call = stack[i].call
                              /\ stack'[i].offer = stack[i].offer
                              /\ stack'[i].got = stack[i].got
                              /\ stack'[i].at \in {at, stack[i].at}
                              /\ i # Len(stack) => stack'[i] = stack[i]
<1>1. Len(stack) \in Nat /\ Len(stack) # 0 /\ DOMAIN stack = Opened
  BY DEF Opened
<1>2. stack \in [Opened -> Frames]
  BY <1>1
<1>3. stack' = [stack EXCEPT ![Len(stack)] = [@ EXCEPT !.at = at]]
  BY DEF Proceed
<1>4. [stack[Len(stack)] EXCEPT !.at = at] \in Frames
  BY <1>1, <1>2 DEF Frames, Opened
<1>5. stack' \in [Opened -> Frames]
  BY <1>2, <1>3, <1>4
<1>6. stack' \in Seq(Frames) /\ Len(stack') = Len(stack)
  BY <1>1, <1>5 DEF Opened
<1>. QED
  BY <1>1, <1>2, <1>3, <1>6 DEF Opened, Frames

(* The calls of a kind that are open after a step were open before it.     *)
NoNew(c) ==
  \A i \in Opened' : stack'[i].call = c =>
     /\ i \in Opened /\ stack[i].call = c
     /\ stack'[i].got = stack[i].got /\ stack'[i].offer = stack[i].offer
     /\ stack'[i].at = "remote" => stack[i].at = "remote"

LEMMA NothingNew ==
  ASSUME TypeInv, NEW c
  PROVE  /\ UNCHANGED stack => NoNew(c)
         /\ stack # <<>> /\ Return => NoNew(c)
         /\ \A at \in Places \ {"remote"} :
              stack # <<>> /\ Proceed(at) => NoNew(c)
         /\ \A f \in Frames :
              stack' = Append(stack, f) /\ f.call # c => NoNew(c)
<1>. stack \in Seq(Frames) /\ Len(stack) \in Nat
  BY DEF TypeInv
<1>1. UNCHANGED stack => NoNew(c)
  BY DEF NoNew, Opened
<1>2. ASSUME stack # <<>>, Return PROVE NoNew(c)
  BY <1>2, PoppedStack DEF NoNew, Opened
<1>3. ASSUME NEW at \in Places \ {"remote"},
             stack # <<>>, Proceed(at)
      PROVE  NoNew(c)
  <2>1. /\ Len(stack') = Len(stack)
        /\ \A i \in Opened : /\ stack'[i].call = stack[i].call
                             /\ stack'[i].offer = stack[i].offer
                             /\ stack'[i].got = stack[i].got
                             /\ stack'[i].at \in {at, stack[i].at}
    BY <1>3, PlacedStack
  <2>. QED
    BY <2>1 DEF NoNew, Opened
<1>4. ASSUME NEW f \in Frames, stack' = Append(stack, f), f.call # c
      PROVE  NoNew(c)
  <2>1. /\ Len(stack') = Len(stack) + 1 /\ stack'[Len(stack)+1] = f
        /\ \A i \in Opened : stack'[i] = stack[i]
    BY <1>4, PushedStack
  <2>2. \A i \in Opened' : i \in Opened \/ i = Len(stack) + 1
    BY <2>1 DEF Opened
  <2>. QED
    BY <1>4, <2>1, <2>2 DEF NoNew
<1>. QED
  BY <1>1, <1>2, <1>3, <1>4
-----------------------------------------------------------------------------
(* Type correctness.                                                       *)
LEMMA TypeInit == Init => TypeInv
<1>. SUFFICES ASSUME Init PROVE TypeInv
  OBVIOUS
<1>1. None \in Bundle /\ None \in Nodes
  BY DEF Bundle, Nodes
<1>2. Idle \in Pastes
  BY <1>1 DEF Idle, Pastes, Targets, None
<1>3. Closed \in Opens
  BY <1>1 DEF Closed, Opens
<1>4. /\ native \in [owner : {"us", "them"}, copies : Nat]
      /\ notices \in Seq({"changed", "lost"}) /\ stack \in Seq(Frames)
      /\ missed \in Reasons /\ overtaken \in BOOLEAN
  <2>1. native \in [owner : {"us", "them"}, copies : Nat]
    BY DEF Init
  <2>2. notices = <<>> /\ stack = <<>> /\ missed = "nothing" /\ overtaken = FALSE
    BY DEF Init
  <2>3. <<>> \in Seq(Frames) /\ <<>> \in Seq({"changed", "lost"})
    OBVIOUS
  <2>. QED
    BY <2>1, <2>2, <2>3 DEF Reasons
<1>5. ep \in [published : Bundle, publication : Bundle,
             registered : SUBSET Offers, cache : Bundle, pending : BOOLEAN]
  BY <1>1 DEF Init
<1>6. peer \in [next : Nat, files : FileLists]
  BY DEF Init
<1>7. paste \in [Pasters -> Pastes] /\ open \in [Readers -> Opens]
  BY <1>2, <1>3 DEF Init
<1>. QED
  BY <1>4, <1>5, <1>6, <1>7 DEF TypeInv

LEMMA FramesAreFrames ==
  ASSUME NEW call \in Calls, NEW offer \in Bundle,
         NEW at \in Places,
         NEW got \in SUBSET (Pasters \cup Readers \cup Nat)
  PROVE  Frame(call, offer, at, got) \in Frames
  BY DEF Frame, Frames

LEMMA TopIsFrame ==
  ASSUME TypeInv, stack # <<>>
  PROVE  Running \in Frames /\ Len(stack) \in Opened /\ Running = stack[Len(stack)]
  BY DEF TypeInv, Running, Last, Opened

LEMMA ReplacedType ==
  ASSUME TypeInv, NEW bundle \in Bundle, Replace(bundle)
  PROVE  paste' \in [Pasters -> Pastes] /\ overtaken' \in BOOLEAN
<1>1. ASSUME NEW r \in Pasters
      PROVE  [paste[r] EXCEPT !.seen = @ \cup {bundle}, !.left = 0,
                              !.excused = @ \/ paste[r].at = "streaming"] \in Pastes
  BY ZenonT(40) DEF TypeInv, Pastes
<1>. QED
  BY <1>1 DEF Replace, Replaced, TypeInv, Rendering

LEMMA InstalledType ==
  ASSUME TypeInv, NEW offer \in Bundle
  PROVE  Installed(ep, offer) \in
           [published : Bundle, publication : Bundle,
            registered : SUBSET Offers, cache : Bundle, pending : BOOLEAN]
<1>0. FileOffers \subseteq Offers
  BY OffersAssumption DEF TypeInv, FileOffers
<1>1. Promised(offer) \in Bundle /\ {Promised(offer)} \ {None} \subseteq Offers
  BY <1>0 DEF Promised, Bundle
<1>. QED
  BY <1>1 DEF TypeInv, Installed, Bundle

LEMMA TypeStep == TypeInv /\ [Next]_vars => TypeInv'
<1>. SUFFICES ASSUME TypeInv, [Next]_vars PROVE TypeInv'
  OBVIOUS
<1>. USE DEF Frame
<1>t. /\ None \in Bundle /\ Offers \subseteq Bundle
      /\ stack \in Seq(Frames) /\ paste \in [Pasters -> Pastes]
      /\ open \in [Readers -> Opens]
      /\ "publish" \in Calls /\ "pump" \in Calls /\ "render" \in Calls /\ "file" \in Calls
      /\ "remote" \in Places /\ "set" \in Places /\ "offered" \in Places
      /\ "read" \in Places /\ "stream" \in Places
  BY DEF TypeInv, Bundle, Calls, Places
<1>f. Failed(Idle) \in Pastes /\ Unread \in Opens
  BY DEF Failed, Unread, Idle, Closed, Pastes, Opens, Targets, Bundle, Nodes, None
<1>1. CASE Publish
  <2>1. Installed(ep, peer.next) \in
           [published : Bundle, publication : Bundle,
            registered : SUBSET Offers, cache : Bundle, pending : BOOLEAN]
    BY <1>1, <1>t, InstalledType DEF Publish
  <2>2. peer' \in [next : Nat, files : FileLists]
    <3>1. peer \in [next : Nat, files : FileLists] /\ peer.next + 1 \in Nat
      BY DEF TypeInv
    <3>2. peer' = [peer EXCEPT !.next = peer.next + 1]
      BY <1>1 DEF Publish
    <3>. QED
      BY <3>1, <3>2
  <2>3. stack' \in Seq(Frames)
    <3>1. PICK at \in Places : stack' = Append(stack, Frame("publish", peer.next, at, {}))
      BY <1>1, <1>t DEF Publish, Call
    <3>. QED
      BY <1>1, <1>t, <3>1, FramesAreFrames DEF Publish
  <2>4. paste' \in [Pasters -> Pastes] /\ overtaken' \in BOOLEAN
    BY <1>1, <1>t, ReplacedType DEF Publish, TypeInv
  <2>. QED
    BY <1>1, <2>1, <2>2, <2>3, <2>4 DEF Publish, TypeInv
<1>2. CASE PublishListed
  <2>1. stack # <<>> /\ Running \in Frames /\ Running.offer \in Bundle
    BY <1>2, TopIsFrame DEF PublishListed, AtTop, Frames
  <2>2. CASE Return /\ UNCHANGED <<ep, paste, overtaken>>
    BY <1>2, <1>t, <2>1, <2>2, PoppedStack DEF PublishListed, TypeInv
  <2>3. CASE /\ ep' = Installed(ep, Running.offer)
             /\ Replace(Running.offer) /\ Proceed("set")
    <3>1. stack' \in Seq(Frames)
      BY <1>t, <2>1, <2>3, PlacedStack
    <3>2. paste' \in [Pasters -> Pastes] /\ overtaken' \in BOOLEAN
      BY <2>1, <2>3, ReplacedType
    <3>3. ep' \in [published : Bundle, publication : Bundle,
                   registered : SUBSET Offers, cache : Bundle, pending : BOOLEAN]
      BY <2>1, <2>3, InstalledType
    <3>. QED
      BY <1>2, <3>1, <3>2, <3>3 DEF PublishListed, TypeInv
  <2>. QED
    BY <1>2, <2>2, <2>3 DEF PublishListed
<1>3. CASE PublishOffers
  <2>1. stack # <<>> /\ stack' \in Seq(Frames)
    BY <1>3, <1>t, PlacedStack DEF PublishOffers, AtTop
  <2>2. ep' \in [published : Bundle, publication : Bundle,
                 registered : SUBSET Offers, cache : Bundle, pending : BOOLEAN]
    BY <1>3 DEF PublishOffers, Unregistered, TypeInv
  <2>3. native' \in [owner : {"us", "them"}, copies : Nat]
    BY <1>3 DEF PublishOffers, TypeInv
  <2>4. notices' \in Seq({"changed", "lost"})
    <3>1. notices \in Seq({"changed", "lost"})
      BY DEF TypeInv
    <3>2. Append(notices, "changed") \in Seq({"changed", "lost"})
      BY <3>1
    <3>. QED
      BY <1>3, <3>1, <3>2 DEF PublishOffers
  <2>. QED
    BY <1>3, <2>1, <2>2, <2>3, <2>4 DEF PublishOffers, TypeInv
<1>4. CASE PublishRefused
  <2>1. stack # <<>> /\ stack' \in Seq(Frames)
    BY <1>4, <1>t, PoppedStack DEF PublishRefused, AtTop
  <2>2. ep' \in [published : Bundle, publication : Bundle,
                 registered : SUBSET Offers, cache : Bundle, pending : BOOLEAN]
    BY <1>4, <1>t DEF PublishRefused, Unregistered, TypeInv
  <2>. QED
    BY <1>4, <2>1, <2>2 DEF PublishRefused, TypeInv
<1>5. CASE PublishBooked
  <2>1. stack # <<>> /\ stack' \in Seq(Frames)
    BY <1>5, <1>t, PoppedStack DEF PublishBooked, AtTop
  <2>2. /\ missed' \in Reasons
        /\ ep' \in [published : Bundle, publication : Bundle,
                    registered : SUBSET Offers, cache : Bundle, pending : BOOLEAN]
    BY <1>5 DEF PublishBooked, Booked, MissedTo, Reasons, TypeInv
  <2>. QED
    BY <1>5, <2>1, <2>2 DEF PublishBooked, TypeInv
<1>6. CASE Copy
  <2>1. native' \in [owner : {"us", "them"}, copies : Nat]
    BY <1>6 DEF Copy, TypeInv
  <2>2. notices' \in Seq({"changed", "lost"})
    <3>1. notices \in Seq({"changed", "lost"})
      BY DEF TypeInv
    <3>2. <<"lost", "changed">> \in Seq({"changed", "lost"})
           /\ <<"changed", "lost">> \in Seq({"changed", "lost"})
      OBVIOUS
    <3>3. Append(notices, "changed") \in Seq({"changed", "lost"})
      BY <3>1
    <3>4. /\ notices \o <<"lost", "changed">> \in Seq({"changed", "lost"})
          /\ notices \o <<"changed", "lost">> \in Seq({"changed", "lost"})
      BY <3>1, <3>2
    <3>. QED
      BY <1>6, <3>3, <3>4 DEF Copy
  <2>. QED
    BY <1>6, <2>1, <2>2 DEF Copy, TypeInv
<1>7. ASSUME NEW what, Noted(what)
      PROVE  /\ notices' \in Seq({"changed", "lost"}) /\ missed' \in Reasons
             /\ UNCHANGED <<native, stack, open, peer>>
  BY <1>7 DEF Noted, MissedTo, Reasons, TypeInv
<1>8. CASE TargetsChanged
  <2>1. ep' \in [published : Bundle, publication : Bundle,
                 registered : SUBSET Offers, cache : Bundle, pending : BOOLEAN]
    BY <1>8 DEF TargetsChanged, TypeInv
  <2>. QED
    BY <1>7, <1>8, <2>1 DEF TargetsChanged, TypeInv
<1>9. CASE OwnerLost
  <2>1. ep' \in [published : Bundle, publication : Bundle,
                 registered : SUBSET Offers, cache : Bundle, pending : BOOLEAN]
    BY <1>9, <1>t DEF OwnerLost, TypeInv
  <2>2. paste' \in [Pasters -> Pastes] /\ overtaken' \in BOOLEAN
    BY <1>9, <1>t, ReplacedType DEF OwnerLost
  <2>. QED
    BY <1>7, <1>9, <2>1, <2>2 DEF OwnerLost, TypeInv
<1>10. CASE PumpReads
  <2>1. PICK got \in Snapshots :
          /\ stack' = Append(stack, Frame("pump", None, "read", got))
          /\ missed' \in Reasons
    BY <1>10 DEF PumpReads, MissedTo, Reasons
  <2>2. got \in SUBSET (Pasters \cup Readers \cup Nat)
    BY DEF Snapshots, TypeInv
  <2>3. Frame("pump", None, "read", got) \in Frames
    BY <1>t, <2>2 DEF Frames
  <2>4. stack' \in Seq(Frames) /\ missed' \in Reasons
    BY <1>t, <2>1, <2>3, PushedStack
  <2>. QED
    BY <1>10, <2>4 DEF PumpReads, TypeInv
<1>11. CASE PumpEnds
  <2>1. stack # <<>> /\ stack' \in Seq(Frames)
    BY <1>11, <1>t, PoppedStack DEF PumpEnds, AtTop
  <2>2. ep' \in [published : Bundle, publication : Bundle,
                 registered : SUBSET Offers, cache : Bundle, pending : BOOLEAN]
    BY <1>11 DEF PumpEnds, Consumed, TypeInv
  <2>3. missed' \in Reasons
    BY <1>11 DEF PumpEnds, MissedTo, Reasons, TypeInv
  <2>. QED
    BY <1>11, <2>1, <2>2, <2>3 DEF PumpEnds, TypeInv
<1>12. ASSUME NEW r \in Pasters, NEW target \in Targets, RequestTarget(r, target)
       PROVE  TypeInv'
  <2>1. [paste[r] EXCEPT !.at = "posted", !.target = target, !.seen = {ep.published}]
          \in Pastes
    BY ZenonT(40), <1>t DEF Pastes, TypeInv
  <2>2. paste' \in [Pasters -> Pastes]
    BY <1>t, <1>12, <2>1 DEF RequestTarget
  <2>. QED
    BY <1>12, <2>2 DEF RequestTarget, TypeInv
<1>13. ASSUME NEW r \in Pasters, RenderAtHand(r)
       PROVE  TypeInv'
  <2>. DEFINE p == [paste[r] EXCEPT !.at = "rendering",
                      !.excused = @ \/ (paste[r].target = "text" /\ overtaken)]
  <2>1. AtHand(paste[r].target) \in Bundle
    BY DEF AtHand, TypeInv
  <2>2. p \in Pastes
    BY ZenonT(40), <1>t DEF Pastes, TypeInv
  <2>3. paste' = [paste EXCEPT ![r] = p]
    BY <1>13, <1>t DEF RenderAtHand, Pastes
  <2>. HIDE DEF p
  <2>4. paste' \in [Pasters -> Pastes]
    BY <1>t, <2>2, <2>3
  <2>5. Frame("render", AtHand(paste[r].target), "stream", {r}) \in Frames
    BY <1>t, <2>1 DEF Frames
  <2>6. stack' \in Seq(Frames)
    BY <1>t, <1>13, <2>5, PushedStack DEF RenderAtHand, Begin
  <2>. QED
    BY <1>13, <2>4, <2>6 DEF RenderAtHand, TypeInv
<1>14. ASSUME NEW r \in Pasters, Render(r)
       PROVE  TypeInv'
  <2>1. [paste[r] EXCEPT !.at = "rendering"] \in Pastes /\ Failed(paste[r]) \in Pastes
    BY <1>t, <1>f DEF Pastes, Failed
  <2>2. paste' \in [Pasters -> Pastes]
    BY <1>t, <1>14, <2>1 DEF Render
  <2>3. Frame("render", ep.published, "remote", {r}) \in Frames
    BY <1>t DEF Frames, TypeInv
  <2>4. stack' \in Seq(Frames)
    BY <1>t, <1>14, <2>3, PushedStack DEF Render, Begin
  <2>. QED
    BY <1>14, <2>2, <2>4 DEF Render, TypeInv
<1>15. CASE Rendered
  <2>1. stack # <<>> /\ Running \in Frames /\ Running.offer \in Bundle
    BY <1>15, TopIsFrame DEF Rendered, AtTop, Frames
  <2>2. CASE /\ ep' \in {ep, [ep EXCEPT !.cache = Running.offer]}
             /\ Proceed("stream") /\ UNCHANGED paste
    <3>1. stack' \in Seq(Frames)
      BY <1>t, <2>1, <2>2, PlacedStack
    <3>2. ep' \in [published : Bundle, publication : Bundle,
                   registered : SUBSET Offers, cache : Bundle, pending : BOOLEAN]
      BY <2>1, <2>2 DEF TypeInv
    <3>. QED
      BY <1>15, <2>2, <3>1, <3>2 DEF Rendered, TypeInv
  <2>3. CASE /\ \E r \in Running.got : paste' = [paste EXCEPT ![r] = Failed(@)]
             /\ Return /\ UNCHANGED ep
    <3>1. stack' \in Seq(Frames)
      BY <1>t, <2>1, <2>3, PoppedStack
    <3>2. \A r \in Pasters : Failed(paste[r]) \in Pastes
      BY <1>f DEF Failed
    <3>3. paste' \in [Pasters -> Pastes]
      BY <1>t, <2>3, <3>2
    <3>. QED
      BY <1>15, <2>3, <3>1, <3>3 DEF Rendered, TypeInv
  <2>. QED
    BY <1>15, <2>2, <2>3 DEF Rendered
<1>15a. CASE StreamBegins
  <2>1. /\ stack # <<>> /\ stack' \in Seq(Frames)
        /\ Running \in Frames /\ Running.offer \in Bundle
    BY <1>15a, <1>t, PoppedStack, TopIsFrame DEF StreamBegins, AtTop, Frames
  <2>2. ASSUME NEW r \in Pasters
        PROVE  Streaming(paste[r], Running.offer) \in Pastes /\ Failed(paste[r]) \in Pastes
    BY <1>t, <1>f, <2>1 DEF Streaming, Chunks, Pastes, Failed
  <2>3. PICK r : \/ paste' = [paste EXCEPT ![r] = Streaming(@, Running.offer)]
                 \/ paste' = [paste EXCEPT ![r] = Failed(@)]
    BY <1>15a DEF StreamBegins
  <2>4. paste' \in [Pasters -> Pastes]
    BY <1>t, <2>2, <2>3
  <2>. QED
    BY <1>15a, <2>1, <2>4 DEF StreamBegins, TypeInv
<1>16. ASSUME NEW r \in Pasters, StreamReady(r)
       PROVE  TypeInv'
  <2>1. Chunk(paste[r]) \in Pastes
    <3>1. Ended(paste[r]) \in Pastes
      BY <1>t DEF Ended, Idle, Pastes, Targets
    <3>2. ASSUME paste[r].left # 0
          PROVE  [paste[r] EXCEPT !.left = @ - 1, !.sent = @ + 1] \in Pastes
      <4>1. paste[r].left \in Nat /\ paste[r].sent \in Nat
        BY <1>t DEF Pastes
      <4>2. paste[r].left - 1 \in Nat /\ paste[r].sent + 1 \in Nat
        BY <3>2, <4>1
      <4>. QED
        BY <1>t, <4>2 DEF Pastes
    <3>. QED
      BY <3>1, <3>2 DEF Chunk
  <2>2. paste' \in [Pasters -> Pastes]
    BY <1>t, <1>16, <2>1 DEF StreamReady
  <2>. QED
    BY <1>16, <2>2 DEF StreamReady, TypeInv
<1>17. ASSUME NEW r \in Readers, NEW path \in FileOffers, NEW node \in NodesOf[path],
              ReadPath(r, path, node)
       PROVE  TypeInv'
  <2>1. path \in Offers
    BY <1>17 DEF ReadPath, TypeInv
  <2>2. [at |-> "called", path |-> path, via |-> None, node |-> node, got |-> None] \in Opens
    BY <1>t, <2>1 DEF Opens, Nodes
  <2>3. open' \in [Readers -> Opens]
    BY <1>t, <1>17, <2>2 DEF ReadPath
  <2>. QED
    BY <1>17, <2>3 DEF ReadPath, TypeInv
<1>18. ASSUME NEW r \in Readers, ResolvePath(r)
       PROVE  TypeInv'
  <2>1. [open[r] EXCEPT !.at = "posted", !.via = ep.publication] \in Opens
    BY ZenonT(40), <1>t DEF Opens, TypeInv
  <2>2. Resolved(open[r]) \in Opens
    BY <1>f, <2>1 DEF Resolved
  <2>3. open' \in [Readers -> Opens]
    BY <1>t, <1>18, <2>2 DEF ResolvePath
  <2>. QED
    BY <1>18, <2>3 DEF ResolvePath, TypeInv
<1>19. ASSUME NEW r \in Readers, ReadFile(r)
       PROVE  TypeInv'
  <2>1. [open[r] EXCEPT !.at = "reading"] \in Opens /\ open[r].via \in Bundle
    BY <1>t DEF Opens
  <2>2. open' \in [Readers -> Opens]
    BY <1>t, <1>19, <2>1 DEF ReadFile
  <2>3. Frame("file", open[r].via, "remote", {r}) \in Frames
    BY <1>t, <2>1 DEF Frames
  <2>4. stack' \in Seq(Frames)
    BY <1>t, <1>19, <2>3, PushedStack DEF ReadFile
  <2>. QED
    BY <1>19, <2>2, <2>4 DEF ReadFile, TypeInv
<1>20. CASE FileRead
  <2>1. /\ stack # <<>> /\ stack' \in Seq(Frames)
        /\ Running \in Frames /\ Running.offer \in Bundle
    BY <1>20, <1>t, PoppedStack, TopIsFrame DEF FileRead, AtTop, Frames
  <2>2. ASSUME NEW r \in Readers
        PROVE  Answers(open[r], Running.offer) \subseteq Opens
    BY <1>t, <1>f, <2>1 DEF Answers, Opens
  <2>3. PICK r : \E answer \in Answers(open[r], Running.offer) :
                   open' = [open EXCEPT ![r] = answer]
    BY <1>20 DEF FileRead
  <2>4. open' \in [Readers -> Opens]
    BY <1>t, <2>2, <2>3
  <2>. QED
    BY <1>20, <2>1, <2>4 DEF FileRead, TypeInv
<1>21. CASE UNCHANGED vars
  BY <1>21 DEF vars, TypeInv
<1>. QED
  BY <1>1, <1>2, <1>3, <1>4, <1>5, <1>6, <1>8, <1>9, <1>10, <1>11, <1>12, <1>13,
     <1>14, <1>15, <1>15a, <1>16, <1>17, <1>18, <1>19, <1>20, <1>21
  DEF Next, MainReturns, Library
-----------------------------------------------------------------------------
(* The stack: nothing is called from a snapshot.                           *)
LEMMA StackStep == TypeInv /\ StackInv /\ [Next]_vars => StackInv'
<1>. SUFFICES ASSUME TypeInv, StackInv, [Next]_vars PROVE StackInv'
  OBVIOUS
<1>t. stack \in Seq(Frames) /\ Len(stack) \in Nat /\ None \in Bundle
  BY DEF TypeInv, Bundle
<1>c. /\ "publish" \in Calls /\ "pump" \in Calls /\ "render" \in Calls /\ "file" \in Calls
      /\ "remote" \in Places /\ "set" \in Places /\ "offered" \in Places
      /\ "read" \in Places /\ "stream" \in Places
  BY DEF Calls, Places
<1>n. stack # <<>> =>
        Running = stack[Len(stack)] /\ Len(stack) \in Opened /\ Running \in Frames
  BY TopIsFrame
<1>1. ASSUME UNCHANGED stack PROVE StackInv'
  BY <1>1 DEF StackInv, Opened
<1>2. ASSUME stack # <<>>, Return PROVE StackInv'
  <2>1. /\ Len(stack') = Len(stack) - 1
        /\ \A i \in 1..Len(stack') : stack'[i] = stack[i]
    BY <1>t, <1>2, PoppedStack
  <2>. QED
    BY <1>t, <2>1 DEF StackInv, Opened
<1>3. ASSUME NEW at \in Places, stack # <<>>, Running.call # "pump", Proceed(at)
      PROVE  StackInv'
  <2>1. /\ Len(stack') = Len(stack)
        /\ \A i \in Opened : /\ stack'[i].call = stack[i].call
                             /\ i # Len(stack) => stack'[i] = stack[i]
    BY <1>t, <1>3, PlacedStack DEF AtTop
  <2>2. stack[Len(stack)].call # "pump"
    BY <1>n, <1>3 DEF AtTop
  <2>. QED
    BY <1>t, <2>1, <2>2 DEF StackInv, Opened
<1>4. ASSUME NEW f \in Frames, stack' = Append(stack, f), LoopRuns,
             f.call = "pump" => f.at = "read"
      PROVE  StackInv'
  <2>1. /\ Len(stack') = Len(stack) + 1 /\ stack'[Len(stack)+1] = f
        /\ \A i \in Opened : stack'[i] = stack[i]
    BY <1>t, <1>4, PushedStack
  <2>2. \A i \in Opened : stack[i].call # "pump"
    BY <1>t, <1>n, <1>4 DEF StackInv, LoopRuns, Opened
  <2>3. \A i \in Opened' : i \in Opened \/ i = Len(stack')
    BY <1>t, <2>1 DEF Opened
  <2>4. ASSUME NEW i \in Opened', stack'[i].call = "pump"
        PROVE  i = Len(stack') /\ stack'[i].at = "read"
    <3>1. i = Len(stack')
      BY <2>1, <2>2, <2>3, <2>4
    <3>2. stack'[i] = f
      BY <2>1, <3>1
    <3>. QED
      BY <1>4, <2>4, <3>1, <3>2
  <2>. QED
    BY <2>4 DEF StackInv
<1>5. CASE Publish
  <2>1. PICK at \in Places : stack' = Append(stack, Frame("publish", peer.next, at, {}))
    BY <1>5, <1>c DEF Publish, Call
  <2>2. peer.next \in Bundle
    BY <1>5 DEF Publish, Bundle
  <2>3. Frame("publish", peer.next, at, {}) \in Frames
    BY <1>c, <2>2, FramesAreFrames
  <2>4. Frame("publish", peer.next, at, {}).call # "pump"
    BY DEF Frame
  <2>. QED
    BY <1>4, <1>5, <2>1, <2>3, <2>4 DEF Publish
<1>6. CASE PublishListed
  <2>1. stack # <<>> /\ Running.call = "publish" /\ "set" \in Places
    BY <1>6, <1>c DEF PublishListed, AtTop
  <2>2. Return \/ Proceed("set")
    BY <1>6 DEF PublishListed
  <2>3. CASE Return
    BY <1>2, <2>1, <2>3
  <2>4. CASE Proceed("set")
    BY <1>3, <2>1, <2>4
  <2>. QED
    BY <2>2, <2>3, <2>4
<1>6a. CASE PublishOffers
  BY <1>3, <1>6a, <1>c DEF PublishOffers, AtTop
<1>6b. CASE PublishRefused \/ PublishBooked
  BY <1>2, <1>6b DEF PublishRefused, PublishBooked, AtTop
<1>7. CASE PumpReads
  <2>1. PICK got \in Snapshots : stack' = Append(stack, Frame("pump", None, "read", got))
    BY <1>7 DEF PumpReads
  <2>2. got \in SUBSET (Pasters \cup Readers \cup Nat)
    BY DEF Snapshots, TypeInv
  <2>3. Frame("pump", None, "read", got) \in Frames
    BY <1>c, <1>t, <2>2, FramesAreFrames
  <2>4. Frame("pump", None, "read", got).at = "read"
    BY DEF Frame
  <2>. QED
    BY <1>4, <1>7, <2>1, <2>3, <2>4 DEF PumpReads
<1>8. CASE PumpEnds \/ StreamBegins \/ FileRead
  BY <1>2, <1>8 DEF PumpEnds, StreamBegins, FileRead, AtTop
<1>8a. CASE Rendered
  <2>1. stack # <<>> /\ Running.call # "pump"
    BY <1>8a DEF Rendered, AtTop
  <2>2. Return \/ Proceed("stream")
    BY <1>8a DEF Rendered
  <2>. QED
    BY <1>2, <1>3, <1>c, <2>1, <2>2
<1>9. ASSUME NEW r \in Pasters, Render(r) PROVE StackInv'
  <2>1. Frame("render", ep.published, "remote", {r}) \in Frames
    BY <1>c, FramesAreFrames DEF TypeInv
  <2>2. Frame("render", ep.published, "remote", {r}).call # "pump"
    BY DEF Frame
  <2>. QED
    BY <1>1, <1>4, <1>9, <2>1, <2>2 DEF Render, Begin
<1>9a. ASSUME NEW r \in Pasters, RenderAtHand(r) PROVE StackInv'
  <2>. DEFINE f == Frame("render", AtHand(paste[r].target), "stream", {r})
  <2>1. f \in Frames
    BY <1>c, FramesAreFrames DEF AtHand, TypeInv
  <2>2. f.call # "pump"
    BY DEF Frame
  <2>3. stack' = Append(stack, f) /\ LoopRuns
    BY <1>9a DEF RenderAtHand, Begin
  <2>. HIDE DEF f
  <2>. QED
    BY <1>4, <2>1, <2>2, <2>3
<1>10. ASSUME NEW r \in Readers, ReadFile(r) PROVE StackInv'
  <2>1. Frame("file", open[r].via, "remote", {r}) \in Frames
    BY <1>c, FramesAreFrames DEF TypeInv, Opens
  <2>2. Frame("file", open[r].via, "remote", {r}).call # "pump"
    BY DEF Frame
  <2>. QED
    BY <1>4, <1>10, <2>1, <2>2 DEF ReadFile
<1>11. CASE Copy \/ Library \/ UNCHANGED vars
  BY <1>1, <1>11 DEF Copy, Library, TargetsChanged, OwnerLost, Noted, vars
<1>12. ASSUME NEW r \in Pasters,
              \/ \E target \in Targets : RequestTarget(r, target)
              \/ StreamReady(r)
       PROVE  StackInv'
  BY <1>1, <1>12 DEF RequestTarget, StreamReady
<1>13. ASSUME NEW r \in Readers,
              \/ \E path \in FileOffers : \E node \in NodesOf[path] :
                   ReadPath(r, path, node)
              \/ ResolvePath(r)
       PROVE  StackInv'
  BY <1>1, <1>13 DEF ReadPath, ResolvePath
<1>. QED
  BY <1>5, <1>6, <1>6a, <1>6b, <1>7, <1>8, <1>8a, <1>9, <1>9a, <1>10, <1>11, <1>12, <1>13 DEF Next, MainReturns
-----------------------------------------------------------------------------
(* The pastes.  A step that renders nothing anew, publishes nothing and    *)
(* touches no request leaves what they need alone.                         *)
LEMMA RenderQuiet ==
  ASSUME RenderInv, NoNew("render"), UNCHANGED overtaken,
         ep'.published = ep.published,
         \A i \in Opened, r \in Pasters :
            stack[i].call = "render" /\ stack[i].got = {r} /\ i \in Opened'
              /\ stack'[i].call = "render" =>
              /\ paste'[r].at = paste[r].at /\ paste'[r].seen = paste[r].seen
              /\ paste'[r].excused = paste[r].excused
  PROVE  RenderInv'
<1>1. ASSUME NEW i \in Opened', stack'[i].call = "render"
      PROVE  \E r \in Pasters : /\ stack'[i].got = {r} /\ paste'[r].at = "rendering"
                                /\ \/ stack'[i].offer \in paste'[r].seen
                                   \/ paste'[r].excused
  <2>1. /\ i \in Opened /\ stack[i].call = "render"
        /\ stack'[i].got = stack[i].got /\ stack'[i].offer = stack[i].offer
    BY <1>1 DEF NoNew
  <2>2. PICK r \in Pasters : /\ stack[i].got = {r} /\ paste[r].at = "rendering"
                             /\ \/ stack[i].offer \in paste[r].seen
                                \/ paste[r].excused
    BY <2>1 DEF RenderInv
  <2>. QED
    BY <1>1, <2>1, <2>2
<1>2. ASSUME NEW i \in Opened', NEW j \in Opened',
             stack'[i].call = "render", stack'[j].call = "render",
             stack'[i].got = stack'[j].got
      PROVE  i = j
  BY <1>2 DEF NoNew, RenderInv
<1>3. overtaken' \/ \A i \in Opened' :
        stack'[i].call = "render" /\ stack'[i].at = "remote" =>
          stack'[i].offer = ep'.published
  BY DEF NoNew, RenderInv
<1>. QED
  BY <1>1, <1>2, <1>3 DEF RenderInv

LEMMA PasteQuiet ==
  ASSUME PasteInv, NoNew("render"), UNCHANGED <<paste, overtaken>>,
         ep'.published = ep.published, ep'.cache = ep.cache,
         ep'.publication \in {ep.publication, None}
  PROVE  PasteInv'
<1>1. RenderInv'
  BY RenderQuiet DEF PasteInv
<1>2. CacheInv'
  BY DEF PasteInv, CacheInv
<1>3. \A r \in Pasters : RequestInv(paste[r])'
  BY DEF PasteInv, RequestInv
<1>. QED
  BY <1>1, <1>2, <1>3 DEF PasteInv

(* A replaced bundle empties the cache with it.                            *)
LEMMA PasteReplaced ==
  ASSUME TypeInv, PasteInv, NoNew("render"), NEW bundle \in Bundle, Replace(bundle),
         ep'.published = bundle, ep'.cache = None,
         ep'.publication \in {bundle, None}
  PROVE  PasteInv'
<1>t. stack \in Seq(Frames) /\ paste \in [Pasters -> Pastes]
  BY DEF TypeInv
<1>0. ASSUME NEW r \in Pasters
      PROVE  /\ ~ Waiting(r) => paste'[r] = paste[r]
             /\ paste'[r].at = paste[r].at /\ paste'[r].sent = paste[r].sent
             /\ paste'[r].got = paste[r].got
             /\ Waiting(r) => /\ paste'[r].seen = paste[r].seen \cup {bundle}
                              /\ paste'[r].excused = (paste[r].excused \/ paste[r].at = "streaming")
  BY <1>t DEF Replace, Replaced, Pastes
<1>1. ASSUME NEW i \in Opened', stack'[i].call = "render"
      PROVE  \E r \in Pasters : /\ stack'[i].got = {r} /\ paste'[r].at = "rendering"
                                /\ \/ stack'[i].offer \in paste'[r].seen
                                   \/ paste'[r].excused
  <2>1. /\ i \in Opened /\ stack[i].call = "render"
        /\ stack'[i].got = stack[i].got /\ stack'[i].offer = stack[i].offer
    BY <1>1 DEF NoNew
  <2>2. PICK r \in Pasters : /\ stack[i].got = {r} /\ paste[r].at = "rendering"
                             /\ \/ stack[i].offer \in paste[r].seen
                                \/ paste[r].excused
    BY <2>1 DEF RenderInv, PasteInv
  <2>3. /\ paste'[r].at = "rendering"
        /\ stack[i].offer \in paste'[r].seen \/ paste'[r].excused
    BY <1>0, <2>2 DEF Waiting
  <2>. QED
    BY <2>1, <2>2, <2>3
<1>2. ASSUME NEW i \in Opened', NEW j \in Opened',
             stack'[i].call = "render", stack'[j].call = "render",
             stack'[i].got = stack'[j].got
      PROVE  i = j
  BY <1>2 DEF NoNew, RenderInv, PasteInv
<1>3. overtaken' \/ \A i \in Opened' :
        ~ (stack'[i].call = "render" /\ stack'[i].at = "remote")
  BY <1>t DEF NoNew, Replace, Rendering, Opened
<1>4. RenderInv'
  BY <1>1, <1>2, <1>3 DEF RenderInv
<1>5. CacheInv'
  BY DEF CacheInv
<1>6. ASSUME NEW r \in Pasters PROVE RequestInv(paste[r])'
  BY <1>0 DEF PasteInv, RequestInv, Waiting
<1>. QED
  BY <1>4, <1>5, <1>6 DEF PasteInv

(* A step that gives one request another state than rendering.             *)
LEMMA PasteServed ==
  ASSUME TypeInv, PasteInv, NoNew("render"), UNCHANGED overtaken,
         NEW r \in Pasters, NEW p \in Pastes,
         paste' = [paste EXCEPT ![r] = p], RequestInv(p),
         ep'.published = ep.published, UNCHANGED <<overtaken>>, CacheInv',
         \A i \in Opened' : stack'[i].call = "render" => stack'[i].got # {r}
  PROVE  PasteInv'
<1>t. paste \in [Pasters -> Pastes]
  BY DEF TypeInv
<1>1. RenderInv'
  <2>1. ASSUME NEW i \in Opened, NEW q \in Pasters, i \in Opened',
               stack[i].call = "render", stack[i].got = {q}, stack'[i].call = "render"
        PROVE  paste'[q] = paste[q]
    <3>1. stack'[i].got = {q}
      BY <2>1 DEF NoNew
    <3>. QED
      BY <1>t, <2>1, <3>1
  <2>. QED
    BY <2>1, RenderQuiet DEF PasteInv
<1>2. ASSUME NEW q \in Pasters PROVE RequestInv(paste[q])'
  <2>1. paste'[q] = IF q = r THEN p ELSE paste[q]
    BY <1>t
  <2>2. RequestInv(paste[q])
    BY DEF PasteInv
  <2>. QED
    BY <2>1, <2>2 DEF RequestInv
<1>. QED
  BY <1>1, <1>2 DEF PasteInv

(* A request for a target is taken up by a call of its own.                *)
LEMMA PasteTaken ==
  ASSUME TypeInv, PasteInv, NEW r \in Pasters, NEW p \in Pastes, NEW f \in Frames,
         paste[r].at = "posted", UNCHANGED <<ep, overtaken>>,
         paste' = [paste EXCEPT ![r] = p],
         p.at = "rendering", p.sent = paste[r].sent,
         stack' = Append(stack, f), f.call = "render", f.got = {r},
         f.offer \in p.seen \/ p.excused,
         f.at = "remote" => f.offer = ep.published
  PROVE  PasteInv'
<1>t. stack \in Seq(Frames) /\ Len(stack) \in Nat /\ paste \in [Pasters -> Pastes]
  BY DEF TypeInv
<1>1. CacheInv'
  BY DEF PasteInv, CacheInv
<1>2. \A i \in Opened : stack[i].call = "render" => stack[i].got # {r}
  BY DEF PasteInv, RenderInv
<1>3. /\ Len(stack') = Len(stack) + 1 /\ stack'[Len(stack)+1] = f
      /\ \A i \in Opened : stack'[i] = stack[i]
  BY <1>t, PushedStack
<1>4. \A i \in Opened' : i \in Opened \/ i = Len(stack) + 1
  BY <1>t, <1>3 DEF Opened
<1>5. paste'[r] = p /\ \A q \in Pasters : q # r => paste'[q] = paste[q]
  BY <1>t
<1>6. ASSUME NEW i \in Opened', stack'[i].call = "render"
      PROVE  \E q \in Pasters : /\ stack'[i].got = {q} /\ paste'[q].at = "rendering"
                                /\ \/ stack'[i].offer \in paste'[q].seen
                                   \/ paste'[q].excused
  <2>1. CASE i = Len(stack) + 1
    BY <1>3, <1>5, <2>1
  <2>2. CASE i \in Opened
    <3>1. stack'[i] = stack[i] /\ stack[i].call = "render"
      BY <1>3, <1>6, <2>2
    <3>2. PICK q \in Pasters : /\ stack[i].got = {q} /\ paste[q].at = "rendering"
                               /\ \/ stack[i].offer \in paste[q].seen
                                  \/ paste[q].excused
      BY <2>2, <3>1 DEF PasteInv, RenderInv
    <3>3. paste'[q] = paste[q]
      BY <1>5, <3>2
    <3>. QED
      BY <3>1, <3>2, <3>3
  <2>. QED
    BY <1>4, <2>1, <2>2
<1>7. ASSUME NEW i \in Opened', NEW j \in Opened',
             stack'[i].call = "render", stack'[j].call = "render",
             stack'[i].got = stack'[j].got
      PROVE  i = j
  <2>1. CASE i \in Opened /\ j \in Opened
    <3>1. stack'[i] = stack[i] /\ stack'[j] = stack[j]
      BY <1>3, <2>1
    <3>2. /\ stack[i].call = "render" /\ stack[j].call = "render"
          /\ stack[i].got = stack[j].got
      BY <1>7, <3>1
    <3>3. RenderInv
      BY DEF PasteInv
    <3>. QED
      BY <2>1, <3>2, <3>3 DEF RenderInv
  <2>2. CASE i = Len(stack) + 1 /\ j \in Opened
    <3>1. stack[j].call = "render" /\ stack[j].got = {r}
      BY <1>3, <1>7, <2>2
    <3>. QED
      BY <1>2, <2>2, <3>1
  <2>3. CASE i \in Opened /\ j = Len(stack) + 1
    <3>1. stack[i].call = "render" /\ stack[i].got = {r}
      BY <1>3, <1>7, <2>3
    <3>. QED
      BY <1>2, <2>3, <3>1
  <2>. QED
    BY <1>4, <2>1, <2>2, <2>3
<1>8. overtaken' \/ \A i \in Opened' :
        stack'[i].call = "render" /\ stack'[i].at = "remote" =>
          stack'[i].offer = ep'.published
  BY ZenonT(40), <1>3, <1>4 DEF PasteInv, RenderInv
<1>9. RenderInv'
  BY <1>6, <1>7, <1>8 DEF RenderInv
<1>10. ASSUME NEW q \in Pasters PROVE RequestInv(paste[q])'
  <2>1. RequestInv(paste[q])
    BY DEF PasteInv
  <2>. QED
    BY <1>5, <2>1 DEF RequestInv
<1>. QED
  BY <1>1, <1>9, <1>10 DEF PasteInv

(* The call that served a request returns.                                 *)
LEMMA PasteReturned ==
  ASSUME TypeInv, PasteInv, stack # <<>>, Running.call = "render", Return,
         UNCHANGED <<ep, overtaken>>, NEW r \in Pasters, Running.got = {r},
         NEW p \in Pastes, paste' = [paste EXCEPT ![r] = p], RequestInv(p)
  PROVE  PasteInv'
<1>t. stack \in Seq(Frames) /\ Len(stack) \in Nat
  BY DEF TypeInv
<1>n. Running = stack[Len(stack)] /\ Len(stack) \in Opened
  BY TopIsFrame
<1>1. NoNew("render")
  BY NothingNew
<1>2. CacheInv'
  BY DEF PasteInv, CacheInv
<1>3. /\ Len(stack') = Len(stack) - 1
      /\ \A i \in 1..Len(stack') : stack'[i] = stack[i]
  BY <1>t, PoppedStack
<1>4. ASSUME NEW i \in Opened', stack'[i].call = "render"
      PROVE  stack'[i].got # {r}
  <2>1. i \in Opened /\ i # Len(stack) /\ stack'[i] = stack[i]
    BY <1>t, <1>3, <1>4 DEF Opened
  <2>. QED
    BY <1>n, <1>4, <2>1 DEF PasteInv, RenderInv
<1>. QED
  BY <1>1, <1>2, <1>4, PasteServed

LEMMA PasteStep == TypeInv /\ PasteInv /\ [Next]_vars => PasteInv'
<1>. SUFFICES ASSUME TypeInv, PasteInv, [Next]_vars PROVE PasteInv'
  OBVIOUS
<1>t. /\ stack \in Seq(Frames) /\ Len(stack) \in Nat /\ None \in Bundle
      /\ paste \in [Pasters -> Pastes] /\ Offers \subseteq Bundle
      /\ ep \in [published : Bundle, publication : Bundle,
                 registered : SUBSET Offers, cache : Bundle, pending : BOOLEAN]
  BY DEF TypeInv, Bundle
<1>c. /\ "publish" \in Calls /\ "pump" \in Calls /\ "render" \in Calls /\ "file" \in Calls
      /\ "remote" \in Places /\ "set" \in Places /\ "offered" \in Places
      /\ "read" \in Places /\ "stream" \in Places
  BY DEF Calls, Places
<1>n. stack # <<>> =>
        Running = stack[Len(stack)] /\ Len(stack) \in Opened /\ Running \in Frames
  BY TopIsFrame
<1>q. /\ UNCHANGED stack => NoNew("render")
      /\ stack # <<>> /\ Return => NoNew("render")
      /\ \A at \in Places \ {"remote"} : stack # <<>> /\ Proceed(at) => NoNew("render")
      /\ \A f \in Frames :
           stack' = Append(stack, f) /\ f.call # "render" => NoNew("render")
  BY NothingNew
<1>p. ASSUME NEW offer \in Bundle
      PROVE  /\ Installed(ep, offer).published = offer
             /\ Installed(ep, offer).cache = None
             /\ Installed(ep, offer).publication \in {offer, None}
  BY <1>t DEF Installed, Promised
<1>1. CASE Publish
  <2>1. PICK at \in Places : stack' = Append(stack, Frame("publish", peer.next, at, {}))
    BY <1>1, <1>c DEF Publish, Call
  <2>2. peer.next \in Bundle
    BY <1>1, <1>t DEF Publish
  <2>3. /\ Frame("publish", peer.next, at, {}) \in Frames
        /\ Frame("publish", peer.next, at, {}).call # "render"
    BY <1>c, <2>2, FramesAreFrames DEF Frame
  <2>4. NoNew("render")
    BY <1>q, <2>1, <2>3
  <2>5. CASE ep' = Installed(ep, peer.next) /\ Replace(peer.next)
    BY <1>p, <2>2, <2>4, <2>5, PasteReplaced
  <2>6. CASE UNCHANGED <<ep, paste, overtaken>>
    BY <2>4, <2>6, PasteQuiet
  <2>. QED
    BY <1>1, <2>5, <2>6 DEF Publish
<1>2. CASE PublishListed
  <2>1. stack # <<>> /\ Running.offer \in Bundle
    BY <1>2, <1>n DEF PublishListed, AtTop, Frames
  <2>2. NoNew("render")
    BY <1>2, <1>q, <1>c, <2>1 DEF PublishListed
  <2>3. CASE ep' = Installed(ep, Running.offer) /\ Replace(Running.offer)
    BY <1>p, <2>1, <2>2, <2>3, PasteReplaced
  <2>4. CASE UNCHANGED <<ep, paste, overtaken>>
    BY <2>2, <2>4, PasteQuiet
  <2>. QED
    BY <1>2, <2>3, <2>4 DEF PublishListed
<1>3. CASE PublishOffers
  <2>1. NoNew("render")
    BY <1>3, <1>q, <1>c DEF PublishOffers, AtTop
  <2>2. /\ ep'.published = ep.published /\ ep'.cache = ep.cache
        /\ ep'.publication = ep.publication
    BY <1>3, <1>t DEF PublishOffers, Unregistered
  <2>. QED
    BY <1>3, <2>1, <2>2, PasteQuiet DEF PublishOffers
<1>4. CASE PublishRefused
  <2>1. NoNew("render")
    BY <1>4, <1>q DEF PublishRefused, AtTop
  <2>2. /\ ep'.published = ep.published /\ ep'.cache = ep.cache
        /\ ep'.publication \in {ep.publication, None}
    BY <1>4, <1>t DEF PublishRefused, Unregistered
  <2>. QED
    BY <1>4, <2>1, <2>2, PasteQuiet DEF PublishRefused
<1>5. CASE PublishBooked \/ PumpEnds
  <2>1. NoNew("render")
    BY <1>5, <1>q DEF PublishBooked, PumpEnds, AtTop
  <2>2. /\ ep'.published = ep.published /\ ep'.cache = ep.cache
        /\ ep'.publication = ep.publication
    BY <1>5, <1>t DEF PublishBooked, Booked, PumpEnds, Consumed
  <2>. QED
    BY <1>5, <2>1, <2>2, PasteQuiet DEF PublishBooked, PumpEnds
<1>6. CASE Copy \/ TargetsChanged
  <2>1. NoNew("render")
    BY <1>6, <1>q DEF Copy, TargetsChanged, Noted
  <2>2. /\ ep'.published = ep.published /\ ep'.cache = ep.cache
        /\ ep'.publication = ep.publication
    BY <1>6, <1>t DEF Copy, TargetsChanged
  <2>. QED
    BY <1>6, <2>1, <2>2, PasteQuiet DEF Copy, TargetsChanged
<1>7. CASE OwnerLost
  <2>1. NoNew("render")
    BY <1>7, <1>q DEF OwnerLost, Noted
  <2>2. /\ ep'.published = None /\ ep'.cache = None /\ ep'.publication = None
    BY <1>7, <1>t DEF OwnerLost
  <2>. QED
    BY <1>7, <1>t, <2>1, <2>2, PasteReplaced DEF OwnerLost
<1>8. CASE PumpReads
  <2>1. PICK got \in Snapshots : stack' = Append(stack, Frame("pump", None, "read", got))
    BY <1>8 DEF PumpReads
  <2>2. got \in SUBSET (Pasters \cup Readers \cup Nat)
    BY DEF Snapshots, TypeInv
  <2>3. /\ Frame("pump", None, "read", got) \in Frames
        /\ Frame("pump", None, "read", got).call # "render"
    BY <1>c, <1>t, <2>2, FramesAreFrames DEF Frame
  <2>4. NoNew("render")
    BY <1>q, <2>1, <2>3
  <2>. QED
    BY <1>8, <2>4, PasteQuiet DEF PumpReads
<1>9. ASSUME NEW r \in Pasters, NEW target \in Targets, RequestTarget(r, target)
      PROVE  PasteInv'
  <2>. DEFINE p == [paste[r] EXCEPT !.at = "posted", !.target = target,
                                    !.seen = {ep.published}]
  <2>1. p \in Pastes /\ p.at = "posted" /\ p.seen = {ep.published} /\ p.sent = paste[r].sent
    BY <1>t DEF Pastes
  <2>2. paste' = [paste EXCEPT ![r] = p]
    BY <1>9 DEF RequestTarget
  <2>3. UNCHANGED <<ep, stack, overtaken>> /\ paste[r].at = "idle"
    BY <1>9 DEF RequestTarget
  <2>. HIDE DEF p
  <2>4. paste[r].sent = 0
    BY <2>3 DEF PasteInv, RequestInv
  <2>5. RequestInv(p)
    BY <2>1, <2>3, <2>4 DEF RequestInv
  <2>6. \A i \in Opened' : stack'[i].call = "render" => stack'[i].got # {r}
    BY <2>3 DEF PasteInv, RenderInv, Opened
  <2>7. NoNew("render") /\ CacheInv'
    BY <1>q, <2>3 DEF PasteInv, CacheInv
  <2>. QED
    BY <2>1, <2>2, <2>3, <2>5, <2>6, <2>7, PasteServed
<1>10. ASSUME NEW r \in Pasters, RenderAtHand(r)
       PROVE  PasteInv'
  <2>. DEFINE p == [paste[r] EXCEPT !.at = "rendering",
                      !.excused = @ \/ (paste[r].target = "text" /\ overtaken)]
              f == Frame("render", AtHand(paste[r].target), "stream", {r})
  <2>1. f \in Frames
    BY <1>t, <1>c, FramesAreFrames DEF AtHand
  <2>2. /\ f.call = "render" /\ f.got = {r} /\ f.at = "stream"
        /\ f.offer = AtHand(paste[r].target)
    BY DEF Frame
  <2>3. p \in Pastes
    BY ZenonT(40), <1>t DEF Pastes, TypeInv
  <2>4. /\ p.at = "rendering" /\ p.seen = paste[r].seen /\ p.sent = paste[r].sent
        /\ paste[r].target = "text" /\ overtaken => p.excused
    BY <1>t DEF Pastes
  <2>5. paste' = [paste EXCEPT ![r] = p] /\ stack' = Append(stack, f)
    BY <1>10, <1>t DEF RenderAtHand, Begin, Pastes
  <2>6. /\ UNCHANGED <<ep, overtaken>> /\ paste[r].at = "posted"
        /\ AtHand(paste[r].target) # None
    BY <1>10 DEF RenderAtHand
  <2>. HIDE DEF p, f
  <2>7. ep.published \in paste[r].seen
    BY <2>6 DEF PasteInv, RequestInv
  <2>8. p.excused \/ AtHand(paste[r].target) = ep.published
    BY <1>t, <2>4, <2>6 DEF PasteInv, CacheInv, AtHand, Pastes, Targets
  <2>. QED
    BY <2>1, <2>2, <2>3, <2>4, <2>5, <2>6, <2>7, <2>8, PasteTaken
<1>11. ASSUME NEW r \in Pasters, Render(r)
       PROVE  PasteInv'
  <2>1. UNCHANGED <<ep, overtaken>> /\ paste[r].at = "posted"
    BY <1>11 DEF Render
  <2>2. CacheInv'
    BY <2>1 DEF PasteInv, CacheInv
  <2>3. ep.published \in paste[r].seen
    BY <2>1 DEF PasteInv, RequestInv
  <2>4. \A i \in Opened : stack[i].call = "render" => stack[i].got # {r}
    BY <2>1 DEF PasteInv, RenderInv
  <2>5. CASE paste' = [paste EXCEPT ![r] = Failed(@)] /\ UNCHANGED stack
    <3>1. Failed(paste[r]) \in Pastes /\ RequestInv(Failed(paste[r]))
      BY <1>t DEF Failed, Idle, Pastes, Targets, RequestInv
    <3>2. NoNew("render") /\ Opened' = Opened
      BY <1>q, <2>5 DEF Opened
    <3>. QED
      BY <2>1, <2>2, <2>4, <2>5, <3>1, <3>2, PasteServed
  <2>6. CASE /\ paste' = [paste EXCEPT ![r].at = "rendering"]
             /\ Begin(r, ep.published, "remote")
    <3>. DEFINE f == Frame("render", ep.published, "remote", {r})
                p == [paste[r] EXCEPT !.at = "rendering"]
    <3>1. /\ f \in Frames /\ f.call = "render" /\ f.got = {r} /\ f.offer = ep.published
      BY <1>c, <1>t, FramesAreFrames DEF Frame
    <3>2. /\ p \in Pastes /\ p.at = "rendering" /\ p.seen = paste[r].seen
          /\ p.sent = paste[r].sent
      BY <1>t DEF Pastes
    <3>3. paste' = [paste EXCEPT ![r] = p] /\ stack' = Append(stack, f)
      BY <1>t, <2>6 DEF Pastes, Begin
    <3>. HIDE DEF f, p
    <3>. QED
      BY <2>1, <2>3, <3>1, <3>2, <3>3, PasteTaken
  <2>. QED
    BY <1>11, <2>5, <2>6 DEF Render
<1>s. ASSUME stack # <<>>, Running.call = "render"
      PROVE  \E r \in Pasters :
               /\ Running.got = {r} /\ paste[r].at = "rendering"
               /\ Running.offer \in paste[r].seen \/ paste[r].excused
  BY <1>n, <1>s DEF PasteInv, RenderInv
<1>e. \A r \in Pasters : Failed(paste[r]) \in Pastes /\ RequestInv(Failed(paste[r]))
  BY <1>t DEF Failed, Idle, Pastes, Targets, RequestInv
<1>12. CASE Rendered
  <2>1. /\ stack # <<>> /\ Running.call = "render" /\ UNCHANGED overtaken
        /\ Running.at = "remote"
    BY <1>12 DEF Rendered, AtTop
  <2>2. PICK r \in Pasters : Running.got = {r}
    BY <1>s, <2>1
  <2>3. CASE /\ ep' \in {ep, [ep EXCEPT !.cache = Running.offer]}
             /\ Proceed("stream") /\ UNCHANGED paste
    <3>1. overtaken \/ Running.offer = ep.published
      BY <1>n, <2>1 DEF PasteInv, RenderInv
    <3>2. ep'.published = ep.published /\ CacheInv'
      BY <1>t, <2>1, <2>3, <3>1 DEF PasteInv, CacheInv
    <3>3. NoNew("render")
      BY <1>q, <1>c, <2>1, <2>3
    <3>4. RenderInv'
      BY <2>1, <2>3, <3>2, <3>3, RenderQuiet DEF PasteInv
    <3>5. \A q \in Pasters : RequestInv(paste[q])'
      BY <2>3, <3>2 DEF PasteInv, RequestInv
    <3>. QED
      BY <3>2, <3>4, <3>5 DEF PasteInv
  <2>4. CASE /\ \E q \in Running.got : paste' = [paste EXCEPT ![q] = Failed(@)]
             /\ Return /\ UNCHANGED ep
    <3>1. paste' = [paste EXCEPT ![r] = Failed(paste[r])]
      BY <2>2, <2>4
    <3>. QED
      BY <1>e, <2>1, <2>2, <2>4, <3>1, PasteReturned
  <2>. QED
    BY <1>12, <2>3, <2>4 DEF Rendered
<1>12a. CASE StreamBegins
  <2>1. /\ stack # <<>> /\ Running.call = "render" /\ Return
        /\ UNCHANGED <<ep, overtaken>>
    BY <1>12a DEF StreamBegins, AtTop
  <2>2. PICK r \in Pasters : /\ Running.got = {r} /\ paste[r].at = "rendering"
                             /\ \/ Running.offer \in paste[r].seen
                                \/ paste[r].excused
    BY <1>s, <2>1
  <2>3. Running.offer \in Bundle /\ paste[r].sent = 0
    BY <1>n, <2>1, <2>2 DEF Frames, PasteInv, RequestInv
  <2>. DEFINE p == Streaming(paste[r], Running.offer)
  <2>4. p \in Pastes /\ RequestInv(p)
    <3>1. /\ p \in Pastes /\ p.at = "streaming" /\ p.seen = paste[r].seen
          /\ p.got = Running.offer /\ p.left = 1 /\ p.sent = paste[r].sent
          /\ p.excused = paste[r].excused
      BY <1>t, <2>3 DEF Streaming, Chunks, Pastes
    <3>. HIDE DEF p
    <3>. QED
      BY <2>2, <2>3, <3>1 DEF RequestInv, Chunks
  <2>5. \/ paste' = [paste EXCEPT ![r] = p]
        \/ paste' = [paste EXCEPT ![r] = Failed(paste[r])]
    BY <1>12a, <2>2 DEF StreamBegins
  <2>. HIDE DEF p
  <2>6. CASE paste' = [paste EXCEPT ![r] = p]
    BY <2>1, <2>2, <2>4, <2>6, PasteReturned
  <2>7. CASE paste' = [paste EXCEPT ![r] = Failed(paste[r])]
    BY <1>e, <2>1, <2>2, <2>7, PasteReturned
  <2>. QED
    BY <2>5, <2>6, <2>7
<1>13. ASSUME NEW r \in Pasters, StreamReady(r)
       PROVE  PasteInv'
  <2>1. /\ UNCHANGED <<ep, stack, overtaken>> /\ paste[r].at = "streaming"
        /\ paste' = [paste EXCEPT ![r] = Chunk(paste[r])]
    BY <1>13 DEF StreamReady
  <2>2. RequestInv(paste[r]) /\ paste[r] \in Pastes
    BY <1>t DEF PasteInv
  <2>3. Chunk(paste[r]) \in Pastes /\ RequestInv(Chunk(paste[r]))
    <3>0. /\ paste[r].left \in Nat /\ paste[r].sent \in Nat
          /\ paste[r].excused \/ (paste[r].got \in paste[r].seen
                                   /\ paste[r].left + paste[r].sent = Chunks)
      BY <2>1, <2>2 DEF Pastes, RequestInv
    <3>1. ASSUME paste[r].left = 0
          PROVE  Ended(paste[r]) \in Pastes /\ RequestInv(Ended(paste[r]))
      <4>. DEFINE e == Ended(paste[r])
      <4>1. e \in Pastes
        BY <1>t, <2>2 DEF Ended, Idle, Pastes, Targets
      <4>2. /\ e.at = "ok"
            /\ ~ e.excused => /\ ~ paste[r].excused /\ e.got = paste[r].got
                              /\ e.sent = paste[r].sent
                              /\ e.seen = paste[r].seen \cap {paste[r].got}
        BY <2>2 DEF Ended, Idle, Pastes
      <4>3. paste[r].excused \/ paste[r].sent = Chunks
        BY <3>0, <3>1 DEF Chunks
      <4>. HIDE DEF e
      <4>4. RequestInv(e)
        BY <3>0, <4>2, <4>3 DEF RequestInv
      <4>. QED
        BY <4>1, <4>4 DEF e
    <3>2. ASSUME paste[r].left # 0
          PROVE  /\ [paste[r] EXCEPT !.left = @ - 1, !.sent = @ + 1] \in Pastes
                 /\ RequestInv([paste[r] EXCEPT !.left = @ - 1, !.sent = @ + 1])
      <4>. DEFINE c == [paste[r] EXCEPT !.left = @ - 1, !.sent = @ + 1]
      <4>1. /\ paste[r].left - 1 \in Nat /\ paste[r].sent + 1 \in Nat
            /\ (paste[r].left - 1) + (paste[r].sent + 1) = paste[r].left + paste[r].sent
        BY <3>0, <3>2
      <4>2. c \in Pastes
        BY <2>2, <4>1 DEF Pastes
      <4>3. /\ c.at = "streaming" /\ c.excused = paste[r].excused
            /\ c.got = paste[r].got /\ c.seen = paste[r].seen
            /\ c.left + c.sent = paste[r].left + paste[r].sent
        BY <2>1, <2>2, <4>1 DEF Pastes
      <4>. HIDE DEF c
      <4>4. RequestInv(c)
        BY <3>0, <4>3 DEF RequestInv
      <4>. QED
        BY <4>2, <4>4 DEF c
    <3>. QED
      BY <3>1, <3>2 DEF Chunk
  <2>4. \A i \in Opened' : stack'[i].call = "render" => stack'[i].got # {r}
    BY <2>1 DEF PasteInv, RenderInv, Opened
  <2>5. NoNew("render") /\ CacheInv'
    BY <1>q, <2>1 DEF PasteInv, CacheInv
  <2>. QED
    BY <2>1, <2>3, <2>4, <2>5, PasteServed
<1>14. ASSUME NEW r \in Readers, ReadFile(r)
       PROVE  PasteInv'
  <2>1. /\ Frame("file", open[r].via, "remote", {r}) \in Frames
        /\ Frame("file", open[r].via, "remote", {r}).call # "render"
    BY <1>c, FramesAreFrames DEF Frame, TypeInv, Opens
  <2>2. NoNew("render")
    BY <1>14, <1>q, <2>1 DEF ReadFile
  <2>. QED
    BY <1>14, <2>2, PasteQuiet DEF ReadFile
<1>15. CASE FileRead
  <2>1. NoNew("render")
    BY <1>15, <1>q DEF FileRead, AtTop
  <2>. QED
    BY <1>15, <2>1, PasteQuiet DEF FileRead
<1>16. CASE UNCHANGED vars
  BY <1>16, <1>q, PasteQuiet DEF vars
<1>17. ASSUME NEW r \in Readers,
              \/ \E path \in FileOffers : \E node \in NodesOf[path] :
                   ReadPath(r, path, node)
              \/ ResolvePath(r)
       PROVE  PasteInv'
  BY <1>17, <1>q, PasteQuiet DEF ReadPath, ResolvePath
<1>. QED
  BY <1>1, <1>2, <1>3, <1>4, <1>5, <1>6, <1>7, <1>8, <1>9, <1>10, <1>11, <1>12, <1>12a,
     <1>13, <1>14, <1>15, <1>16, <1>17 DEF Next, MainReturns, Library
-----------------------------------------------------------------------------
(* The reads of promised paths.                                            *)
LEMMA FileQuiet ==
  ASSUME FileInv, NoNew("file"),
         \A i \in Opened, r \in Readers :
            stack[i].call = "file" /\ stack[i].got = {r} /\ i \in Opened'
              /\ stack'[i].call = "file" => open'[r] = open[r],
         \A r \in Readers : ReadInv(open[r])'
  PROVE  FileInv'
<1>1. ASSUME NEW i \in Opened', stack'[i].call = "file"
      PROVE  \E r \in Readers : /\ stack'[i].got = {r} /\ open'[r].at = "reading"
                                /\ stack'[i].offer = open'[r].via
  <2>1. /\ i \in Opened /\ stack[i].call = "file"
        /\ stack'[i].got = stack[i].got /\ stack'[i].offer = stack[i].offer
    BY <1>1 DEF NoNew
  <2>2. PICK r \in Readers : /\ stack[i].got = {r} /\ open[r].at = "reading"
                             /\ stack[i].offer = open[r].via
    BY <2>1 DEF FileInv
  <2>. QED
    BY <1>1, <2>1, <2>2
<1>2. ASSUME NEW i \in Opened', NEW j \in Opened',
             stack'[i].call = "file", stack'[j].call = "file",
             stack'[i].got = stack'[j].got
      PROVE  i = j
  BY <1>2 DEF NoNew, FileInv
<1>. QED
  BY <1>1, <1>2 DEF FileInv

LEMMA FileStep == TypeInv /\ FileInv /\ [Next]_vars => FileInv'
<1>. SUFFICES ASSUME TypeInv, FileInv, [Next]_vars PROVE FileInv'
  OBVIOUS
<1>t. /\ stack \in Seq(Frames) /\ Len(stack) \in Nat /\ None \in Bundle
      /\ open \in [Readers -> Opens] /\ Offers \subseteq Bundle
      /\ ep \in [published : Bundle, publication : Bundle,
                 registered : SUBSET Offers, cache : Bundle, pending : BOOLEAN]
  BY DEF TypeInv, Bundle
<1>c. /\ "publish" \in Calls /\ "pump" \in Calls /\ "render" \in Calls /\ "file" \in Calls
      /\ "remote" \in Places /\ "set" \in Places /\ "offered" \in Places
      /\ "read" \in Places /\ "stream" \in Places
  BY DEF Calls, Places
<1>n. stack # <<>> =>
        Running = stack[Len(stack)] /\ Len(stack) \in Opened /\ Running \in Frames
  BY TopIsFrame
<1>q. /\ UNCHANGED stack => NoNew("file")
      /\ stack # <<>> /\ Return => NoNew("file")
      /\ \A at \in Places \ {"remote"} : stack # <<>> /\ Proceed(at) => NoNew("file")
      /\ \A f \in Frames :
           stack' = Append(stack, f) /\ f.call # "file" => NoNew("file")
  BY NothingNew
<1>u. ASSUME UNCHANGED open, NoNew("file") PROVE FileInv'
  <2>1. \A r \in Readers : ReadInv(open[r])'
    BY <1>u DEF FileInv, ReadInv
  <2>. QED
    BY <1>u, <2>1, FileQuiet
<1>o. ASSUME NEW r \in Readers, NEW o \in Opens, open' = [open EXCEPT ![r] = o],
             ReadInv(o), NoNew("file"),
             \A i \in Opened' : stack'[i].call = "file" => stack'[i].got # {r}
      PROVE  FileInv'
  <2>1. ASSUME NEW q \in Readers PROVE ReadInv(open[q])'
    <3>1. open'[q] = IF q = r THEN o ELSE open[q]
      BY <1>t, <1>o
    <3>2. ReadInv(open[q])
      BY DEF FileInv
    <3>. QED
      BY <1>o, <3>1, <3>2 DEF ReadInv
  <2>2. ASSUME NEW i \in Opened, NEW q \in Readers, i \in Opened',
               stack[i].call = "file", stack[i].got = {q}, stack'[i].call = "file"
        PROVE  open'[q] = open[q]
    <3>1. stack'[i].got = {q}
      BY <1>o, <2>2 DEF NoNew
    <3>. QED
      BY <1>t, <1>o, <2>2, <3>1
  <2>. QED
    BY <1>o, <2>1, <2>2, FileQuiet
<1>1. CASE Publish
  <2>1. PICK at \in Places : stack' = Append(stack, Frame("publish", peer.next, at, {}))
    BY <1>1, <1>c DEF Publish, Call
  <2>2. peer.next \in Bundle
    BY <1>1, <1>t DEF Publish
  <2>3. /\ Frame("publish", peer.next, at, {}) \in Frames
        /\ Frame("publish", peer.next, at, {}).call # "file"
    BY <1>c, <2>2, FramesAreFrames DEF Frame
  <2>4. NoNew("file")
    BY <1>q, <2>1, <2>3
  <2>. QED
    BY <1>1, <1>u, <2>4 DEF Publish
<1>2. CASE PublishListed
  <2>1. NoNew("file")
    BY <1>2, <1>q, <1>c DEF PublishListed, AtTop
  <2>. QED
    BY <1>2, <1>u, <2>1 DEF PublishListed
<1>3. CASE PublishOffers
  BY <1>3, <1>q, <1>c, <1>u DEF PublishOffers, AtTop
<1>4. CASE PublishRefused \/ PublishBooked \/ PumpEnds
  BY <1>4, <1>q, <1>u DEF PublishRefused, PublishBooked, PumpEnds, AtTop
<1>5. CASE Copy \/ TargetsChanged \/ OwnerLost
  BY <1>5, <1>q, <1>u DEF Copy, TargetsChanged, OwnerLost, Noted
<1>6. CASE Rendered \/ StreamBegins
  BY <1>6, <1>q, <1>c, <1>u DEF Rendered, StreamBegins, AtTop
<1>7. CASE PumpReads
  <2>1. PICK got \in Snapshots : stack' = Append(stack, Frame("pump", None, "read", got))
    BY <1>7 DEF PumpReads
  <2>2. got \in SUBSET (Pasters \cup Readers \cup Nat)
    BY DEF Snapshots, TypeInv
  <2>3. /\ Frame("pump", None, "read", got) \in Frames
        /\ Frame("pump", None, "read", got).call # "file"
    BY <1>c, <1>t, <2>2, FramesAreFrames DEF Frame
  <2>4. NoNew("file")
    BY <1>q, <2>1, <2>3
  <2>. QED
    BY <1>7, <1>u, <2>4 DEF PumpReads
<1>8. ASSUME NEW r \in Pasters,
             \/ \E target \in Targets : RequestTarget(r, target)
             \/ StreamReady(r)
      PROVE  FileInv'
  BY <1>8, <1>q, <1>u DEF RequestTarget, StreamReady
<1>9. ASSUME NEW r \in Pasters, Render(r) \/ RenderAtHand(r) PROVE FileInv'
  <2>1. ASSUME NEW offer \in Bundle, NEW at \in Places, Begin(r, offer, at)
        PROVE  NoNew("file")
    <3>1. /\ Frame("render", offer, at, {r}) \in Frames
          /\ Frame("render", offer, at, {r}).call # "file"
      BY <1>c, FramesAreFrames DEF Frame
    <3>. QED
      BY <1>q, <2>1, <3>1 DEF Begin
  <2>2. ep.published \in Bundle /\ AtHand(paste[r].target) \in Bundle
    BY <1>t DEF AtHand
  <2>3. NoNew("file")
    BY <1>9, <1>c, <1>q, <2>1, <2>2 DEF Render, RenderAtHand
  <2>. QED
    BY <1>9, <1>u, <2>3 DEF Render, RenderAtHand
<1>10. ASSUME NEW r \in Readers, NEW path \in FileOffers, NEW node \in NodesOf[path],
              ReadPath(r, path, node)
       PROVE  FileInv'
  <2>. DEFINE o == [at |-> "called", path |-> path, via |-> None, node |-> node,
                    got |-> None]
  <2>1. path \in Offers /\ UNCHANGED stack /\ open[r].at = "idle"
    BY <1>10 DEF ReadPath, TypeInv
  <2>2. o \in Opens /\ ReadInv(o)
    BY <1>t, <2>1 DEF Opens, Nodes, ReadInv
  <2>3. open' = [open EXCEPT ![r] = o]
    BY <1>10 DEF ReadPath
  <2>4. \A i \in Opened' : stack'[i].call = "file" => stack'[i].got # {r}
    BY <2>1 DEF FileInv, Opened
  <2>. HIDE DEF o
  <2>. QED
    BY <1>o, <1>q, <2>1, <2>2, <2>3, <2>4
<1>11. ASSUME NEW r \in Readers, ResolvePath(r)
       PROVE  FileInv'
  <2>1. UNCHANGED stack /\ open[r].at = "called" /\ open[r] \in Opens
    BY <1>11, <1>t DEF ResolvePath
  <2>4. Resolved(open[r]) \in Opens /\ ReadInv(Resolved(open[r]))
    <3>1. Unread \in Opens /\ ReadInv(Unread)
      BY <1>t DEF Unread, Closed, Opens, Nodes, ReadInv
    <3>2. ASSUME ep.publication # None, open[r].node \in NodesOf[ep.publication]
          PROVE  /\ [open[r] EXCEPT !.at = "posted", !.via = ep.publication] \in Opens
                 /\ ReadInv([open[r] EXCEPT !.at = "posted", !.via = ep.publication])
      BY <1>t, <2>1, <3>2 DEF Opens, ReadInv
    <3>. QED
      BY <3>1, <3>2 DEF Resolved
  <2>5. open' = [open EXCEPT ![r] = Resolved(open[r])]
    BY <1>11 DEF ResolvePath
  <2>6. \A i \in Opened' : stack'[i].call = "file" => stack'[i].got # {r}
    BY <2>1 DEF FileInv, Opened
  <2>. QED
    BY <1>o, <1>q, <2>1, <2>4, <2>5, <2>6
<1>12. ASSUME NEW r \in Readers, ReadFile(r)
       PROVE  FileInv'
  <2>. DEFINE f == Frame("file", open[r].via, "remote", {r})
  <2>1. /\ f \in Frames /\ f.call = "file" /\ f.got = {r} /\ f.offer = open[r].via
    BY <1>c, <1>t, FramesAreFrames DEF Frame, Opens
  <2>2. /\ open[r].at = "posted" /\ open' = [open EXCEPT ![r].at = "reading"]
        /\ stack' = Append(stack, f)
    BY <1>12 DEF ReadFile
  <2>. HIDE DEF f
  <2>3. /\ Len(stack') = Len(stack) + 1 /\ stack'[Len(stack)+1] = f
        /\ \A i \in Opened : stack'[i] = stack[i]
    BY <1>t, <2>1, <2>2, PushedStack
  <2>4. \A i \in Opened' : i \in Opened \/ i = Len(stack) + 1
    BY <1>t, <2>3 DEF Opened
  <2>5. \A i \in Opened : stack[i].call = "file" => stack[i].got # {r}
    BY <2>2 DEF FileInv
  <2>6. /\ open'[r].at = "reading" /\ open'[r].via = open[r].via
        /\ open'[r].path = open[r].path /\ open'[r].node = open[r].node
        /\ \A q \in Readers : q # r => open'[q] = open[q]
    BY <1>t, <2>2 DEF Opens
  <2>7. ASSUME NEW i \in Opened', stack'[i].call = "file"
        PROVE  \E q \in Readers : /\ stack'[i].got = {q} /\ open'[q].at = "reading"
                                  /\ stack'[i].offer = open'[q].via
    <3>1. CASE i = Len(stack) + 1
      BY <2>1, <2>3, <2>6, <3>1
    <3>2. CASE i \in Opened
      <4>1. stack'[i] = stack[i] /\ stack[i].call = "file"
        BY <2>3, <2>7, <3>2
      <4>2. PICK q \in Readers : /\ stack[i].got = {q} /\ open[q].at = "reading"
                                 /\ stack[i].offer = open[q].via
        BY <3>2, <4>1 DEF FileInv
      <4>3. open'[q] = open[q]
        BY <2>2, <2>6, <4>2
      <4>. QED
        BY <4>1, <4>2, <4>3
    <3>. QED
      BY <2>4, <3>1, <3>2
  <2>8. ASSUME NEW i \in Opened', NEW j \in Opened',
               stack'[i].call = "file", stack'[j].call = "file",
               stack'[i].got = stack'[j].got
        PROVE  i = j
    BY <2>1, <2>3, <2>4, <2>5, <2>8 DEF FileInv
  <2>9. ASSUME NEW q \in Readers PROVE ReadInv(open[q])'
    <3>1. ReadInv(open[q])
      BY DEF FileInv
    <3>. QED
      BY <2>2, <2>6, <3>1 DEF ReadInv
  <2>. QED
    BY <2>7, <2>8, <2>9 DEF FileInv
<1>13. CASE FileRead
  <2>1. stack # <<>> /\ Running.call = "file" /\ Return
    BY <1>13 DEF FileRead, AtTop
  <2>2. PICK r \in Readers : /\ Running.got = {r} /\ open[r].at = "reading"
                             /\ Running.offer = open[r].via
    BY <1>n, <2>1 DEF FileInv
  <2>3. PICK answer \in Answers(open[r], Running.offer) :
          open' = [open EXCEPT ![r] = answer]
    BY <1>13, <2>2 DEF FileRead
  <2>4. /\ Running.offer \in Bundle /\ open[r] \in Opens
        /\ open[r].node \in NodesOf[Running.offer]
    BY <1>n, <1>t, <2>1, <2>2 DEF Frames, FileInv, ReadInv
  <2>5. answer \in Opens /\ ReadInv(answer)
    <3>1. Unread \in Opens /\ ReadInv(Unread)
      BY <1>t DEF Unread, Closed, Opens, Nodes, ReadInv
    <3>2. /\ [open[r] EXCEPT !.at = "ok", !.got = Running.offer] \in Opens
          /\ ReadInv([open[r] EXCEPT !.at = "ok", !.got = Running.offer])
      BY <2>4 DEF Opens, ReadInv
    <3>. QED
      BY <3>1, <3>2 DEF Answers
  <2>6. /\ Len(stack') = Len(stack) - 1
        /\ \A i \in 1..Len(stack') : stack'[i] = stack[i]
    BY <1>t, <2>1, PoppedStack
  <2>7. ASSUME NEW i \in Opened', stack'[i].call = "file"
        PROVE  stack'[i].got # {r}
    <3>1. i \in Opened /\ i # Len(stack) /\ stack'[i] = stack[i]
      BY <1>t, <2>6, <2>7 DEF Opened
    <3>2. stack[Len(stack)].call = "file" /\ stack[Len(stack)].got = {r}
      BY <1>n, <2>1, <2>2
    <3>. QED
      BY <1>n, <2>1, <2>7, <3>1, <3>2 DEF FileInv
  <2>. QED
    BY <1>o, <1>q, <2>1, <2>3, <2>5, <2>7
<1>14. CASE UNCHANGED vars
  BY <1>14, <1>q, <1>u DEF vars
<1>. QED
  BY <1>1, <1>2, <1>3, <1>4, <1>5, <1>6, <1>7, <1>8, <1>9, <1>10, <1>11, <1>12,
     <1>13, <1>14 DEF Next, MainReturns, Library
-----------------------------------------------------------------------------
(* The providers.  A call that can be overtaken leaves them alone.         *)
LEMMA ProviderStep == TypeInv /\ ProviderInv /\ [Next]_vars => ProviderInv'
<1>. SUFFICES ASSUME TypeInv, ProviderInv, [Next]_vars PROVE ProviderInv'
  OBVIOUS
<1>t. /\ stack \in Seq(Frames)
      /\ ep \in [published : Bundle, publication : Bundle,
                 registered : SUBSET Offers, cache : Bundle, pending : BOOLEAN]
  BY DEF TypeInv
<1>1. ASSUME ~ AtTop("publish", "set"),
             UNCHANGED <<ep.registered, ep.publication>>
      PROVE  ProviderInv'
  BY <1>1 DEF ProviderInv
<1>2. CASE Publish
  <2>1. CASE UNCHANGED ep
    BY <1>1, <1>2, <2>1 DEF Publish, LoopRuns, AtTop
  <2>2. CASE Call("publish", peer.next, "set")
    <3>1. stack' = Append(stack, Frame("publish", peer.next, "set", {}))
      BY <2>2 DEF Call
    <3>2. stack' # <<>> /\ Last(stack') = Frame("publish", peer.next, "set", {})
      BY <1>t, <3>1 DEF Last
    <3>. QED
      BY <3>2 DEF ProviderInv, AtTop, Running, Frame
  <2>. QED
    BY <1>2, <2>1, <2>2 DEF Publish
<1>3. CASE PublishListed
  <2>1. /\ stack # <<>> /\ Running = stack[Len(stack)] /\ Len(stack) \in Opened
        /\ Running.call = "publish" /\ Running.at = "remote"
    BY <1>3, TopIsFrame DEF PublishListed, AtTop
  <2>2. CASE UNCHANGED ep
    BY <1>1, <2>1, <2>2 DEF AtTop
  <2>3. CASE Proceed("set")
    <3>1. stack' = [stack EXCEPT ![Len(stack)] = [@ EXCEPT !.at = "set"]]
      BY <2>3 DEF Proceed
    <3>2. /\ Len(stack') = Len(stack) /\ stack' # <<>>
          /\ stack'[Len(stack)] = [Running EXCEPT !.at = "set"]
      BY <1>t, <2>1, <3>1 DEF Opened
    <3>3. Running \in Frames
      BY <2>1, TopIsFrame
    <3>4. Running'.call = "publish" /\ Running'.at = "set"
      BY <2>1, <3>2, <3>3 DEF Running, Last, Frames
    <3>. QED
      BY <3>2, <3>4 DEF ProviderInv, AtTop
  <2>. QED
    BY <1>3, <2>2, <2>3 DEF PublishListed
<1>4. CASE PublishOffers \/ PublishRefused
  BY <1>4, <1>t DEF PublishOffers, PublishRefused, Unregistered, ProviderInv
<1>5. CASE PublishBooked
  <2>1. UNCHANGED <<ep.registered, ep.publication>> /\ ~ AtTop("publish", "set")
    BY <1>5, <1>t DEF PublishBooked, Booked, AtTop
  <2>. QED
    BY <1>1, <2>1
<1>6. CASE OwnerLost
  <2>1. UNCHANGED stack
    BY <1>6 DEF OwnerLost, Noted
  <2>2. ep'.registered = ep.registered \ {ep.publication}
    BY <1>6, <1>t DEF OwnerLost
  <2>. QED
    BY <2>1, <2>2 DEF ProviderInv, AtTop, Running
<1>7. CASE TargetsChanged \/ Copy \/ UNCHANGED vars
  <2>1. UNCHANGED <<ep.registered, ep.publication, stack>>
    BY <1>7, <1>t DEF TargetsChanged, Noted, Copy, vars
  <2>. QED
    BY <2>1 DEF ProviderInv, AtTop, Running
<1>8. CASE PumpReads
  BY <1>1, <1>8 DEF PumpReads, LoopRuns, AtTop
<1>9. CASE PumpEnds \/ Rendered
  <2>1. UNCHANGED <<ep.registered, ep.publication>> /\ ~ AtTop("publish", "set")
    BY <1>9, <1>t DEF PumpEnds, Consumed, Rendered, AtTop
  <2>. QED
    BY <1>1, <2>1
<1>10. CASE StreamBegins \/ FileRead
  BY <1>1, <1>10 DEF StreamBegins, FileRead, AtTop
<1>11. ASSUME NEW r \in Pasters,
              \/ \E target \in Targets : RequestTarget(r, target)
              \/ StreamReady(r)
       PROVE  ProviderInv'
  <2>1. UNCHANGED <<ep, stack>>
    BY <1>11 DEF RequestTarget, StreamReady
  <2>. QED
    BY <2>1 DEF ProviderInv, AtTop, Running
<1>12. ASSUME NEW r \in Pasters, RenderAtHand(r) \/ Render(r)
       PROVE  ProviderInv'
  BY <1>1, <1>12 DEF RenderAtHand, Render, LoopRuns, AtTop
<1>13. ASSUME NEW r \in Readers,
              \/ \E path \in FileOffers : \E node \in NodesOf[path] :
                   ReadPath(r, path, node)
              \/ ResolvePath(r)
       PROVE  ProviderInv'
  <2>1. UNCHANGED <<ep, stack>>
    BY <1>13 DEF ReadPath, ResolvePath
  <2>. QED
    BY <2>1 DEF ProviderInv, AtTop, Running
<1>14. ASSUME NEW r \in Readers, ReadFile(r) PROVE ProviderInv'
  BY <1>1, <1>14 DEF ReadFile, LoopRuns, AtTop
<1>. QED
  BY <1>2, <1>3, <1>4, <1>5, <1>6, <1>7, <1>8, <1>9, <1>10, <1>11, <1>12, <1>13,
     <1>14 DEF Next, MainReturns, Library
-----------------------------------------------------------------------------
(* The local changes: what is not announced is told of, pending or missed. *)
LEMMA ChangeQuiet ==
  ASSUME ChangeInv, NoNew("pump"), UNCHANGED <<native, notices>>,
         missed' = "nothing" =>
           /\ UNCHANGED <<missed, announced>>
           /\ ep'.pending = ep.pending \/ ~ ep.pending
  PROVE  ChangeInv'
<1>. SUFFICES ASSUME Quiet'
              PROVE  /\ ep'.pending \/ announced' = {native'.copies}
                     /\ \A i \in Opened' :
                          stack'[i].call = "pump" => stack'[i].got = {native'.copies}
  BY DEF ChangeInv
<1>1. Quiet /\ missed' = "nothing"
  BY DEF Quiet, Told
<1>2. ep'.pending \/ announced' = {native'.copies}
  BY <1>1 DEF ChangeInv
<1>3. ASSUME NEW i \in Opened', stack'[i].call = "pump"
      PROVE  stack'[i].got = {native'.copies}
  BY <1>1, <1>3 DEF ChangeInv, NoNew
<1>. QED
  BY <1>2, <1>3

LEMMA ChangeStep == TypeInv /\ StackInv /\ ChangeInv /\ [Next]_vars => ChangeInv'
<1>. SUFFICES ASSUME TypeInv, StackInv, ChangeInv, [Next]_vars PROVE ChangeInv'
  OBVIOUS
<1>t. /\ stack \in Seq(Frames) /\ Len(stack) \in Nat /\ None \in Bundle
      /\ Offers \subseteq Bundle
      /\ ep \in [published : Bundle, publication : Bundle,
                 registered : SUBSET Offers, cache : Bundle, pending : BOOLEAN]
  BY DEF TypeInv, Bundle
<1>c. /\ "publish" \in Calls /\ "pump" \in Calls /\ "render" \in Calls /\ "file" \in Calls
      /\ "remote" \in Places /\ "set" \in Places /\ "offered" \in Places
      /\ "read" \in Places /\ "stream" \in Places
  BY DEF Calls, Places
<1>n. stack # <<>> =>
        Running = stack[Len(stack)] /\ Len(stack) \in Opened /\ Running \in Frames
  BY TopIsFrame
<1>q. /\ UNCHANGED stack => NoNew("pump")
      /\ stack # <<>> /\ Return => NoNew("pump")
      /\ \A at \in Places \ {"remote"} : stack # <<>> /\ Proceed(at) => NoNew("pump")
      /\ \A f \in Frames :
           stack' = Append(stack, f) /\ f.call # "pump" => NoNew("pump")
  BY NothingNew
<1>1. CASE Publish
  <2>1. PICK at \in Places : stack' = Append(stack, Frame("publish", peer.next, at, {}))
    BY <1>1, <1>c DEF Publish, Call
  <2>2. peer.next \in Bundle
    BY <1>1, <1>t DEF Publish
  <2>3. /\ Frame("publish", peer.next, at, {}) \in Frames
        /\ Frame("publish", peer.next, at, {}).call # "pump"
    BY <1>c, <2>2, FramesAreFrames DEF Frame
  <2>4. NoNew("pump")
    BY <1>q, <2>1, <2>3
  <2>5. ep'.pending = ep.pending
    BY <1>1, <1>t DEF Publish, Installed
  <2>. QED
    BY <1>1, <2>4, <2>5, ChangeQuiet DEF Publish
<1>2. CASE PublishListed
  <2>1. NoNew("pump")
    BY <1>2, <1>q, <1>c DEF PublishListed, AtTop
  <2>2. ep'.pending = ep.pending
    BY <1>2, <1>t DEF PublishListed, Installed
  <2>. QED
    BY <1>2, <2>1, <2>2, ChangeQuiet DEF PublishListed
<1>3. CASE PublishOffers
  <2>1. native'.owner = "us"
    BY <1>3 DEF PublishOffers, TypeInv
  <2>. QED
    BY <2>1 DEF ChangeInv, Quiet
<1>4. CASE PublishRefused
  <2>1. NoNew("pump")
    BY <1>4, <1>q DEF PublishRefused, AtTop
  <2>2. ep'.pending = ep.pending
    BY <1>4, <1>t DEF PublishRefused, Unregistered
  <2>. QED
    BY <1>4, <2>1, <2>2, ChangeQuiet DEF PublishRefused
<1>5. CASE PublishBooked
  <2>1. NoNew("pump")
    BY <1>5, <1>q DEF PublishBooked, AtTop
  <2>2. missed' = "nothing" => UNCHANGED <<missed, announced>> /\ ~ ep.pending
    BY <1>5 DEF PublishBooked, MissedTo
  <2>. QED
    BY <1>5, <2>1, <2>2, ChangeQuiet DEF PublishBooked
<1>6. CASE Copy
  <2>1. notices \in Seq({"changed", "lost"}) /\ Len(notices) \in Nat
    BY DEF TypeInv
  <2>2. CASE notices' = Append(notices, "changed")
    <3>1. Len(notices') = Len(notices) + 1 /\ notices'[Len(notices) + 1] = "changed"
      BY <2>1, <2>2
    <3>. QED
      BY <2>1, <3>1 DEF ChangeInv, Quiet, Told
  <2>3. ASSUME NEW told \in {<<"lost", "changed">>, <<"changed", "lost">>},
               notices' = notices \o told
        PROVE  ChangeInv'
    <3>1. /\ told \in Seq({"changed", "lost"}) /\ Len(told) = 2
          /\ \E k \in 1..2 : told[k] = "changed"
      BY <2>3
    <3>2. PICK k \in 1..2 : told[k] = "changed"
      BY <3>1
    <3>3. /\ Len(notices') = Len(notices) + 2
          /\ notices'[Len(notices) + k] = "changed"
      <4>. DEFINE both == notices \o told
      <4>1. /\ Len(both) = Len(notices) + Len(told)
            /\ \A i \in 1..Len(notices) + Len(told) :
                 both[i] = IF i <= Len(notices) THEN notices[i]
                           ELSE told[i - Len(notices)]
        BY <2>1, <3>1, ConcatProperties, Zenon
      <4>2. notices' = both
        BY <2>3
      <4>. HIDE DEF both
      <4>. QED
        BY <2>1, <3>1, <3>2, <4>1, <4>2
    <3>4. Len(notices) + k \in 1..Len(notices')
      BY <2>1, <3>3
    <3>. QED
      BY <3>3, <3>4 DEF ChangeInv, Quiet, Told
  <2>. QED
    BY <1>6, <2>2, <2>3 DEF Copy
<1>7. CASE Library
  <2>1. ep'.pending /\ UNCHANGED stack
    BY <1>7, <1>t DEF Library, TargetsChanged, OwnerLost, Noted
  <2>2. missed' = "nothing" => ~ \E i \in DOMAIN stack : stack[i].call = "pump"
    BY <1>7 DEF Library, TargetsChanged, OwnerLost, Noted, MissedTo
  <2>3. DOMAIN stack = Opened
    BY <1>t DEF Opened
  <2>. QED
    BY <2>1, <2>2, <2>3 DEF ChangeInv, Quiet, Opened
<1>8. CASE PumpReads
  <2>1. PICK got \in Snapshots :
          /\ stack' = Append(stack, Frame("pump", None, "read", got))
          /\ missed' = "nothing" => got # {}
    BY <1>8 DEF PumpReads, MissedTo
  <2>2. got \in SUBSET (Pasters \cup Readers \cup Nat)
    BY DEF Snapshots, TypeInv
  <2>. DEFINE f == Frame("pump", None, "read", got)
  <2>3. f \in Frames /\ f.got = got
    BY <1>c, <1>t, <2>2, FramesAreFrames DEF Frame
  <2>4. stack' = Append(stack, f)
    BY <2>1
  <2>. HIDE DEF f
  <2>5. /\ Len(stack') = Len(stack) + 1 /\ stack'[Len(stack)+1] = f
        /\ \A i \in Opened : stack'[i] = stack[i]
    BY <1>t, <2>3, <2>4, PushedStack
  <2>6. \A i \in Opened' : i \in Opened \/ i = Len(stack) + 1
    BY <1>t, <2>5 DEF Opened
  <2>7. \A i \in Opened : stack[i].call # "pump"
    BY <1>8, <1>t, <1>n DEF PumpReads, StackInv, LoopRuns, Opened
  <2>8. ep'.pending /\ UNCHANGED native
    BY <1>8 DEF PumpReads
  <2>9. missed' = "nothing" => got = {native.copies}
    BY <2>1 DEF Snapshots
  <2>10. ASSUME Quiet', NEW i \in Opened', stack'[i].call = "pump"
         PROVE  stack'[i].got = {native'.copies}
    <3>1. i = Len(stack) + 1
      BY <2>5, <2>6, <2>7, <2>10
    <3>2. stack'[i].got = got
      BY <2>3, <2>5, <3>1
    <3>. QED
      BY <2>8, <2>9, <2>10, <3>2 DEF Quiet
  <2>. QED
    BY <2>8, <2>10 DEF ChangeInv
<1>9. CASE PumpEnds
  <2>1. stack # <<>> /\ Running.call = "pump" /\ Return
    BY <1>9 DEF PumpEnds, AtTop
  <2>2. NoNew("pump")
    BY <1>q, <2>1
  <2>3. /\ UNCHANGED <<native, notices>>
        /\ missed' = "nothing" =>
             /\ UNCHANGED missed
             /\ announced' = IF Running.got = {} THEN announced ELSE Running.got
    BY <1>9 DEF PumpEnds, MissedTo
  <2>4. Quiet' => Quiet
    BY <2>3 DEF Quiet, Told
  <2>5. Quiet => Running.got = {native.copies}
    BY <1>n, <2>1 DEF ChangeInv
  <2>6. Quiet' => announced' = {native'.copies}
    BY <2>3, <2>4, <2>5 DEF Quiet
  <2>7. ASSUME Quiet', NEW i \in Opened', stack'[i].call = "pump"
        PROVE  stack'[i].got = {native'.copies}
    BY <2>2, <2>3, <2>4, <2>7 DEF ChangeInv, NoNew
  <2>. QED
    BY <2>6, <2>7 DEF ChangeInv
<1>10. CASE Rendered
  <2>1. NoNew("pump") /\ ep'.pending = ep.pending
    BY <1>10, <1>q, <1>c, <1>t DEF Rendered, AtTop
  <2>. QED
    BY <1>10, <2>1, ChangeQuiet DEF Rendered
<1>10a. CASE StreamBegins
  BY <1>10a, <1>q, ChangeQuiet DEF StreamBegins, AtTop
<1>11. CASE FileRead
  BY <1>11, <1>q, ChangeQuiet DEF FileRead, AtTop
<1>12. ASSUME NEW r \in Pasters,
              \/ \E target \in Targets : RequestTarget(r, target)
              \/ StreamReady(r)
       PROVE  ChangeInv'
  <2>1. UNCHANGED <<native, notices, ep, stack, announced, missed>>
    BY <1>12 DEF RequestTarget, StreamReady
  <2>2. NoNew("pump")
    BY <1>q, <2>1
  <2>. QED
    BY <2>1, <2>2, ChangeQuiet
<1>13. ASSUME NEW r \in Pasters, Render(r) \/ RenderAtHand(r) PROVE ChangeInv'
  <2>1. ASSUME NEW offer \in Bundle, NEW at \in Places, Begin(r, offer, at)
        PROVE  NoNew("pump")
    <3>1. /\ Frame("render", offer, at, {r}) \in Frames
          /\ Frame("render", offer, at, {r}).call # "pump"
      BY <1>c, FramesAreFrames DEF Frame
    <3>. QED
      BY <1>q, <2>1, <3>1 DEF Begin
  <2>2. ep.published \in Bundle /\ AtHand(paste[r].target) \in Bundle
    BY <1>t DEF AtHand
  <2>3. NoNew("pump")
    BY <1>13, <1>c, <1>q, <2>1, <2>2 DEF Render, RenderAtHand
  <2>. QED
    BY <1>13, <2>3, ChangeQuiet DEF Render, RenderAtHand
<1>14. ASSUME NEW r \in Readers,
              \/ \E path \in FileOffers : \E node \in NodesOf[path] :
                   ReadPath(r, path, node)
              \/ ResolvePath(r)
       PROVE  ChangeInv'
  BY <1>14, <1>q, ChangeQuiet DEF ReadPath, ResolvePath
<1>15. ASSUME NEW r \in Readers, ReadFile(r) PROVE ChangeInv'
  <2>1. /\ Frame("file", open[r].via, "remote", {r}) \in Frames
        /\ Frame("file", open[r].via, "remote", {r}).call # "pump"
    BY <1>c, FramesAreFrames DEF Frame, TypeInv, Opens
  <2>2. NoNew("pump")
    BY <1>15, <1>q, <2>1 DEF ReadFile
  <2>. QED
    BY <1>15, <2>2, ChangeQuiet DEF ReadFile
<1>16. CASE UNCHANGED vars
  BY <1>16, <1>q, ChangeQuiet DEF vars
<1>. QED
  BY <1>1, <1>2, <1>3, <1>4, <1>5, <1>6, <1>7, <1>8, <1>9, <1>10, <1>10a, <1>11, <1>12,
     <1>13, <1>14, <1>15, <1>16 DEF Next, MainReturns
-----------------------------------------------------------------------------
LEMMA InvInit == Init => Inv
<1>. SUFFICES ASSUME Init PROVE Inv
  OBVIOUS
<1>1. TypeInv
  BY TypeInit
<1>2. /\ Opened = {} /\ ep.pending
      /\ ep.cache = None /\ ep.publication = None /\ ep.registered = {}
      /\ \A r \in Pasters : paste[r] = Idle
      /\ \A r \in Readers : open[r] = Closed
  BY DEF Init, Opened
<1>3. StackInv /\ ChangeInv
  BY <1>2 DEF StackInv, ChangeInv
<1>4. RequestInv(Idle)
  BY DEF RequestInv, Idle
<1>5. RenderInv /\ CacheInv
  BY <1>2 DEF RenderInv, CacheInv
<1>6. PasteInv
  BY <1>2, <1>4, <1>5 DEF PasteInv, RequestInv
<1>7. ReadInv(Closed)
  BY DEF ReadInv, Closed
<1>8. FileInv
  BY <1>2, <1>7 DEF FileInv, ReadInv
<1>9. ProviderInv
  BY <1>2 DEF ProviderInv
<1>. QED
  BY <1>1, <1>3, <1>6, <1>8, <1>9 DEF Inv

(* The shape of the endpoint's state, of the stack of its calls and of     *)
(* what each open call serves.                                             *)
THEOREM LinuxClipboardInvariant == Spec => []Inv
<1>1. Init => Inv
  BY InvInit
<1>2. Inv /\ [Next]_vars => Inv'
  BY TypeStep, StackStep, PasteStep, FileStep, ProviderStep, ChangeStep DEF Inv
<1>. QED
  BY <1>1, <1>2, PTL DEF Spec

(* A local application is given a whole target of an offer that was        *)
(* published while it waited, whatever the number of offers, requests and  *)
(* calls open at once, unless a publication cut into its stream or into a  *)
(* rendering before it (renderNativeTarget, handleStreamReady).            *)
THEOREM PasteIsWhole == Spec => []PasteGetsWhatWasOffered
<1>1. Inv => PasteGetsWhatWasOffered
  BY DEF Inv, PasteInv, RequestInv, PasteGetsWhatWasOffered
<1>. QED
  BY <1>1, LinuxClipboardInvariant, PTL

(* A local copy is announced, unless the change was overwritten, could not *)
(* be read, or its announcement was denied or failed: nothing else loses   *)
(* it, for any number of copies and of calls open at once (pumpOnce,       *)
(* publishBundle).                                                         *)
THEOREM CopiesAreMissedOnlyToOverlapOrRefusal ==
  Spec => []ChangeMissedOnlyToOverlapOrRefusal
<1>1. Inv => ChangeMissedOnlyToOverlapOrRefusal
  <2>. SUFFICES ASSUME Inv, Quiescent, missed = "nothing"
                PROVE  announced = {native.copies}
    BY DEF ChangeMissedOnlyToOverlapOrRefusal
  <2>1. Quiet
    BY DEF Quiet, Quiescent, Told
  <2>. QED
    BY <2>1 DEF Inv, ChangeInv, Quiescent
<1>. QED
  BY <1>1, LinuxClipboardInvariant, PTL

(* Whatever the offers list, also at the same places: the paths of one     *)
(* publication are served at a time, and a read of an old path is given    *)
(* only a file that the present offer lists at that place                  *)
(* (publishBundle, handleOwnerLost, handleFusePromiseRead).                *)
THEOREM OldPathsAreServedOnlyAtSharedPlaces ==
  Spec => []OldPathsServeOnlySharedPlaces
<1>1. Inv => OldPathsServeOnlySharedPlaces
  BY DEF Inv, FileInv, ReadInv, ProviderInv, OldPathsServeOnlySharedPlaces
<1>. QED
  BY <1>1, LinuxClipboardInvariant, PTL
=============================================================================
