---------------------- MODULE TransportConnectorProofs ----------------------
(***************************************************************************)
(* Theorems about the transport connector for any channels, any transports  *)
(* and any number of profiles in a call.                                    *)
(*                                                                          *)
(* That no transport strays is inductive together with the types: the       *)
(* tables hold transports of the key they are filed under, which a step     *)
(* that moves one from the pending to the active table needs.  What the     *)
(* teardown answer and a settled reconnect promise follows from it at the   *)
(* step that gives the answer, and stays true while only the peer acts.     *)
(***************************************************************************)
EXTENDS TransportConnector, WellFoundedInduction, TLAPS

USE ConnectorAssumption

IInv == TypeOK /\ NoStrayTransport /\ TeardownHonest /\ ReconnectSettled

-----------------------------------------------------------------------------
(* Finite lists of profiles have a last one. *)
LEMMA LastExists ==
  ASSUME NEW n \in Nat, NEW I \in SUBSET (1 .. n), I # {}
  PROVE  \E i \in I : \A j \in I : j <= i
<1> DEFINE N == {n - i : i \in I}
<1> DEFINE Less == {ss \in Nat \X Nat : ss[1] < ss[2]}
<1>1. N \subseteq Nat /\ N # {}
  <2>1. \A i \in I : i \in Nat /\ n - i \in Nat
    OBVIOUS
  <2>2. PICK i \in I : TRUE
    OBVIOUS
  <2>3. n - i \in N
    OBVIOUS
  <2> QED BY <2>1, <2>3
<1>2. IsWellFoundedOn(Less, Nat)
  BY NatLessThanWellFounded, Zenon DEF OpToRel
<1> HIDE DEF N
<1>3. PICK m \in N : \A k \in N : ~(<<k, m>> \in Less)
  <2> HIDE DEF Less
  <2> QED BY <1>1, <1>2, WFMin, Zenon
<1>4. ASSUME NEW k \in N PROVE m <= k
  <2>1. k \in Nat /\ m \in Nat
    BY <1>1
  <2>2. <<k, m>> \in Less <=> k < m
    BY <2>1
  <2>3. ~(<<k, m>> \in Less)
    BY <1>3
  <2> HIDE DEF Less
  <2> QED BY <2>1, <2>2, <2>3
<1> USE DEF N
<1>5. PICK i \in I : m = n - i
  OBVIOUS
<1>6. ASSUME NEW j \in I PROVE j <= i
  <2>1. n - j \in N
    OBVIOUS
  <2>2. m <= n - j
    BY <2>1, <1>4
  <2> QED BY <2>2, <1>5
<1> QED BY <1>6

LEMMA MadeLinks ==
  ASSUME NEW p \in Profiles
  PROVE  /\ Made(p) \subseteq Links
         /\ Matched(p) => \A l \in Made(p) : KeyOf[l] \in Keys
BY DEF Profiles, Profile, Made, Opens

(* Every prepared key ends up with one of the transports made for it. *)
LEMMA FinalLinks ==
  ASSUME NEW p \in Profiles, Matched(p)
  PROVE  /\ DOMAIN Final(p) = {KeyOf[l] : l \in Made(p)}
         /\ Final(p) = [k \in DOMAIN Final(p) |-> Final(p)[k]]
         /\ \A k \in DOMAIN Final(p) : Final(p)[k] \in Made(p) /\ KeyOf[Final(p)[k]] = k
<1>1. PICK n \in 1 .. MaxProfiles : p \in [1 .. n -> Profile]
  BY DEF Profiles
<1>2. DOMAIN Final(p) = {KeyOf[l] : l \in Made(p)}
      /\ Final(p) = [k \in DOMAIN Final(p) |-> Final(p)[k]]
  BY DEF Final
<1>3. ASSUME NEW k \in DOMAIN Final(p)
      PROVE  Final(p)[k] \in Made(p) /\ KeyOf[Final(p)[k]] = k
  <2> DEFINE I == {i \in DOMAIN p : Opens(p, i) /\ p[i].key = k}
  <2>1. PICK l \in Made(p) : KeyOf[l] = k
    BY <1>2, <1>3
  <2>2. PICK i \in DOMAIN p : Opens(p, i) /\ p[i].link = l
    BY <2>1 DEF Made
  <2>3. i \in I
    BY <2>1, <2>2 DEF Matched
  <2>4. I \subseteq 1 .. n /\ n \in Nat
    BY <1>1
  <2>5. \E a \in I : \A b \in I : b <= a
    <3> HIDE DEF I
    <3> QED BY <2>3, <2>4, LastExists
  <2> DEFINE last == CHOOSE a \in I : \A b \in I : b <= a
  <2>6. last \in I
    BY <2>5
  <2>7. Final(p)[k] = p[last].link
    BY <1>2 DEF Final
  <2> HIDE DEF last
  <2>8. KeyOf[p[last].link] = k /\ p[last].link \in Made(p)
    BY <2>6 DEF Matched, Made
  <2> QED BY <2>7, <2>8
<1> QED BY <1>2, <1>3

(* Tables stay tables when links of their keys are put in. *)
LEMMA UpdatedTable ==
  ASSUME NEW A, NEW B, A \subseteq B, NEW f, Table(f, A), NEW g, Table(g, B)
  PROVE  /\ Table(Updated(f, g), B)
         /\ DOMAIN Updated(f, g) = DOMAIN f \cup DOMAIN g
         /\ \A k \in DOMAIN g : Updated(f, g)[k] = g[k]
         /\ \A k \in DOMAIN f \ DOMAIN g : Updated(f, g)[k] = f[k]
BY DEF Updated, Table

LEMMA LargerTable ==
  ASSUME NEW A, NEW B, A \subseteq B, NEW f, Table(f, A)
  PROVE  Table(f, B)
BY DEF Table

LEMMA FinalTable ==
  ASSUME NEW p \in Profiles, Matched(p), NEW B, Made(p) \subseteq B
  PROVE  Table(Final(p), B)
<1>1. DOMAIN Final(p) \subseteq Keys
  BY ZenonT(40), FinalLinks, MadeLinks
<1>2. Final(p) \in [DOMAIN Final(p) -> B]
  BY FinalLinks
<1> QED BY <1>1, <1>2, FinalLinks DEF Table

LEMMA NewTable ==
  ASSUME NEW l \in Links, NEW B, l \in B
  PROVE  Table([k \in {KeyOf[l]} |-> l], B)
BY DEF Table

-----------------------------------------------------------------------------
(* What is open once a call has prepared its replacements. *)
LEMMA AfterPreparing ==
  ASSUME TypeOK, NoStrayTransport, NEW p \in Profiles, Attempt(p)
  PROVE  /\ OpenAfter(p) \subseteq Links \ unused'
         /\ Links \ unused \subseteq Links \ unused'
         /\ unused' \subseteq Links
         /\ Table(Final(p), Links \ unused')
         /\ \A l \in OpenAfter(p) :
              \/ KeyOf[l] \in DOMAIN Final(p) /\ Final(p)[KeyOf[l]] = l
              \/ KeyOf[l] \in DOMAIN active /\ active[KeyOf[l]] = l
              \/ /\ KeyOf[l] \notin DOMAIN Final(p)
                 /\ KeyOf[l] \in DOMAIN pending /\ pending[KeyOf[l]] = l
<1>1. Matched(p) /\ unused' = unused \ Made(p) /\ Made(p) \subseteq unused /\ attached
  BY DEF Attempt
<1>2. unused \subseteq Links /\ open \subseteq Links \ unused
  BY DEF TypeOK
<1>3. OpenAfter(p) \subseteq Links \ unused'
  BY <1>1, <1>2 DEF OpenAfter
<1>4. Table(Final(p), Links \ unused')
  <2>1. Made(p) \subseteq Links \ unused'
    BY <1>1, <1>2
  <2> QED BY <1>1, <2>1, FinalTable
<1>5. ASSUME NEW l \in OpenAfter(p)
      PROVE  \/ KeyOf[l] \in DOMAIN Final(p) /\ Final(p)[KeyOf[l]] = l
             \/ KeyOf[l] \in DOMAIN active /\ active[KeyOf[l]] = l
             \/ /\ KeyOf[l] \notin DOMAIN Final(p)
                /\ KeyOf[l] \in DOMAIN pending /\ pending[KeyOf[l]] = l
  <2>1. CASE l \in Made(p)
    <3>1. PICK k \in DOMAIN Final(p) : Final(p)[k] = l
      BY <2>1 DEF OpenAfter, Superseded, LinksIn
    <3>2. KeyOf[l] = k
      BY <3>1, <1>1, FinalLinks
    <3> QED BY <3>1, <3>2
  <2>2. CASE l \notin Made(p)
    <3>1. l \in open /\ l \in Links /\ KeyOf[l] \in Keys
      BY <2>2, <1>2 DEF OpenAfter
    <3>2. l \in Current(KeyOf[l]) \cup Waiting(KeyOf[l])
      BY <3>1, <1>1 DEF NoStrayTransport, LinksOf
    <3>3. CASE l \in Current(KeyOf[l])
      BY <3>3 DEF Current
    <3>4. CASE l \in Waiting(KeyOf[l])
      <4>1. KeyOf[l] \in DOMAIN pending /\ pending[KeyOf[l]] = l
        BY <3>4 DEF Waiting
      <4>2. KeyOf[l] \notin DOMAIN Final(p)
        BY <4>1 DEF OpenAfter, Superseded
      <4> QED BY <4>1, <4>2
    <3> QED BY <3>2, <3>3, <3>4
  <2> QED BY <2>1, <2>2
<1> QED BY <1>1, <1>2, <1>3, <1>4, <1>5

(* The tables of a session whose links may only become more numerous. *)
LEMMA EntryChanges ==
  ASSUME NEW e \in Entry, NEW link \in Links
  PROVE  /\ Bound(e, link) \in Entry /\ Bound(e, link).channel = link
         /\ MadeReady(e) \in Entry /\ MadeReady(e).channel = e.channel
         /\ MadeDegraded(e) \in Entry
BY DEF Entry, Bound, MadeReady, MadeDegraded, ChannelLifecycleState, PressureLevel

LEMMA RebindTypes ==
  ASSUME TypeOK, NEW p \in Profiles, Matched(p), NEW opened, Rebind(p, opened),
         Made(p) \cap unused' = {}, unused' \subseteq unused
  PROVE  /\ DOMAIN entries' = DOMAIN entries
         /\ entries' \in [DOMAIN entries -> Entry]
         /\ Table(routes', Links \ unused')
         /\ \A k \in DOMAIN Final(p) \cap DOMAIN entries :
              k \in DOMAIN routes' /\ routes'[k] = Final(p)[k]
              /\ entries'[k].channel = Final(p)[k]
<1> DEFINE new  == Final(p)
           keys == DOMAIN new \cap DOMAIN entries
           e(k) == Bound(MadeDegraded(entries[k]), new[k])
           g    == [k \in keys |-> IF CanBeReady(e(k), opened) THEN MadeReady(e(k)) ELSE e(k)]
           r    == [k \in keys |-> new[k]]
<1>1. entries' = Updated(entries, g) /\ routes' = Updated(routes, r)
  BY DEF Rebind
<1>2. \A k \in DOMAIN new : new[k] \in Made(p) /\ new[k] \in Links /\ KeyOf[new[k]] = k
  BY FinalLinks, MadeLinks
<1> HIDE DEF new
<1>3. ASSUME NEW k \in keys PROVE g[k] \in Entry /\ g[k].channel = new[k]
  <2>1. entries[k] \in Entry /\ new[k] \in Links
    BY <1>2 DEF TypeOK
  <2>2. MadeDegraded(entries[k]) \in Entry
    BY <2>1, EntryChanges
  <2>3. e(k) \in Entry /\ e(k).channel = new[k]
    BY <2>1, <2>2, EntryChanges
  <2>4. MadeReady(e(k)) \in Entry /\ MadeReady(e(k)).channel = new[k]
    <3> HIDE DEF e
    <3> QED BY <2>1, <2>3, EntryChanges
  <2>5. g[k] = e(k) \/ g[k] = MadeReady(e(k))
    BY <1>3
  <2> HIDE DEF e, g
  <2> QED BY <2>3, <2>4, <2>5
<1>4. DOMAIN g = keys /\ DOMAIN r = keys /\ keys \subseteq DOMAIN entries
  OBVIOUS
<1>5. DOMAIN entries' = DOMAIN entries /\ entries' \in [DOMAIN entries -> Entry]
      /\ \A k \in keys : entries'[k].channel = new[k]
  <2> HIDE DEF g, keys
  <2>1. entries \in [DOMAIN entries -> Entry]
    BY DEF TypeOK
  <2> QED BY <1>1, <1>3, <1>4, <2>1 DEF Updated
<1>6. Table(routes', Links \ unused') /\ \A k \in keys : k \in DOMAIN routes' /\ routes'[k] = new[k]
  <2>1. Table(r, Links \ unused')
    BY <1>2 DEF TypeOK, Table
  <2>2. Table(routes, Links \ unused) /\ Links \ unused \subseteq Links \ unused'
    BY DEF TypeOK
  <2>3. \A k \in keys : r[k] = new[k]
    OBVIOUS
  <2>4. DOMAIN r = keys /\ routes' = Updated(routes, r)
    BY <1>1, <1>4
  <2> HIDE DEF g, r, keys, e
  <2>5. /\ Table(Updated(routes, r), Links \ unused')
        /\ DOMAIN Updated(routes, r) = DOMAIN routes \cup DOMAIN r
        /\ \A k \in DOMAIN r : Updated(routes, r)[k] = r[k]
    BY <2>1, <2>2 DEF Updated, Table
  <2> QED BY <2>3, <2>4, <2>5
<1> QED BY <1>5, <1>6 DEF new

-----------------------------------------------------------------------------
(* Steps that make no transport and move none. *)
LEMMA StrayUnmoved ==
  ASSUME NoStrayTransport, open' \subseteq open, attached' = attached,
         active' = active, pending' = pending
  PROVE  NoStrayTransport'
BY DEF NoStrayTransport, Current, Waiting

(* A step that answers neither a teardown nor a reconnect promises nothing. *)
LEMMA NothingPromised ==
  ASSUME \/ outcome' = NoOutcome
         \/ \E keys : outcome' = [op |-> "prepare", keys |-> keys]
  PROVE  TeardownHonest' /\ ReconnectSettled'
BY DEF NoOutcome, TeardownHonest, ReconnectSettled

LEMMA InitInv == Init => IInv
<1> SUFFICES ASSUME Init PROVE IInv
  OBVIOUS
<1>1. DOMAIN entries = MinimumChannels /\ entries \in [DOMAIN entries -> Entry]
  BY DEF Init, Entry, RegisteredEntry, ChannelLifecycleState, PressureLevel
<1>2. Table(routes, Links \ unused) /\ Table(active, Links \ unused)
      /\ Table(pending, Links \ unused)
  BY DEF Init, Empty, Table
<1>3. Matched(offered) /\ Made(offered) = {}
  BY DEF Init, Matched, Made
<1>4. TypeOK
  BY <1>1, <1>2, <1>3 DEF Init, TypeOK
<1> QED BY <1>4 DEF IInv, Init, NoStrayTransport, TeardownHonest, ReconnectSettled, NoOutcome

LEMMA SessionStep ==
  ASSUME IInv, StartSession \/ StopSession PROVE IInv'
<1>1. /\ UNCHANGED <<entries, routes, open, unused, attached, active, pending, retired,
                     offered, outcome>>
      /\ session' \in {"Created", "Running", "Stopped"}
  BY DEF StartSession, StopSession
<1>2. TypeOK'
  BY <1>1 DEF IInv, TypeOK, Table
<1>3. NoStrayTransport'
  BY <1>1, StrayUnmoved DEF IInv
<1>4. TeardownHonest' /\ ReconnectSettled'
  BY <1>1 DEF IInv, TeardownHonest, ReconnectSettled, Current
<1> QED BY <1>2, <1>3, <1>4 DEF IInv

LEMMA CloseLinkStep ==
  ASSUME IInv, NEW l \in Links, CloseLink(l) PROVE IInv'
<1>1. /\ UNCHANGED <<session, entries, routes, unused, attached, active, pending, retired,
                     offered, outcome>>
      /\ open' \subseteq open
  BY DEF CloseLink
<1>2. TypeOK'
  BY <1>1 DEF IInv, TypeOK, Table
<1>3. NoStrayTransport'
  BY <1>1, StrayUnmoved DEF IInv
<1>4. TeardownHonest' /\ ReconnectSettled'
  BY <1>1 DEF IInv, TeardownHonest, ReconnectSettled, Current
<1> QED BY <1>2, <1>3, <1>4 DEF IInv

LEMMA CloseOldTransportStep ==
  ASSUME IInv, NEW key \in Keys, CloseOldTransport(key) PROVE IInv'
<1>1. /\ UNCHANGED <<session, entries, routes, open, unused, attached, active, pending, offered>>
      /\ retired' \subseteq Keys
  BY DEF CloseOldTransport, IInv, TypeOK
<1>2. TypeOK'
  BY <1>1 DEF IInv, TypeOK, Table
<1>3. NoStrayTransport'
  BY <1>1, StrayUnmoved DEF IInv
<1>4. PICK status : Answer(key, status)
                    /\ (status = "Closed" => attached /\ key \notin DOMAIN pending)
  BY DEF CloseOldTransport
<1>5. TeardownHonest'
  <2> SUFFICES ASSUME status = "Closed" PROVE open \cap LinksOf(key) \subseteq Current(key)
    BY <1>1, <1>4 DEF TeardownHonest, Answer, Current
  <2> QED BY <1>4 DEF IInv, NoStrayTransport, Waiting
<1>6. ReconnectSettled'
  BY <1>4 DEF Answer, ReconnectSettled
<1> QED BY <1>2, <1>3, <1>5, <1>6 DEF IInv

LEMMA ReleaseStep ==
  ASSUME IInv, ReleaseSession PROVE IInv'
<1>1. /\ UNCHANGED <<session, entries, routes, unused, offered>>
      /\ attached' = FALSE /\ active' = Empty /\ pending' = Empty /\ retired' = {}
      /\ open' \subseteq open /\ outcome' = NoOutcome
  BY DEF ReleaseSession
<1>2. Table(Empty, Links \ unused)
  BY DEF Empty, Table
<1>3. TypeOK'
  BY <1>1, <1>2 DEF IInv, TypeOK, Table
<1>4. NoStrayTransport'
  BY <1>1 DEF NoStrayTransport
<1> QED BY <1>1, <1>3, <1>4, NothingPromised DEF IInv

-----------------------------------------------------------------------------
LEMMA BindStep ==
  ASSUME IInv, NEW l \in Links, NEW alive \in BOOLEAN, BindTransport(l, alive)
  PROVE  IInv'
<1> DEFINE key == KeyOf[l]
           new == [k \in {key} |-> l]
           old == IF key \in DOMAIN entries THEN entries[key] ELSE RegisteredEntry
           e   == Bound(old, l)
           g   == [k \in {key} |-> IF alive THEN MadeReady(e) ELSE e]
<1>1. /\ attached /\ l \in unused /\ unused' = unused \ {l}
      /\ entries' = Updated(entries, g) /\ routes' = Updated(routes, new)
      /\ outcome' = NoOutcome
      /\ UNCHANGED <<session, attached, pending, offered>>
  BY DEF BindTransport
<1>2. /\ alive => MakeActive(new) /\ open' = (open \ Replaced(new)) \cup {l}
      /\ ~alive => UNCHANGED <<active, retired, open>>
  BY DEF BindTransport
<1>3. key \in Keys /\ l \notin open
  BY <1>1 DEF IInv, TypeOK
<1>4. DOMAIN entries' \subseteq Keys /\ entries' \in [DOMAIN entries' -> Entry]
  <2>0. RegisteredEntry \in Entry
    BY DEF Entry, RegisteredEntry, ChannelLifecycleState, PressureLevel
  <2>1. old \in Entry
    BY <2>0 DEF IInv, TypeOK
  <2> HIDE DEF old
  <2>2. e \in Entry
    BY <2>1, EntryChanges
  <2> HIDE DEF e
  <2>3. MadeReady(e) \in Entry
    BY <2>2, EntryChanges
  <2>4. DOMAIN g = {key} /\ g[key] \in Entry
    BY <2>2, <2>3
  <2> HIDE DEF g
  <2> QED BY <1>1, <1>3, <2>4 DEF IInv, TypeOK, Updated
<1>5. /\ Table(routes', Links \ unused') /\ Table(pending', Links \ unused')
      /\ Table(active', Links \ unused') /\ retired' \subseteq Keys
  <2>1. Table(new, Links \ unused') /\ DOMAIN new = {key}
    BY <1>1 DEF Table
  <2> HIDE DEF new
  <2>2. Table(routes', Links \ unused') /\ Table(pending', Links \ unused')
    BY <1>1, <2>1 DEF IInv, TypeOK, Table, Updated
  <2>3. Table(active', Links \ unused')
    BY <1>1, <1>2, <2>1 DEF IInv, TypeOK, Table, Updated, MakeActive
  <2>4. retired' \subseteq Keys
    BY <1>2, <2>1, <1>3 DEF IInv, TypeOK, MakeActive
  <2> QED BY <2>2, <2>3, <2>4
<1>6. open' \subseteq Links \ unused' /\ unused' \subseteq Links
  BY <1>1, <1>2 DEF IInv, TypeOK
<1>7. TypeOK'
  BY <1>1, <1>4, <1>5, <1>6 DEF IInv, TypeOK
<1>8. NoStrayTransport'
  <2>1. CASE ~alive
    BY <1>1, <1>2, <2>1, StrayUnmoved DEF IInv
  <2>2. CASE alive
    <3>1. /\ DOMAIN active' = DOMAIN active \cup {key} /\ active'[key] = l
          /\ \A k \in DOMAIN active \ {key} : active'[k] = active[k]
      BY <1>2, <2>2 DEF MakeActive, Updated
    <3>2. Replaced(new) = {active[k] : k \in DOMAIN active \cap {key}}
      BY DEF Replaced
    <3>3. ASSUME NEW k \in Keys, NEW o \in open' \cap LinksOf(k)
          PROVE  o \in Current(k)' \cup Waiting(k)'
      <4>1. CASE o = l
        BY <4>1, <3>1, <3>3 DEF Current, LinksOf
      <4>2. CASE o # l
        <5>1. o \in open \cap LinksOf(k) /\ o \notin Replaced(new)
          BY <4>2, <1>2, <2>2, <3>3
        <5>2. o \in Current(k) \cup Waiting(k)
          BY <5>1, <1>1 DEF IInv, NoStrayTransport
        <5>3. Waiting(k)' = Waiting(k)
          BY <1>1 DEF Waiting
        <5>4. o \in Current(k) => o \in Current(k)'
          BY <3>1, <3>2, <5>1 DEF Current
        <5> QED BY <5>2, <5>3, <5>4
      <4> QED BY <4>1, <4>2
    <3> QED BY <3>3 DEF NoStrayTransport, LinksOf
  <2> QED BY <2>1, <2>2
<1> QED BY <1>1, <1>7, <1>8, NothingPromised DEF IInv

(* What preparing makes of the pending table. *)
LEMMA PrepareInv ==
  ASSUME IInv, NEW p \in Profiles, Attempt(p),
         pending' = Updated(pending, Final(p)), open' \subseteq OpenAfter(p),
         UNCHANGED <<attached, active>>
  PROVE  NoStrayTransport' /\ Table(pending', Links \ unused') /\ open' \subseteq Links \ unused'
<1>1. TypeOK /\ NoStrayTransport
  BY DEF IInv
<1>2. /\ Table(pending', Links \ unused')
      /\ DOMAIN pending' = DOMAIN pending \cup DOMAIN Final(p)
      /\ \A k \in DOMAIN Final(p) : pending'[k] = Final(p)[k]
      /\ \A k \in DOMAIN pending \ DOMAIN Final(p) : pending'[k] = pending[k]
  BY <1>1, AfterPreparing DEF TypeOK, Updated, Table
<1>3. ASSUME NEW k \in Keys, NEW l \in open' \cap LinksOf(k)
      PROVE  l \in Current(k)' \cup Waiting(k)'
  <2>1. l \in OpenAfter(p) /\ KeyOf[l] = k
    BY <1>3 DEF LinksOf
  <2>2. \/ k \in DOMAIN Final(p) /\ Final(p)[k] = l
        \/ k \in DOMAIN active /\ active[k] = l
        \/ k \notin DOMAIN Final(p) /\ k \in DOMAIN pending /\ pending[k] = l
    BY <1>1, <2>1, AfterPreparing
  <2> QED BY <1>2, <2>2 DEF Current, Waiting
<1>4. NoStrayTransport'
  BY <1>3 DEF NoStrayTransport, LinksOf
<1> QED BY <1>1, <1>2, <1>4, AfterPreparing

LEMMA PrepareStep ==
  ASSUME IInv, NEW p \in Profiles, Attempt(p), Prepare(p),
         offered' = offered \/ offered' = p
  PROVE  IInv'
<1>1. /\ pending' = Updated(pending, Final(p)) /\ open' = OpenAfter(p)
      /\ outcome' = [op |-> "prepare", keys |-> DOMAIN Final(p)]
      /\ UNCHANGED <<session, entries, routes, attached, active, retired>>
  BY DEF Prepare
<1>2. NoStrayTransport' /\ Table(pending', Links \ unused') /\ open' \subseteq Links \ unused'
  BY <1>1, PrepareInv
<1>3. unused' = unused \ Made(p) /\ Matched(p)
  BY DEF Attempt
<1>4. Matched(offered') /\ Made(offered') \cap unused' = {} /\ offered' \in Profiles \cup {<<>>}
  BY <1>3 DEF IInv, TypeOK
<1>5. Table(routes', Links \ unused') /\ Table(active', Links \ unused')
  BY <1>1, <1>3 DEF IInv, TypeOK, Table
<1>6. TypeOK'
  BY <1>1, <1>2, <1>3, <1>4, <1>5 DEF IInv, TypeOK, Matched, Made, Opens
<1> QED BY <1>1, <1>2, <1>6, NothingPromised DEF IInv

LEMMA ReconnectSessionStep ==
  ASSUME IInv, ReconnectSession PROVE IInv'
<1>1. /\ offered \in Profiles /\ Matched(offered) /\ Made(offered) \cap unused = {}
      /\ Rebind(offered, open)
      /\ open' \subseteq open /\ offered' = <<>> /\ outcome' = NoOutcome
      /\ UNCHANGED <<session, unused, attached, active, pending, retired>>
  BY DEF ReconnectSession, IInv, TypeOK
<1>2. /\ DOMAIN entries' = DOMAIN entries
      /\ entries' \in [DOMAIN entries -> Entry]
      /\ Table(routes', Links \ unused')
  BY <1>1, RebindTypes DEF IInv
<1>3. Matched(<<>>) /\ Made(<<>>) = {}
  BY DEF Matched, Made
<1>4. TypeOK'
  BY <1>1, <1>2, <1>3 DEF IInv, TypeOK, Table, Matched, Made, Opens
<1>5. NoStrayTransport'
  BY <1>1, StrayUnmoved DEF IInv
<1> QED BY <1>1, <1>4, <1>5, NothingPromised DEF IInv

(* Committing makes the prepared transports the active ones and closes      *)
(* those they replace.                                                      *)
LEMMA CommitInv ==
  ASSUME IInv, NEW p \in Profiles, Attempt(p), Commit(p),
         open' \subseteq OpenAfter(p) \ Replaced(Final(p)), attached' = attached
  PROVE  /\ NoStrayTransport'
         /\ Table(pending', Links \ unused') /\ Table(active', Links \ unused')
         /\ retired' \subseteq Keys
         /\ \A k \in DOMAIN Final(p) :
              /\ k \notin DOMAIN pending'
              /\ k \in DOMAIN active' /\ active'[k] = Final(p)[k]
              /\ open' \cap LinksOf(k) \subseteq {Final(p)[k]}
<1>1. TypeOK /\ NoStrayTransport
  BY DEF IInv
<1>2. /\ DOMAIN active' = DOMAIN active \cup DOMAIN Final(p)
      /\ \A k \in DOMAIN Final(p) : active'[k] = Final(p)[k]
      /\ \A k \in DOMAIN active \ DOMAIN Final(p) : active'[k] = active[k]
  BY DEF Commit, MakeActive, Updated
<1>3. /\ DOMAIN pending' = DOMAIN pending \ DOMAIN Final(p)
      /\ \A k \in DOMAIN pending \ DOMAIN Final(p) : pending'[k] = pending[k]
  BY DEF Commit
<1>4. Table(pending', Links \ unused') /\ Table(active', Links \ unused')
  BY <1>1, AfterPreparing DEF TypeOK, Commit, MakeActive, Updated, Table
<1>5. retired' \subseteq Keys
  BY DEF Commit, MakeActive, IInv, TypeOK, Table
<1>6. ASSUME NEW l \in open'
      PROVE  \/ KeyOf[l] \in DOMAIN Final(p) /\ Final(p)[KeyOf[l]] = l
             \/ /\ KeyOf[l] \notin DOMAIN Final(p)
                /\ \/ KeyOf[l] \in DOMAIN active /\ active[KeyOf[l]] = l
                   \/ KeyOf[l] \in DOMAIN pending /\ pending[KeyOf[l]] = l
  <2>1. l \in OpenAfter(p) /\ l \notin Replaced(Final(p))
    BY <1>6
  <2>2. \/ KeyOf[l] \in DOMAIN Final(p) /\ Final(p)[KeyOf[l]] = l
        \/ KeyOf[l] \in DOMAIN active /\ active[KeyOf[l]] = l
        \/ /\ KeyOf[l] \notin DOMAIN Final(p)
           /\ KeyOf[l] \in DOMAIN pending /\ pending[KeyOf[l]] = l
    BY <1>1, <2>1, AfterPreparing
  <2> QED BY <2>1, <2>2 DEF Replaced
<1>7. ASSUME NEW k \in Keys, NEW l \in open' \cap LinksOf(k)
      PROVE  l \in Current(k)' \cup Waiting(k)'
  <2>1. l \in open' /\ KeyOf[l] = k
    BY <1>7 DEF LinksOf
  <2> QED BY <1>2, <1>3, <1>6, <2>1 DEF Current, Waiting
<1>8. NoStrayTransport'
  BY <1>7 DEF NoStrayTransport, LinksOf
<1>9. \A k \in DOMAIN Final(p) : open' \cap LinksOf(k) \subseteq {Final(p)[k]}
  BY <1>6 DEF LinksOf
<1> QED BY <1>2, <1>3, <1>4, <1>5, <1>8, <1>9

LEMMA ReconnectStep ==
  ASSUME IInv, NEW p \in Profiles, Reconnect(p) PROVE IInv'
<1>1. Attempt(p) /\ offered' = offered
  BY DEF Reconnect
<1>2. CASE Prepare(p)
  BY <1>1, <1>2, PrepareStep
<1>3. CASE /\ Rebind(p, OpenAfter(p))
           /\ UNCHANGED <<session, attached>>
           /\ \E links \in SUBSET OpenAfter(p) :
                \/ /\ ReconnectOk(p, OpenAfter(p))
                   /\ Commit(p)
                   /\ open' = (OpenAfter(p) \ Replaced(Final(p))) \ links
                   /\ Finished(p, TRUE)
                \/ /\ pending' = Updated(pending, Final(p))
                   /\ open' = OpenAfter(p) \ links
                   /\ Finished(p, FALSE)
                   /\ UNCHANGED <<active, retired>>
  <2>1. Matched(p) /\ unused' = unused \ Made(p) /\ unused \subseteq Links
    BY <1>1 DEF Attempt, IInv, TypeOK
  <2>2. /\ DOMAIN entries' = DOMAIN entries
        /\ entries' \in [DOMAIN entries -> Entry]
        /\ Table(routes', Links \ unused')
        /\ \A k \in DOMAIN Final(p) \cap DOMAIN entries :
             k \in DOMAIN routes' /\ routes'[k] = Final(p)[k]
             /\ entries'[k].channel = Final(p)[k]
    <3>1. TypeOK /\ Made(p) \cap unused' = {} /\ unused' \subseteq unused
      BY <2>1 DEF IInv
    <3> QED BY <1>3, <2>1, <3>1, RebindTypes
  <2>3. Matched(offered') /\ Made(offered') \cap unused' = {} /\ offered' \in Profiles \cup {<<>>}
    BY <1>1, <2>1 DEF IInv, TypeOK
  <2>4. OpenAfter(p) \subseteq Links \ unused'
    BY <1>1, AfterPreparing DEF IInv
  <2>5. CASE /\ ReconnectOk(p, OpenAfter(p)) /\ Commit(p)
             /\ open' \subseteq OpenAfter(p) \ Replaced(Final(p))
             /\ Finished(p, TRUE)
    <3>1. /\ NoStrayTransport'
          /\ Table(pending', Links \ unused') /\ Table(active', Links \ unused')
          /\ retired' \subseteq Keys
          /\ \A k \in DOMAIN Final(p) :
               /\ k \notin DOMAIN pending'
               /\ k \in DOMAIN active' /\ active'[k] = Final(p)[k]
               /\ open' \cap LinksOf(k) \subseteq {Final(p)[k]}
      BY <1>1, <1>3, <2>5, CommitInv
    <3>2. TypeOK'
      BY <1>3, <2>1, <2>2, <2>3, <2>4, <2>5, <3>1 DEF IInv, TypeOK, Matched, Made, Opens
    <3>3. DOMAIN Final(p) \subseteq DOMAIN entries
      <4>1. DOMAIN Final(p) = {KeyOf[l] : l \in Made(p)}
        BY <2>1, FinalLinks
      <4>2. \A l \in Made(p) : KeyOf[l] \in DOMAIN entries
        BY <2>5 DEF ReconnectOk
      <4> QED BY <4>1, <4>2
    <3>4. ReconnectSettled'
      BY <2>2, <2>5, <3>1, <3>3 DEF ReconnectSettled, Finished, Current, LinksOf
    <3>5. TeardownHonest'
      BY <2>5 DEF TeardownHonest, Finished
    <3> QED BY <3>1, <3>2, <3>4, <3>5 DEF IInv
  <2>6. CASE /\ pending' = Updated(pending, Final(p)) /\ open' \subseteq OpenAfter(p)
             /\ Finished(p, FALSE) /\ UNCHANGED <<active, retired>>
    <3>1. NoStrayTransport' /\ Table(pending', Links \ unused')
          /\ open' \subseteq Links \ unused'
      BY <1>1, <1>3, <2>6, PrepareInv
    <3>2. Table(active', Links \ unused')
      BY <2>1, <2>6 DEF IInv, TypeOK, Table
    <3>3. TypeOK'
      BY <1>3, <2>1, <2>2, <2>3, <2>6, <3>1, <3>2 DEF IInv, TypeOK, Matched, Made, Opens
    <3>4. TeardownHonest' /\ ReconnectSettled'
      BY <2>6 DEF TeardownHonest, ReconnectSettled, Finished
    <3> QED BY <3>1, <3>3, <3>4 DEF IInv
  <2> QED BY <1>3, <2>5, <2>6
<1> QED BY <1>2, <1>3 DEF Reconnect

LEMMA AcceptStep ==
  ASSUME IInv, NEW key \in Keys, NEW l \in Links \cup {NoLink},
         AcceptListenerTcpChannel(key, l)
  PROVE  IInv'
<1>1. CASE Reconnect(<<[key |-> key, link |-> l]>>)
  <2>1. <<[key |-> key, link |-> l]>> \in [1 .. 1 -> Profile]
    BY DEF Profile
  <2>2. <<[key |-> key, link |-> l]>> \in Profiles
    BY <2>1 DEF Profiles
  <2> QED BY <1>1, <2>2, ReconnectStep
<1>2. CASE l # NoLink /\ AdoptTcpChannel(l)
  BY <1>2, BindStep DEF AdoptTcpChannel
<1> QED BY <1>1, <1>2 DEF AcceptListenerTcpChannel

LEMMA NextInv == IInv /\ [Next]_vars => IInv'
<1> SUFFICES ASSUME IInv, [Next]_vars PROVE IInv'
  OBVIOUS
<1>1. CASE StartSession \/ StopSession
  BY <1>1, SessionStep
<1>2. CASE ReconnectSession
  BY <1>2, ReconnectSessionStep
<1>3. CASE ReleaseSession
  BY <1>3, ReleaseStep
<1>4. ASSUME NEW l \in Links, CloseLink(l) PROVE IInv'
  BY <1>4, CloseLinkStep
<1>5. ASSUME NEW l \in Links, ConnectTcpChannel(l) \/ AdoptTcpChannel(l) PROVE IInv'
  BY <1>5, BindStep DEF ConnectTcpChannel, AdoptTcpChannel
<1>6. ASSUME NEW p \in Profiles, PrepareTcpChannelReplacements(p) PROVE IInv'
  BY <1>6, PrepareStep DEF PrepareTcpChannelReplacements
<1>7. ASSUME NEW p \in Profiles, ReconnectTcpChannels(p) PROVE IInv'
  BY <1>7, ReconnectStep DEF ReconnectTcpChannels
<1>8. ASSUME NEW k \in Keys, NEW l \in Links \cup {NoLink}, AcceptListenerTcpChannel(k, l)
      PROVE  IInv'
  BY <1>8, AcceptStep
<1>9. ASSUME NEW k \in Keys, CloseOldTransport(k) PROVE IInv'
  BY <1>9, CloseOldTransportStep
<1>10. CASE UNCHANGED vars
  <2>1. TypeOK'
    BY <1>10 DEF vars, IInv, TypeOK, Table, Matched, Made, Opens
  <2>2. NoStrayTransport'
    BY <1>10, StrayUnmoved DEF vars, IInv
  <2>3. TeardownHonest' /\ ReconnectSettled'
    BY <1>10 DEF vars, IInv, TeardownHonest, ReconnectSettled, Current
  <2> QED BY <2>1, <2>2, <2>3 DEF IInv
<1> QED BY <1>1, <1>2, <1>3, <1>4, <1>5, <1>6, <1>7, <1>8, <1>9, <1>10 DEF Next

-----------------------------------------------------------------------------
(* The strengthened invariant holds in every behaviour. *)
THEOREM InvHolds == Spec => []IInv
<1> QED BY InitInv, NextInv, PTL DEF Spec

(* Types: every table holds transports that were made, under their own key. *)
THEOREM TypeCorrect == Spec => []TypeOK
<1>1. IInv => TypeOK
  BY DEF IInv
<1> QED BY <1>1, InvHolds, PTL

(* No sequence of connects, reconnects and failures leaves a third open     *)
(* transport behind for a key (NoStrayTransport).                           *)
THEOREM NothingStrays == Spec => []NoStrayTransport
<1>1. IInv => NoStrayTransport
  BY DEF IInv
<1> QED BY <1>1, InvHolds, PTL

(* The answer to a teardown request is true (closeOldTransport).            *)
THEOREM TeardownAnswers == Spec => []TeardownHonest
<1>1. IInv => TeardownHonest
  BY DEF IInv
<1> QED BY <1>1, InvHolds, PTL

(* An ok reconnect has switched every table (reconnectPrepared).            *)
THEOREM OkIsSettled == Spec => []ReconnectSettled
<1>1. IInv => ReconnectSettled
  BY DEF IInv
<1> QED BY <1>1, InvHolds, PTL

LEMMA PrepareKeepsLive ==
  ASSUME IInv, NEW p \in Profiles, Attempt(p), Prepare(p), NEW k \in DOMAIN routes,
         k \notin DOMAIN pending, routes[k] \in open
  PROVE  routes[k] \in open'
<1>1. KeyOf[routes[k]] = k /\ routes[k] \in Links \ unused
  BY DEF IInv, TypeOK, Table
<1>2. routes[k] \notin Made(p)
  BY <1>1 DEF Attempt
<1>3. \A j \in DOMAIN pending : pending[j] # routes[k]
  BY <1>1 DEF IInv, TypeOK, Table
<1> QED BY <1>2, <1>3 DEF Prepare, OpenAfter, Superseded

(* Preparing takes no key off the air that had no replacement pending       *)
(* (prepareTcpChannelReplacements).                                         *)
THEOREM LiveKept == Spec => LiveUntilRebound
<1> DEFINE Kept == outcome'.op = "prepare" /\ unused' # unused =>
                     \A k \in DOMAIN routes :
                       k \notin DOMAIN pending /\ routes[k] \in open => routes[k] \in open'
<1>1. ASSUME IInv, NEW p \in Profiles, Attempt(p), Prepare(p) PROVE Kept
  BY <1>1, PrepareKeepsLive
<1>2. ASSUME IInv, NEW p \in Profiles, Reconnect(p) PROVE Kept
  <2>1. CASE Prepare(p)
    BY <1>1, <1>2, <2>1 DEF Reconnect
  <2>2. CASE \E ok \in BOOLEAN : Finished(p, ok)
    BY <2>2 DEF Finished
  <2> QED BY <1>2, <2>1, <2>2 DEF Reconnect
<1>3. ASSUME NEW l \in Links, NEW alive \in BOOLEAN, BindTransport(l, alive) PROVE Kept
  BY <1>3 DEF BindTransport, NoOutcome
<1>4. ASSUME IInv, NEW key \in Keys, NEW l \in Links \cup {NoLink},
             AcceptListenerTcpChannel(key, l)
      PROVE  Kept
  <2>1. CASE Reconnect(<<[key |-> key, link |-> l]>>)
    <3>1. <<[key |-> key, link |-> l]>> \in [1 .. 1 -> Profile]
      BY DEF Profile
    <3>2. <<[key |-> key, link |-> l]>> \in Profiles
      BY <3>1 DEF Profiles
    <3> HIDE DEF Kept
    <3> QED BY <1>2, <1>4, <2>1, <3>2
  <2>2. CASE l # NoLink /\ AdoptTcpChannel(l)
    <3> HIDE DEF Kept
    <3> QED BY <1>3, <2>2 DEF AdoptTcpChannel
  <2> QED BY <1>4, <2>1, <2>2 DEF AcceptListenerTcpChannel
<1>5. IInv /\ [Next]_vars => Kept
  <2> SUFFICES ASSUME IInv, [Next]_vars PROVE Kept
    OBVIOUS
  <2>1. CASE \/ StartSession \/ StopSession \/ ReconnectSession \/ ReleaseSession
             \/ \E l \in Links : CloseLink(l)
             \/ \E k \in Keys : CloseOldTransport(k)
             \/ UNCHANGED vars
    <3>1. unused' = unused
      BY <2>1 DEF StartSession, StopSession, ReconnectSession, ReleaseSession, CloseLink,
                  CloseOldTransport, vars
    <3> QED BY <3>1
  <2> HIDE DEF Kept
  <2>2. ASSUME NEW l \in Links, ConnectTcpChannel(l) \/ AdoptTcpChannel(l) PROVE Kept
    BY <1>3, <2>2 DEF ConnectTcpChannel, AdoptTcpChannel
  <2>3. ASSUME NEW p \in Profiles, PrepareTcpChannelReplacements(p) PROVE Kept
    BY <1>1, <2>3 DEF PrepareTcpChannelReplacements
  <2>4. ASSUME NEW p \in Profiles, ReconnectTcpChannels(p) PROVE Kept
    BY <1>2, <2>4 DEF ReconnectTcpChannels
  <2>5. ASSUME NEW k \in Keys, NEW l \in Links \cup {NoLink}, AcceptListenerTcpChannel(k, l)
        PROVE  Kept
    BY <1>4, <2>5
  <2> QED BY <2>1, <2>2, <2>3, <2>4, <2>5 DEF Next
<1> QED BY <1>5, InvHolds, PTL DEF Spec, LiveUntilRebound
=============================================================================
