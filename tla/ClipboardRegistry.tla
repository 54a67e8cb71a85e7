-------------------------- MODULE ClipboardRegistry --------------------------
(***************************************************************************)
(* InMemoryTransferSourceRegistry and ClipboardLargeDataWindow of           *)
(* modules/clipboard, as operators on their data.                           *)
(*                                                                          *)
(* A bundle is an offer made from one peer's clipboard, [from, offer]: the  *)
(* pair stands for the identity (bundleId, offerId, ownerEpoch), of which   *)
(* only offerId is the registry's key; both peers number their offers from  *)
(* 1, so two bundles with one offer number are possible.  An entry is       *)
(* [bundle, retired, locks]; a lock is named by the request that took it    *)
(* (the code allocates a lock id for each).                                 *)
(***************************************************************************)
EXTENDS Naturals, FiniteSets

Erased(entries) == {e \in entries : ~(e.retired /\ e.locks = {})}

(* clearOffer(): a locked entry is only retired. *)
ClearOffer(entries, offer) ==
  Erased({IF e.bundle.offer = offer THEN [e EXCEPT !.retired = TRUE] ELSE e : e \in entries})

(* store(): the offer number is blocked while a retired entry holds it. *)
Blocked(entries, bundle) ==
  \E e \in ClearOffer(entries, bundle.offer) : e.bundle.offer = bundle.offer

(* Fault: the new entry is added beside the locked one. *)
Faulty_Store(entries, bundle) ==
  ClearOffer(entries, bundle.offer) \cup {[bundle |-> bundle, retired |-> FALSE, locks |-> {}]}

Store(entries, bundle) ==
  ClearOffer(entries, bundle.offer) \cup
    (IF Blocked(entries, bundle) THEN {}
     ELSE {[bundle |-> bundle, retired |-> FALSE, locks |-> {}]})

ReleaseAllLocks(entries) == Erased({[e EXCEPT !.locks = {}] : e \in entries})
ClearAll(entries) == Erased({[e EXCEPT !.retired = TRUE] : e \in entries})

EntryOf(entries, bundle) == {e \in entries : e.bundle.offer = bundle.offer}

(* lookupSource(): a retired entry still answers. *)
LookupStatus(entries, bundle) ==
  LET found == EntryOf(entries, bundle)
  IN IF found = {} THEN "NotFound"
     ELSE IF \A e \in found : e.bundle = bundle THEN "Ok" ELSE "Conflict"

(* lockObject() *)
LockStatus(entries, bundle, files) ==
  LET found == EntryOf(entries, bundle)
  IN IF found = {} THEN "NotFound"
     ELSE IF \E e \in found : e.retired \/ e.bundle # bundle THEN "Conflict"
     ELSE IF bundle \in files THEN "Ok" ELSE "NotFound"

Locked(entries, bundle, lock) ==
  {IF e.bundle = bundle THEN [e EXCEPT !.locks = @ \cup {lock}] ELSE e : e \in entries}

(* unlockObject(): allowed on a retired entry, which goes with its last lock. *)
UnlockStatus(entries, bundle, lock) ==
  LET found == EntryOf(entries, bundle)
  IN IF found = {} THEN "NotFound"
     ELSE IF \E e \in found : e.bundle # bundle THEN "Conflict"
     ELSE IF \E e \in found : lock \in e.locks THEN "Ok" ELSE "NotFound"

(* Fault: the retired entry is left behind without locks. *)
Faulty_Unlocked(entries, bundle, lock) ==
  {IF e.bundle = bundle THEN [e EXCEPT !.locks = @ \ {lock}] ELSE e : e \in entries}

Unlocked(entries, bundle, lock) ==
  Erased({IF e.bundle = bundle THEN [e EXCEPT !.locks = @ \ {lock}] ELSE e : e \in entries})

(* ClipboardLargeDataWindow::reserve() and release(); 0 means unlimited. *)
WindowFull(max, inFlight, bytes) == max # 0 /\ (inFlight >= max \/ bytes > max - inFlight)
Released(inFlight, bytes) == IF bytes > inFlight THEN 0 ELSE inFlight - bytes
=============================================================================
