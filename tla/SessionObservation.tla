------------------------- MODULE SessionObservation -------------------------
(***************************************************************************)
(* The proxy's observation of granted request headers                      *)
(* (session_observation.py): a hook on the request path that never waits,  *)
(* a bounded queue of keys with the newest observation of each, and one    *)
(* worker that checks the grants again under the profile lock before it    *)
(* publishes the headers, one file each.                                   *)
(*                                                                         *)
(* Every pack has one origin, so a key is a pack.  An observation is the   *)
(* number of its request.                                                  *)
(***************************************************************************)
EXTENDS Naturals, Sequences, FiniteSets, SequencesExt

CONSTANTS None, Packs, HeaderOrder,
          GrantRecords,               \* the records that a pack may have
          Capacity,                   \* of the queue of keys
          MaxSeen, MaxRegrants, MaxDrops

(* registry: the pack store's records.  inbox: latest and pending.         *)
(* worker: the drain thread.  disk: the published files.  used: the routes *)
(* that the hook knows, the requests so far and the bounds.                *)
VARIABLES registry, inbox, worker, disk, used

vars == <<registry, inbox, worker, disk, used>>

Idle == [pc |-> "idle", key |-> None, item |-> 0, version |-> None, left |-> <<>>]

Observes(record) == record.enabled /\ record.granted

-----------------------------------------------------------------------------
(* The hook.                                                               *)

(* Mutant: an observation that finds the queue full stays behind.          *)
AcceptedAnyhow(p, n) ==
    [latest  |-> [inbox.latest EXCEPT ![p] = n],
     pending |-> IF inbox.latest[p] = None /\ Len(inbox.pending) < Capacity
                 THEN Append(inbox.pending, p) ELSE inbox.pending]

(* A key that is waiting takes the newer observation; a full queue drops   *)
(* it.                                                                     *)
Accepted(p, n) ==
    CASE inbox.latest[p] # None -> [inbox EXCEPT !.latest[p] = n]
      [] inbox.latest[p] = None /\ Len(inbox.pending) < Capacity ->
           [latest |-> [inbox.latest EXCEPT ![p] = n], pending |-> Append(inbox.pending, p)]
      [] OTHER -> inbox

Request(p) ==
    /\ p \in used.routes /\ used.seen < MaxSeen
    /\ used' = [used EXCEPT !.seen = @ + 1]
    /\ inbox' = Accepted(p, used.seen + 1)
    /\ UNCHANGED <<registry, worker, disk>>

-----------------------------------------------------------------------------
(* The worker.                                                             *)

(* Each second it looks which requests are to be observed; one pack that   *)
(* is not whole hides all of them.                                         *)
Routes ==
    LET observed == {p \in Packs : Observes(registry[p])}
    IN  IF \A p \in observed : registry[p].intact THEN observed ELSE {}

LookAtRoutes ==
    /\ worker.pc = "idle" /\ used.routes # Routes
    /\ used' = [used EXCEPT !.routes = Routes]
    /\ UNCHANGED <<registry, inbox, worker, disk>>

TakeKey ==
    /\ worker.pc = "idle" /\ inbox.pending # <<>>
    /\ worker' = [Idle EXCEPT !.pc = "key", !.key = Head(inbox.pending)]
    /\ inbox' = [inbox EXCEPT !.pending = Tail(@)]
    /\ UNCHANGED <<registry, disk, used>>

TakeObservation ==
    /\ worker.pc = "key"
    /\ LET item == inbox.latest[worker.key]
       IN  worker' = IF item = None THEN Idle
                     ELSE [worker EXCEPT !.pc = "observation", !.item = item]
    /\ inbox' = [inbox EXCEPT !.latest[worker.key] = None]
    /\ UNCHANGED <<registry, disk, used>>

(* consume, without the lock: the selected version and its files.          *)
Verify ==
    /\ worker.pc = "observation"
    /\ LET record == registry[worker.key]
       IN  worker' = IF Observes(record) /\ record.intact
                     THEN [worker EXCEPT !.pc = "verified", !.version = record.version]
                     ELSE Idle
    /\ UNCHANGED <<registry, inbox, disk, used>>

(* Mutant: what was verified is still so.                                  *)
StillStandsAnyhow == TRUE

StillStands ==
    LET record == registry[worker.key]
    IN  Observes(record) /\ record.version = worker.version

Lock ==
    /\ worker.pc = "verified"
    /\ worker' = IF StillStands THEN [worker EXCEPT !.pc = "locked", !.left = HeaderOrder] ELSE Idle
    /\ UNCHANGED <<registry, inbox, disk, used>>

Publish ==
    /\ worker.pc = "locked"
    /\ disk' = [disk EXCEPT ![worker.key][Head(worker.left)] = worker.item]
    /\ worker' = IF Len(worker.left) = 1 THEN Idle ELSE [worker EXCEPT !.left = Tail(@)]
    /\ UNCHANGED <<registry, inbox, used>>

(* The profile is busy, or a file cannot be written: the observation, or   *)
(* the rest of it, is dropped.                                             *)
Drop ==
    /\ worker.pc \in {"verified", "locked"} /\ used.drops < MaxDrops
    /\ worker' = Idle /\ used' = [used EXCEPT !.drops = @ + 1]
    /\ UNCHANGED <<registry, inbox, disk>>

-----------------------------------------------------------------------------
(* A pack command gives the pack another record, under the lock.           *)
Regrant(p) ==
    /\ worker.pc # "locked" /\ used.regrants < MaxRegrants
    /\ \E record \in GrantRecords \ {registry[p]} : registry' = [registry EXCEPT ![p] = record]
    /\ used' = [used EXCEPT !.regrants = @ + 1]
    /\ UNCHANGED <<inbox, worker, disk>>

NoLatest == [p \in Packs |-> None]

(* The proxy restarts; all that is not published is gone.                  *)
Restart ==
    /\ used.drops < MaxDrops
    /\ worker' = Idle /\ inbox' = [latest |-> NoLatest, pending |-> <<>>]
    /\ used' = [used EXCEPT !.routes = {}, !.drops = @ + 1]
    /\ UNCHANGED <<registry, disk>>

-----------------------------------------------------------------------------
Init ==
    /\ registry \in [Packs -> GrantRecords]
    /\ inbox = [latest |-> NoLatest, pending |-> <<>>]
    /\ worker = Idle
    /\ disk = [p \in Packs |-> [h \in ToSet(HeaderOrder) |-> 0]]
    /\ used = [routes |-> {}, seen |-> 0, regrants |-> 0, drops |-> 0]

Next ==
    \/ LookAtRoutes \/ TakeKey \/ TakeObservation \/ Verify \/ Lock \/ Publish \/ Drop
    \/ Restart
    \/ \E p \in Packs : Request(p) \/ Regrant(p)

Spec == Init /\ [][Next]_vars

-----------------------------------------------------------------------------
(* An observation that is kept for a pack is one that the worker will come *)
(* to: its key is in the queue, once, or in the worker's hand.  Otherwise  *)
(* later requests only replace it and nothing is published for that pack   *)
(* until the proxy restarts (requestheaders, drain).                       *)
KeptIsQueued ==
    \A p \in Packs : inbox.latest[p] # None =>
      \/ worker.pc = "key" /\ worker.key = p
      \/ Cardinality({k \in DOMAIN inbox.pending : inbox.pending[k] = p}) = 1

(* A credential is published only while the grant to observe it stands,    *)
(* for the version that was verified, and never after one that was         *)
(* observed later ("The selected version and grants are rechecked under    *)
(* the lock before any credential is published").                          *)
PublishedUnderGrant ==
    \A p \in Packs : disk'[p] # disk[p] =>
      /\ Observes(registry[p]) /\ registry[p].version = worker.version
      /\ \A h \in ToSet(HeaderOrder) : disk'[p][h] >= disk[p][h]
=============================================================================
