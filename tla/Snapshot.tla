------------------------------ MODULE Snapshot ------------------------------
(***************************************************************************)
(* MatchManager::Snapshot and MatchManager::Restore (Snapshot.cpp) over    *)
(* the state of Match: what a snapshot lists, everything Restore asks of   *)
(* it before it hands out a match, and the match it hands out.  A snapshot *)
(* is the record Restore reads; how it is laid out in bytes, its checksum  *)
(* and the hashes of the data files it was taken under are left out.  The  *)
(* state hash is the state itself: equal hashes, equal states.             *)
(***************************************************************************)
EXTENDS Match

MaxUnlocked == 3      \* what Restore reads at most of each list
MaxOffers   == 4

-----------------------------------------------------------------------------
(* Writing.                                                                *)

\* The roster section lists the units, each with the place it stands on.
WrittenUnits(r) == {[at |-> x, unit |-> r[x]] : x \in {y \in Places : r[y] # Empty}}

WrittenPlayer(p) ==
  [level      |-> level[p],
   eliminated |-> p \notin alive,
   units      |-> WrittenUnits(roster[p]),
   shopSlots  |-> [k \in Slots |-> shop[<<p, k>>]],
   shopLocked |-> p \in locked,
   settled    |-> p \in settled,
   offers     |-> [i \in {j \in Options : offers[<<p, j>>] # NoChampion} |-> offers[<<p, i>>]],
   unitGranted |-> p \in heralded,
   unlocked   |-> unlocked[p]]

TheSnapshot ==
  [stateHash |-> vars, phase |-> phase, round |-> round, remaining |-> pool,
   players |-> [p \in Players |-> WrittenPlayer(p)]]

-----------------------------------------------------------------------------
(* Reading.                                                                *)

PhaseAccepted(s) ==
  /\ s.phase = "NotStarted" => s.round = 0
  /\ s.phase # "NotStarted" => s.round >= 1

\* SharedChampionPool::RestoreRemaining
RemainingAccepted(s) == \A c \in Pooled : s.remaining[c] \in 0 .. InitialCopies[c]

\* Mother Nature's offers are only there in her phase, and not once settled.
GiftsAccepted(s, d) ==
  /\ Cardinality(DOMAIN d.offers) <= MaxOffers
  /\ \A i \in DOMAIN d.offers : d.offers[i] \in Champions \cup {OtherGift}
  /\ d.settled \/ d.offers # <<>> => s.phase = "MotherNature"
  /\ d.settled => d.offers = <<>>

UnitOn(units, x) == IF \E u \in units : u.at = x THEN (CHOOSE u \in units : u.at = x).unit ELSE Empty

RebuiltRoster(units) == [x \in Places |-> UnitOn(units, x)]

\* UnitRoster::Restore: every unit in range, on a cell of its own, in a valid layout.
RosterAccepted(units) ==
  /\ \A u \in units : u.at \in Cells /\ u.unit \in Units
  /\ \A u, v \in units : u.at = v.at => u = v
  /\ CheckInvariants(RebuiltRoster(units))

\* PlayerState::RestoreState
PlayerAccepted(d) ==
  /\ d.level \in Levels
  /\ d.eliminated => d.units = {} /\ \A k \in Slots : d.shopSlots[k] = NoChampion
  /\ Cardinality(d.unlocked) <= MaxUnlocked
  /\ RosterAccepted(d.units)
  /\ BoardCount(RebuiltRoster(d.units)) <= d.level

OfferOf(d, i) == IF i \in DOMAIN d.offers THEN d.offers[i] ELSE NoChampion

\* The match that Restore builds from what it read.
Rebuilt(s) ==
  [phase |-> s.phase, round |-> s.round, pool |-> s.remaining,
   shop     |-> [t \in Players \X Slots |-> s.players[t[1]].shopSlots[t[2]]],
   locked   |-> {p \in Players : s.players[p].shopLocked},
   roster   |-> [p \in Players |-> RebuiltRoster(s.players[p].units)],
   level    |-> [p \in Players |-> s.players[p].level],
   unlocked |-> [p \in Players |-> s.players[p].unlocked],
   offers   |-> [t \in Players \X Options |-> OfferOf(s.players[t[1]], t[2])],
   settled  |-> {p \in Players : s.players[p].settled},
   heralded |-> {p \in Players : s.players[p].unitGranted},
   alive    |-> {p \in Players : ~ s.players[p].eliminated}]

In(m) == INSTANCE Match WITH
  phase <- m.phase, round <- m.round, pool <- m.pool, shop <- m.shop, locked <- m.locked,
  roster <- m.roster, level <- m.level, unlocked <- m.unlocked, offers <- m.offers,
  settled <- m.settled, heralded <- m.heralded, alive <- m.alive

\* The proof at the end of Restore: a consistent match with the recorded hash.
Proved(s) ==
  LET m == Rebuilt(s)
  IN In(m)!RosterLayouts /\ In(m)!PoolIntegrity /\ In(m)!vars = s.stateHash

Accepted(s) ==
  /\ PhaseAccepted(s)
  /\ RemainingAccepted(s)
  /\ \A p \in Players : GiftsAccepted(s, s.players[p]) /\ PlayerAccepted(s.players[p])
  /\ Proved(s)

-----------------------------------------------------------------------------
(* Properties.                                                             *)

\* No board has more slots in use than its level allows (a purchase of the Queen may
\* take it past that, see UnitRoster::PlaceInFirstFree).
WithinCapacity == \A p \in Players : BoardCount(roster[p]) <= level[p]

\* Whenever a snapshot is taken while no board is past its capacity, in any phase and
\* after any calls, Restore accepts it and rebuilds the match it was taken of: a server
\* that comes up again finds its restart point good.
SnapshotsRestore == WithinCapacity => Accepted(TheSnapshot)

\* "Restoring is PERFECT" (Snapshot.h:9): the same without the condition.
EverySnapshotRestores == Accepted(TheSnapshot)
=============================================================================
