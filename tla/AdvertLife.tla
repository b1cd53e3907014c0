----------------------------- MODULE AdvertLife -----------------------------
(***************************************************************************)
(* What the beacon federation (network/federation.py) promises of the      *)
(* adverts of ONE beacon, the owner: the others hold each for a while,     *)
(* pass it on while they hold it, accept it once in their life, and let it *)
(* go.  Nothing is said of who sends what to whom, of pings, or of how     *)
(* many datagrams are lost.  Federation implements this for every owner.   *)
(*                                                                         *)
(* The unit of time is one federation round; an advert is named by the     *)
(* time the owner signed it, at most one in a unit.                        *)
(***************************************************************************)
EXTENDS Integers, FiniteSets

CONSTANTS
    Beacons,
    Owner,
    BeaconTTL,      \* BEACON_TTL_S
    MaxDelay,       \* bound: a datagram arrives within this time or is lost
    MaxTime         \* bound

ASSUME AdvertLifeAssumption ==
    /\ IsFiniteSet(Beacons) /\ Owner \in Beacons
    /\ BeaconTTL \in Nat \ {0} /\ MaxDelay \in Nat /\ MaxTime \in Nat

VARIABLES
    now,
    up,       \* the running beacons
    entry,    \* what each beacon lists: NoEntry, or [ts, seen] of the owner's advert
    spent,    \* the owner's adverts each beacon has verified
    wire,     \* the owner's adverts on their way: [ts, at]
    restarted \* history, read by no action: the last restart of an observer

vars == << now, up, entry, spent, wire, restarted >>

Time == 0 .. MaxTime
Never == -1
NoEntry == [ts |-> Never, seen |-> Never]

Observers == Beacons \ {Owner}

Init ==
    /\ now = 0 /\ up = Beacons /\ wire = {}
    /\ entry = [b \in Beacons |-> NoEntry]
    /\ spent = [b \in Beacons |-> {}]
    /\ restarted = Never

\* The adverts a beacon can send now: the owner signs one, the others
\* forward what they list.
Held(b) == IF b = Owner THEN {now}
           ELSE {entry[b].ts} \ {Never}

(* An entry not refreshed for BEACON_TTL_S.                                *)
Lapsed(b) == entry[b] # NoEntry /\ now - entry[b].seen > BeaconTTL

(* One round: send, or lose, what is held, then drop what has lapsed.      *)
Round(b) ==
    /\ b \in up
    /\ wire' \in {wire, wire \cup {[ts |-> x, at |-> now] : x \in Held(b)}}
    /\ entry' = IF Lapsed(b) THEN [entry EXCEPT ![b] = NoEntry] ELSE entry
    /\ UNCHANGED << now, up, spent, restarted >>

\* Mutant of Accept: adverts verified before are accepted again.
AcceptAgain(b, adverts) ==
    /\ b \in up \cap Observers
    /\ adverts # {}
    /\ \E x \in adverts :
        /\ \A y \in adverts : y <= x
        /\ entry' = IF x >= entry[b].ts
                    THEN [entry EXCEPT ![b] = [ts |-> x, seen |-> now]] ELSE entry
    /\ spent' = [spent EXCEPT ![b] = @ \cup adverts]
    /\ wire' \in SUBSET wire
    /\ UNCHANGED << now, up, restarted >>

\* Mutant of Accept: a beacon lists itself.
AcceptOwn(b, adverts) ==
    /\ b \in up
    /\ adverts # {} /\ adverts \cap spent[b] = {}
    /\ \E x \in adverts : entry' = [entry EXCEPT ![b] = [ts |-> x, seen |-> now]]
    /\ spent' = [spent EXCEPT ![b] = @ \cup adverts]
    /\ wire' \in SUBSET wire
    /\ UNCHANGED << now, up, restarted >>

(* The adverts `adverts` arrive: the newest is listed, unless a newer one  *)
(* is, and none of them is accepted again.                                 *)
Accept(b, adverts) ==
    /\ b \in up \cap Observers
    /\ adverts # {} /\ adverts \cap spent[b] = {}
    /\ \E x \in adverts :
        /\ \A y \in adverts : y <= x
        /\ entry' = IF x >= entry[b].ts
                    THEN [entry EXCEPT ![b] = [ts |-> x, seen |-> now]] ELSE entry
    /\ spent' = [spent EXCEPT ![b] = @ \cup adverts]
    /\ wire' \in SUBSET wire
    /\ UNCHANGED << now, up, restarted >>

Lose ==
    /\ wire' \in SUBSET wire
    /\ UNCHANGED << now, up, entry, spent, restarted >>

Crash(b) ==
    /\ b \in up /\ up' = up \ {b}
    /\ UNCHANGED << now, entry, spent, wire, restarted >>

(* A restart forgets the directory and the replay guard.                   *)
Restart(b) ==
    /\ b \notin up /\ up' = up \cup {b}
    /\ entry' = [entry EXCEPT ![b] = NoEntry]
    /\ spent' = [spent EXCEPT ![b] = {}]
    /\ restarted' = IF b = Owner THEN restarted ELSE now
    /\ UNCHANGED << now, wire >>

(* The next unit of time: every running beacon had its round in this one.  *)
(* What nobody can send any more need not be remembered.                   *)
Advance ==
    /\ now < MaxTime
    /\ \A b \in up : ~ Lapsed(b)
    /\ now' = now + 1
    /\ wire' = {w \in wire : now' - w.at <= MaxDelay}
    /\ spent' = [b \in Beacons |->
                    spent[b] \cap ({w.ts : w \in wire'} \cup {entry[c].ts : c \in Beacons})]
    /\ UNCHANGED << up, entry, restarted >>

Next ==
    \/ \E b \in Beacons : Round(b) \/ Crash(b) \/ Restart(b)
    \/ \E b \in Beacons : \E adverts \in SUBSET {w.ts : w \in wire} : Accept(b, adverts)
    \/ Lose
    \/ Advance

Spec == Init /\ [][Next]_vars
-----------------------------------------------------------------------------
(* The state.  A beacon never lists itself.                                *)
TypeOK ==
    /\ now \in Time /\ up \subseteq Beacons
    /\ entry \in [Beacons -> {NoEntry} \cup [ts : Time, seen : Time]]
    /\ entry[Owner] = NoEntry
    /\ spent \in [Beacons -> SUBSET Time]
    /\ wire \subseteq [ts : Time, at : Time]
    /\ restarted \in Time \cup {Never}

\* Every observer still has the replay guard it had when x was signed.
Remembered(x) == restarted < x

Lifetime == BeaconTTL + 1 + MaxDelay

(* The others cannot keep each other's copy of an advert alive: it is      *)
(* listed for at most one lifetime per observer since it was signed.  So a *)
(* dead beacon is forgotten, however the copies are passed around, if no   *)
(* observer restarts: the newest entry wins, but an equal one would        *)
(* refresh it, and only the replay guard is in the way.                    *)
AdvertsDieOut ==
    \A b \in up \cap Observers :
        entry[b] # NoEntry /\ Remembered(entry[b].ts) =>
            now - entry[b].ts <= Cardinality(Observers) * Lifetime
=============================================================================
