-------------------------- MODULE FreshnessProofs --------------------------
(***************************************************************************)
(* What the two freshness rules of the network promise, for every size.    *)
(*                                                                         *)
(* Adverts die out (AdvertLife), for any number of beacons.  The argument  *)
(* counts the observers that have verified an advert: each that still      *)
(* forwards it accepted it within one lifetime of the one before, and none *)
(* accepts it twice.                                                       *)
(*                                                                         *)
(* The replay guard (ReplayGuard) verifies no envelope twice, for any      *)
(* capacity, clock tolerance and number of envelopes.  The guard holds the *)
(* nonces of the last envelopes verified; one it has forgotten lies more   *)
(* than its capacity back, and has expired.                                *)
(***************************************************************************)
EXTENDS AdvertLife, Sequences, FiniteSetTheorems, TLAPS

Verifiers(x) == {b \in Observers : x \in spent[b]}
Spread(x) == Cardinality(Verifiers(x))

\* A copy on its way was sent within Spread lifetimes of its signing.
OnTheWay ==
    \A w \in wire :
        /\ w.ts <= w.at /\ w.at <= now /\ now <= w.at + MaxDelay
        /\ Remembered(w.ts) => w.at <= w.ts + Spread(w.ts) * Lifetime

\* A copy listed was accepted within one lifetime less.
Listed ==
    \A b \in Observers : entry[b] # NoEntry =>
        /\ entry[b].ts <= entry[b].seen /\ entry[b].seen <= now
        /\ entry[b].ts \in spent[b]
        /\ b \in up => now <= entry[b].seen + BeaconTTL + 1
        /\ Remembered(entry[b].ts) =>
              entry[b].seen + BeaconTTL + 1 <= entry[b].ts + Spread(entry[b].ts) * Lifetime

IInv == TypeOK /\ restarted <= now /\ OnTheWay /\ Listed
-----------------------------------------------------------------------------
(* Arithmetic of lifetimes.                                                *)
LEMMA Lifetimes ==
    /\ Lifetime \in Nat
    /\ \A n \in Nat : n * Lifetime \in Nat /\ (n + 1) * Lifetime = n * Lifetime + Lifetime
    /\ \A m, n \in Nat : m <= n => m * Lifetime <= n * Lifetime
<1>1. Lifetime \in Nat
  BY AdvertLifeAssumption DEF Lifetime
<1>2. ASSUME NEW L \in Nat
      PROVE  /\ \A n \in Nat : n * L \in Nat /\ (n + 1) * L = n * L + L
             /\ \A m, n \in Nat : m <= n => m * L <= n * L
  OBVIOUS
<1> QED BY <1>1, <1>2

(* Only observers count, and there are finitely many.                      *)
LEMMA SpreadBounded ==
    ASSUME NEW x PROVE Spread(x) \in Nat /\ Spread(x) <= Cardinality(Observers)
<1>1. IsFiniteSet(Observers)
  BY AdvertLifeAssumption, FS_Subset DEF Observers
<1> QED BY <1>1, FS_Subset, FS_CardinalityType DEF Spread, Verifiers

(* What a listed advert's age is, by the invariant.                        *)
LEMMA DieOut == IInv => AdvertsDieOut
<1> SUFFICES ASSUME IInv, NEW b \in up \cap Observers, entry[b] # NoEntry, Remembered(entry[b].ts)
             PROVE  now - entry[b].ts <= Cardinality(Observers) * Lifetime
  BY DEF AdvertsDieOut
<1> DEFINE x == entry[b].ts
<1>1. x \in Nat /\ now \in Nat /\ entry[b].seen \in Nat
  BY DEF IInv, TypeOK, Time, Observers
<1>2. now <= x + Spread(x) * Lifetime
  <2>1. now <= entry[b].seen + BeaconTTL + 1
        /\ entry[b].seen + BeaconTTL + 1 <= x + Spread(x) * Lifetime
    BY DEF IInv, Listed
  <2>2. Spread(x) * Lifetime \in Nat
    BY SpreadBounded, Lifetimes
  <2> HIDE DEF x
  <2> QED BY <2>1, <2>2, <1>1, AdvertLifeAssumption
<1>3. Cardinality(Observers) \in Nat
  BY AdvertLifeAssumption, FS_Subset, FS_CardinalityType DEF Observers
<1>4. Spread(x) * Lifetime <= Cardinality(Observers) * Lifetime
      /\ Spread(x) * Lifetime \in Nat /\ Cardinality(Observers) * Lifetime \in Nat
  BY <1>3, SpreadBounded, Lifetimes
<1> HIDE DEF x
<1>5. now - x <= Cardinality(Observers) * Lifetime
  BY <1>1, <1>2, <1>4
<1> QED BY <1>5 DEF x
-----------------------------------------------------------------------------
(* The type invariant is inductive by itself, action by action.            *)
LEMMA TypeInvariant == TypeOK /\ [Next]_vars => TypeOK'
<1> SUFFICES ASSUME TypeOK, [Next]_vars PROVE TypeOK'
  OBVIOUS
<1> USE AdvertLifeAssumption DEF TypeOK
<1>1. now \in Time
  OBVIOUS
<1>2. ASSUME NEW b \in Beacons, Round(b) PROVE TypeOK'
  <2>1. {[ts |-> x, at |-> now] : x \in Held(b)} \subseteq [ts : Time, at : Time]
    BY DEF Held, NoEntry, Never, Time
  <2>2. wire' \subseteq [ts : Time, at : Time]
    BY <1>2, <2>1 DEF Round
  <2>3. entry' \in [Beacons -> {NoEntry} \cup [ts : Time, seen : Time]] /\ entry'[Owner] = NoEntry
    BY <1>2 DEF Round
  <2> QED BY <1>2, <2>2, <2>3 DEF Round
<1>3. ASSUME NEW b \in Beacons, NEW adverts \in SUBSET {w.ts : w \in wire}, Accept(b, adverts)
      PROVE  TypeOK'
  <2>1. adverts \subseteq Time
    OBVIOUS
  <2>2. PICK x \in adverts : entry' = IF x >= entry[b].ts
                    THEN [entry EXCEPT ![b] = [ts |-> x, seen |-> now]] ELSE entry
    BY <1>3 DEF Accept
  <2>3. entry' \in [Beacons -> {NoEntry} \cup [ts : Time, seen : Time]] /\ entry'[Owner] = NoEntry
    BY <1>3, <2>1, <2>2 DEF Accept, Observers
  <2>4. spent' \in [Beacons -> SUBSET Time]
    BY <1>3, <2>1 DEF Accept
  <2> QED BY <1>3, <2>3, <2>4 DEF Accept
<1>4. CASE Lose
  BY <1>4 DEF Lose
<1>5. ASSUME NEW b \in Beacons, Crash(b) PROVE TypeOK'
  BY <1>5 DEF Crash
<1>6. ASSUME NEW b \in Beacons, Restart(b) PROVE TypeOK'
  BY <1>6 DEF Restart
<1>7. CASE Advance
  <2>1. now' \in Time
    BY <1>7 DEF Advance, Time
  <2>2. spent' \in [Beacons -> SUBSET Time]
    BY <1>7 DEF Advance
  <2> QED BY <1>7, <2>1, <2>2 DEF Advance
<1>8. CASE UNCHANGED vars
  BY <1>8 DEF vars
<1> QED BY <1>2, <1>3, <1>4, <1>5, <1>6, <1>7, <1>8 DEF Next

(* The shape of the state, for every set of beacons and every bound.       *)
THEOREM AdvertTypes == Spec => []TypeOK
<1>1. Init => TypeOK
  BY AdvertLifeAssumption DEF Init, TypeOK, Time
<1>2. TypeOK /\ [Next]_vars => TypeOK'
  BY TypeInvariant
<1> QED BY <1>1, <1>2, PTL DEF Spec
-----------------------------------------------------------------------------
(* The steps of the count.  It grows by one with an observer that had not  *)
(* verified the advert before, and never shrinks while the replay guards   *)
(* are kept.                                                               *)
LEMMA SpreadGrows ==
    ASSUME TypeOK, NEW b \in Observers, NEW adverts, adverts \cap spent[b] = {},
           spent' = [spent EXCEPT ![b] = @ \cup adverts], NEW x
    PROVE  Spread(x)' = IF x \in adverts THEN Spread(x) + 1 ELSE Spread(x)
<1>1. IsFiniteSet(Verifiers(x))
  BY AdvertLifeAssumption, FS_Subset DEF Verifiers, Observers
<1>2. CASE x \in adverts
  <2>1. Verifiers(x)' = Verifiers(x) \cup {b} /\ b \notin Verifiers(x)
    BY <1>2 DEF Verifiers, TypeOK, Observers
  <2> QED BY <1>1, <1>2, <2>1, FS_AddElement DEF Spread
<1>3. CASE x \notin adverts
  <2>1. Verifiers(x)' = Verifiers(x)
    BY <1>3 DEF Verifiers, TypeOK, Observers
  <2> QED BY <1>3, <2>1 DEF Spread
<1> QED BY <1>2, <1>3

(* While no observer's replay guard changes for an advert, neither does    *)
(* its count.                                                              *)
LEMMA SpreadSame ==
    ASSUME NEW x, \A b \in Observers : x \in spent[b] <=> x \in spent'[b]
    PROVE  Spread(x)' = Spread(x)
<1>1. Verifiers(x)' = Verifiers(x)
  BY DEF Verifiers
<1> QED BY <1>1 DEF Spread
-----------------------------------------------------------------------------
(* The invariant, action by action.  Dropping copies never hurts.          *)
LEMMA Dropping ==
    ASSUME IInv, wire' \subseteq wire, TypeOK',
           UNCHANGED << now, restarted >>,
           \A x \in Time : Spread(x)' \in Nat /\ Spread(x) <= Spread(x)'
    PROVE  OnTheWay'
<1> SUFFICES ASSUME NEW w \in wire'
             PROVE  /\ w.ts <= w.at /\ w.at <= now /\ now <= w.at + MaxDelay
                    /\ Remembered(w.ts) => w.at <= w.ts + Spread(w.ts)' * Lifetime
  BY DEF OnTheWay, Remembered, Lifetime
<1>1. w \in wire /\ w.ts \in Time /\ w.at \in Nat /\ w.ts \in Nat
  BY DEF IInv, TypeOK, Time
<1>2. Spread(w.ts) * Lifetime <= Spread(w.ts)' * Lifetime
      /\ Spread(w.ts) * Lifetime \in Nat /\ Spread(w.ts)' * Lifetime \in Nat
  BY <1>1, SpreadBounded, Lifetimes
<1>3. /\ w.ts <= w.at /\ w.at <= now /\ now <= w.at + MaxDelay
      /\ Remembered(w.ts) => w.at <= w.ts + Spread(w.ts) * Lifetime
  BY <1>1 DEF IInv, OnTheWay
<1> QED BY <1>1, <1>2, <1>3

LEMMA RoundInv == ASSUME IInv, TypeOK', NEW b \in Beacons, Round(b) PROVE IInv'
<1> USE DEF IInv
<1>1. \A x : Spread(x)' = Spread(x)
  BY SpreadSame DEF Round
<1>2. OnTheWay'
  <2> SUFFICES ASSUME NEW w \in wire'
               PROVE  /\ w.ts <= w.at /\ w.at <= now /\ now <= w.at + MaxDelay
                      /\ Remembered(w.ts) => w.at <= w.ts + Spread(w.ts) * Lifetime
    BY <1>1 DEF OnTheWay, Remembered, Lifetime, Round
  <2>1. CASE w \in wire
    BY <2>1 DEF OnTheWay
  <2>2. CASE w \notin wire
    <3>1. PICK x \in Held(b) : w = [ts |-> x, at |-> now]
      BY <2>2 DEF Round
    <3>2. now \in Nat /\ now <= now + MaxDelay
      BY AdvertLifeAssumption DEF TypeOK, Time
    <3>3. CASE b = Owner
      <4>1. x = now
        BY <3>1, <3>3 DEF Held
      <4>2. Spread(x) * Lifetime \in Nat
        BY SpreadBounded, Lifetimes
      <4> QED BY <3>1, <3>2, <4>1, <4>2
    <3>4. CASE b # Owner
      <4>1. b \in up \cap Observers /\ entry[b] # NoEntry /\ x = entry[b].ts
        BY <3>1, <3>4 DEF Held, Round, Observers, NoEntry
      <4>2. entry[b].seen \in Nat /\ x \in Nat
        BY <4>1 DEF TypeOK, Time, Observers
      <4>3. /\ x <= entry[b].seen /\ entry[b].seen <= now
            /\ now <= entry[b].seen + BeaconTTL + 1
            /\ Remembered(x) => entry[b].seen + BeaconTTL + 1 <= x + Spread(x) * Lifetime
        BY <4>1 DEF Listed
      <4>4. Spread(x) * Lifetime \in Nat
        BY SpreadBounded, Lifetimes
      <4> QED BY <3>1, <3>2, <4>2, <4>3, <4>4, AdvertLifeAssumption
    <3> QED BY <3>3, <3>4
  <2> QED BY <2>1, <2>2
<1>3. Listed'
  <2>1. \A c \in Observers : entry'[c] # NoEntry => entry'[c] = entry[c]
    BY DEF Round, TypeOK, Observers
  <2> QED BY <1>1, <2>1 DEF Listed, Round, Remembered, Lifetime, NoEntry, Never
<1> QED BY <1>2, <1>3 DEF Round

LEMMA AcceptInv ==
    ASSUME IInv, TypeOK', NEW b \in Beacons, NEW adverts \in SUBSET {w.ts : w \in wire},
           Accept(b, adverts)
    PROVE  IInv'
<1> USE DEF IInv
<1>1. b \in Observers /\ adverts \cap spent[b] = {} /\ spent' = [spent EXCEPT ![b] = @ \cup adverts]
      /\ UNCHANGED << now, up, restarted >> /\ wire' \subseteq wire
  BY DEF Accept
<1>2. \A x : Spread(x)' = IF x \in adverts THEN Spread(x) + 1 ELSE Spread(x)
  BY <1>1, SpreadGrows
<1>3. \A x : Spread(x) \in Nat /\ Spread(x)' \in Nat /\ Spread(x) <= Spread(x)'
  BY <1>2, SpreadBounded
<1>4. \A x : /\ Spread(x) * Lifetime \in Nat /\ Spread(x)' * Lifetime \in Nat
             /\ Spread(x) * Lifetime <= Spread(x)' * Lifetime
             /\ x \in adverts => Spread(x)' * Lifetime = Spread(x) * Lifetime + Lifetime
  BY <1>2, <1>3, Lifetimes
<1>5. OnTheWay'
  BY <1>1, <1>3, Dropping
<1>6. Listed'
  <2> SUFFICES ASSUME NEW c \in Observers, NEW x \in Time, NEW t \in Time,
                      entry'[c] = [ts |-> x, seen |-> t]
               PROVE  /\ x <= t /\ t <= now /\ x \in spent'[c]
                      /\ c \in up => now <= t + BeaconTTL + 1
                      /\ Remembered(x) => t + BeaconTTL + 1 <= x + Spread(x)' * Lifetime
    <3>1. \A c \in Observers : entry'[c] # NoEntry =>
              \E x, t \in Time : entry'[c] = [ts |-> x, seen |-> t]
      BY DEF TypeOK, Observers, NoEntry, Never
    <3>2. SUFFICES ASSUME NEW c \in Observers, entry'[c] # NoEntry
                   PROVE  /\ entry'[c].ts <= entry'[c].seen /\ entry'[c].seen <= now
                          /\ entry'[c].ts \in spent'[c]
                          /\ c \in up => now <= entry'[c].seen + BeaconTTL + 1
                          /\ restarted < entry'[c].ts =>
                                entry'[c].seen + BeaconTTL + 1 <=
                                    entry'[c].ts + Spread(entry[c].ts)' * Lifetime
      BY <1>1 DEF Listed, Remembered, Lifetime, NoEntry, Never
    <3>3. PICK x \in Time, t \in Time : entry'[c] = [ts |-> x, seen |-> t]
      BY <3>1, <3>2
    <3>4. Spread(entry[c].ts)' = Spread(x)'
      BY <3>3 DEF Spread, Verifiers
    <3> QED BY <3>3, <3>4 DEF Remembered
  <2>0. x \in Nat /\ t \in Nat /\ now \in Nat
    BY DEF TypeOK, Time
  <2>1. PICK y \in adverts : entry' = IF y >= entry[b].ts
                    THEN [entry EXCEPT ![b] = [ts |-> y, seen |-> now]] ELSE entry
    BY DEF Accept
  <2>2. CASE entry'[c] = entry[c]
    <3>1. entry[c] # NoEntry /\ entry[c].ts = x /\ entry[c].seen = t
      BY <2>0, <2>2 DEF NoEntry, Never
    <3>2. /\ x <= t /\ t <= now /\ x \in spent[c]
          /\ c \in up => now <= t + BeaconTTL + 1
          /\ Remembered(x) => t + BeaconTTL + 1 <= x + Spread(x) * Lifetime
      BY <3>1 DEF Listed
    <3>3. x \in spent'[c]
      BY <1>1, <3>2 DEF TypeOK, Observers
    <3> QED BY <1>4, <2>0, <3>2, <3>3, AdvertLifeAssumption
  <2>3. CASE entry'[c] # entry[c]
    <3>1. c = b /\ x = y /\ t = now
      BY <2>1, <2>3 DEF TypeOK, Observers
    <3>2. PICK w \in wire : w.ts = x
      BY <3>1
    <3>3. w.at \in Nat
      BY <3>2 DEF TypeOK, Time
    <3>4. /\ x <= w.at /\ w.at <= now /\ now <= w.at + MaxDelay
          /\ Remembered(x) => w.at <= x + Spread(x) * Lifetime
      BY <3>2 DEF OnTheWay
    <3>5. Remembered(x) => now + BeaconTTL + 1 <= x + Spread(x)' * Lifetime
      BY <1>4, <2>0, <3>1, <3>3, <3>4, AdvertLifeAssumption DEF Lifetime
    <3>6. x \in spent'[b]
      BY <1>1, <3>1 DEF TypeOK
    <3> QED BY <2>0, <3>1, <3>3, <3>4, <3>5, <3>6, AdvertLifeAssumption
  <2> QED BY <2>2, <2>3
<1> QED BY <1>1, <1>5, <1>6

LEMMA RestartInv == ASSUME IInv, TypeOK', NEW b \in Beacons, Restart(b) PROVE IInv'
<1> USE DEF IInv
<1>1. CASE b = Owner
  <2>1. \A c \in Observers : entry'[c] = entry[c] /\ spent'[c] = spent[c] /\ (c \in up' <=> c \in up)
    BY <1>1 DEF Restart, Observers, TypeOK
  <2>2. \A x : Spread(x)' = Spread(x)
    BY <2>1, SpreadSame
  <2>3. UNCHANGED << now, wire, restarted >>
    BY <1>1 DEF Restart
  <2> QED BY <2>1, <2>2, <2>3 DEF OnTheWay, Listed, Remembered, Lifetime, NoEntry, Never
<1>2. CASE b # Owner
  <2>1. restarted' = now /\ now' = now /\ wire' = wire
    BY <1>2 DEF Restart
  <2>2. \A c \in Observers : entry'[c] # NoEntry =>
            entry'[c] = entry[c] /\ spent'[c] = spent[c] /\ (c \in up' => c \in up)
    BY DEF Restart, Observers, TypeOK
  <2>3. OnTheWay'
    <3>1. \A w \in wire : w.ts <= w.at /\ w.at <= now /\ now <= w.at + MaxDelay /\ ~ Remembered(w.ts)'
      <4> TAKE w \in wire
      <4>1. w.ts \in Nat /\ w.at \in Nat /\ now \in Nat
        BY DEF TypeOK, Time
      <4> QED BY <2>1, <4>1 DEF OnTheWay, Remembered
    <3> QED BY <2>1, <3>1 DEF OnTheWay, Remembered
  <2>4. Listed'
    <3> SUFFICES ASSUME NEW c \in Observers, entry'[c] # NoEntry
                 PROVE  /\ entry'[c].ts <= entry'[c].seen /\ entry'[c].seen <= now
                        /\ entry'[c].ts \in spent'[c]
                        /\ c \in up' => now <= entry'[c].seen + BeaconTTL + 1
                        /\ ~ (now < entry'[c].ts)
      BY <2>1 DEF Listed, Remembered, NoEntry, Never
    <3>1. entry[c].ts \in Nat /\ entry[c].seen \in Nat /\ now \in Nat
      BY <2>2 DEF TypeOK, Time, Observers
    <3>2. entry[c] # NoEntry
      BY <2>2 DEF NoEntry
    <3>3. /\ entry[c].ts <= entry[c].seen /\ entry[c].seen <= now /\ entry[c].ts \in spent[c]
          /\ c \in up => now <= entry[c].seen + BeaconTTL + 1
      BY <3>2 DEF Listed
    <3> QED BY <2>2, <3>1, <3>3
  <2>5. now \in Nat
    BY DEF TypeOK, Time
  <2> QED BY <2>1, <2>3, <2>4, <2>5
<1> QED BY <1>1, <1>2

LEMMA AdvanceInv == ASSUME IInv, TypeOK', Advance PROVE IInv'
<1> USE DEF IInv
<1>1. now' = now + 1 /\ now \in Nat /\ wire' \subseteq wire /\ UNCHANGED << up, entry, restarted >>
  BY DEF Advance, TypeOK, Time
<1>2. \A w \in wire' : Spread(w.ts)' = Spread(w.ts)
  <2> TAKE w \in wire'
  <2>1. \A b \in Observers : w.ts \in spent[b] <=> w.ts \in spent'[b]
    BY DEF Advance, Observers
  <2> QED BY <2>1, SpreadSame
<1>3. \A c \in Observers : Spread(entry[c].ts)' = Spread(entry[c].ts)
                           /\ (entry[c].ts \in spent[c] => entry[c].ts \in spent'[c])
  <2> TAKE c \in Observers
  <2>1. \A b \in Observers : entry[c].ts \in spent[b] <=> entry[c].ts \in spent'[b]
    BY DEF Advance, Observers
  <2> QED BY <1>1, <2>1, SpreadSame
<1>4. OnTheWay'
  <2> SUFFICES ASSUME NEW w \in wire'
               PROVE  /\ w.ts <= w.at /\ w.at <= now' /\ now' <= w.at + MaxDelay
                      /\ Remembered(w.ts) => w.at <= w.ts + Spread(w.ts) * Lifetime
    BY <1>1, <1>2 DEF OnTheWay, Remembered, Lifetime
  <2>1. w.at \in Nat /\ now' - w.at <= MaxDelay
    BY <1>1 DEF Advance, TypeOK, Time
  <2> QED BY <1>1, <2>1, AdvertLifeAssumption DEF OnTheWay
<1>5. Listed'
  <2> SUFFICES ASSUME NEW c \in Observers, entry[c] # NoEntry
               PROVE  /\ entry[c].ts <= entry[c].seen /\ entry[c].seen <= now'
                      /\ entry[c].ts \in spent'[c]
                      /\ c \in up => now' <= entry[c].seen + BeaconTTL + 1
                      /\ Remembered(entry[c].ts) =>
                            entry[c].seen + BeaconTTL + 1 <= entry[c].ts + Spread(entry[c].ts) * Lifetime
    BY <1>1, <1>3 DEF Listed, Remembered, Lifetime, NoEntry, Never
  <2>1. entry[c].seen \in Nat
    BY DEF TypeOK, Time, Observers
  <2>2. c \in up => now - entry[c].seen <= BeaconTTL
    BY <1>1, <2>1, AdvertLifeAssumption DEF Advance, Lapsed
  <2> QED BY <1>1, <1>3, <2>1, <2>2, AdvertLifeAssumption DEF Listed
<1>6. restarted' <= now'
  BY <1>1 DEF TypeOK, Time, Never
<1> QED BY <1>4, <1>5, <1>6

(* An advert is listed for at most one lifetime per observer after it was  *)
(* signed, so that a beacon that stopped is forgotten: for any number of   *)
(* beacons, lifetimes and delays, whatever is lost and whoever crashes.    *)
THEOREM DeadAdvertsDieOut == Spec => []AdvertsDieOut
<1>1. Init => IInv
  <2> SUFFICES ASSUME Init PROVE IInv
    OBVIOUS
  <2>1. TypeOK /\ restarted <= now
    BY AdvertLifeAssumption DEF Init, TypeOK, Time, Never
  <2>2. OnTheWay /\ Listed
    BY DEF Init, OnTheWay, Listed, Observers
  <2> QED BY <2>1, <2>2 DEF IInv
<1>2. IInv /\ [Next]_vars => IInv'
  <2> SUFFICES ASSUME IInv, [Next]_vars PROVE IInv'
    OBVIOUS
  <2>1. TypeOK'
    BY TypeInvariant DEF IInv
  <2>2. ASSUME NEW b \in Beacons, Round(b) PROVE IInv'
    BY <2>1, <2>2, RoundInv
  <2>3. ASSUME NEW b \in Beacons, NEW adverts \in SUBSET {w.ts : w \in wire}, Accept(b, adverts)
        PROVE  IInv'
    BY <2>1, <2>3, AcceptInv
  <2>4. CASE Lose
    <3>1. \A x : Spread(x)' = Spread(x)
      BY <2>4, SpreadSame DEF Lose
    <3>2. OnTheWay'
      BY <2>1, <2>4, <3>1, Dropping, SpreadBounded DEF Lose
    <3>3. Listed'
      BY <2>4, <3>1 DEF Lose, IInv, Listed, Remembered, Lifetime, NoEntry, Never
    <3> QED BY <2>1, <2>4, <3>2, <3>3 DEF Lose, IInv
  <2>5. ASSUME NEW b \in Beacons, Crash(b) PROVE IInv'
    <3>1. \A x : Spread(x)' = Spread(x)
      BY <2>5, SpreadSame DEF Crash
    <3>2. OnTheWay'
      BY <2>5, <3>1 DEF Crash, IInv, OnTheWay, Remembered, Lifetime
    <3>3. Listed'
      BY <2>5, <3>1 DEF Crash, IInv, Listed, Remembered, Lifetime, NoEntry, Never
    <3> QED BY <2>1, <2>5, <3>2, <3>3 DEF Crash, IInv
  <2>6. ASSUME NEW b \in Beacons, Restart(b) PROVE IInv'
    BY <2>1, <2>6, RestartInv
  <2>7. CASE Advance
    BY <2>1, <2>7, AdvanceInv
  <2>8. CASE UNCHANGED vars
    <3>1. \A x : Spread(x)' = Spread(x)
      BY <2>8, SpreadSame DEF vars
    <3> QED BY <2>1, <2>8, <3>1 DEF vars, IInv, OnTheWay, Listed, Remembered, Lifetime, NoEntry, Never
  <2> QED BY <2>2, <2>3, <2>4, <2>5, <2>6, <2>7, <2>8 DEF Next
<1> QED BY <1>1, <1>2, DieOut, PTL DEF Spec

-----------------------------------------------------------------------------
(* The replay guard of a bus.                                              *)

CONSTANTS Nonces, Signed, Capacity, Skew

VARIABLES seen, log

\* Of a beacon and a bus that read the same clock.
Guard == INSTANCE ReplayGuard

\* What is known of a guard s and the log l at time t.
Typed(s, l, t) ==
    /\ t \in Int
    /\ s \in Seq(Nonces)
    /\ l \in Seq([nonce : Nonces, at : Int])

\* Every envelope was fresh when it was verified, and that was before t.
WasFresh(l, t) ==
    \A i \in DOMAIN l :
        /\ l[i].at <= t
        /\ Signed[l[i].nonce] - Skew <= l[i].at /\ l[i].at <= Signed[l[i].nonce] + Skew

\* The guard holds the end of the log, and all of it until it is full.
HoldsTheLast(s, l) ==
    /\ Len(s) <= Len(l)
    /\ Len(s) = Len(l) \/ Len(s) = Capacity
    /\ \A i \in DOMAIN l : i > Len(l) - Len(s) => s[i - (Len(l) - Len(s))] = l[i].nonce

Distinct(l) == \A i, j \in DOMAIN l : l[i].nonce = l[j].nonce => i = j

Good(s, l, t) == Typed(s, l, t) /\ WasFresh(l, t) /\ HoldsTheLast(s, l) /\ Distinct(l)

GuardConstants ==
    /\ Capacity \in Nat /\ Skew \in Nat
    /\ Signed \in [Nonces -> Int]

Entry(n, t) == [nonce |-> n, at |-> t]

-----------------------------------------------------------------------------
(* Recording keeps the guard at the end of the log.                        *)
LEMMA RecordHolds ==
    ASSUME GuardConstants, NEW s, NEW l, NEW t, Typed(s, l, t), HoldsTheLast(s, l), NEW n \in Nonces,
           Len(s) <= Capacity
    PROVE  /\ Guard!Record(s, n) \in Seq(Nonces)
           /\ HoldsTheLast(Guard!Record(s, n), Append(l, Entry(n, t)))
           /\ Len(Guard!Record(s, n)) <= Capacity
<1> DEFINE all == Append(s, n)
           longer == Append(l, Entry(n, t))
<1>0. /\ s \in Seq(Nonces) /\ l \in Seq([nonce : Nonces, at : Int]) /\ t \in Int
      /\ Len(l) \in Nat /\ Len(s) \in Nat /\ Capacity \in Nat
      /\ Len(s) <= Len(l) /\ (Len(s) = Len(l) \/ Len(s) = Capacity)
      /\ \A i \in DOMAIN l : i > Len(l) - Len(s) => s[i - (Len(l) - Len(s))] = l[i].nonce
  BY DEF Typed, HoldsTheLast, GuardConstants
<1>1. /\ all \in Seq(Nonces) /\ Len(all) = Len(s) + 1 /\ all[Len(s) + 1] = n
      /\ \A k \in 1 .. Len(s) : all[k] = s[k]
  BY <1>0
<1>2. /\ Len(longer) = Len(l) + 1 /\ DOMAIN longer = 1 .. Len(l) + 1
      /\ longer[Len(l) + 1] = Entry(n, t)
      /\ \A k \in 1 .. Len(l) : longer[k] = l[k]
  BY <1>0 DEF Entry
<1>3. DOMAIN l = 1 .. Len(l) /\ DOMAIN s = 1 .. Len(s)
  BY <1>0
<1> HIDE DEF all, longer
<1>4. \A i \in 1 .. Len(longer) : i > Len(l) - Len(s) => all[i - (Len(l) - Len(s))] = longer[i].nonce
  <2> SUFFICES ASSUME NEW i \in 1 .. Len(longer), i > Len(l) - Len(s)
               PROVE  all[i - (Len(l) - Len(s))] = longer[i].nonce
    OBVIOUS
  <2>1. CASE i = Len(l) + 1
    <3>1. i - (Len(l) - Len(s)) = Len(s) + 1
      BY <1>0, <2>1
    <3> QED BY <3>1, <2>1, <1>1, <1>2 DEF Entry
  <2>2. CASE i # Len(l) + 1
    <3>1. i \in 1 .. Len(l) /\ i - (Len(l) - Len(s)) \in 1 .. Len(s)
      BY <1>0, <1>2, <2>2
    <3>2. s[i - (Len(l) - Len(s))] = l[i].nonce
      BY <3>1, <1>0, <1>3
    <3> QED BY <3>1, <3>2, <1>1, <1>2
  <2> QED BY <2>1, <2>2
<1>5. DOMAIN longer = 1 .. Len(longer) /\ Len(longer) = Len(l) + 1
  BY <1>2
<1>6. CASE Len(all) <= Capacity
  <2>1. Guard!Record(s, n) = all
    BY <1>0, <1>1, <1>6 DEF Guard!Record, all
  <2>2. /\ Len(longer) - Len(all) = Len(l) - Len(s) /\ Len(all) <= Len(longer)
        /\ Len(all) = Len(longer) \/ Len(all) = Capacity
    BY <1>0, <1>1, <1>5, <1>6
  <2>3. HoldsTheLast(all, longer)
    BY <2>2, <1>4, <1>5 DEF HoldsTheLast
  <2> QED BY <2>1, <2>3, <1>1, <1>6 DEF longer
<1>7. CASE Len(all) > Capacity
  <2>1. Guard!Record(s, n) = Tail(all) /\ Len(s) = Capacity
    BY <1>0, <1>1, <1>7 DEF Guard!Record, all
  <2>2. /\ Tail(all) \in Seq(Nonces) /\ Len(Tail(all)) = Len(s)
        /\ \A k \in 1 .. Len(s) : Tail(all)[k] = all[k + 1]
    BY <1>0, <1>1
  <2>3. \A i \in DOMAIN longer :
            i > Len(longer) - Len(s) => Tail(all)[i - (Len(longer) - Len(s))] = longer[i].nonce
    <3> SUFFICES ASSUME NEW i \in 1 .. Len(longer), i > Len(longer) - Len(s)
                 PROVE  Tail(all)[i - (Len(longer) - Len(s))] = longer[i].nonce
      BY <1>5
    <3> DEFINE k == i - (Len(longer) - Len(s))
    <3>1. k \in 1 .. Len(s) /\ k + 1 = i - (Len(l) - Len(s)) /\ i > Len(l) - Len(s)
      BY <1>0, <1>5
    <3>2. Tail(all)[k] = all[k + 1]
      BY <3>1, <2>2
    <3>3. all[i - (Len(l) - Len(s))] = longer[i].nonce
      BY <3>1, <1>4
    <3> QED BY <3>1, <3>2, <3>3
  <2>4. Len(s) <= Len(longer)
    BY <1>0, <1>5
  <2>5. HoldsTheLast(Tail(all), longer)
    BY <2>1, <2>2, <2>3, <2>4 DEF HoldsTheLast
  <2>6. Len(Tail(all)) <= Capacity
    BY <2>1, <2>2, <1>0
  <2> QED BY <2>1, <2>2, <2>5, <2>6 DEF longer
<1> QED BY <1>0, <1>1, <1>6, <1>7

(* What is in a sequence.                                                  *)
LEMMA InSequence ==
    ASSUME NEW S, NEW q \in Seq(S), NEW i \in DOMAIN q
    PROVE  i \in 1 .. Len(q) /\ q[i] \in S
OBVIOUS

(* What lies at most c back in a log of length a is held by a guard of     *)
(* length b that is full at c or holds everything.                         *)
LEMMA StillHeld ==
    ASSUME NEW a \in Nat, NEW b \in Nat, NEW c \in Nat, NEW i \in 1 .. a,
           b <= a, b = a \/ b = c, a + 1 - i <= c
    PROVE  i > a - b /\ i - (a - b) \in 1 .. b
OBVIOUS

(* A fresh envelope the guard does not hold was never verified.            *)
LEMMA NeverVerified ==
    ASSUME GuardConstants, NEW s, NEW l, NEW t, Good(s, l, t), NEW n \in Nonces,
           Signed[n] - Skew <= t, t <= Signed[n] + Skew,
           ~ Guard!SeenBefore(s, n), Guard!WithinRate(Append(l, Entry(n, t)))
    PROVE  \A i \in DOMAIN l : l[i].nonce # n
<1> SUFFICES ASSUME NEW i \in DOMAIN l, l[i].nonce = n
             PROVE  FALSE
  OBVIOUS
<1> DEFINE longer == Append(l, Entry(n, t))
<1>1. /\ Len(l) \in Nat /\ Len(s) \in Nat /\ Capacity \in Nat /\ Skew \in Nat
      /\ l \in Seq([nonce : Nonces, at : Int]) /\ s \in Seq(Nonces)
      /\ t \in Int /\ Signed[n] \in Int
  BY DEF Good, Typed, GuardConstants
<1>2. i \in 1 .. Len(l) /\ DOMAIN s = 1 .. Len(s) /\ l[i] \in [nonce : Nonces, at : Int]
  <2>1. DOMAIN s = 1 .. Len(s)
    BY <1>1
  <2>2. i \in 1 .. Len(l) /\ l[i] \in [nonce : Nonces, at : Int]
    BY <1>1, InSequence
  <2> QED BY <2>1, <2>2
<1>a. Signed[n] - Skew <= l[i].at /\ l[i].at \in Int
  BY <1>2 DEF Good, WasFresh
<1>b. t - l[i].at <= 2 * Skew
  <2> DEFINE a == l[i].at
             b == Signed[n]
  <2>1. a \in Int /\ b \in Int /\ t \in Int /\ Skew \in Nat /\ b - Skew <= a /\ t <= b + Skew
    BY <1>1, <1>a
  <2> HIDE DEF a, b
  <2>2. t - a <= 2 * Skew
    BY <2>1
  <2> QED BY <2>2 DEF a
<1>3. /\ DOMAIN longer = 1 .. Len(l) + 1
      /\ longer[i] = l[i] /\ longer[Len(l) + 1] = Entry(n, t)
  BY <1>1, <1>2 DEF Entry
<1>4. Len(l) + 1 - i <= Capacity
  <2>1. longer[Len(l) + 1].at - longer[i].at <= 2 * Skew
    BY <1>b, <1>3 DEF Entry
  <2>2. i \in DOMAIN longer /\ Len(l) + 1 \in DOMAIN longer /\ i < Len(l) + 1
    BY <1>1, <1>2, <1>3
  <2>3. \A j, k \in DOMAIN longer : j < k /\ longer[k].at - longer[j].at <= 2 * Skew => k - j <= Capacity
    BY DEF Guard!WithinRate
  <2> HIDE DEF longer
  <2> QED BY <2>1, <2>2, <2>3
<1>5. /\ Len(s) <= Len(l) /\ (Len(s) = Len(l) \/ Len(s) = Capacity)
      /\ i > Len(l) - Len(s) => s[i - (Len(l) - Len(s))] = l[i].nonce
  BY DEF Good, HoldsTheLast
<1> HIDE DEF longer
<1>6. i > Len(l) - Len(s) /\ i - (Len(l) - Len(s)) \in 1 .. Len(s)
  BY <1>1, <1>2, <1>4, <1>5, StillHeld
<1>7. i - (Len(l) - Len(s)) \in DOMAIN s
  BY <1>2, <1>6
<1>8. s[i - (Len(l) - Len(s))] = n
  BY <1>5, <1>6
<1> QED BY <1>2, <1>7, <1>8 DEF Guard!SeenBefore

(* Verifying one envelope keeps what is known.                             *)
LEMMA VerifyKeeps ==
    ASSUME GuardConstants, NEW s, NEW l, NEW t, Good(s, l, t), Len(s) <= Capacity, NEW n \in Nonces,
           Signed[n] - Skew <= t, t <= Signed[n] + Skew,
           ~ Guard!SeenBefore(s, n), Guard!WithinRate(Append(l, Entry(n, t)))
    PROVE  /\ Good(Guard!Record(s, n), Append(l, Entry(n, t)), t)
           /\ Len(Guard!Record(s, n)) <= Capacity
<1> DEFINE longer == Append(l, Entry(n, t))
<1>1. /\ Len(l) \in Nat /\ DOMAIN l = 1 .. Len(l) /\ DOMAIN longer = 1 .. Len(l) + 1
      /\ longer[Len(l) + 1] = Entry(n, t)
      /\ \A k \in 1 .. Len(l) : longer[k] = l[k]
      /\ longer \in Seq([nonce : Nonces, at : Int]) /\ t \in Int
  BY DEF Good, Typed, Entry
<1>2. /\ Guard!Record(s, n) \in Seq(Nonces) /\ HoldsTheLast(Guard!Record(s, n), longer)
      /\ Len(Guard!Record(s, n)) <= Capacity
  BY RecordHolds DEF Good
<1>3. WasFresh(longer, t)
  <2> SUFFICES ASSUME NEW i \in 1 .. Len(l) + 1
               PROVE  /\ longer[i].at <= t
                      /\ Signed[longer[i].nonce] - Skew <= longer[i].at
                      /\ longer[i].at <= Signed[longer[i].nonce] + Skew
    BY <1>1 DEF WasFresh
  <2>1. CASE i = Len(l) + 1
    BY <1>1, <2>1 DEF Entry
  <2>2. CASE i # Len(l) + 1
    <3>1. i \in DOMAIN l /\ longer[i] = l[i]
      BY <1>1, <2>2
    <3> QED BY <3>1 DEF Good, WasFresh
  <2> QED BY <2>1, <2>2
<1>4. Distinct(longer)
  <2>1. \A i \in DOMAIN l : l[i].nonce # n
    BY NeverVerified
  <2> SUFFICES ASSUME NEW i \in 1 .. Len(l) + 1, NEW j \in 1 .. Len(l) + 1, longer[i].nonce = longer[j].nonce
               PROVE  i = j
    BY <1>1 DEF Distinct
  <2>2. CASE i = Len(l) + 1
    <3>1. CASE j # Len(l) + 1
      <4>1. j \in DOMAIN l /\ longer[j] = l[j] /\ longer[i].nonce = n
        BY <1>1, <2>2, <3>1 DEF Entry
      <4> QED BY <4>1, <2>1
    <3> QED BY <3>1, <2>2
  <2>3. CASE i # Len(l) + 1
    <3>1. i \in DOMAIN l /\ longer[i] = l[i]
      BY <1>1, <2>3
    <3>2. CASE j = Len(l) + 1
      BY <1>1, <2>1, <3>1, <3>2 DEF Entry
    <3>3. CASE j # Len(l) + 1
      <4>1. j \in DOMAIN l /\ longer[j] = l[j]
        BY <1>1, <3>3
      <4> QED BY <3>1, <4>1 DEF Good, Distinct
    <3> QED BY <3>2, <3>3
  <2> QED BY <2>2, <2>3
<1> QED BY <1>1, <1>2, <1>3, <1>4 DEF Good, Typed

(* What holds of a log's rate holds of the log before its last entry.      *)
LEMMA RateOfPrefix ==
    ASSUME NEW l \in Seq([nonce : Nonces, at : Int]), NEW e \in [nonce : Nonces, at : Int],
           Guard!WithinRate(Append(l, e))
    PROVE  Guard!WithinRate(l)
<1>1. /\ DOMAIN l = 1 .. Len(l) /\ Len(l) \in Nat /\ DOMAIN Append(l, e) = 1 .. Len(l) + 1
      /\ \A k \in 1 .. Len(l) : Append(l, e)[k] = l[k]
  OBVIOUS
<1> SUFFICES ASSUME NEW i \in DOMAIN l, NEW j \in DOMAIN l, i < j, l[j].at - l[i].at <= 2 * Skew
             PROVE  j - i <= Capacity
  BY DEF Guard!WithinRate
<1>2. /\ i \in DOMAIN Append(l, e) /\ j \in DOMAIN Append(l, e)
      /\ Append(l, e)[i] = l[i] /\ Append(l, e)[j] = l[j]
  BY <1>1
<1> QED BY <1>2 DEF Guard!WithinRate

-----------------------------------------------------------------------------
GuardInv == Good(seen, log, now) /\ Len(seen) <= Capacity

(* Every step keeps the invariant.                                         *)
LEMMA GuardInvHolds ==
    ASSUME GuardConstants, GuardInv, [Guard!Next]_(Guard!vars) PROVE GuardInv'
<1>1. ASSUME NEW n \in Nonces, Guard!Verify(n) PROVE GuardInv'
  <2>1. log' = Append(log, Entry(n, now)) /\ seen' = Guard!Record(seen, n) /\ now' = now
    BY <1>1 DEF Guard!Verify, Entry
  <2>2. Guard!WithinRate(Append(log, Entry(n, now)))
    BY <1>1, <2>1 DEF Guard!Verify
  <2>3. /\ Good(Guard!Record(seen, n), Append(log, Entry(n, now)), now)
        /\ Len(Guard!Record(seen, n)) <= Capacity
    BY <1>1, <2>2, VerifyKeeps DEF GuardInv, Guard!Verify, Guard!Fresh
  <2> QED BY <2>1, <2>3 DEF GuardInv, Good, Typed, WasFresh, HoldsTheLast, Distinct
<1>2. ASSUME NEW n \in Nonces, NEW m \in Nonces, Guard!VerifyBoth(n, m) PROVE GuardInv'
  <2> DEFINE once == Guard!Record(seen, n)
             half == Append(log, Entry(n, now))
  <2>1. log' = Append(half, Entry(m, now)) /\ seen' = Guard!Record(once, m) /\ now' = now
    BY <1>2 DEF Guard!VerifyBoth, Entry
  <2>2. half \in Seq([nonce : Nonces, at : Int]) /\ Entry(m, now) \in [nonce : Nonces, at : Int]
    BY DEF GuardInv, Good, Typed, Entry
  <2>3. Guard!WithinRate(Append(half, Entry(m, now)))
    BY <1>2, <2>1 DEF Guard!VerifyBoth
  <2>4. Guard!WithinRate(half)
    BY <2>2, <2>3, RateOfPrefix
  <2>5. Good(once, half, now) /\ Len(once) <= Capacity
    BY <1>2, <2>4, VerifyKeeps DEF GuardInv, Guard!VerifyBoth, Guard!Fresh
  <2>6. /\ Good(Guard!Record(once, m), Append(half, Entry(m, now)), now)
        /\ Len(Guard!Record(once, m)) <= Capacity
    <3>1. ~ Guard!SeenBefore(once, m) /\ Signed[m] - Skew <= now /\ now <= Signed[m] + Skew
      BY <1>2 DEF Guard!VerifyBoth, Guard!Fresh
    <3> HIDE DEF once, half
    <3> QED BY <3>1, <2>3, <2>5, VerifyKeeps
  <2> QED BY <2>1, <2>6 DEF GuardInv, Good, Typed, WasFresh, HoldsTheLast, Distinct
<1>3. CASE Guard!Wait
  <2>1. seen' = seen /\ log' = log /\ now' \in Int /\ now' > now
    BY <1>3 DEF Guard!Wait
  <2>2. WasFresh(log, now')
    <3> SUFFICES ASSUME NEW i \in DOMAIN log
                 PROVE  /\ log[i].at <= now'
                        /\ Signed[log[i].nonce] - Skew <= log[i].at /\ log[i].at <= Signed[log[i].nonce] + Skew
      BY DEF WasFresh
    <3>1. /\ log[i].at <= now
          /\ Signed[log[i].nonce] - Skew <= log[i].at /\ log[i].at <= Signed[log[i].nonce] + Skew
      BY DEF GuardInv, Good, WasFresh
    <3>2. log \in Seq([nonce : Nonces, at : Int]) /\ now \in Int
      BY DEF GuardInv, Good, Typed
    <3>3. log[i].at \in Int
      <4>1. log[i] \in [nonce : Nonces, at : Int]
        BY <3>2, InSequence
      <4> QED BY <4>1
    <3>4. log[i].at <= now'
      BY <2>1, <3>1, <3>2, <3>3
    <3> QED BY <3>1, <3>4
  <2> QED BY <2>1, <2>2 DEF GuardInv, Good, Typed, WasFresh, HoldsTheLast, Distinct
<1>4. CASE UNCHANGED Guard!vars
  BY <1>4 DEF Guard!vars, GuardInv, Good, Typed, WasFresh, HoldsTheLast, Distinct
<1> QED BY <1>1, <1>2, <1>3, <1>4 DEF Guard!Next

(* The bus hands on no datagram twice, although its guard forgets          *)
(* (ReplayGuard and verify_envelope in identity.py).                       *)
THEOREM NoEnvelopeIsVerifiedTwice == ASSUME GuardConstants PROVE Guard!Spec => []Guard!VerifiedOnce
<1>1. Guard!Init => GuardInv
  <2> SUFFICES ASSUME Guard!Init PROVE GuardInv
    OBVIOUS
  <2>1. Len(seen) = 0 /\ Len(log) = 0 /\ DOMAIN log = {} /\ Capacity \in Nat
    BY DEF Guard!Init, GuardConstants
  <2> QED BY <2>1 DEF Guard!Init, GuardInv, Good, Typed, WasFresh, HoldsTheLast, Distinct
<1>2. GuardInv /\ [Guard!Next]_(Guard!vars) => GuardInv'
  BY GuardInvHolds
<1>3. GuardInv => Guard!VerifiedOnce
  BY DEF GuardInv, Good, Distinct, Guard!VerifiedOnce
<1> QED BY <1>1, <1>2, <1>3, PTL DEF Guard!Spec
=============================================================================
