--------------------------- MODULE FederationProofs ---------------------------
(***************************************************************************)
(* The federation for any beacons, spaces, lifetimes and scenarios: what   *)
(* it lists as reachable was up, stale gossip never wins, and its steps    *)
(* are those that AdvertLife allows for the adverts of each beacon.        *)
(***************************************************************************)
EXTENDS Federation, FiniteSetTheorems, WellFoundedInduction, TLAPS

-----------------------------------------------------------------------------
(* Maxima of finite sets.  Of the sets of what is above an element, a      *)
(* least one is empty.                                                     *)
LEMMA FiniteMax ==
    ASSUME NEW S, S \subseteq Int, IsFiniteSet(S), S # {}
    PROVE  \E x \in S : \A y \in S : x >= y
<1> DEFINE above(x) == {y \in S : y > x}
           T == {above(x) : x \in S}
           R == StrictSubsetOrdering(S)
<1>1. IsWellFoundedOn(R, SUBSET S)
  BY FS_StrictSubsetOrderingWellFounded, FS_FiniteSubsetsOfFinite
<1>2. T \subseteq SUBSET S /\ T # {}
  OBVIOUS
<1>3. PICK U \in T : \A V \in T : << V, U >> \notin R
  <2> HIDE DEF R, T
  <2> QED BY <1>1, <1>2, WFMin
<1>4. PICK x \in S : U = above(x)
  BY <1>3
<1>5. ASSUME NEW y \in S, y > x PROVE FALSE
  <2>1. above(y) \subseteq above(x) /\ above(y) # above(x)
    <3>1. y \in above(x) /\ y \notin above(y)
      BY <1>5
    <3>2. \A z \in S : z > y => z > x
      BY <1>5
    <3> QED BY <3>1, <3>2
  <2>2. << above(y), above(x) >> \in R
    BY <2>1 DEF StrictSubsetOrdering
  <2> QED BY <1>3, <1>4, <2>2
<1> QED BY <1>5

LEMMA MaxIs ==
    ASSUME NEW S, S \subseteq Int, IsFiniteSet(S), S # {}
    PROVE  Max(S) \in S /\ \A y \in S : Max(S) >= y
BY FiniteMax DEF Max

LEMMA IntervalMax ==
    ASSUME NEW a \in Int, NEW b \in Int, NEW S, S \subseteq a .. b, S # {}
    PROVE  Max(S) \in S /\ \A y \in S : Max(S) >= y
<1>1. IsFiniteSet(S)
  BY FS_Interval, FS_Subset
<1>2. S \subseteq Int
  OBVIOUS
<1> QED BY <1>1, <1>2, MaxIs

LEMMA TimeIsBounded == MaxTime \in Nat /\ \A s \in Scenarios : s.time \in Nat /\ s.time <= MaxTime
<1> DEFINE S == {s.time : s \in Scenarios}
           f == [s \in Scenarios |-> s.time]
<1>1. f \in Surjection(Scenarios, S)
  BY DEF Surjection
<1>2. IsFiniteSet(S) /\ S # {} /\ S \subseteq Nat /\ S \subseteq Int
  <2> HIDE DEF f
  <2> QED BY <1>1, FederationAssumption, FS_Surjection
<1>3. Max(S) \in S /\ \A y \in S : Max(S) >= y
  <2> HIDE DEF S
  <2> QED BY <1>2, MaxIs
<1> QED BY <1>2, <1>3 DEF MaxTime

LEMMA LatestTime ==
    ASSUME NEW S, S \subseteq Time, S # {}
    PROVE  Max(S) \in S /\ \A y \in S : Max(S) >= y
<1>1. MaxTime \in Int /\ S \subseteq 0 .. MaxTime /\ 0 \in Int
  BY TimeIsBounded DEF Time
<1> HIDE DEF Time
<1> QED BY <1>1, IntervalMax

-----------------------------------------------------------------------------
(* The registry.                                                           *)

\* A directory as TypeOK has it.
Directory == UNION {[D -> Entry] : D \in SUBSET Beacons}

\* The advert that record() stores for i, if it stores one.
Newest(a, i, adverts) == a \in adverts /\ a.id = i /\ \A e \in adverts : e.id = i => e.ts <= a.ts

\* What is listed after record(): for each beacon what was listed before, or
\* its newest advert when none listed is newer.
Recording(after, known, adverts) ==
    /\ DOMAIN after = DOMAIN known \cup {a.id : a \in adverts}
    /\ \A i \in DOMAIN after :
        \/ /\ i \in DOMAIN known /\ after[i] = known[i]
           /\ \A e \in adverts : e.id = i => e.ts < known[i].ts
        \/ \E a \in adverts :
            /\ Newest(a, i, adverts)
            /\ i \in DOMAIN known => a.ts >= known[i].ts
            /\ after[i] = [ts |-> a.ts, seen |-> now,
                           reachable |-> i \in DOMAIN known /\ known[i].reachable,
                           pong |-> IF i \in DOMAIN known THEN known[i].pong ELSE Never]

(* record(): the newest advert is stored, unless what is listed is newer.  *)
LEMMA RecordedShape ==
    ASSUME NEW known, NEW adverts, adverts \subseteq Advert, \A i \in DOMAIN known : known[i].ts \in Time
    PROVE  Recording(Recorded(known, adverts), known, adverts)
<1> DEFINE stored == {a \in adverts : a.id \in DOMAIN known => a.ts >= known[a.id].ts}
           Latest(a, i) == a.id = i /\ \A c \in stored : c.id = i => c.ts <= a.ts
           newest(i) == CHOOSE a \in stored : Latest(a, i)
           ids == {a.id : a \in stored}
           entry(i) == [ts |-> newest(i).ts, seen |-> now,
                     reachable |-> i \in DOMAIN known /\ known[i].reachable,
                     pong |-> IF i \in DOMAIN known THEN known[i].pong ELSE Never]
           after == Recorded(known, adverts)
<1>1. after = [i \in DOMAIN known \cup ids |-> IF i \in ids THEN entry(i) ELSE known[i]]
  BY DEF Recorded
<1>2. \A a \in adverts : a.ts \in 0 .. MaxTime /\ a.ts \in Int
  BY DEF Advert, Time
<1>3. \A a \in adverts : a \notin stored => a.id \in DOMAIN known /\ a.ts < known[a.id].ts
  <2>1. \A i \in DOMAIN known : known[i].ts \in Int
    BY DEF Time
  <2> QED BY <1>2, <2>1
<1>4. DOMAIN after = DOMAIN known \cup {a.id : a \in adverts}
  BY <1>1, <1>3
<1>5. ASSUME NEW i \in ids PROVE newest(i) \in stored /\ Latest(newest(i), i)
  <2> DEFINE S == {a.ts : a \in {c \in stored : c.id = i}}
  <2>1. S \subseteq Time /\ S # {}
    BY <1>2, <1>5 DEF Time
  <2> HIDE DEF S
  <2>3. Max(S) \in S /\ \A y \in S : Max(S) >= y
    BY <2>1, LatestTime
  <2> USE DEF S
  <2>4. PICK a \in stored : a.id = i /\ a.ts = Max(S)
    BY <2>3
  <2>5. ASSUME NEW c \in stored, c.id = i PROVE c.ts <= a.ts
    <3>1. c.ts \in S
      BY <2>5
    <3>2. a.ts >= c.ts
      BY <2>3, <2>4, <3>1
    <3> HIDE DEF S, stored
    <3>3. c \in adverts /\ a \in adverts
      BY <2>4, <2>5 DEF stored
    <3>4. a.ts \in Int /\ c.ts \in Int
      BY <1>2, <3>3
    <3> QED BY <3>2, <3>4
  <2>6. Latest(a, i)
    BY <2>4, <2>5
  <2> HIDE DEF S, stored, Latest
  <2> QED BY <2>6
<1>6. ASSUME NEW i \in DOMAIN after, i \notin ids
      PROVE  /\ i \in DOMAIN known /\ after[i] = known[i]
             /\ \A e \in adverts : e.id = i => e.ts < known[i].ts
  <2>1. i \in DOMAIN known /\ after[i] = known[i]
    BY <1>1, <1>6
  <2>2. ASSUME NEW e \in adverts, e.id = i PROVE e.ts < known[i].ts
    BY <1>3, <1>6, <2>2
  <2> QED BY <2>1, <2>2
<1>7. ASSUME NEW i \in ids
      PROVE  \E a \in adverts :
                        /\ Newest(a, i, adverts)
                        /\ i \in DOMAIN known => a.ts >= known[i].ts
                        /\ after[i] = [ts |-> a.ts, seen |-> now,
                                       reachable |-> i \in DOMAIN known /\ known[i].reachable,
                                       pong |-> IF i \in DOMAIN known THEN known[i].pong ELSE Never]
  <2> DEFINE a == newest(i)
  <2>1. a \in stored /\ a.id = i /\ \A c \in stored : c.id = i => c.ts <= a.ts
    BY <1>5
  <2>2. after[i] = entry(i)
    BY <1>1
  <2>3. after[i] = [ts |-> a.ts, seen |-> now,
                    reachable |-> i \in DOMAIN known /\ known[i].reachable,
                    pong |-> IF i \in DOMAIN known THEN known[i].pong ELSE Never]
    BY <2>2
  <2> HIDE DEF a
  <2>4. a \in adverts /\ (i \in DOMAIN known => a.ts >= known[i].ts)
    BY <2>1
  <2>5. ASSUME NEW e \in adverts, e.id = i PROVE e.ts <= a.ts
    <3>1. CASE e \in stored
      BY <2>1, <2>5, <3>1
    <3>2. CASE e \notin stored
      <4>1. i \in DOMAIN known /\ e.ts < known[i].ts /\ a.ts >= known[i].ts
        BY <1>3, <2>4, <2>5, <3>2
      <4>2. e.ts \in Int /\ a.ts \in Int /\ known[i].ts \in Int
        BY <1>2, <2>4, <4>1 DEF Time
      <4> QED BY <4>1, <4>2
    <3> QED BY <3>1, <3>2
  <2> HIDE DEF after, stored
  <2> QED BY <2>1, <2>3, <2>4, <2>5 DEF Newest
<1> HIDE DEF after, ids, entry, newest, Latest, stored
<1>8. \A i \in DOMAIN after :
                    \/ /\ i \in DOMAIN known /\ after[i] = known[i]
                       /\ \A e \in adverts : e.id = i => e.ts < known[i].ts
                    \/ \E a \in adverts :
                        /\ Newest(a, i, adverts)
                        /\ i \in DOMAIN known => a.ts >= known[i].ts
                        /\ after[i] = [ts |-> a.ts, seen |-> now,
                                       reachable |-> i \in DOMAIN known /\ known[i].reachable,
                                       pong |-> IF i \in DOMAIN known THEN known[i].pong ELSE Never]
  BY <1>6, <1>7
<1> QED BY <1>4, <1>8 DEF after, Recording

(* expire(): what is left is as it was, but for what answered long ago.    *)
LEMMA ExpiredShape ==
    ASSUME NEW known, \A i \in DOMAIN known : known[i] \in Entry, now \in Time
    PROVE  LET after == Expired(known)
           IN  /\ DOMAIN after = {i \in DOMAIN known : now - known[i].seen <= BeaconTTL}
               /\ \A i \in DOMAIN after :
                    /\ after[i] \in Entry
                    /\ after[i].ts = known[i].ts /\ after[i].seen = known[i].seen
                    /\ after[i].pong = known[i].pong
                    /\ after[i].reachable =>
                        known[i].reachable /\ (known[i].pong = Never \/ now - known[i].pong <= ReachableTTL)
<1> DEFINE after == Expired(known)
<1>1. DOMAIN after = {i \in DOMAIN known : now - known[i].seen <= BeaconTTL}
  BY DEF Expired
<1>2. ASSUME NEW i \in DOMAIN after
      PROVE  /\ after[i] \in Entry
             /\ after[i].ts = known[i].ts /\ after[i].seen = known[i].seen
             /\ after[i].pong = known[i].pong
             /\ after[i].reachable =>
                    known[i].reachable /\ (known[i].pong = Never \/ now - known[i].pong <= ReachableTTL)
  <2> DEFINE old == known[i].reachable /\ known[i].pong # Never /\ now - known[i].pong > ReachableTTL
  <2>1. known[i] \in Entry
    BY <1>1
  <2>2. after[i] = IF old THEN [known[i] EXCEPT !.reachable = FALSE] ELSE known[i]
    BY <1>1 DEF Expired
  <2> HIDE DEF after
  <2>3. CASE old
    <3>1. after[i] = [known[i] EXCEPT !.reachable = FALSE]
      BY <2>2, <2>3
    <3> QED BY <2>1, <3>1 DEF Entry
  <2>4. CASE ~ old
    <3>1. after[i] = known[i]
      BY <2>2, <2>4
    <3>2. known[i].pong \in Int /\ now \in Int /\ ReachableTTL \in Int
      BY <2>1, FederationAssumption DEF Entry, Time, Never
    <3>3. known[i].reachable /\ known[i].pong # Never => now - known[i].pong <= ReachableTTL
      BY <2>4, <3>2
    <3> QED BY <2>1, <3>1, <3>3
  <2> QED BY <2>3, <2>4
<1> QED BY <1>1, <1>2

(* mark_reachable()                                                        *)
LEMMA MarkedShape ==
    ASSUME NEW known, NEW i, \A j \in DOMAIN known : known[j] \in Entry, now \in Time
    PROVE  LET after == MarkedReachable(known, i)
           IN  /\ DOMAIN after = DOMAIN known
               /\ \A j \in DOMAIN known :
                    /\ after[j] \in Entry
                    /\ after[j].ts = known[j].ts /\ after[j].seen = known[j].seen
                    /\ j # i => after[j] = known[j]
               /\ i \in DOMAIN known => after[i].reachable /\ after[i].pong = now
<1>1. CASE i \in DOMAIN known
  BY <1>1 DEF MarkedReachable, Entry
<1>2. CASE i \notin DOMAIN known
  BY <1>2 DEF MarkedReachable
<1> QED BY <1>1, <1>2

-----------------------------------------------------------------------------
(* The inductive invariant.                                                *)

\* A beacon that has not announced itself since it started.
Silent(b) == b # Genesis /\ ~ announced[b]

\* How old what b lists can be: it expires in b's round, and until then it is
\* at most one unit older.  The first round of a beacon only announces it.
AgeLimit(b, ttl) == (IF Silent(b) THEN 0 ELSE ttl) + (IF b \in rounds THEN 0 ELSE 1)

\* Nothing is of the future, and datagrams are of the last MaxDelay.
WireClock == \A m \in network : m.at <= now /\ now <= m.at + MaxDelay

Past(e) == e.seen <= now /\ e.pong <= now

HistoryClock == \A b \in Beacons : restarted[b] <= now /\ died[b] <= now

ListClock == \A b \in Beacons : \A i \in DOMAIN registry[b] : Past(registry[b][i])

ClockInv == WireClock /\ HistoryClock /\ ListClock

\* A ping goes to the beacon of its nonce, a pong comes from it, and it was
\* up when it sent it.
PongInv ==
    \A m \in network :
        /\ m.kind = "ping" => m.nonce.id = m.to
        /\ m.kind = "pong" => m.nonce.id = m.from /\ (m.from \in up \/ m.at <= died[m.from])

\* An entry of i in a list is not older than the lifetimes, and what it takes
\* for reachable was up when it sent its last pong.
Young(e, i, ttl, reachableTTL) ==
    /\ now - e.seen <= ttl
    /\ e.reachable =>
        /\ e.pong # Never /\ now - e.pong <= reachableTTL
        /\ i \in up \/ e.pong - MaxDelay <= died[i]

ListInv ==
    /\ \A b \in Beacons \ scenario.beacons : DOMAIN registry[b] = {}
    /\ \A b \in up : \A i \in DOMAIN registry[b] :
        Young(registry[b][i], i, AgeLimit(b, BeaconTTL), AgeLimit(b, ReachableTTL))

IInv == TypeOK /\ ClockInv /\ PongInv /\ ListInv

-----------------------------------------------------------------------------
(* Datagrams.                                                              *)
LEMMA DatagramFields ==
    ASSUME NEW m \in Datagram
    PROVE  /\ m.from \in Beacons /\ m.to \in Beacons /\ m.at \in Time
           /\ m.kind = "gossip" => m.blobs \subseteq Advert
           /\ m.kind \in {"ping", "pong"} => m.nonce \in Nonces
BY DEF Datagram

LEMMA SentFit ==
    ASSUME now \in Time, NEW b \in Beacons, NEW c \in Beacons
    PROVE  /\ \A blobs \in SUBSET Advert : Gossip(b, c, blobs) \in Datagram
           /\ \A nonce \in Nonces : Ping(b, c, nonce) \in Datagram /\ Pong(b, c, nonce) \in Datagram
           /\ \A probe \in BOOLEAN : Nonce(c, probe) \in Nonces
BY DEF Gossip, Ping, Pong, Nonce, Nonces, Datagram

LEMMA AwaitedFits ==
    ASSUME NEW nonces \in [Beacons -> SUBSET Nonces]
    PROVE  Awaited(nonces) \in [Beacons -> SUBSET Nonces]
BY DEF Awaited

LEMMA BridgedFits ==
    ASSUME NEW a \in [Beacons -> Address], NEW ids
    PROVE  BridgedAddrs(a, ids) \in [Beacons -> Address]
BY DEF BridgedAddrs, Address

LEMMA NowFits == ASSUME TypeOK PROVE now \in Time /\ Time \subseteq Int /\ scenario.time <= MaxTime
BY TimeIsBounded DEF TypeOK, Time

-----------------------------------------------------------------------------
(* Types, action by action.                                                *)
LEMMA AnnounceTypes ==
    ASSUME TypeOK, NEW b \in Beacons, Announce(b)
    PROVE  TypeOK'
<1> DEFINE sent == {Gossip(b, c, {[id |-> b, ts |-> now]}) : c \in {g \in {Genesis} : Routed(addrs[b][g], g)}}
<1>1. sent \subseteq Datagram
  <2>1. {[id |-> b, ts |-> now]} \in SUBSET Advert
    BY NowFits DEF Advert
  <2> QED BY <2>1, NowFits, SentFit, FederationAssumption
<1>2. Transmit(sent) /\ announced' = [announced EXCEPT ![b] = TRUE] /\ rounds' = rounds \cup {b}
  BY DEF Announce
<1> HIDE DEF sent
<1>3. \A m \in network' : m \in Datagram
  BY <1>1, <1>2 DEF Transmit, TypeOK
<1>4. announced' \in [Beacons -> BOOLEAN] /\ rounds' \subseteq Beacons
  BY <1>2 DEF TypeOK
<1> QED BY <1>3, <1>4 DEF Announce, TypeOK

LEMMA TickSent ==
    ASSUME TypeOK, NEW b \in Beacons
    PROVE  LET known == registry[b]
               blobs == {[id |-> b, ts |-> now]} \cup {[id |-> i, ts |-> known[i].ts] : i \in DOMAIN known}
               targets == DOMAIN known \cup ({Genesis} \ {b})
           IN  /\ blobs \subseteq Advert /\ targets \subseteq Beacons
               /\ \A c \in targets : SendBlobs(b, c, blobs) \subseteq Datagram
               /\ \A c \in targets : Nonce(c, FALSE) \in Nonces /\ Ping(b, c, Nonce(c, FALSE)) \in Datagram
<1> DEFINE known == registry[b]
           blobs == {[id |-> b, ts |-> now]} \cup {[id |-> i, ts |-> known[i].ts] : i \in DOMAIN known}
           targets == DOMAIN known \cup ({Genesis} \ {b})
<1>1. now \in Time /\ DOMAIN known \subseteq Beacons /\ \A i \in DOMAIN known : known[i].ts \in Time
  BY NowFits DEF TypeOK, Entry
<1>2. blobs \subseteq Advert /\ targets \subseteq Beacons
  BY <1>1, FederationAssumption DEF Advert
<1> HIDE DEF blobs, targets
<1>3. ASSUME NEW c \in targets PROVE SendBlobs(b, c, blobs) \subseteq Datagram
  <2>1. \A g \in Groups(blobs) : g \in SUBSET Advert
    BY <1>2 DEF Groups
  <2>2. c \in Beacons
    BY <1>2
  <2> QED BY <1>1, <2>1, <2>2, SentFit DEF SendBlobs
<1>4. ASSUME NEW c \in targets PROVE Nonce(c, FALSE) \in Nonces /\ Ping(b, c, Nonce(c, FALSE)) \in Datagram
  BY <1>1, <1>2, SentFit
<1> QED BY <1>2, <1>3, <1>4 DEF blobs, targets

LEMMA TickTypes ==
    ASSUME TypeOK, NEW b \in Beacons, Tick(b)
    PROVE  TypeOK'
<1> DEFINE known == registry[b]
           blobs == {[id |-> b, ts |-> now]} \cup {[id |-> i, ts |-> known[i].ts] : i \in DOMAIN known}
           targets == DOMAIN known \cup ({Genesis} \ {b})
           reach == {c \in targets : Routed(addrs[b][c], c)}
           bridges == ToBridge(b, known, DOMAIN known)
           sent == (UNION {SendBlobs(b, c, blobs) : c \in reach})
                    \cup {Ping(b, c, Nonce(c, FALSE)) : c \in reach \cap DOMAIN known}
           asked == {Nonce(c, FALSE) : c \in DOMAIN known}
<1>1. /\ Transmit(sent) /\ pending' = Awaited([pending EXCEPT ![b] = @ \cup asked])
      /\ bridged' = [bridged EXCEPT ![b] = @ \cup bridges]
      /\ addrs' = [addrs EXCEPT ![b] = BridgedAddrs(@, bridges)]
      /\ registry' = [registry EXCEPT ![b] = Expired(known)]
      /\ rounds' = rounds \cup {b}
      /\ UNCHANGED << scenario, now, up, announced, spent, closed, died, restarted, crashes >>
  BY DEF Tick
<1>2. sent \subseteq Datagram /\ asked \subseteq Nonces
  <2>1. /\ \A c \in targets : SendBlobs(b, c, blobs) \subseteq Datagram
        /\ \A c \in targets : Nonce(c, FALSE) \in Nonces /\ Ping(b, c, Nonce(c, FALSE)) \in Datagram
    BY TickSent
  <2> HIDE DEF blobs
  <2> QED BY <2>1
<1>3. bridges \subseteq Beacons
  BY DEF ToBridge, TypeOK
<1>4. /\ DOMAIN Expired(known) \subseteq Beacons \ {b}
      /\ \A i \in DOMAIN Expired(known) : Expired(known)[i] \in Entry
  <2>1. DOMAIN known \subseteq Beacons \ {b} /\ \A i \in DOMAIN known : known[i] \in Entry
    BY DEF TypeOK
  <2> HIDE DEF known
  <2> QED BY <2>1, NowFits, ExpiredShape
<1> HIDE DEF sent, asked, bridges, known
<1>5. \A m \in network' : m \in Datagram
  BY <1>1, <1>2 DEF Transmit, TypeOK
<1>6. pending' \in [Beacons -> SUBSET Nonces]
  <2>1. [pending EXCEPT ![b] = @ \cup asked] \in [Beacons -> SUBSET Nonces]
    BY <1>2 DEF TypeOK
  <2> QED BY <1>1, <2>1, AwaitedFits
<1>7. bridged' \in [Beacons -> SUBSET Beacons]
  BY <1>1, <1>3 DEF TypeOK
<1>8. addrs' \in [Beacons -> [Beacons -> Address]]
  BY <1>1, BridgedFits DEF TypeOK
<1>9. /\ DOMAIN registry' = Beacons
      /\ \A c \in Beacons : /\ DOMAIN registry'[c] \subseteq Beacons \ {c}
                            /\ \A i \in DOMAIN registry'[c] : registry'[c][i] \in Entry
  <2>1. DOMAIN registry' = Beacons /\ \A c \in Beacons : registry'[c] = (IF c = b THEN Expired(known) ELSE registry[c])
    BY <1>1 DEF TypeOK
  <2> QED BY <1>4, <2>1 DEF TypeOK
<1> QED BY <1>1, <1>5, <1>6, <1>7, <1>8, <1>9 DEF TypeOK

\* What a running beacon lists after a step that changes only its list.
LEMMA ListTypes ==
    ASSUME TypeOK, NEW b \in Beacons, NEW list, registry' = [registry EXCEPT ![b] = list],
           DOMAIN list \subseteq Beacons \ {b}, \A i \in DOMAIN list : list[i] \in Entry
    PROVE  /\ DOMAIN registry' = Beacons
           /\ \A c \in Beacons : /\ DOMAIN registry'[c] \subseteq Beacons \ {c}
                                 /\ \A i \in DOMAIN registry'[c] : registry'[c][i] \in Entry
<1>1. DOMAIN registry' = Beacons /\ \A c \in Beacons : registry'[c] = (IF c = b THEN list ELSE registry[c])
  BY DEF TypeOK
<1> QED BY <1>1 DEF TypeOK

\* The list of b once it has recorded what it takes of m.
LEMMA GossipList ==
    ASSUME TypeOK, NEW b \in Beacons, NEW blobs \in SUBSET Advert
    PROVE  LET after == Recorded(registry[b], Fresh(b, blobs))
           IN  /\ DOMAIN after \subseteq Beacons \ {b}
               /\ \A i \in DOMAIN after : after[i] \in Entry
<1> DEFINE known == registry[b]
           fresh == Fresh(b, blobs)
           after == Recorded(known, fresh)
<1>1. fresh \subseteq Advert /\ \A a \in fresh : a.id \in Beacons \ {b} /\ a.ts \in Time
  BY DEF Fresh, Advert
<1>2. DOMAIN known \subseteq Beacons \ {b} /\ \A i \in DOMAIN known : known[i] \in Entry /\ known[i].ts \in Time
  BY DEF TypeOK, Entry
<1>3. now \in Time
  BY NowFits
<1>4. fresh \subseteq Advert /\ \A i \in DOMAIN known : known[i].ts \in Time
  BY <1>1, <1>2
<1> HIDE DEF known, fresh
<1>5. Recording(after, known, fresh)
  BY <1>4, RecordedShape
<1> HIDE DEF after
<1>6. DOMAIN after \subseteq Beacons \ {b}
  BY <1>1, <1>2, <1>5 DEF Recording
<1>7. ASSUME NEW i \in DOMAIN after PROVE after[i] \in Entry
  <2>1. CASE i \in DOMAIN known /\ after[i] = known[i]
    BY <1>2, <2>1
  <2>2. CASE \E a \in fresh : after[i] = [ts |-> a.ts, seen |-> now,
                                       reachable |-> i \in DOMAIN known /\ known[i].reachable,
                                       pong |-> IF i \in DOMAIN known THEN known[i].pong ELSE Never]
    <3>1. PICK a \in fresh : after[i] = [ts |-> a.ts, seen |-> now,
                                       reachable |-> i \in DOMAIN known /\ known[i].reachable,
                                       pong |-> IF i \in DOMAIN known THEN known[i].pong ELSE Never]
      BY <2>2
    <3>2. (i \in DOMAIN known /\ known[i].reachable) \in BOOLEAN
      BY <1>2 DEF Entry
    <3>3. (IF i \in DOMAIN known THEN known[i].pong ELSE Never) \in Time \cup {Never}
      BY <1>2 DEF Entry
    <3> QED BY <1>1, <1>3, <3>1, <3>2, <3>3 DEF Entry
  <2> QED BY <1>5, <2>1, <2>2 DEF Recording
<1> QED BY <1>6, <1>7 DEF known, fresh, after

LEMMA GossipTypes ==
    ASSUME TypeOK, NEW m \in network, OnGossip(m)
    PROVE  TypeOK'
<1> DEFINE b     == m.to
           fresh == Fresh(b, m.blobs)
           after == Recorded(registry[b], fresh)
           new   == DOMAIN after \ DOMAIN registry[b]
           addressed == [c \in Beacons |->
               IF c \in {a.id : a \in fresh} THEN "advertised" ELSE Learned(b, m)[c]]
           asked == {Nonce(c, TRUE) : c \in new}
           sent == {Ping(b, c, Nonce(c, TRUE)) : c \in {i \in new : Routed(addressed[i], i)}}
<1>1. /\ spent' = [spent EXCEPT ![b] = @ \cup m.blobs]
      /\ registry' = [registry EXCEPT ![b] = after]
      /\ addrs' = [addrs EXCEPT ![b] = addressed]
      /\ Reply(m, sent)
      /\ pending' = Awaited([pending EXCEPT ![b] = @ \cup asked])
      /\ UNCHANGED << scenario, now, up, rounds, announced, bridged, closed, died, restarted, crashes >>
  BY DEF OnGossip
<1>2. b \in Beacons /\ m.blobs \in SUBSET Advert /\ m.from \in Beacons
  BY DatagramFields DEF OnGossip, TypeOK
<1>3. DOMAIN after \subseteq Beacons \ {b} /\ \A i \in DOMAIN after : after[i] \in Entry
  BY <1>2, GossipList
<1>4. asked \subseteq Nonces /\ sent \subseteq Datagram
  <2>1. new \subseteq Beacons /\ now \in Time
    BY <1>3, NowFits
  <2> HIDE DEF b, new, addressed
  <2> QED BY <1>2, <2>1, SentFit
<1>5. addressed \in [Beacons -> Address]
  <2>1. Learned(b, m) \in [Beacons -> Address]
    BY <1>2 DEF Learned, TypeOK, Address
  <2> HIDE DEF fresh, b
  <2> QED BY <2>1 DEF Address
<1> HIDE DEF sent, asked, addressed, after, new, fresh
<1>6. /\ DOMAIN registry' = Beacons
      /\ \A c \in Beacons : /\ DOMAIN registry'[c] \subseteq Beacons \ {c}
                            /\ \A i \in DOMAIN registry'[c] : registry'[c][i] \in Entry
  BY <1>1, <1>2, <1>3, ListTypes
<1>7. \A d \in network' : d \in Datagram
  BY <1>1, <1>4 DEF Reply, TypeOK
<1>8. pending' \in [Beacons -> SUBSET Nonces]
  <2>1. [pending EXCEPT ![b] = @ \cup asked] \in [Beacons -> SUBSET Nonces]
    BY <1>2, <1>4 DEF TypeOK
  <2> QED BY <1>1, <2>1, AwaitedFits
<1>9. spent' \in [Beacons -> SUBSET Advert] /\ addrs' \in [Beacons -> [Beacons -> Address]]
  BY <1>1, <1>2, <1>5 DEF TypeOK
<1> QED BY <1>1, <1>6, <1>7, <1>8, <1>9 DEF TypeOK

LEMMA PingTypes ==
    ASSUME TypeOK, NEW m \in network, OnPing(m)
    PROVE  TypeOK'
<1>1. m.from \in Beacons /\ m.to \in Beacons /\ m.nonce \in Nonces /\ now \in Time
  BY DatagramFields, NowFits DEF OnPing, TypeOK
<1>2. Pong(m.to, m.from, m.nonce) \in Datagram
  BY <1>1, SentFit
<1>3. \A d \in network' : d \in Datagram
  BY <1>2 DEF OnPing, Reply, TypeOK
<1>4. pending' \in [Beacons -> SUBSET Nonces]
  BY AwaitedFits DEF OnPing, TypeOK
<1>5. addrs' \in [Beacons -> [Beacons -> Address]]
  BY <1>1 DEF OnPing, Learned, TypeOK, Address
<1> QED BY <1>3, <1>4, <1>5 DEF OnPing, TypeOK

LEMMA PongTypes ==
    ASSUME TypeOK, NEW m \in network, OnPong(m)
    PROVE  TypeOK'
<1> DEFINE b       == m.to
           awaited == m.nonce \in pending[b]
           after   == IF awaited THEN MarkedReachable(registry[b], m.nonce.id) ELSE registry[b]
           bridges == IF awaited THEN ToBridge(b, after, {m.nonce.id}) ELSE {}
<1>1. /\ registry' = [registry EXCEPT ![b] = after]
      /\ bridged' = [bridged EXCEPT ![b] = @ \cup bridges]
      /\ addrs' = [addrs EXCEPT ![b] = BridgedAddrs(Learned(b, m), bridges)]
      /\ Reply(m, {})
      /\ pending' = Awaited(pending)
      /\ UNCHANGED << scenario, now, up, rounds, announced, spent, closed, died, restarted, crashes >>
  BY DEF OnPong
<1>2. b \in Beacons /\ m.nonce \in Nonces /\ m.from \in Beacons /\ now \in Time
  BY DatagramFields, NowFits DEF OnPong, TypeOK
<1>3. DOMAIN after \subseteq Beacons \ {b} /\ \A i \in DOMAIN after : after[i] \in Entry
  <2>1. DOMAIN registry[b] \subseteq Beacons \ {b} /\ \A i \in DOMAIN registry[b] : registry[b][i] \in Entry
    BY <1>2 DEF TypeOK
  <2> QED BY <1>2, <2>1, MarkedShape
<1>4. bridges \subseteq Beacons
  BY <1>2, <1>3 DEF ToBridge, Nonces
<1>5. Learned(b, m) \in [Beacons -> Address]
  BY <1>2 DEF Learned, TypeOK, Address
<1> HIDE DEF after, bridges, b, awaited
<1>6. /\ DOMAIN registry' = Beacons
      /\ \A c \in Beacons : /\ DOMAIN registry'[c] \subseteq Beacons \ {c}
                            /\ \A i \in DOMAIN registry'[c] : registry'[c][i] \in Entry
  BY <1>1, <1>2, <1>3, ListTypes
<1>7. \A d \in network' : d \in Datagram
  BY <1>1 DEF Reply, TypeOK
<1>8. pending' \in [Beacons -> SUBSET Nonces]
  BY <1>1, AwaitedFits DEF TypeOK
<1>9. bridged' \in [Beacons -> SUBSET Beacons] /\ addrs' \in [Beacons -> [Beacons -> Address]]
  BY <1>1, <1>2, <1>4, <1>5, BridgedFits DEF TypeOK
<1> QED BY <1>1, <1>6, <1>7, <1>8, <1>9 DEF TypeOK

LEMMA RestartTypes ==
    ASSUME TypeOK, NEW b \in Beacons, Crash(b) \/ Restart(b) \/ CloseFirewall(b)
    PROVE  TypeOK'
<1>1. now \in Time
  BY NowFits
<1>2. CASE Crash(b)
  <2>1. crashes' \in 0 .. scenario.crashes
    BY <1>2, FederationAssumption DEF Crash, TypeOK
  <2>2. died' \in [Beacons -> Time \cup {Never}] /\ up' \subseteq scenario.beacons
    BY <1>1, <1>2 DEF Crash, TypeOK
  <2> QED BY <1>2, <2>1, <2>2 DEF Crash, TypeOK, beaconVars
<1>3. CASE Restart(b)
  <2>1. /\ DOMAIN registry' = Beacons
        /\ \A c \in Beacons : /\ DOMAIN registry'[c] \subseteq Beacons \ {c}
                              /\ \A i \in DOMAIN registry'[c] : registry'[c][i] \in Entry
    <3>1. registry' = [registry EXCEPT ![b] = NoBeacons] /\ DOMAIN NoBeacons = {}
      BY <1>3 DEF Restart, NoBeacons
    <3> HIDE DEF NoBeacons
    <3> QED BY <3>1, ListTypes
  <2>2. /\ died' \in [Beacons -> Time \cup {Never}] /\ restarted' \in [Beacons -> Time \cup {Never}]
        /\ announced' \in [Beacons -> BOOLEAN] /\ spent' \in [Beacons -> SUBSET Advert]
        /\ pending' \in [Beacons -> SUBSET Nonces] /\ bridged' \in [Beacons -> SUBSET Beacons]
    BY <1>1, <1>3 DEF Restart, TypeOK
  <2>3. addrs' \in [Beacons -> [Beacons -> Address]]
    BY <1>3 DEF Restart, TypeOK, FreshAddrs, Address
  <2>4. up' \subseteq scenario.beacons
    BY <1>3 DEF Restart, TypeOK
  <2> QED BY <1>3, <2>1, <2>2, <2>3, <2>4 DEF Restart, TypeOK
<1>4. CASE CloseFirewall(b)
  <2>1. closed' \in [Beacons -> Time \cup {Never}]
    BY <1>1, <1>4 DEF CloseFirewall, TypeOK
  <2> QED BY <1>4, <2>1 DEF CloseFirewall, TypeOK, beaconVars
<1> QED BY <1>2, <1>3, <1>4

LEMMA AdvanceTypes ==
    ASSUME TypeOK, Advance
    PROVE  TypeOK'
<1>1. now' \in 0 .. scenario.time
  BY FederationAssumption DEF Advance, TypeOK
<1>2. pending' \in [Beacons -> SUBSET Nonces]
  BY AwaitedFits DEF Advance, TypeOK
<1>3. spent' \in [Beacons -> SUBSET Advert] /\ \A d \in network' : d \in Datagram
  BY DEF Advance, TypeOK
<1> QED BY <1>1, <1>2, <1>3 DEF Advance, TypeOK

(* The shape of the state, whatever the beacons and the scenario: no       *)
(* beacon lists itself, and adverts and nonces are of beacons.             *)
LEMMA TypesStay == TypeOK /\ [Next]_vars => TypeOK'
<1> SUFFICES ASSUME TypeOK, [Next]_vars PROVE TypeOK'
  OBVIOUS
<1>1. CASE UNCHANGED vars
  BY <1>1 DEF vars, beaconVars, TypeOK
<1> QED BY <1>1, AnnounceTypes, TickTypes, GossipTypes, PingTypes, PongTypes, RestartTypes, AdvanceTypes DEF Next

-----------------------------------------------------------------------------
(* The clocks, the pongs and the lists, action by action.                  *)

LEMMA IntFields ==
    ASSUME TypeOK
    PROVE  /\ now \in Int /\ MaxDelay \in Int /\ MaxDelay >= 0
           /\ BeaconTTL \in Int /\ ReachableTTL \in Int /\ BeaconTTL >= 1 /\ ReachableTTL >= 1
           /\ \A m \in network : m.at \in Int /\ m.from \in Beacons /\ m.to \in Beacons
           /\ \A b \in Beacons : died[b] \in Int /\ restarted[b] \in Int
           /\ \A b \in Beacons : \A i \in DOMAIN registry[b] :
                /\ i \in Beacons
                /\ registry[b][i].seen \in Int /\ registry[b][i].pong \in Int /\ registry[b][i].ts \in Int
<1>1. now \in Int /\ Time \subseteq Int /\ Never \in Int
  BY NowFits DEF Never
<1>2. \A m \in network : m.at \in Int /\ m.from \in Beacons /\ m.to \in Beacons
  BY <1>1, DatagramFields DEF TypeOK
<1>3. \A b \in Beacons : died[b] \in Int /\ restarted[b] \in Int
  BY <1>1 DEF TypeOK
<1>4. \A b \in Beacons : \A i \in DOMAIN registry[b] :
            /\ i \in Beacons
            /\ registry[b][i].seen \in Int /\ registry[b][i].pong \in Int /\ registry[b][i].ts \in Int
  <2> TAKE b \in Beacons
  <2> TAKE i \in DOMAIN registry[b]
  <2>1. registry[b][i] \in Entry /\ i \in Beacons
    BY DEF TypeOK
  <2> QED BY <1>1, <2>1 DEF Entry
<1> QED BY <1>1, <1>2, <1>3, <1>4, FederationAssumption

PingOfNow(d) == d.at = now /\ d.kind = "ping" /\ d.nonce.id = d.to

LEMMA SentNow ==
    ASSUME NEW b, NEW c
    PROVE  /\ \A blobs : \A d \in SendBlobs(b, c, blobs) : d.at = now /\ d.kind = "gossip"
           /\ \A probe : PingOfNow(Ping(b, c, Nonce(c, probe)))
<1>1. ASSUME NEW blobs, NEW d \in SendBlobs(b, c, blobs) PROVE d.at = now /\ d.kind = "gossip"
  <2>1. PICK g \in Groups(blobs) : d = Gossip(b, c, g)
    BY DEF SendBlobs
  <2> QED BY <2>1 DEF Gossip
<1>2. ASSUME NEW probe
      PROVE  PingOfNow(Ping(b, c, Nonce(c, probe)))
  BY DEF Ping, Nonce, PingOfNow
<1> QED BY <1>1, <1>2

LEMMA AgeFits ==
    ASSUME TypeOK, NEW b
    PROVE  AgeLimit(b, BeaconTTL) \in Nat /\ AgeLimit(b, ReachableTTL) \in Nat
<1>1. BeaconTTL \in Nat /\ ReachableTTL \in Nat
  BY FederationAssumption
<1>2. CASE b \in rounds
  BY <1>1, <1>2 DEF AgeLimit
<1>3. CASE b \notin rounds
  BY <1>1, <1>3 DEF AgeLimit
<1> QED BY <1>2, <1>3

LEMMA AgeStays ==
    ASSUME UNCHANGED << rounds, announced >>, NEW b
    PROVE  /\ AgeLimit(b, BeaconTTL)' = AgeLimit(b, BeaconTTL)
           /\ AgeLimit(b, ReachableTTL)' = AgeLimit(b, ReachableTTL)
BY DEF AgeLimit, Silent

\* Datagrams sent now are on time, and the pongs among them are of the living.
LEMMA WireStays ==
    ASSUME IInv, NEW sent, network' \subseteq network \cup sent, UNCHANGED << now, up, died >>,
           \A d \in sent :
                /\ d.at = now
                /\ d.kind = "ping" => d.nonce.id = d.to
                /\ d.kind = "pong" => d.nonce.id = d.from /\ d.from \in up
    PROVE  WireClock' /\ PongInv'
<1>1. now \in Int /\ MaxDelay \in Int /\ MaxDelay >= 0
  BY IntFields DEF IInv
<1>2. WireClock'
  BY <1>1 DEF IInv, ClockInv, WireClock
<1>3. PongInv'
  BY DEF IInv, PongInv
<1> QED BY <1>2, <1>3

\* The list of one beacon changes, which may also end its round.
LEMMA ListStays ==
    ASSUME IInv, TypeOK', NEW b \in up, NEW list,
           \A c \in Beacons : registry'[c] = (IF c = b THEN list ELSE registry[c]),
           UNCHANGED << scenario, now, up, died, restarted >>,
           \A c \in Beacons \ {b} : (c \in rounds' <=> c \in rounds) /\ announced'[c] = announced[c],
           \A i \in DOMAIN list :
                /\ Past(list[i])
                /\ Young(list[i], i, AgeLimit(b, BeaconTTL)', AgeLimit(b, ReachableTTL)')
    PROVE  ListClock' /\ ListInv'
<1>1. b \in Beacons /\ b \in scenario.beacons /\ up \subseteq Beacons
  BY FederationAssumption DEF IInv, TypeOK
<1>2. \A c \in Beacons \ {b} : /\ AgeLimit(c, BeaconTTL)' = AgeLimit(c, BeaconTTL)
                              /\ AgeLimit(c, ReachableTTL)' = AgeLimit(c, ReachableTTL)
  BY DEF AgeLimit, Silent
<1>3. ListClock'
  BY <1>1 DEF IInv, ClockInv, ListClock, Past
<1>4. \A c \in Beacons \ scenario'.beacons : DOMAIN registry'[c] = {}
  BY <1>1 DEF IInv, ListInv
<1>5. ASSUME NEW c \in up', NEW i \in DOMAIN registry'[c]
      PROVE  Young(registry[c][i], i, AgeLimit(c, BeaconTTL), AgeLimit(c, ReachableTTL))'
  <2>1. CASE c = b
    BY <1>1, <2>1 DEF Young
  <2>2. CASE c # b
    <3>1. c \in up /\ c \in Beacons \ {b} /\ registry'[c] = registry[c]
      BY <1>1, <2>2
    <3>2. Young(registry[c][i], i, AgeLimit(c, BeaconTTL), AgeLimit(c, ReachableTTL))
      BY <1>5, <3>1 DEF IInv, ListInv
    <3> QED BY <1>2, <3>1, <3>2 DEF Young
  <2> QED BY <2>1, <2>2
<1> QED BY <1>3, <1>4, <1>5 DEF ListInv

LEMMA AnnounceKeeps ==
    ASSUME IInv, TypeOK', NEW b \in Beacons, Announce(b)
    PROVE  IInv'
<1> DEFINE sent == {Gossip(b, c, {[id |-> b, ts |-> now]}) : c \in {g \in {Genesis} : Routed(addrs[b][g], g)}}
           list == registry[b]
<1>1. /\ Transmit(sent) /\ announced' = [announced EXCEPT ![b] = TRUE] /\ rounds' = rounds \cup {b}
      /\ UNCHANGED << scenario, now, up, registry, died, restarted >>
      /\ b \in up \ rounds /\ Silent(b) /\ b # Genesis
  BY DEF Announce, Silent
<1>2. \A d \in sent : d.at = now /\ d.kind = "gossip"
  BY DEF Gossip
<1> HIDE DEF sent
<1>3. network' \subseteq network \cup sent
  BY <1>1 DEF Transmit
<1>4. WireClock' /\ PongInv'
  BY <1>1, <1>2, <1>3, WireStays
<1>5. ~ Silent(b)' /\ b \in rounds'
  BY <1>1 DEF Silent, IInv, TypeOK
<1>6. ASSUME NEW i \in DOMAIN list
      PROVE  Past(list[i]) /\ Young(list[i], i, AgeLimit(b, BeaconTTL)', AgeLimit(b, ReachableTTL)')
  <2>1. Past(list[i]) /\ Young(list[i], i, 1, 1)
    BY <1>1 DEF IInv, ClockInv, ListClock, ListInv, AgeLimit
  <2>2. now - list[i].seen <= BeaconTTL /\ (now - list[i].pong <= 1 => now - list[i].pong <= ReachableTTL)
    BY <2>1, IntFields DEF IInv, Young
  <2>3. AgeLimit(b, BeaconTTL)' = BeaconTTL /\ AgeLimit(b, ReachableTTL)' = ReachableTTL
    BY <1>5, IntFields DEF IInv, AgeLimit
  <2> QED BY <2>1, <2>2, <2>3 DEF Young
<1>7. /\ \A c \in Beacons : registry'[c] = (IF c = b THEN list ELSE registry[c])
      /\ \A c \in Beacons \ {b} : (c \in rounds' <=> c \in rounds) /\ announced'[c] = announced[c]
  BY <1>1 DEF IInv, TypeOK
<1> HIDE DEF list
<1>8. ListClock' /\ ListInv'
  BY <1>1, <1>6, <1>7, ListStays
<1>9. HistoryClock'
  BY <1>1 DEF IInv, ClockInv, HistoryClock
<1> QED BY <1>4, <1>8, <1>9 DEF IInv, ClockInv

LEMMA TickKeeps ==
    ASSUME IInv, TypeOK', NEW b \in Beacons, Tick(b)
    PROVE  IInv'
<1> DEFINE known == registry[b]
           blobs == {[id |-> b, ts |-> now]} \cup {[id |-> i, ts |-> known[i].ts] : i \in DOMAIN known}
           targets == DOMAIN known \cup ({Genesis} \ {b})
           reach == {c \in targets : Routed(addrs[b][c], c)}
           sent == (UNION {SendBlobs(b, c, blobs) : c \in reach})
                    \cup {Ping(b, c, Nonce(c, FALSE)) : c \in reach \cap DOMAIN known}
           list == Expired(known)
<1>1. /\ Transmit(sent) /\ registry' = [registry EXCEPT ![b] = list] /\ rounds' = rounds \cup {b}
      /\ UNCHANGED << scenario, now, up, announced, died, restarted >>
      /\ b \in up \ rounds /\ (b = Genesis \/ announced[b])
  BY DEF Tick
<1>2. \A d \in sent : d.at = now /\ (d.kind = "ping" => d.nonce.id = d.to) /\ d.kind # "pong"
  <2>1. ASSUME NEW c, NEW d \in SendBlobs(b, c, blobs) PROVE d.at = now /\ d.kind = "gossip"
    BY SentNow
  <2>2. ASSUME NEW c PROVE PingOfNow(Ping(b, c, Nonce(c, FALSE)))
    BY SentNow
  <2> HIDE DEF blobs, reach, known
  <2> QED BY <2>1, <2>2 DEF PingOfNow
<1> HIDE DEF sent
<1>3. network' \subseteq network \cup sent
  BY <1>1 DEF Transmit
<1>4. WireClock' /\ PongInv'
  BY <1>1, <1>2, <1>3, WireStays
<1>5. /\ AgeLimit(b, BeaconTTL)' = BeaconTTL /\ AgeLimit(b, ReachableTTL)' = ReachableTTL
      /\ \A c \in Beacons \ {b} : (c \in rounds' <=> c \in rounds) /\ announced'[c] = announced[c]
  BY <1>1, IntFields DEF IInv, AgeLimit, Silent
<1>6. ASSUME NEW i \in DOMAIN list
      PROVE  Past(list[i]) /\ Young(list[i], i, BeaconTTL, ReachableTTL)
  <2>1. \A j \in DOMAIN known : known[j] \in Entry
    BY DEF IInv, TypeOK
  <2> HIDE DEF known
  <2>2. /\ i \in DOMAIN known /\ now - known[i].seen <= BeaconTTL
        /\ list[i].ts = known[i].ts /\ list[i].seen = known[i].seen /\ list[i].pong = known[i].pong
        /\ list[i].reachable =>
                known[i].reachable /\ (known[i].pong = Never \/ now - known[i].pong <= ReachableTTL)
    BY <2>1, ExpiredShape, NowFits DEF IInv
  <2> HIDE DEF list
  <2>3. Past(known[i]) /\ Young(known[i], i, AgeLimit(b, BeaconTTL), AgeLimit(b, ReachableTTL))
    BY <1>1, <2>2 DEF known, IInv, ClockInv, ListClock, ListInv
  <2> QED BY <2>2, <2>3 DEF Past, Young
<1>7. \A c \in Beacons : registry'[c] = (IF c = b THEN list ELSE registry[c])
  BY <1>1 DEF IInv, TypeOK
<1> HIDE DEF list
<1>8. ListClock' /\ ListInv'
  BY <1>1, <1>5, <1>6, <1>7, ListStays
<1>9. HistoryClock'
  BY <1>1 DEF IInv, ClockInv, HistoryClock
<1> QED BY <1>4, <1>8, <1>9 DEF IInv, ClockInv

LEMMA GossipKeeps ==
    ASSUME IInv, TypeOK', NEW m \in network, OnGossip(m)
    PROVE  IInv'
<1> DEFINE b     == m.to
           fresh == Fresh(b, m.blobs)
           known == registry[b]
           list  == Recorded(known, fresh)
           new   == DOMAIN list \ DOMAIN known
           addressed == [c \in Beacons |->
               IF c \in {a.id : a \in fresh} THEN "advertised" ELSE Learned(b, m)[c]]
           sent == {Ping(b, c, Nonce(c, TRUE)) : c \in {i \in new : Routed(addressed[i], i)}}
<1>1. /\ registry' = [registry EXCEPT ![b] = list] /\ Reply(m, sent) /\ b \in up
      /\ UNCHANGED << scenario, now, up, rounds, announced, died, restarted >>
  BY DEF OnGossip
<1>2. \A d \in sent : d.at = now /\ d.kind = "ping" /\ d.nonce.id = d.to
  <2> SUFFICES ASSUME NEW c \in new PROVE PingOfNow(Ping(b, c, Nonce(c, TRUE)))
    BY DEF PingOfNow
  <2> QED BY SentNow
<1>3. /\ b \in Beacons /\ m.blobs \in SUBSET Advert
      /\ \A i \in DOMAIN known : known[i] \in Entry /\ known[i].ts \in Time
  BY DatagramFields DEF OnGossip, IInv, TypeOK, Entry
<1>4. fresh \subseteq Advert
  BY <1>3 DEF Fresh
<1> HIDE DEF sent, new, addressed, list, known
<1>5. network' \subseteq network \cup sent
  BY <1>1 DEF Reply
<1>6. WireClock' /\ PongInv'
  BY <1>1, <1>2, <1>5, WireStays
<1>7. /\ AgeLimit(b, BeaconTTL)' = AgeLimit(b, BeaconTTL) /\ AgeLimit(b, ReachableTTL)' = AgeLimit(b, ReachableTTL)
      /\ AgeLimit(b, BeaconTTL) \in Int /\ AgeLimit(b, BeaconTTL) >= 0
  BY <1>1, AgeStays, AgeFits DEF IInv
<1>8. Recording(list, known, fresh)
  BY <1>3, <1>4, RecordedShape DEF list
<1>9. ASSUME NEW i \in DOMAIN list
      PROVE  Past(list[i]) /\ Young(list[i], i, AgeLimit(b, BeaconTTL)', AgeLimit(b, ReachableTTL)')
  <2>1. ASSUME i \in DOMAIN known
        PROVE  Past(known[i]) /\ Young(known[i], i, AgeLimit(b, BeaconTTL), AgeLimit(b, ReachableTTL))
    BY <1>1, <1>3, <2>1 DEF known, IInv, ClockInv, ListClock, ListInv
  <2>2. CASE i \in DOMAIN known /\ list[i] = known[i]
    BY <1>3, <1>7, <2>1, <2>2
  <2>3. CASE \E a \in fresh : list[i] = [ts |-> a.ts, seen |-> now,
                           reachable |-> i \in DOMAIN known /\ known[i].reachable,
                           pong |-> IF i \in DOMAIN known THEN known[i].pong ELSE Never]
    <3>1. /\ list[i].seen = now
          /\ list[i].reachable => i \in DOMAIN known /\ known[i].reachable
          /\ list[i].pong = IF i \in DOMAIN known THEN known[i].pong ELSE Never
      <4>1. PICK a \in fresh : list[i] = [ts |-> a.ts, seen |-> now,
                           reachable |-> i \in DOMAIN known /\ known[i].reachable,
                           pong |-> IF i \in DOMAIN known THEN known[i].pong ELSE Never]
        BY <2>3
      <4>2. /\ list[i].seen = now
            /\ list[i].reachable = (i \in DOMAIN known /\ known[i].reachable)
            /\ list[i].pong = IF i \in DOMAIN known THEN known[i].pong ELSE Never
        BY <4>1
      <4> QED BY <4>2, Zenon
    <3>2. now \in Int /\ now >= 0 /\ now - now = 0 /\ now >= Never
      BY NowFits DEF IInv, Time, Never
    <3> HIDE DEF Never
    <3>3. Past(list[i])
      BY <2>1, <3>1, <3>2 DEF Past
    <3>4. list[i].reachable => Young(known[i], i, AgeLimit(b, BeaconTTL), AgeLimit(b, ReachableTTL))
                               /\ known[i].reachable /\ list[i].pong = known[i].pong
      BY <2>1, <3>1
    <3>5. Young(list[i], i, AgeLimit(b, BeaconTTL), AgeLimit(b, ReachableTTL))
      BY <1>7, <3>1, <3>2, <3>4 DEF Young
    <3> QED BY <1>7, <3>3, <3>5
  <2> QED BY <1>8, <2>2, <2>3 DEF Recording
<1>10. /\ \A c \in Beacons : registry'[c] = (IF c = b THEN list ELSE registry[c])
       /\ \A c \in Beacons \ {b} : (c \in rounds' <=> c \in rounds) /\ announced'[c] = announced[c]
  BY <1>1 DEF IInv, TypeOK
<1> HIDE DEF b
<1>11. ListClock' /\ ListInv'
  BY <1>1, <1>9, <1>10, ListStays
<1>12. HistoryClock'
  BY <1>1 DEF IInv, ClockInv, HistoryClock
<1> QED BY <1>6, <1>11, <1>12 DEF IInv, ClockInv

LEMMA PingKeeps ==
    ASSUME IInv, TypeOK', NEW m \in network, OnPing(m)
    PROVE  IInv'
<1> DEFINE pong == Pong(m.to, m.from, m.nonce)
<1>1. /\ network' \subseteq network \cup {pong} /\ m.to \in up
      /\ UNCHANGED << scenario, now, up, rounds, announced, registry, died, restarted >>
      /\ m.kind = "ping"
  BY DEF OnPing, Reply
<1>2. \A d \in {pong} : /\ d.at = now /\ (d.kind = "ping" => d.nonce.id = d.to)
                        /\ d.kind = "pong" => d.nonce.id = d.from /\ d.from \in up
  BY <1>1 DEF Pong, IInv, PongInv
<1> HIDE DEF pong
<1>3. WireClock' /\ PongInv'
  BY <1>1, <1>2, WireStays
<1>4. ListClock' /\ ListInv' /\ HistoryClock'
  BY <1>1 DEF IInv, ClockInv, ListClock, Past, HistoryClock, ListInv, Young, AgeLimit, Silent
<1> QED BY <1>3, <1>4 DEF IInv, ClockInv

LEMMA PongKeeps ==
    ASSUME IInv, TypeOK', NEW m \in network, OnPong(m)
    PROVE  IInv'
<1> DEFINE b     == m.to
           known == registry[b]
           list  == IF m.nonce \in pending[b] THEN MarkedReachable(known, m.nonce.id) ELSE known
           none  == {}
<1>1. /\ registry' = [registry EXCEPT ![b] = list] /\ network' \subseteq network \cup none /\ b \in up
      /\ UNCHANGED << scenario, now, up, rounds, announced, died, restarted >>
      /\ m.kind = "pong"
  BY DEF OnPong, Reply
<1>2. WireClock' /\ PongInv'
  <2>1. \A d \in none : /\ d.at = now /\ (d.kind = "ping" => d.nonce.id = d.to)
                        /\ d.kind = "pong" => d.nonce.id = d.from /\ d.from \in up
    OBVIOUS
  <2> HIDE DEF none
  <2> QED BY <1>1, <2>1, WireStays
<1>3. b \in Beacons /\ \A i \in DOMAIN known : known[i] \in Entry
  BY DatagramFields DEF IInv, TypeOK
<1>4. ASSUME NEW i \in DOMAIN known
      PROVE  Past(known[i]) /\ Young(known[i], i, AgeLimit(b, BeaconTTL), AgeLimit(b, ReachableTTL))
  BY <1>1, <1>3 DEF IInv, ClockInv, ListClock, ListInv
<1>5. /\ now \in Int /\ m.at \in Int /\ died[m.from] \in Int /\ MaxDelay \in Int
      /\ now # Never /\ now - now = 0
      /\ AgeLimit(b, ReachableTTL) >= 0
      /\ m.from \in up \/ now - MaxDelay <= died[m.from]
  <2>1. now \in Int /\ m.at \in Int /\ died[m.from] \in Int /\ MaxDelay \in Int
    BY IntFields DEF IInv
  <2>2. now # Never
    BY NowFits DEF IInv, Time, Never
  <2>3. now <= m.at + MaxDelay /\ (m.from \in up \/ m.at <= died[m.from])
    BY <1>1 DEF IInv, ClockInv, WireClock, PongInv
  <2>4. AgeLimit(b, ReachableTTL) >= 0
    BY AgeFits DEF IInv
  <2> QED BY <2>1, <2>2, <2>3, <2>4
<1> HIDE DEF known
<1>6. ASSUME NEW i \in DOMAIN list
      PROVE  Past(list[i]) /\ Young(list[i], i, AgeLimit(b, BeaconTTL), AgeLimit(b, ReachableTTL))
  <2> DEFINE id == m.nonce.id
             marked == MarkedReachable(known, id)
  <2>1. CASE i \in DOMAIN known /\ list[i] = known[i]
    BY <1>4, <2>1
  <2>2. CASE i \in DOMAIN known /\ list[i] # known[i]
    <3>1. list = marked
      BY <2>2
    <3>2. now \in Time
      BY NowFits DEF IInv
    <3>3. i = id /\ marked[i].seen = known[i].seen /\ marked[i].reachable /\ marked[i].pong = now
      BY <1>3, <2>2, <3>1, <3>2, MarkedShape
    <3>4. id = m.from
      BY <1>1 DEF IInv, PongInv
    <3>5. /\ Past(known[i]) /\ Young(known[i], i, AgeLimit(b, BeaconTTL), AgeLimit(b, ReachableTTL))
      BY <1>4, <2>2
    <3> HIDE DEF marked, list, id
    <3> QED BY <1>5, <3>1, <3>3, <3>4, <3>5 DEF Past, Young
  <2>3. DOMAIN list = DOMAIN known
    BY DEF MarkedReachable
  <2> QED BY <2>1, <2>2, <2>3
<1>7. /\ \A c \in Beacons : registry'[c] = (IF c = b THEN list ELSE registry[c])
      /\ \A c \in Beacons \ {b} : (c \in rounds' <=> c \in rounds) /\ announced'[c] = announced[c]
      /\ AgeLimit(b, BeaconTTL)' = AgeLimit(b, BeaconTTL) /\ AgeLimit(b, ReachableTTL)' = AgeLimit(b, ReachableTTL)
  BY <1>1, AgeStays DEF known, IInv, TypeOK
<1> HIDE DEF b, list
<1>8. ListClock' /\ ListInv'
  BY <1>1, <1>6, <1>7, ListStays
<1>9. HistoryClock'
  BY <1>1 DEF IInv, ClockInv, HistoryClock
<1> QED BY <1>2, <1>8, <1>9 DEF IInv, ClockInv

LEMMA CrashKeeps ==
    ASSUME IInv, TypeOK', NEW b \in Beacons, Crash(b)
    PROVE  IInv'
<1>1. /\ up' = up \ {b} /\ died' = [died EXCEPT ![b] = now]
      /\ UNCHANGED << scenario, now, rounds, announced, registry, network, restarted >>
  BY DEF Crash, beaconVars
<1>2. \A c \in Beacons : died'[c] = IF c = b THEN now ELSE died[c]
  BY <1>1 DEF IInv, TypeOK
<1>3. WireClock' /\ ListClock' /\ HistoryClock'
  <2>1. now <= now
    BY IntFields DEF IInv
  <2> QED BY <1>1, <1>2, <2>1 DEF IInv, ClockInv, WireClock, ListClock, HistoryClock, Past
<1>4. PongInv'
  <2>1. \A m \in network : m.from \in Beacons /\ m.at <= now
    BY IntFields DEF IInv, ClockInv, WireClock
  <2> QED BY <1>1, <1>2, <2>1 DEF IInv, PongInv
<1>5. \A c \in Beacons \ scenario'.beacons : DOMAIN registry'[c] = {}
  BY <1>1 DEF IInv, ListInv
<1>6. ASSUME NEW c \in up', NEW i \in DOMAIN registry'[c]
      PROVE  Young(registry[c][i], i, AgeLimit(c, BeaconTTL), AgeLimit(c, ReachableTTL))'
  <2>1. c \in up /\ c \in Beacons /\ registry'[c] = registry[c] /\ i \in Beacons
    BY <1>1, FederationAssumption DEF IInv, TypeOK
  <2>2. /\ Young(registry[c][i], i, AgeLimit(c, BeaconTTL), AgeLimit(c, ReachableTTL))
        /\ registry[c][i].pong <= now
    BY <1>6, <2>1 DEF IInv, ListInv, ClockInv, ListClock, Past
  <2>3. registry[c][i].pong - MaxDelay <= now
    BY <1>6, <2>1, <2>2, IntFields DEF IInv
  <2>4. /\ AgeLimit(c, BeaconTTL)' = AgeLimit(c, BeaconTTL)
        /\ AgeLimit(c, ReachableTTL)' = AgeLimit(c, ReachableTTL)
    BY <1>1, AgeStays
  <2> QED BY <1>1, <1>2, <2>1, <2>2, <2>3, <2>4 DEF Young
<1> QED BY <1>3, <1>4, <1>5, <1>6 DEF IInv, ClockInv, ListInv

LEMMA RestartKeeps ==
    ASSUME IInv, TypeOK', NEW b \in Beacons, Restart(b)
    PROVE  IInv'
<1>1. /\ b \in scenario.beacons \ up /\ up' = up \cup {b}
      /\ died' = [died EXCEPT ![b] = Never] /\ restarted' = [restarted EXCEPT ![b] = now]
      /\ announced' = [announced EXCEPT ![b] = FALSE]
      /\ registry' = [registry EXCEPT ![b] = NoBeacons]
      /\ UNCHANGED << scenario, now, rounds, network >>
  BY DEF Restart
<1>2. \A c \in Beacons : /\ died'[c] = IF c = b THEN Never ELSE died[c]
                         /\ restarted'[c] = IF c = b THEN now ELSE restarted[c]
                         /\ registry'[c] = IF c = b THEN NoBeacons ELSE registry[c]
                         /\ announced'[c] = IF c = b THEN FALSE ELSE announced[c]
  BY <1>1 DEF IInv, TypeOK
<1>3. DOMAIN NoBeacons = {}
  BY DEF NoBeacons
<1>4. now <= now /\ Never <= now
  BY NowFits DEF IInv, Time, Never
<1> HIDE DEF NoBeacons, Never
<1>5. WireClock' /\ ListClock' /\ HistoryClock'
  BY <1>1, <1>2, <1>3, <1>4 DEF IInv, ClockInv, WireClock, ListClock, HistoryClock, Past
<1>6. PongInv'
  <2>1. \A m \in network : m.from \in Beacons
    BY IntFields DEF IInv
  <2> QED BY <1>1, <1>2, <2>1 DEF IInv, PongInv
<1>7. \A c \in Beacons \ scenario'.beacons : DOMAIN registry'[c] = {}
  BY <1>1, <1>2 DEF IInv, ListInv
<1>8. ASSUME NEW c \in up', NEW i \in DOMAIN registry'[c]
      PROVE  Young(registry[c][i], i, AgeLimit(c, BeaconTTL), AgeLimit(c, ReachableTTL))'
  <2>1. c # b /\ c \in up /\ c \in Beacons /\ registry'[c] = registry[c] /\ i \in Beacons
    <3>1. c \in Beacons
      BY <1>1, FederationAssumption DEF IInv, TypeOK
    <3>2. c # b
      BY <1>2, <1>3, <1>8, <3>1
    <3>3. c \in up /\ registry'[c] = registry[c]
      BY <1>1, <1>2, <3>1, <3>2
    <3>4. i \in Beacons
      BY <1>8, <3>1, <3>3, IntFields DEF IInv
    <3> QED BY <3>1, <3>2, <3>3, <3>4
  <2>2. Young(registry[c][i], i, AgeLimit(c, BeaconTTL), AgeLimit(c, ReachableTTL))
    BY <1>8, <2>1 DEF IInv, ListInv
  <2>3. /\ AgeLimit(c, BeaconTTL)' = AgeLimit(c, BeaconTTL)
        /\ AgeLimit(c, ReachableTTL)' = AgeLimit(c, ReachableTTL)
    BY <1>1, <1>2, <2>1 DEF AgeLimit, Silent
  <2> QED BY <1>1, <1>2, <2>1, <2>2, <2>3 DEF Young
<1> QED BY <1>5, <1>6, <1>7, <1>8 DEF IInv, ClockInv, ListInv

LEMMA StillKeeps ==
    ASSUME IInv, TypeOK', UNCHANGED << scenario, now, up, rounds, announced, registry, network, died, restarted >>
    PROVE  IInv'
BY DEF IInv, ClockInv, WireClock, HistoryClock, ListClock, Past, PongInv, ListInv, Young, AgeLimit, Silent

LEMMA AdvanceKeeps ==
    ASSUME IInv, TypeOK', Advance
    PROVE  IInv'
<1>1. /\ now' = now + 1 /\ rounds' = {} /\ up \subseteq rounds
      /\ network' = {m \in network : now' - m.at <= MaxDelay}
      /\ UNCHANGED << scenario, up, announced, registry, died, restarted >>
  BY DEF Advance
<1>2. now \in Int /\ MaxDelay \in Int
  BY IntFields DEF IInv
<1>3. WireClock'
  <2> SUFFICES ASSUME NEW m \in network' PROVE m.at <= now' /\ now' <= m.at + MaxDelay
    BY <1>1, <1>2 DEF WireClock
  <2>1. m \in network /\ m.at \in Int /\ m.at <= now /\ now' - m.at <= MaxDelay
    BY <1>1, IntFields DEF IInv, ClockInv, WireClock
  <2> QED BY <1>1, <1>2, <2>1
<1>4. HistoryClock'
  <2> SUFFICES ASSUME NEW b \in Beacons PROVE restarted[b] <= now + 1 /\ died[b] <= now + 1
    BY <1>1 DEF HistoryClock
  <2>1. restarted[b] \in Int /\ died[b] \in Int /\ restarted[b] <= now /\ died[b] <= now
    BY IntFields DEF IInv, ClockInv, HistoryClock
  <2> QED BY <1>2, <2>1
<1>5. ListClock'
  <2> SUFFICES ASSUME NEW b \in Beacons, NEW i \in DOMAIN registry[b] PROVE Past(registry[b][i])'
    BY <1>1 DEF ListClock
  <2>1. registry[b][i].seen \in Int /\ registry[b][i].pong \in Int /\ Past(registry[b][i])
    BY IntFields DEF IInv, ClockInv, ListClock
  <2> QED BY <1>1, <1>2, <2>1 DEF Past
<1>6. PongInv'
  BY <1>1 DEF IInv, PongInv
<1>7. ASSUME NEW c \in up', NEW i \in DOMAIN registry'[c]
      PROVE  Young(registry[c][i], i, AgeLimit(c, BeaconTTL), AgeLimit(c, ReachableTTL))'
  <2>1. c \in up /\ c \in Beacons /\ c \in rounds /\ registry'[c] = registry[c]
    BY <1>1, FederationAssumption DEF IInv, TypeOK
  <2>2. /\ registry[c][i].seen \in Int /\ registry[c][i].pong \in Int
        /\ Young(registry[c][i], i, AgeLimit(c, BeaconTTL), AgeLimit(c, ReachableTTL))
    BY <1>7, <2>1, IntFields DEF IInv, ListInv
  <2>3. /\ AgeLimit(c, BeaconTTL) \in Int /\ AgeLimit(c, BeaconTTL)' = AgeLimit(c, BeaconTTL) + 1
        /\ AgeLimit(c, ReachableTTL) \in Int /\ AgeLimit(c, ReachableTTL)' = AgeLimit(c, ReachableTTL) + 1
    <3>1. BeaconTTL \in Int /\ ReachableTTL \in Int
      BY FederationAssumption
    <3> QED BY <1>1, <2>1, <3>1 DEF AgeLimit, Silent
  <2> QED BY <1>1, <1>2, <2>1, <2>2, <2>3 DEF Young
<1>8. \A c \in Beacons \ scenario'.beacons : DOMAIN registry'[c] = {}
  BY <1>1 DEF IInv, ListInv
<1> QED BY <1>3, <1>4, <1>5, <1>6, <1>7, <1>8 DEF IInv, ClockInv, ListInv

LEMMA Starts == Init => IInv
<1> SUFFICES ASSUME Init PROVE IInv
  OBVIOUS
<1>1. 0 \in Time /\ 0 \in 0 .. scenario.time /\ 0 \in 0 .. scenario.crashes
  BY TimeIsBounded, FederationAssumption DEF Init, Time
<1>2. DOMAIN NoBeacons = {}
  BY DEF NoBeacons
<1> HIDE DEF NoBeacons
<1>3. TypeOK
  <2>1. addrs \in [Beacons -> [Beacons -> Address]]
    BY DEF Init, FreshAddrs, Address
  <2>2. DOMAIN registry = Beacons /\ \A b \in Beacons : DOMAIN registry[b] = {}
    BY <1>2 DEF Init
  <2> QED BY <1>1, <2>1, <2>2 DEF Init, TypeOK
<1>4. ClockInv /\ PongInv /\ ListInv
  <2>1. network = {} /\ \A b \in Beacons : DOMAIN registry[b] = {} /\ died[b] = Never /\ restarted[b] = Never
    BY <1>2 DEF Init
  <2>2. Never <= now
    BY DEF Init, Never
  <2>3. up \subseteq Beacons
    BY FederationAssumption DEF Init
  <2> QED BY <2>1, <2>2, <2>3 DEF ClockInv, WireClock, HistoryClock, ListClock, PongInv, ListInv
<1> QED BY <1>3, <1>4 DEF IInv

(* The invariant is inductive.                                             *)
LEMMA IInvStays == IInv /\ [Next]_vars => IInv'
<1> SUFFICES ASSUME IInv, [Next]_vars PROVE IInv'
  OBVIOUS
<1>1. TypeOK'
  BY TypesStay DEF IInv
<1>2. CASE UNCHANGED vars
  BY <1>1, <1>2, StillKeeps DEF vars, beaconVars
<1>3. ASSUME NEW b \in Beacons, CloseFirewall(b) PROVE IInv'
  BY <1>1, <1>3, StillKeeps DEF CloseFirewall, beaconVars
<1> QED BY <1>1, <1>2, <1>3, AnnounceKeeps, TickKeeps, GossipKeeps, PingKeeps, PongKeeps,
           CrashKeeps, RestartKeeps, AdvanceKeeps DEF Next

-----------------------------------------------------------------------------
(* The theorems.                                                           *)

(* The inductive invariant holds of every behaviour.                       *)
THEOREM Invariance == Spec => []IInv
BY Starts, IInvStays, PTL DEF Spec

(* The shape of the state, whatever the beacons and the scenario: no       *)
(* beacon lists itself, and what is listed, awaited and sent is of beacons *)
(* (registry, _pending_pings and the datagrams of federation.py).          *)
THEOREM TypesHold == Spec => []TypeOK
<1>1. IInv => TypeOK
  BY DEF IInv
<1> QED BY <1>1, Invariance, PTL

(* reachable is never older than a pong: a beacon that another lists as    *)
(* reachable runs, or crashed no longer ago than REACHABLE_TTL_S, the      *)
(* round in which expire() would notice and the delay of its last pong.    *)
THEOREM ReachableIsRecent == Spec => []ReachableWasUp
<1>1. ASSUME IInv, NEW b \in up, NEW c \in DOMAIN registry[b], registry[b][c].reachable
      PROVE  c \in up \/ now - died[c] <= ReachableTTL + 1 + MaxDelay
  <2>1. b \in Beacons
    BY <1>1, FederationAssumption DEF IInv, TypeOK
  <2>2. Young(registry[b][c], c, AgeLimit(b, BeaconTTL), AgeLimit(b, ReachableTTL))
    BY <1>1 DEF IInv, ListInv
  <2>3. AgeLimit(b, ReachableTTL) \in Int /\ AgeLimit(b, ReachableTTL) <= ReachableTTL + 1
    <3>1. ReachableTTL \in Nat
      BY FederationAssumption
    <3> QED BY <3>1 DEF AgeLimit
  <2>4. /\ now \in Int /\ MaxDelay \in Int /\ ReachableTTL \in Int
        /\ registry[b][c].pong \in Int /\ died[c] \in Int
    BY <1>1, <2>1, IntFields DEF IInv
  <2> HIDE DEF AgeLimit
  <2> QED BY <1>1, <2>2, <2>3, <2>4 DEF Young
<1>2. IInv => ReachableWasUp
  BY <1>1 DEF ReachableWasUp
<1> QED BY <1>2, Invariance, PTL

\* A list that never takes a beacon back to an older advert.
NoOlder(list, known) == \A c \in DOMAIN known \cap DOMAIN list : list[c].ts >= known[c].ts

LEMMA OneListNoOlder ==
    ASSUME TypeOK, NEW b \in Beacons, NEW list, registry' = [registry EXCEPT ![b] = list],
           NoOlder(list, registry[b])
    PROVE  \A c \in Beacons : NoOlder(registry'[c], registry[c])
<1> SUFFICES ASSUME NEW c \in Beacons, NEW i \in DOMAIN registry[c] \cap DOMAIN registry'[c]
             PROVE  registry'[c][i].ts >= registry[c][i].ts
  BY DEF NoOlder
<1>1. registry'[c] = IF c = b THEN list ELSE registry[c]
  BY DEF TypeOK
<1>2. registry[c][i].ts \in Int
  BY IntFields
<1> QED BY <1>1, <1>2 DEF NoOlder

LEMMA StepNoOlder ==
    ASSUME TypeOK, [Next]_vars
    PROVE  \A b \in up \cap up' : NoOlder(registry'[b], registry[b])
<1>1. \A b \in Beacons : \A i \in DOMAIN registry[b] : registry[b][i] \in Entry /\ registry[b][i].ts \in Int
  BY IntFields DEF TypeOK
<1>2. up \subseteq Beacons
  BY FederationAssumption DEF TypeOK
<1>3. CASE UNCHANGED registry
  BY <1>1, <1>2, <1>3 DEF NoOlder
<1>4. ASSUME NEW b \in Beacons, Tick(b) PROVE \A c \in Beacons : NoOlder(registry'[c], registry[c])
  <2> DEFINE known == registry[b]
             list  == Expired(known)
  <2>1. registry' = [registry EXCEPT ![b] = list]
    BY <1>4 DEF Tick
  <2>2. \A i \in DOMAIN known : known[i] \in Entry /\ known[i].ts \in Int
    BY <1>1
  <2>3. \A i \in DOMAIN list : i \in DOMAIN known /\ list[i].ts = known[i].ts
    BY <2>2, NowFits, ExpiredShape
  <2> HIDE DEF list
  <2>4. NoOlder(list, known)
    BY <2>2, <2>3 DEF NoOlder
  <2> QED BY <2>1, <2>4, OneListNoOlder
<1>5. ASSUME NEW m \in network, OnGossip(m) PROVE \A c \in Beacons : NoOlder(registry'[c], registry[c])
  <2> DEFINE b     == m.to
             known == registry[b]
             fresh == Fresh(b, m.blobs)
             list  == Recorded(known, fresh)
  <2>1. registry' = [registry EXCEPT ![b] = list] /\ m.kind = "gossip"
    BY <1>5 DEF OnGossip
  <2>2. b \in Beacons /\ m.blobs \subseteq Advert
    BY <2>1, DatagramFields DEF TypeOK
  <2>3. fresh \subseteq Advert /\ \A i \in DOMAIN known : known[i].ts \in Time /\ known[i].ts \in Int
    BY <1>1, <2>2 DEF Fresh, Entry
  <2> HIDE DEF known, fresh
  <2>4. Recording(list, known, fresh)
    BY <2>3, RecordedShape
  <2> HIDE DEF list
  <2>5. ASSUME NEW i \in DOMAIN list \cap DOMAIN known PROVE list[i].ts >= known[i].ts
    <3>1. CASE list[i] = known[i]
      BY <2>3, <3>1
    <3>2. CASE list[i] # known[i]
      <4>1. PICK a \in fresh :
                /\ a.ts >= known[i].ts
                /\ list[i] = [ts |-> a.ts, seen |-> now,
                              reachable |-> i \in DOMAIN known /\ known[i].reachable,
                              pong |-> IF i \in DOMAIN known THEN known[i].pong ELSE Never]
        BY <2>4, <3>2, Zenon DEF Recording
      <4>2. list[i].ts = a.ts
        BY <4>1
      <4> QED BY <4>1, <4>2
    <3> QED BY <3>1, <3>2
  <2> QED BY <2>1, <2>2, <2>5, OneListNoOlder DEF known, NoOlder
<1>6. ASSUME NEW m \in network, OnPong(m) PROVE \A c \in Beacons : NoOlder(registry'[c], registry[c])
  <2> DEFINE b     == m.to
             known == registry[b]
             list  == IF m.nonce \in pending[b] THEN MarkedReachable(known, m.nonce.id) ELSE known
  <2>1. registry' = [registry EXCEPT ![b] = list]
    BY <1>6 DEF OnPong
  <2>2. b \in Beacons
    BY DatagramFields DEF TypeOK
  <2>3. \A i \in DOMAIN known : known[i] \in Entry /\ known[i].ts \in Int
    BY <1>1, <2>2
  <2>4. \A i \in DOMAIN known : list[i].ts = known[i].ts
    BY <2>3, NowFits, MarkedShape
  <2> HIDE DEF list
  <2>5. NoOlder(list, known)
    BY <2>3, <2>4 DEF NoOlder
  <2> QED BY <2>1, <2>2, <2>5, OneListNoOlder
<1>7. ASSUME NEW b \in Beacons, Restart(b) PROVE \A c \in up \cap up' : NoOlder(registry'[c], registry[c])
  <2>1. \A c \in up : c # b /\ c \in Beacons /\ registry'[c] = registry[c]
    BY <1>2, <1>7 DEF Restart, TypeOK
  <2> QED BY <1>1, <2>1 DEF NoOlder
<1>8. ASSUME NEW b \in Beacons, Announce(b) \/ Crash(b) \/ CloseFirewall(b) PROVE UNCHANGED registry
  BY <1>8 DEF Announce, Crash, CloseFirewall, beaconVars
<1>9. ASSUME NEW m \in network, OnPing(m) PROVE UNCHANGED registry
  BY <1>9 DEF OnPing
<1>10. CASE Advance
  BY <1>3, <1>10 DEF Advance
<1>11. CASE UNCHANGED vars
  BY <1>3, <1>11 DEF vars, beaconVars
<1> QED BY <1>2, <1>3, <1>4, <1>5, <1>6, <1>7, <1>8, <1>9, <1>10, <1>11 DEF Next

(* record() and the rest of federation.py never take a listed beacon back  *)
(* to an older advert, however the gossip was reordered.                   *)
THEOREM StaleGossipLoses == Spec => StaleNeverWins
<1>1. TypeOK /\ [Next]_vars =>
        [\A b \in up \cap up' : \A c \in DOMAIN registry[b] \cap DOMAIN registry'[b] :
            registry'[b][c].ts >= registry[b][c].ts]_vars
  BY StepNoOlder DEF NoOlder
<1> QED BY <1>1, TypesHold, PTL DEF Spec, StaleNeverWins

-----------------------------------------------------------------------------
(* Every step is one that AdvertLife allows for the adverts of c.          *)

LEMMA Signed ==
    ASSUME NEW c, NEW adverts, NEW t
    PROVE  t \in SignedBy(c, adverts) <=> \E x \in adverts : x.id = c /\ x.ts = t
BY DEF SignedBy

LEMMA SignedWithin ==
    ASSUME NEW c, NEW adverts \in SUBSET Advert
    PROVE  /\ SignedBy(c, adverts) \subseteq Time
           /\ \A t \in SignedBy(c, adverts) : [id |-> c, ts |-> t] \in adverts
BY DEF SignedBy, Advert

LEMMA Flying ==
    ASSUME NEW c, NEW w
    PROVE  w \in OnTheWay(c) <=>
                \E m \in network : /\ m.kind = "gossip"
                                   /\ \E t \in SignedBy(c, m.blobs) : w = [ts |-> t, at |-> m.at]
BY DEF OnTheWay

LEMMA Listed ==
    ASSUME NEW c, NEW b \in Beacons
    PROVE  ListedOf(c)[b] = IF c \in DOMAIN registry[b]
                            THEN [ts |-> registry[b][c].ts, seen |-> registry[b][c].seen]
                            ELSE [ts |-> Never, seen |-> Never]
BY DEF ListedOf

\* A beacon has at most one advert of c to send: it is on its way after, or
\* nothing is that was not before.
LEMMA SentFlies ==
    ASSUME NEW c, NEW kept, network' = network \cup kept,
           NEW held, held = {} \/ \E t : held = {t},
           \A d \in kept : d.kind = "gossip" => d.at = now /\ SignedBy(c, d.blobs) \subseteq held
    PROVE  OnTheWay(c)' \in {OnTheWay(c), OnTheWay(c) \cup {[ts |-> t, at |-> now] : t \in held}}
<1> DEFINE new == {[ts |-> t, at |-> now] : t \in held}
<1>1. OnTheWay(c) \subseteq OnTheWay(c)'
  BY DEF OnTheWay
<1>2. ASSUME NEW w \in OnTheWay(c)', w \notin OnTheWay(c) PROVE w \in new
  <2>1. PICK m \in network' : m.kind = "gossip" /\ \E t \in SignedBy(c, m.blobs) : w = [ts |-> t, at |-> m.at]
    BY DEF OnTheWay
  <2>2. m \in kept
    BY <1>2, <2>1, Flying
  <2> QED BY <2>1, <2>2
<1>3. new = {} \/ \E w : new = {w}
  <2>1. CASE held = {}
    BY <2>1
  <2>2. CASE \E t : held = {t}
    <3>1. PICK t : held = {t}
      BY <2>2
    <3>2. new = {[ts |-> t, at |-> now]}
      BY <3>1
    <3> QED BY <3>2
  <2> QED BY <2>1, <2>2
<1> HIDE DEF new
<1>4. OnTheWay(c)' = OnTheWay(c) \/ OnTheWay(c)' = OnTheWay(c) \cup new
  <2> DEFINE before == OnTheWay(c)
             after  == OnTheWay(c)'
  <2>1. before \subseteq after /\ \A w \in after : w \in before \/ w \in new
    BY <1>1, <1>2
  <2> HIDE DEF before, after
  <2>2. after = before \/ after = before \cup new
    BY <1>3, <2>1
  <2> QED BY <2>2 DEF before, after
<1> QED BY <1>4 DEF new

LEMMA AnnounceLives ==
    ASSUME IInv, NEW c \in Beacons, NEW b \in Beacons, Announce(b)
    PROVE  [Life(c)!Next]_(Life(c)!vars)
<1> DEFINE own  == [id |-> b, ts |-> now]
           sent == {Gossip(b, g, {own}) : g \in {h \in {Genesis} : Routed(addrs[b][h], h)}}
<1>1. /\ Transmit(sent) /\ b \in up
      /\ UNCHANGED << scenario, now, up, registry, spent, restarted >>
  BY DEF Announce
<1>2. PICK kept \in SUBSET sent : network' = network \cup kept
  BY <1>1 DEF Transmit
<1> DEFINE held == IF c = b THEN {now} ELSE {}
<1>3. ASSUME NEW d \in kept PROVE d.at = now /\ SignedBy(c, d.blobs) \subseteq held
  <2>1. d.at = now /\ d.blobs = {own}
    BY DEF Gossip
  <2>2. ASSUME NEW t \in SignedBy(c, {own}) PROVE c = b /\ t = now
    <3>1. own.id = c /\ own.ts = t
      BY <2>2, Signed
    <3> QED BY <3>1
  <2> HIDE DEF own
  <2> QED BY <2>1, <2>2
<1>4. held = {} \/ \E t : held = {t}
  OBVIOUS
<1> HIDE DEF sent, own, held
<1>5. OnTheWay(c)' \in {OnTheWay(c), OnTheWay(c) \cup {[ts |-> t, at |-> now] : t \in held}}
  BY <1>2, <1>3, <1>4, SentFlies
<1>6. UNCHANGED << now, UpOrIdle, ListedOf(c), VerifiedOf(c), LastRestart(c) >>
  BY <1>1 DEF UpOrIdle, ListedOf, VerifiedOf, LastRestart
<1>7. CASE c # b
  <2>1. held = {}
    BY <1>7 DEF held
  <2>2. OnTheWay(c)' = OnTheWay(c)
    BY <1>5, <2>1
  <2> QED BY <1>6, <2>2 DEF Life!vars
<1>8. CASE c = b
  <2>1. Life(c)!Held(c) = held /\ b \in UpOrIdle
    BY <1>1, <1>8 DEF Life!Held, UpOrIdle, held
  <2>2. ~ Life(c)!Lapsed(c)
    <3>1. c \notin DOMAIN registry[c]
      BY DEF IInv, TypeOK
    <3> QED BY <3>1, Listed DEF Life!Lapsed, Life!NoEntry, Life!Never, Never
  <2>3. Life(c)!Round(c)
    BY <1>5, <1>6, <1>8, <2>1, <2>2 DEF Life!Round
  <2> QED BY <2>3 DEF Life!Next
<1> QED BY <1>7, <1>8

\* What AdvertLife says b holds of c.
LEMMA HeldIs ==
    ASSUME TypeOK, NEW c \in Beacons, NEW b \in Beacons
    PROVE  /\ c = b => Life(c)!Held(b) = {now} /\ c \notin DOMAIN registry[b]
           /\ c # b /\ c \in DOMAIN registry[b] => Life(c)!Held(b) = {registry[b][c].ts}
           /\ c # b /\ c \notin DOMAIN registry[b] => Life(c)!Held(b) = {}
<1>1. c = b => c \notin DOMAIN registry[b]
  BY DEF TypeOK
<1>2. c = b => Life(c)!Held(b) = {now}
  BY DEF Life!Held
<1>3. ASSUME c # b, c \in DOMAIN registry[b] PROVE Life(c)!Held(b) = {registry[b][c].ts}
  <2>1. registry[b][c].ts # Never
    <3>1. registry[b][c].ts \in Time
      BY <1>3 DEF TypeOK, Entry
    <3> QED BY <3>1 DEF Time, Never
  <2>2. ListedOf(c)[b].ts = registry[b][c].ts
    <3>1. ListedOf(c)[b] = [ts |-> registry[b][c].ts, seen |-> registry[b][c].seen]
      BY <1>3, Listed
    <3> QED BY <3>1
  <2> QED BY <1>3, <2>1, <2>2 DEF Life!Held, Life!Never, Never
<1>4. ASSUME c # b, c \notin DOMAIN registry[b] PROVE Life(c)!Held(b) = {}
  <2>1. ListedOf(c)[b].ts = Never
    <3>1. ListedOf(c)[b] = [ts |-> Never, seen |-> Never]
      BY <1>4, Listed
    <3> QED BY <3>1
  <2> QED BY <1>4, <2>1 DEF Life!Held, Life!Never, Never
<1> QED BY <1>1, <1>2, <1>3, <1>4

LEMMA LapsedIs ==
    ASSUME TypeOK, NEW c \in Beacons, NEW b \in Beacons
    PROVE  Life(c)!Lapsed(b) <=> c \in DOMAIN registry[b] /\ now - registry[b][c].seen > BeaconTTL
<1>1. CASE c \in DOMAIN registry[b]
  <2>1. ListedOf(c)[b] = [ts |-> registry[b][c].ts, seen |-> registry[b][c].seen]
    BY <1>1, Listed
  <2>2. registry[b][c].ts \in Time
    BY <1>1 DEF TypeOK, Entry
  <2>3. ListedOf(c)[b].seen = registry[b][c].seen /\ ListedOf(c)[b].ts # Never
    BY <2>1, <2>2 DEF Time, Never
  <2>4. ListedOf(c)[b] # [ts |-> Never, seen |-> Never]
    BY <2>3
  <2> QED BY <1>1, <2>3, <2>4 DEF Life!Lapsed, Life!NoEntry, Life!Never, Never
<1>2. CASE c \notin DOMAIN registry[b]
  BY <1>2, Listed DEF Life!Lapsed, Life!NoEntry, Life!Never, Never
<1> QED BY <1>1, <1>2

LEMMA TickLives ==
    ASSUME IInv, NEW c \in Beacons, NEW b \in Beacons, Tick(b)
    PROVE  [Life(c)!Next]_(Life(c)!vars)
<1> DEFINE known == registry[b]
           blobs == {[id |-> b, ts |-> now]} \cup {[id |-> i, ts |-> known[i].ts] : i \in DOMAIN known}
           targets == DOMAIN known \cup ({Genesis} \ {b})
           reach == {i \in targets : Routed(addrs[b][i], i)}
           sent == (UNION {SendBlobs(b, i, blobs) : i \in reach})
                    \cup {Ping(b, i, Nonce(i, FALSE)) : i \in reach \cap DOMAIN known}
           list == Expired(known)
           held == Life(c)!Held(b)
<1>1. /\ Transmit(sent) /\ registry' = [registry EXCEPT ![b] = list] /\ b \in up
      /\ UNCHANGED << scenario, now, up, spent, restarted >>
  BY DEF Tick
<1>2. PICK kept \in SUBSET sent : network' = network \cup kept
  <2> HIDE DEF sent
  <2> QED BY <1>1 DEF Transmit
<1>3. SignedBy(c, blobs) \subseteq held
  <2>1. ASSUME NEW x \in blobs, x.id = c PROVE x.ts \in held
    <3>1. CASE x = [id |-> b, ts |-> now]
      <4>1. c = b /\ x.ts = now
        BY <2>1, <3>1
      <4> QED BY <4>1, HeldIs DEF IInv
    <3>2. CASE \E i \in DOMAIN known : x = [id |-> i, ts |-> known[i].ts]
      <4>1. c \in DOMAIN known /\ x.ts = known[c].ts
        BY <2>1, <3>2
      <4> HIDE DEF held
      <4>2. c # b
        BY <4>1, HeldIs DEF IInv
      <4> USE DEF held
      <4> QED BY <4>1, <4>2, HeldIs DEF IInv
    <3> QED BY <2>1, <3>1, <3>2
  <2> HIDE DEF blobs, held
  <2> QED BY <2>1 DEF SignedBy
<1>4. ASSUME NEW d \in kept, d.kind = "gossip" PROVE d.at = now /\ SignedBy(c, d.blobs) \subseteq held
  <2>1. PICK i \in reach : d \in SendBlobs(b, i, blobs)
    <3>1. \A i : Ping(b, i, Nonce(i, FALSE)).kind = "ping"
      BY DEF Ping
    <3> HIDE DEF blobs, reach
    <3> QED BY <1>4, <3>1
  <2>2. d.blobs \subseteq blobs /\ d.at = now
    <3>1. PICK g \in Groups(blobs) : d = Gossip(b, i, g)
      BY <2>1 DEF SendBlobs
    <3>2. g \subseteq blobs
      BY <3>1 DEF Groups
    <3> QED BY <3>1, <3>2 DEF Gossip
  <2> HIDE DEF blobs, held
  <2> QED BY <1>3, <2>2 DEF SignedBy
<1>5. held = {} \/ \E t : held = {t}
  BY HeldIs DEF IInv
<1> HIDE DEF sent, held
<1>6. OnTheWay(c)' \in {OnTheWay(c), OnTheWay(c) \cup {[ts |-> t, at |-> now] : t \in held}}
  BY <1>2, <1>4, <1>5, SentFlies
<1>7. UNCHANGED << now, UpOrIdle, VerifiedOf(c), LastRestart(c) >> /\ b \in UpOrIdle
  BY <1>1 DEF UpOrIdle, VerifiedOf, LastRestart
<1>8. ListedOf(c)' = IF Life(c)!Lapsed(b)
                     THEN [ListedOf(c) EXCEPT ![b] = [ts |-> Never, seen |-> Never]] ELSE ListedOf(c)
  <2>1. \A i \in DOMAIN known : known[i] \in Entry
    BY DEF IInv, TypeOK
  <2> HIDE DEF known
  <2>2. /\ DOMAIN list = {i \in DOMAIN known : now - known[i].seen <= BeaconTTL}
        /\ \A i \in DOMAIN list : list[i].ts = known[i].ts /\ list[i].seen = known[i].seen
    BY <2>1, ExpiredShape, NowFits DEF IInv
  <2> HIDE DEF list
  <2>3. Life(c)!Lapsed(b) <=> c \in DOMAIN known /\ c \notin DOMAIN list
    <3>1. c \in DOMAIN known => (now - known[c].seen > BeaconTTL <=> ~ (now - known[c].seen <= BeaconTTL))
      BY IntFields DEF IInv, known
    <3> QED BY <2>2, <3>1, LapsedIs DEF IInv, known
  <2>4. DOMAIN list \subseteq DOMAIN known
    BY <2>2
  <2>5. \A i \in Beacons : registry'[i] = IF i = b THEN list ELSE registry[i]
    BY <1>1 DEF IInv, TypeOK
  <2>6. \A i \in Beacons : ListedOf(c)'[i] =
            IF i = b /\ c \in DOMAIN known /\ c \notin DOMAIN list
            THEN [ts |-> Never, seen |-> Never] ELSE ListedOf(c)[i]
    BY <2>2, <2>4, <2>5 DEF ListedOf, known
  <2> QED BY <2>3, <2>6 DEF ListedOf
<1>9. Life(c)!Round(b)
  BY <1>6, <1>7, <1>8 DEF Life!Round, Life!NoEntry, Life!Never, Never, held
<1> QED BY <1>9 DEF Life!Next

LEMMA GossipLives ==
    ASSUME IInv, NEW c \in Beacons, NEW m \in network, OnGossip(m)
    PROVE  [Life(c)!Next]_(Life(c)!vars)
<1> DEFINE b       == m.to
           known   == registry[b]
           fresh   == Fresh(b, m.blobs)
           list    == Recorded(known, fresh)
           new     == DOMAIN list \ DOMAIN known
           addressed == [i \in Beacons |->
               IF i \in {a.id : a \in fresh} THEN "advertised" ELSE Learned(b, m)[i]]
           sent    == {Ping(b, i, Nonce(i, TRUE)) : i \in {j \in new : Routed(addressed[j], j)}}
           adverts == SignedBy(c, fresh)
<1>1. /\ spent' = [spent EXCEPT ![b] = @ \cup m.blobs]
      /\ registry' = [registry EXCEPT ![b] = list]
      /\ Reply(m, sent)
      /\ m.kind = "gossip" /\ b \in up
      /\ UNCHANGED << scenario, now, up, restarted >>
  BY DEF OnGossip
<1>2. /\ b \in Beacons /\ m.blobs \in SUBSET Advert /\ fresh \in SUBSET Advert
      /\ \A i \in DOMAIN known : known[i].ts \in Time
      /\ \A a \in fresh : a.id # b
  BY <1>1, DatagramFields DEF IInv, TypeOK, Entry, Fresh
<1>3. OnTheWay(c)' \subseteq OnTheWay(c)
  <2>1. \A d \in sent : d.kind = "ping"
    <3> SUFFICES ASSUME NEW i \in new PROVE Ping(b, i, Nonce(i, TRUE)).kind = "ping"
      OBVIOUS
    <3> QED BY DEF Ping
  <2> HIDE DEF sent
  <2>2. network' \subseteq network \cup sent
    BY <1>1 DEF Reply
  <2> QED BY <2>1, <2>2 DEF OnTheWay
<1> HIDE DEF sent, new, addressed, list, known
<1>4. UNCHANGED << now, UpOrIdle, LastRestart(c) >> /\ b \in UpOrIdle
  BY <1>1 DEF UpOrIdle, LastRestart
<1>5. Recording(list, known, fresh)
  BY <1>2, RecordedShape DEF list
<1>6. \A i \in Beacons : /\ registry'[i] = IF i = b THEN list ELSE registry[i]
                         /\ spent'[i] = IF i = b THEN spent[b] \cup m.blobs ELSE spent[i]
  BY <1>1 DEF IInv, TypeOK
<1>7. CASE c = b \/ adverts = {}
  <2>0. \A a \in fresh : a.id # c
    BY <1>2, <1>7 DEF SignedBy
  <2> HIDE DEF fresh, b
  <2>1. c \in DOMAIN list <=> c \in DOMAIN known
    BY <1>5, <2>0 DEF Recording
  <2>2. c \in DOMAIN known => list[c] = known[c]
    BY <1>5, <2>0, <2>1, Zenon DEF Recording, Newest
  <2>3. UNCHANGED ListedOf(c)
    BY <1>6, <2>1, <2>2 DEF ListedOf, known
  <2>4. c # b => SignedBy(c, m.blobs) \subseteq SignedBy(c, spent[b])
    BY <1>7, <2>0 DEF Fresh, SignedBy, fresh
  <2>5. UNCHANGED VerifiedOf(c)
    <3>1. ASSUME NEW i \in Beacons, i # c PROVE SignedBy(c, spent'[i]) = SignedBy(c, spent[i])
      <4>1. CASE i # b
        BY <1>6, <3>1, <4>1
      <4>2. CASE i = b
        <5>1. SignedBy(c, spent[b] \cup m.blobs) = SignedBy(c, spent[b]) \cup SignedBy(c, m.blobs)
          BY DEF SignedBy
        <5>2. spent'[i] = spent[b] \cup m.blobs
          BY <1>6, <4>2
        <5> QED BY <2>4, <3>1, <4>2, <5>1, <5>2
      <4> QED BY <4>1, <4>2
    <3> QED BY <3>1 DEF VerifiedOf
  <2> QED BY <1>3, <1>4, <2>3, <2>5 DEF Life!Next, Life!Lose
<1>8. CASE c # b /\ adverts # {}
  <2>1. adverts \in SUBSET {w.ts : w \in OnTheWay(c)} /\ adverts \subseteq Time
    <3>1. \A t \in adverts : [ts |-> t, at |-> m.at] \in OnTheWay(c)
      <4> TAKE t \in adverts
      <4>1. fresh \subseteq m.blobs
        BY DEF Fresh
      <4>2. t \in SignedBy(c, m.blobs)
        <5> HIDE DEF fresh
        <5> QED BY <4>1 DEF SignedBy
      <4> QED BY <1>1, <4>2, Flying
    <3>2. \A t \in adverts : [ts |-> t, at |-> m.at].ts = t
      OBVIOUS
    <3>3. adverts \subseteq Time
      BY <1>2, SignedWithin
    <3> HIDE DEF adverts
    <3> QED BY <3>1, <3>2, <3>3
  <2>2. b \in UpOrIdle \cap (Beacons \ {c})
    BY <1>2, <1>4, <1>8
  <2>3. adverts \cap VerifiedOf(c)[b] = {}
    <3>1. VerifiedOf(c)[b] = SignedBy(c, spent[b]) /\ spent[b] \in SUBSET Advert
      BY <1>2, <1>8 DEF VerifiedOf, IInv, TypeOK
    <3>2. ASSUME NEW t \in adverts, t \in SignedBy(c, spent[b]) PROVE FALSE
      <4>1. [id |-> c, ts |-> t] \in fresh /\ [id |-> c, ts |-> t] \in spent[b]
        BY <1>2, <3>1, <3>2, SignedWithin
      <4> QED BY <4>1 DEF Fresh
    <3> QED BY <3>1, <3>2
  <2>4. VerifiedOf(c)' = [VerifiedOf(c) EXCEPT ![b] = @ \cup adverts]
    <3>1. SignedBy(c, spent[b] \cup m.blobs) = SignedBy(c, spent[b]) \cup adverts
      <4>1. \A x \in m.blobs : x.id = c => x \in spent[b] \/ x \in fresh
        BY <1>8 DEF Fresh
      <4>2. fresh \subseteq m.blobs
        BY DEF Fresh
      <4> HIDE DEF fresh
      <4> QED BY <4>1, <4>2 DEF SignedBy
    <3>2. \A i \in Beacons : VerifiedOf(c)'[i] = IF i = c THEN {} ELSE SignedBy(c, spent'[i])
      BY DEF VerifiedOf
    <3>3. \A i \in Beacons : VerifiedOf(c)'[i] = IF i = b THEN VerifiedOf(c)[b] \cup adverts ELSE VerifiedOf(c)[i]
      <4> TAKE i \in Beacons
      <4>1. CASE i = b
        <5>1. spent'[i] = spent[b] \cup m.blobs /\ i # c
          BY <1>6, <1>8, <4>1
        <5>2. VerifiedOf(c)[b] = SignedBy(c, spent[b])
          BY <1>2, <1>8 DEF VerifiedOf
        <5> HIDE DEF adverts, b
        <5> QED BY <3>1, <3>2, <4>1, <5>1, <5>2
      <4>2. CASE i # b
        BY <1>6, <3>2, <4>2 DEF VerifiedOf
      <4> QED BY <4>1, <4>2
    <3> HIDE DEF adverts, b
    <3> QED BY <3>3 DEF VerifiedOf
  <2>5. \E x \in adverts :
            /\ \A y \in adverts : y <= x
            /\ ListedOf(c)' = IF x >= ListedOf(c)[b].ts
                              THEN [ListedOf(c) EXCEPT ![b] = [ts |-> x, seen |-> now]] ELSE ListedOf(c)
    <3>1. c \in DOMAIN list
      BY <1>5, <1>8 DEF Recording, SignedBy
    <3>2. \A i \in Beacons : ListedOf(c)'[i] =
                IF i = b THEN [ts |-> list[c].ts, seen |-> list[c].seen] ELSE ListedOf(c)[i]
      BY <1>6, <3>1 DEF ListedOf
    <3>3. ListedOf(c)' = [ListedOf(c) EXCEPT ![b] = [ts |-> list[c].ts, seen |-> list[c].seen]]
      <4> HIDE DEF b
      <4> QED BY <3>2 DEF ListedOf
    <3>4. ListedOf(c)[b] = IF c \in DOMAIN known THEN [ts |-> known[c].ts, seen |-> known[c].seen]
                           ELSE [ts |-> Never, seen |-> Never]
      BY <1>2, Listed DEF known
    <3>5. Time \subseteq Int /\ Never \in Int /\ \A t \in Time : t > Never
      BY NowFits DEF IInv, Time, Never
    <3>6. \A a \in fresh : a.id = c => a.ts \in adverts
      BY DEF SignedBy
    <3>7. \A t \in adverts : \E a \in fresh : a.id = c /\ a.ts = t
      BY DEF SignedBy
    <3> HIDE DEF adverts, fresh, b, Never
    <3>8. CASE /\ c \in DOMAIN known /\ list[c] = known[c]
               /\ \A e \in fresh : e.id = c => e.ts < known[c].ts
      <4>1. UNCHANGED ListedOf(c)
        BY <3>3, <3>4, <3>8 DEF ListedOf
      <4>2. Max(adverts) \in adverts /\ \A y \in adverts : Max(adverts) >= y
        BY <1>8, <2>1, LatestTime
      <4>3. Max(adverts) < known[c].ts
        BY <3>7, <3>8, <4>2
      <4>4. ListedOf(c)[b].ts = known[c].ts /\ known[c].ts \in Int
        <5>1. ListedOf(c)[b] = [ts |-> known[c].ts, seen |-> known[c].seen]
          BY <3>4, <3>8
        <5>2. known[c].ts \in Int
          BY <1>2, <3>5, <3>8
        <5> QED BY <5>1, <5>2
      <4>5. Max(adverts) \in Int /\ \A y \in adverts : y \in Int
        BY <2>1, <3>5, <4>2
      <4>6. \A y \in adverts : y <= Max(adverts)
        BY <4>2, <4>5
      <4> QED BY <4>1, <4>2, <4>3, <4>4, <4>5, <4>6
    <3>9. CASE \E a \in fresh : /\ Newest(a, c, fresh)
                                /\ c \in DOMAIN known => a.ts >= known[c].ts
                                /\ list[c].ts = a.ts /\ list[c].seen = now
      <4>1. PICK a \in fresh : /\ Newest(a, c, fresh)
                               /\ c \in DOMAIN known => a.ts >= known[c].ts
                               /\ list[c].ts = a.ts /\ list[c].seen = now
        BY <3>9
      <4>2. a.ts \in adverts /\ \A y \in adverts : y <= a.ts
        BY <3>6, <3>7, <4>1 DEF Newest
      <4>3. a.ts >= ListedOf(c)[b].ts
        <5>1. CASE c \in DOMAIN known
          <6>1. ListedOf(c)[b] = [ts |-> known[c].ts, seen |-> known[c].seen]
            BY <3>4, <5>1
          <6>2. ListedOf(c)[b].ts = known[c].ts
            BY <6>1
          <6> QED BY <4>1, <5>1, <6>2
        <5>2. CASE c \notin DOMAIN known
          <6>1. ListedOf(c)[b] = [ts |-> Never, seen |-> Never]
            BY <3>4, <5>2
          <6>2. ListedOf(c)[b].ts = Never
            BY <6>1
          <6>3. a.ts \in Int /\ a.ts > Never
            BY <2>1, <3>5, <4>2
          <6> QED BY <3>5, <6>2, <6>3
        <5> QED BY <5>1, <5>2
      <4>4. ListedOf(c)' = [ListedOf(c) EXCEPT ![b] = [ts |-> a.ts, seen |-> now]]
        BY <3>3, <4>1
      <4> QED BY <4>2, <4>3, <4>4
    <3>10. CASE \E a \in fresh : /\ Newest(a, c, fresh)
                                 /\ c \in DOMAIN known => a.ts >= known[c].ts
                                 /\ list[c] = [ts |-> a.ts, seen |-> now,
                                               reachable |-> c \in DOMAIN known /\ known[c].reachable,
                                               pong |-> IF c \in DOMAIN known THEN known[c].pong ELSE Never]
      <4>1. PICK a \in fresh : /\ Newest(a, c, fresh)
                               /\ c \in DOMAIN known => a.ts >= known[c].ts
                               /\ list[c] = [ts |-> a.ts, seen |-> now,
                                               reachable |-> c \in DOMAIN known /\ known[c].reachable,
                                               pong |-> IF c \in DOMAIN known THEN known[c].pong ELSE Never]
        BY <3>10
      <4>2. list[c].ts = a.ts /\ list[c].seen = now
        BY <4>1
      <4> QED BY <3>9, <4>1, <4>2
    <3> QED BY <1>5, <3>1, <3>8, <3>10, Zenon DEF Recording
  <2>6. Life(c)!Accept(b, adverts)
    BY <1>3, <1>4, <1>8, <2>2, <2>3, <2>4, <2>5 DEF Life!Accept, Life!Observers
  <2> QED BY <1>2, <2>1, <2>6 DEF Life!Next
<1> QED BY <1>7, <1>8

\* Steps that add no gossip and change no list, replay guard or clock.
LEMMA LostOnTheWay ==
    ASSUME NEW c, NEW sent, network' \subseteq network \cup sent, \A d \in sent : d.kind # "gossip",
           UNCHANGED << scenario, now, up, spent, restarted, ListedOf(c) >>
    PROVE  Life(c)!Lose
<1>1. OnTheWay(c)' \subseteq OnTheWay(c)
  BY DEF OnTheWay
<1>2. UNCHANGED << UpOrIdle, VerifiedOf(c), LastRestart(c) >>
  BY DEF UpOrIdle, VerifiedOf, LastRestart
<1> QED BY <1>1, <1>2 DEF Life!Lose

LEMMA PingLives ==
    ASSUME IInv, NEW c \in Beacons, NEW m \in network, OnPing(m) \/ OnPong(m)
    PROVE  [Life(c)!Next]_(Life(c)!vars)
<1>1. CASE OnPing(m)
  <2> DEFINE sent == {Pong(m.to, m.from, m.nonce)}
  <2>1. /\ network' \subseteq network \cup sent
        /\ UNCHANGED << scenario, now, up, spent, registry, restarted >>
    BY <1>1 DEF OnPing, Reply
  <2>2. \A d \in sent : d.kind # "gossip"
    BY DEF Pong
  <2>3. UNCHANGED ListedOf(c)
    BY <2>1 DEF ListedOf
  <2> HIDE DEF sent
  <2> QED BY <2>1, <2>2, <2>3, LostOnTheWay DEF Life!Next
<1>2. CASE OnPong(m)
  <2> DEFINE b     == m.to
             known == registry[b]
             list  == IF m.nonce \in pending[b] THEN MarkedReachable(known, m.nonce.id) ELSE known
             none  == {}
  <2>1. /\ registry' = [registry EXCEPT ![b] = list] /\ network' \subseteq network \cup none
        /\ UNCHANGED << scenario, now, up, spent, restarted >>
    BY <1>2 DEF OnPong, Reply
  <2>2. \A d \in none : d.kind # "gossip"
    OBVIOUS
  <2>3. b \in Beacons /\ \A i \in DOMAIN known : known[i] \in Entry
    BY DatagramFields DEF IInv, TypeOK
  <2>4. DOMAIN list = DOMAIN known /\ \A i \in DOMAIN known : list[i].ts = known[i].ts /\ list[i].seen = known[i].seen
    BY <2>3, MarkedShape, NowFits DEF IInv
  <2> HIDE DEF list, none
  <2>5. \A i \in Beacons : registry'[i] = IF i = b THEN list ELSE registry[i]
    BY <2>1 DEF IInv, TypeOK
  <2>6. UNCHANGED ListedOf(c)
    BY <2>4, <2>5 DEF ListedOf
  <2> QED BY <2>1, <2>2, <2>6, LostOnTheWay DEF Life!Next
<1> QED BY <1>1, <1>2

LEMMA CrashLives ==
    ASSUME IInv, NEW c \in Beacons, NEW b \in Beacons, Crash(b)
    PROVE  [Life(c)!Next]_(Life(c)!vars)
<1>1. /\ b \in up /\ up' = up \ {b}
      /\ UNCHANGED << scenario, now, registry, spent, network, restarted >>
  BY DEF Crash, beaconVars
<1>2. UNCHANGED << ListedOf(c), VerifiedOf(c), OnTheWay(c), LastRestart(c) >>
  BY <1>1 DEF ListedOf, VerifiedOf, OnTheWay, LastRestart
<1>3. b \in UpOrIdle /\ UpOrIdle' = UpOrIdle \ {b}
  BY <1>1 DEF UpOrIdle, IInv, TypeOK
<1> QED BY <1>1, <1>2, <1>3 DEF Life!Next, Life!Crash

LEMMA RestartLives ==
    ASSUME IInv, NEW c \in Beacons, NEW b \in Beacons, Restart(b)
    PROVE  [Life(c)!Next]_(Life(c)!vars)
<1>1. /\ b \in scenario.beacons \ up /\ up' = up \cup {b}
      /\ restarted' = [restarted EXCEPT ![b] = now]
      /\ registry' = [registry EXCEPT ![b] = NoBeacons] /\ spent' = [spent EXCEPT ![b] = {}]
      /\ UNCHANGED << scenario, now, network >>
  BY DEF Restart
<1>2. \A i \in Beacons : /\ restarted'[i] = IF i = b THEN now ELSE restarted[i]
                         /\ registry'[i] = IF i = b THEN NoBeacons ELSE registry[i]
                         /\ spent'[i] = IF i = b THEN {} ELSE spent[i]
  BY <1>1 DEF IInv, TypeOK
<1>3. b \notin UpOrIdle /\ UpOrIdle' = UpOrIdle \cup {b}
  BY <1>1 DEF UpOrIdle
<1>4. ListedOf(c)' = [ListedOf(c) EXCEPT ![b] = [ts |-> Never, seen |-> Never]]
  BY <1>2 DEF ListedOf, NoBeacons
<1>5. VerifiedOf(c)' = [VerifiedOf(c) EXCEPT ![b] = {}]
  BY <1>2 DEF VerifiedOf, SignedBy
<1>6. OnTheWay(c)' = OnTheWay(c)
  BY <1>1 DEF OnTheWay
<1>7. LastRestart(c)' = IF b = c THEN LastRestart(c) ELSE now
  <2> DEFINE before == {restarted[i] : i \in Beacons \ {c}} \cup {Never}
             after  == {restarted'[i] : i \in Beacons \ {c}} \cup {Never}
  <2>1. CASE b = c
    <3>1. after = before
      BY <1>2, <2>1
    <3> QED BY <2>1, <3>1 DEF LastRestart
  <2>2. CASE b # c
    <3>1. now \in Time /\ Never \in Int /\ Never <= now /\ MaxTime \in Int
      BY NowFits, TimeIsBounded DEF IInv, Time, Never
    <3>2. \A i \in Beacons : restarted[i] \in Time \cup {Never} /\ restarted[i] <= now
      BY DEF IInv, TypeOK, ClockInv, HistoryClock
    <3>3. now \in after
      BY <1>2, <2>2
    <3>4. \A t \in after : t <= now /\ t \in Never .. MaxTime
      <4>1. now <= now /\ now \in Never .. MaxTime /\ Never \in Never .. MaxTime
        BY <3>1 DEF Time
      <4>2. Time \subseteq Never .. MaxTime
        BY <3>1 DEF Time, Never
      <4> HIDE DEF Never
      <4> QED BY <1>2, <3>1, <3>2, <4>1, <4>2
    <3> HIDE DEF after
    <3>5. Max(after) \in after /\ \A t \in after : Max(after) >= t
      BY <3>1, <3>3, <3>4, IntervalMax
    <3>6. Max(after) = now
      <4>1. Max(after) >= now /\ Max(after) <= now
        BY <3>3, <3>4, <3>5
      <4>2. Max(after) \in Int /\ now \in Int
        BY <3>1, <3>4, <3>5 DEF Time
      <4> QED BY <4>1, <4>2
    <3> QED BY <2>2, <3>6 DEF LastRestart, after
  <2> QED BY <2>1, <2>2
<1>8. Life(c)!Restart(b)
  BY <1>1, <1>3, <1>4, <1>5, <1>6, <1>7 DEF Life!Restart, Life!NoEntry, Life!Never, Never
<1> QED BY <1>8 DEF Life!Next

LEMMA AdvanceLives ==
    ASSUME IInv, NEW c \in Beacons, Advance
    PROVE  [Life(c)!Next]_(Life(c)!vars)
<1>1. /\ now < scenario.time /\ up \subseteq rounds /\ now' = now + 1
      /\ network' = {m \in network : now' - m.at <= MaxDelay}
      /\ spent' = [b \in Beacons |-> spent[b] \cap Alive(network')]
      /\ UNCHANGED << scenario, up, registry, restarted >>
  BY DEF Advance
<1>2. now < MaxTime
  BY <1>1, TimeIsBounded, NowFits DEF IInv, TypeOK, Time
<1>3. \A b \in UpOrIdle : ~ Life(c)!Lapsed(b)
  <2> SUFFICES ASSUME NEW b \in UpOrIdle, c \in DOMAIN registry[b] PROVE ~ (now - registry[b][c].seen > BeaconTTL)
    <3>1. UpOrIdle \subseteq Beacons
      BY FederationAssumption DEF UpOrIdle, IInv, TypeOK
    <3> QED BY <3>1, LapsedIs DEF IInv
  <2>1. b \in Beacons /\ b \in up
    BY FederationAssumption DEF UpOrIdle, IInv, TypeOK, ListInv
  <2>2. now - registry[b][c].seen <= AgeLimit(b, BeaconTTL)
    BY <2>1 DEF IInv, ListInv, Young
  <2>3. AgeLimit(b, BeaconTTL) <= BeaconTTL /\ AgeLimit(b, BeaconTTL) \in Int
    BY <1>1, <2>1, IntFields DEF IInv, AgeLimit
  <2> HIDE DEF AgeLimit
  <2> QED BY <2>1, <2>2, <2>3, IntFields DEF IInv
<1>4. UNCHANGED << UpOrIdle, ListedOf(c), LastRestart(c) >>
  BY <1>1 DEF UpOrIdle, ListedOf, LastRestart
<1>5. OnTheWay(c)' = {w \in OnTheWay(c) : now' - w.at <= MaxDelay}
  <2>1. ASSUME NEW w \in OnTheWay(c)' PROVE w \in OnTheWay(c) /\ now' - w.at <= MaxDelay
    <3>1. PICK m \in network' : m.kind = "gossip" /\ \E t \in SignedBy(c, m.blobs) : w = [ts |-> t, at |-> m.at]
      BY DEF OnTheWay
    <3>2. m \in network /\ now' - m.at <= MaxDelay /\ w.at = m.at
      BY <1>1, <3>1
    <3> QED BY <3>1, <3>2, Flying
  <2>2. ASSUME NEW w \in OnTheWay(c), now' - w.at <= MaxDelay PROVE w \in OnTheWay(c)'
    <3>1. PICK m \in network : m.kind = "gossip" /\ \E t \in SignedBy(c, m.blobs) : w = [ts |-> t, at |-> m.at]
      BY Flying
    <3>2. m \in network'
      BY <1>1, <2>2, <3>1
    <3> QED BY <3>1, <3>2 DEF OnTheWay
  <2> DEFINE after == OnTheWay(c)'
  <2> HIDE DEF after
  <2>3. after = {w \in OnTheWay(c) : now' - w.at <= MaxDelay}
    BY <2>1, <2>2 DEF after
  <2> QED BY <2>3 DEF after
<1>6. VerifiedOf(c)' = [b \in Beacons |->
            VerifiedOf(c)[b] \cap ({w.ts : w \in OnTheWay(c)'} \cup {ListedOf(c)[i].ts : i \in Beacons})]
  <2> DEFINE alive == {w.ts : w \in OnTheWay(c)'} \cup {ListedOf(c)[i].ts : i \in Beacons}
  <2>1. ASSUME NEW t \in Time
        PROVE  [id |-> c, ts |-> t] \in Alive(network') <=> t \in alive
    <3> DEFINE x == [id |-> c, ts |-> t]
               listed == UNION {{[id |-> i, ts |-> registry[b][i].ts] : i \in DOMAIN registry[b]} : b \in Beacons}
               flying == UNION {m.blobs : m \in {d \in network' : d.kind = "gossip"}}
    <3>1. x \in Alive(network') <=> x \in listed \/ x \in flying
      BY DEF Alive
    <3>2. x \in flying <=> \E m \in network' : m.kind = "gossip" /\ x \in m.blobs
      OBVIOUS
    <3>3. \A m \in network' : m.kind = "gossip" => m.blobs \in SUBSET Advert
      BY <1>1, DatagramFields DEF IInv, TypeOK
    <3>4. x \in flying <=> t \in {w.ts : w \in OnTheWay(c)'}
      <4>1. ASSUME x \in flying PROVE t \in {w.ts : w \in OnTheWay(c)'}
        <5>1. PICK m \in network' : m.kind = "gossip" /\ x \in m.blobs
          BY <3>2, <4>1
        <5>2. t \in SignedBy(c, m.blobs)
          BY <5>1, Signed
        <5>3. [ts |-> t, at |-> m.at] \in OnTheWay(c)'
          BY <5>1, <5>2 DEF OnTheWay
        <5> QED BY <5>3
      <4>2. ASSUME NEW w \in OnTheWay(c)', t = w.ts PROVE x \in flying
        <5>1. PICK m \in network' : m.kind = "gossip" /\ \E u \in SignedBy(c, m.blobs) : w = [ts |-> u, at |-> m.at]
          BY DEF OnTheWay
        <5>2. t \in SignedBy(c, m.blobs)
          BY <4>2, <5>1
        <5>3. x \in m.blobs
          BY <3>3, <5>1, <5>2, SignedWithin
        <5> QED BY <3>2, <5>1, <5>3
      <4> HIDE DEF flying
      <4> QED BY <4>1, <4>2
    <3>5. x \in listed <=> \E b \in Beacons : c \in DOMAIN registry[b] /\ registry[b][c].ts = t
      <4>1. x \in listed <=> \E b \in Beacons : \E i \in DOMAIN registry[b] : x = [id |-> i, ts |-> registry[b][i].ts]
        <5> HIDE DEF x
        <5> QED OBVIOUS
      <4>2. \A b, i : x = [id |-> i, ts |-> registry[b][i].ts] <=> i = c /\ registry[b][i].ts = t
        OBVIOUS
      <4> HIDE DEF x, listed
      <4> QED BY <4>1, <4>2
    <3>6. \A b \in Beacons : ListedOf(c)[b].ts = IF c \in DOMAIN registry[b] THEN registry[b][c].ts ELSE Never
      <4> TAKE b \in Beacons
      <4>1. CASE c \in DOMAIN registry[b]
        <5>1. ListedOf(c)[b] = [ts |-> registry[b][c].ts, seen |-> registry[b][c].seen]
          BY <4>1, Listed
        <5> QED BY <4>1, <5>1
      <4>2. CASE c \notin DOMAIN registry[b]
        <5>1. ListedOf(c)[b] = [ts |-> Never, seen |-> Never]
          BY <4>2, Listed
        <5> QED BY <4>2, <5>1
      <4> QED BY <4>1, <4>2
    <3>7. t # Never
      BY DEF Time, Never
    <3>8. x \in listed <=> t \in {ListedOf(c)[i].ts : i \in Beacons}
      <4> HIDE DEF listed, Never
      <4> QED BY <3>5, <3>6, <3>7
    <3> HIDE DEF x, listed, flying
    <3> QED BY <3>1, <3>4, <3>8 DEF x
  <2>2. ASSUME NEW b \in Beacons, b # c PROVE SignedBy(c, spent'[b]) = SignedBy(c, spent[b]) \cap alive
    <3>1. spent'[b] = spent[b] \cap Alive(network') /\ spent[b] \in SUBSET Advert
      BY <1>1 DEF IInv, TypeOK
    <3> HIDE DEF alive
    <3>2. ASSUME NEW t, t \in SignedBy(c, spent'[b]) PROVE t \in SignedBy(c, spent[b]) \cap alive
      <4>1. spent'[b] \in SUBSET Advert
        BY <3>1
      <4>2. t \in Time /\ [id |-> c, ts |-> t] \in spent'[b]
        BY <3>2, <4>1, SignedWithin
      <4>3. [id |-> c, ts |-> t] \in spent[b] /\ [id |-> c, ts |-> t] \in Alive(network')
        BY <3>1, <4>2
      <4>4. t \in SignedBy(c, spent[b])
        BY <4>3, Signed
      <4> QED BY <2>1, <4>2, <4>3, <4>4
    <3>3. ASSUME NEW t, t \in SignedBy(c, spent[b]), t \in alive PROVE t \in SignedBy(c, spent'[b])
      <4>1. t \in Time /\ [id |-> c, ts |-> t] \in spent[b]
        BY <3>1, <3>3, SignedWithin
      <4>2. [id |-> c, ts |-> t] \in spent'[b]
        BY <2>1, <3>1, <3>3, <4>1
      <4> QED BY <4>2, Signed
    <3> QED BY <3>2, <3>3
  <2> HIDE DEF alive
  <2>3. VerifiedOf(c)' = [b \in Beacons |-> VerifiedOf(c)[b] \cap alive]
    BY <2>2 DEF VerifiedOf
  <2> QED BY <2>3 DEF alive
<1>7. Life(c)!Advance
  BY <1>1, <1>2, <1>3, <1>4, <1>5, <1>6 DEF Life!Advance
<1> QED BY <1>7 DEF Life!Next

LEMMA LifeStarts == Init => \A c \in Beacons : Life(c)!Init
<1> SUFFICES ASSUME Init, NEW c \in Beacons PROVE Life(c)!Init
  OBVIOUS
<1>1. now = 0 /\ UpOrIdle = Beacons /\ OnTheWay(c) = {}
  BY FederationAssumption DEF Init, UpOrIdle, OnTheWay
<1>2. ListedOf(c) = [b \in Beacons |-> [ts |-> Never, seen |-> Never]]
  BY DEF Init, ListedOf, NoBeacons
<1>3. VerifiedOf(c) = [b \in Beacons |-> {}]
  BY DEF Init, VerifiedOf, SignedBy
<1>4. LastRestart(c) = Never
  <2>1. {restarted[b] : b \in Beacons \ {c}} \cup {Never} = {Never}
    BY DEF Init
  <2>2. Max({Never}) = Never
    <3>1. Never \in Int /\ Never <= Never
      BY DEF Never
    <3>2. {Never} \subseteq Never .. Never /\ {Never} # {}
      BY <3>1
    <3> HIDE DEF Never
    <3> QED BY <3>1, <3>2, IntervalMax
  <2> QED BY <2>1, <2>2 DEF LastRestart
<1> QED BY <1>1, <1>2, <1>3, <1>4 DEF Life!Init, Life!NoEntry, Life!Never, Never

LEMMA StepLives == IInv /\ [Next]_vars => \A c \in Beacons : [Life(c)!Next]_(Life(c)!vars)
<1> SUFFICES ASSUME IInv, [Next]_vars, NEW c \in Beacons PROVE [Life(c)!Next]_(Life(c)!vars)
  OBVIOUS
<1>1. ASSUME UNCHANGED << scenario, now, up, registry, spent, network, restarted >>
      PROVE  UNCHANGED Life(c)!vars
  BY <1>1 DEF Life!vars, UpOrIdle, ListedOf, VerifiedOf, OnTheWay, LastRestart
<1>2. CASE UNCHANGED vars
  BY <1>1, <1>2 DEF vars, beaconVars
<1>3. ASSUME NEW b \in Beacons, CloseFirewall(b) PROVE [Life(c)!Next]_(Life(c)!vars)
  BY <1>1, <1>3 DEF CloseFirewall, beaconVars
<1> QED BY <1>2, <1>3, AnnounceLives, TickLives, GossipLives, PingLives, CrashLives, RestartLives,
           AdvanceLives DEF Next

(* The federation implements AdvertLife for the adverts of every beacon:   *)
(* whatever the loss, the reordering, the crashes and the restarts, an     *)
(* advert is accepted once, held for BEACON_TTL_S and dropped.             *)
THEOREM AdvertsLiveAsPromised == Spec => AdvertsLive
<1>1. IInv /\ [Next]_vars => [\A c \in Beacons : [Life(c)!Next]_(Life(c)!vars)]_vars
  BY StepLives
<1>2. Init => \A c \in Beacons : Life(c)!Init
  BY LifeStarts
<1> QED BY <1>1, <1>2, Invariance, PTL DEF Spec, AdvertsLive
=============================================================================
