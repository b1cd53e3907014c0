---------------------------- MODULE SwarmNodeProofs ---------------------------
(***************************************************************************)
(* The safety properties of SwarmNode, for every value of its constants.   *)
(***************************************************************************)
EXTENDS SwarmNode, PrototypeModelProofs

Nodes == {"none", Self}

(* A bounded deque keeps its elements and its bound.                       *)
LEMMA PushType ==
    ASSUME NEW T, NEW deque \in Seq(T), NEW s \in Seq(T), NEW size \in Nat
    PROVE  Push(deque, s, size) \in Seq(T) /\ Len(Push(deque, s, size)) <= size
<1> DEFINE long == deque \o s
<1>1. long \in Seq(T) /\ Len(long) \in Nat
    OBVIOUS
<1> HIDE DEF long
<1>2. CASE Len(long) <= size
    BY <1>1, <1>2 DEF Push, long
<1>3. CASE Len(long) > size
  <2> DEFINE m == Len(long) - size + 1
  <2>1. m \in 1 .. Len(long) + 1
      BY <1>1, <1>3
  <2>2. Push(deque, s, size) = SubSeq(long, m, Len(long))
      BY <1>1, <1>3 DEF Push, long
  <2>3. SubSeq(long, m, Len(long)) \in Seq(T) /\ Len(SubSeq(long, m, Len(long))) = size
      BY <1>1, <2>1
  <2> QED
      BY <2>2, <2>3
<1> QED
    BY <1>1, <1>2, <1>3

(* Sets of senders are finite.                                             *)
LEMMA FewSenders ==
    ASSUME NEW S \in SUBSET Senders
    PROVE  IsFiniteSet(S) /\ Cardinality(S) \in Nat
<1>1. IsFiniteSet(Senders)
    BY NodeAssumption, FS_Union DEF Senders
<1> QED
    BY <1>1, FS_Subset, FS_CardinalityType

-----------------------------------------------------------------------------
(* Trust                                                                   *)

(* The most trust that k rejected merges in a row leave.                   *)
Ceiling(k) ==
    CASE k = 0 -> 1000 [] k = 1 -> 700 [] k = 2 -> 490 [] k = 3 -> 343
      [] k = 4 -> 240 [] k = 5 -> 168 [] OTHER -> 117

TrustOK ==
    /\ trust \in [Senders -> Trust]
    /\ strikes \in [Senders -> 0 .. 6]
    /\ holdout \in Seq(Stream)

(* The inductive invariant behind SixStrikes.                              *)
StrikesCost ==
    /\ TrustOK
    /\ \A s \in Senders : trust[s] <= Ceiling(strikes[s])

(* A rejected merge of a peer above the floor costs it a rank of Ceiling.  *)
LEMMA EmaFalls ==
    ASSUME NEW t \in Trust, NEW k \in 0 .. 6, t <= Ceiling(k), t >= TRUST_FLOOR
    PROVE  k + 1 \in 0 .. 6 /\ Ema(t, 0) \in Trust /\ Ema(t, 0) <= Ceiling(k + 1)
<1>0. t \in 0 .. 1000
    BY DEF Trust, FULL_TRUST
<1>1. k # 6
    BY <1>0 DEF Ceiling, TRUST_FLOOR
<1>2. Ema(t, 0) = (7 * t) \div 10
    BY <1>0 DEF Ema
<1>3. Ema(t, 0) \in Trust
    BY <1>0, <1>2 DEF Trust, FULL_TRUST
<1>4. \A c \in 0 .. 1000 : t <= c => Ema(t, 0) <= (7 * c) \div 10
    BY <1>0, <1>2
<1>5. (k = 0 => Ema(t, 0) <= 700) /\ (k = 1 => Ema(t, 0) <= 490) /\ (k = 2 => Ema(t, 0) <= 343)
    BY <1>4 DEF Ceiling
<1>6. (k = 3 => Ema(t, 0) <= 240) /\ (k = 4 => Ema(t, 0) <= 168) /\ (k = 5 => Ema(t, 0) <= 117)
    BY <1>4 DEF Ceiling
<1>7. k \in {0, 1, 2, 3, 4, 5}
    BY <1>1
<1> QED
    BY <1>3, <1>5, <1>6, <1>7 DEF Ceiling

(* A committed merge leaves a trust.                                       *)
LEMMA EmaRises ==
    ASSUME NEW t \in Trust
    PROVE  Ema(t, FULL_TRUST) \in Trust
BY DEF Ema, Trust, FULL_TRUST

(* A rate of right answers is a trust.                                     *)
LEMMA RateType ==
    ASSUME NEW n \in Nat \ {0}, NEW h \in 0 .. n
    PROVE  Rate(h, n) \in Trust
<1>1. 1000 * h <= 1000 * n /\ 0 <= 1000 * h
    OBVIOUS
<1> QED
    BY <1>1 DEF Rate, Trust, FULL_TRUST

(* The mean of two trusts is one.                                          *)
LEMMA MeanType ==
    ASSUME NEW t \in Trust, NEW r \in Trust
    PROVE  Mean(t, r) \in Trust
BY DEF Mean, Trust, FULL_TRUST

(* Full trust is a ceiling for everybody.                                  *)
LEMMA NoStrikes == Ceiling(0) = FULL_TRUST /\ \A t \in Trust : t <= FULL_TRUST
BY DEF Ceiling, Trust, FULL_TRUST

(* A fresh node has no strikes.                                            *)
LEMMA StrikesInit == Init => StrikesCost
BY DEF Init, StrikesCost, TrustOK, Ceiling, TRUST_INIT, Trust, FULL_TRUST

(* Six rejections cost any trust, and only a merge or a calibration        *)
(* restores it.                                                            *)
LEMMA StrikesStep == StrikesCost /\ [Next]_vars => StrikesCost'
<1>a. SUFFICES ASSUME StrikesCost, [Next]_vars PROVE StrikesCost'
    OBVIOUS
<1>0. /\ trust \in [Senders -> Trust] /\ strikes \in [Senders -> 0 .. 6]
      /\ holdout \in Seq(Stream)
    BY <1>a DEF StrikesCost, TrustOK
<1>1. ASSUME NEW s \in Senders
      PROVE  trust[s] \in Trust /\ strikes[s] \in 0 .. 6 /\ trust[s] <= Ceiling(strikes[s])
    BY <1>a DEF StrikesCost, TrustOK
<1>2. ASSUME NEW d \in Stream, Observe(d.x, d.y) PROVE StrikesCost'
  <2>1. d = [x |-> d.x, y |-> d.y]
      BY NodeAssumption
  <2>2. HoldoutSize \in Nat /\ << d >> \in Seq(Stream)
      BY NodeAssumption
  <2>3. Push(holdout, << d >>, HoldoutSize) \in Seq(Stream)
      BY <1>0, <2>2, PushType
  <2>4. holdout' = holdout \/ holdout' = Push(holdout, << d >>, HoldoutSize)
      BY <1>2, <2>1 DEF Observe
  <2>5. UNCHANGED << trust, strikes >>
      BY <1>2 DEF Observe
  <2> QED
      BY <1>a, <2>3, <2>4, <2>5 DEF StrikesCost, TrustOK
<1>3. ASSUME NEW s \in Peers, NEW batch \in Batches, Receive(s, batch) PROVE StrikesCost'
  <2>0. s \in Senders /\ trust[s] >= TRUST_FLOOR /\ UNCHANGED holdout
      BY <1>3 DEF Senders, Receive
  <2>1. trust[s] \in Trust /\ strikes[s] \in 0 .. 6 /\ trust[s] <= Ceiling(strikes[s])
      BY <1>1, <2>0
  <2>2. CASE UNCHANGED << trust, strikes >>
      BY <1>a, <2>0, <2>2 DEF StrikesCost, TrustOK
  <2>3. CASE /\ trust' = [trust EXCEPT ![s] = Ema(@, 0)]
             /\ strikes' = [strikes EXCEPT ![s] = @ + 1]
    <3>1. strikes[s] + 1 \in 0 .. 6 /\ Ema(trust[s], 0) \in Trust
          /\ Ema(trust[s], 0) <= Ceiling(strikes[s] + 1)
        BY <2>0, <2>1, EmaFalls
    <3>2. trust' \in [Senders -> Trust] /\ strikes' \in [Senders -> 0 .. 6]
        BY <1>0, <2>3, <3>1
    <3>3. \A r \in Senders : trust'[r] <= Ceiling(strikes'[r])
        BY <1>0, <1>1, <2>3, <3>1
    <3> QED
        BY <1>0, <2>0, <3>2, <3>3 DEF StrikesCost, TrustOK
  <2>4. CASE /\ trust' = [trust EXCEPT ![s] = Ema(@, FULL_TRUST)]
             /\ strikes' = [strikes EXCEPT ![s] = 0]
    <3>1. Ema(trust[s], FULL_TRUST) \in Trust
        BY <2>1, EmaRises
    <3>2. trust' \in [Senders -> Trust] /\ strikes' \in [Senders -> 0 .. 6]
        BY <1>0, <2>4, <3>1, 0 \in 0 .. 6
    <3>3. ASSUME NEW r \in Senders PROVE trust'[r] <= Ceiling(strikes'[r])
      <4>1. CASE r = s
          BY <1>0, <2>4, <3>1, <4>1, NoStrikes
      <4>2. CASE r # s
          BY <1>0, <1>1, <2>4, <4>2
      <4> QED
          BY <4>1, <4>2
    <3> QED
        BY <1>0, <2>0, <3>2, <3>3 DEF StrikesCost, TrustOK
  <2> QED
      BY <1>3, <2>2, <2>3, <2>4 DEF Receive
<1>4. ASSUME NEW b \in Browsers, NEW c \in Corrections, SubmitCorrectionClaim(b, c.x, c.y)
      PROVE  StrikesCost'
  <2>1. UNCHANGED << trust, strikes, holdout >>
      BY <1>4 DEF SubmitCorrectionClaim
  <2> QED
      BY <1>a, <2>1 DEF StrikesCost, TrustOK
<1>5. ASSUME NEW tally \in [Peers -> Tallies], CalibrateTrust(tally) PROVE StrikesCost'
  <2>1. ASSUME NEW s \in Senders
        PROVE  /\ trust'[s] \in Trust /\ strikes'[s] \in 0 .. 6
               /\ trust'[s] <= Ceiling(strikes'[s])
    <3>1. CASE s \in Peers /\ tally[s].seen > 0
      <4>1. tally[s] \in Tallies /\ Len(holdout) \in Nat
          BY <1>0, <3>1
      <4>2. tally[s].seen \in Nat \ {0} /\ tally[s].hits \in 0 .. tally[s].seen
          BY <3>1, <4>1 DEF Tallies
      <4>3. Rate(tally[s].hits, tally[s].seen) \in Trust
          BY <4>2, RateType
      <4>4. Mean(trust[s], Rate(tally[s].hits, tally[s].seen)) \in Trust
          BY <1>1, <4>3, MeanType
      <4>5. /\ trust'[s] = Mean(trust[s], Rate(tally[s].hits, tally[s].seen))
            /\ strikes'[s] = 0
          BY <1>5, <3>1 DEF CalibrateTrust
      <4> QED
          BY <4>4, <4>5, NoStrikes
    <3>2. CASE ~ (s \in Peers /\ tally[s].seen > 0)
      <4>1. trust'[s] = trust[s] /\ strikes'[s] = strikes[s]
          BY <1>5, <3>2 DEF CalibrateTrust
      <4> QED
          BY <1>1, <4>1
    <3> QED
        BY <3>1, <3>2
  <2>2. /\ trust' = [s \in Senders |-> trust'[s]]
        /\ strikes' = [s \in Senders |-> strikes'[s]]
        /\ UNCHANGED holdout
      BY <1>5 DEF CalibrateTrust
  <2>3. trust' \in [Senders -> Trust] /\ strikes' \in [Senders -> 0 .. 6]
      BY <2>1, <2>2
  <2> QED
      BY <1>0, <2>1, <2>2, <2>3 DEF StrikesCost, TrustOK
<1>6. CASE UNCHANGED vars
    BY <1>a, <1>6 DEF vars, StrikesCost, TrustOK
<1> QED
    BY <1>a, <1>2, <1>3, <1>4, <1>5, <1>6 DEF Next

(* At most six merges of a sender are rejected in a row, as the sixth cuts *)
(* the sender off.                                                         *)
THEOREM StrikesAreBounded == Spec => []SixStrikes
<1>1. StrikesCost => SixStrikes
  <2> SUFFICES ASSUME StrikesCost, NEW s \in Senders
               PROVE  strikes[s] <= 6 /\ (strikes[s] = 6 => trust[s] < TRUST_FLOOR)
      BY DEF SixStrikes
  <2>1. strikes[s] \in 0 .. 6 /\ trust[s] \in 0 .. 1000 /\ trust[s] <= Ceiling(strikes[s])
      BY DEF StrikesCost, TrustOK, Trust, FULL_TRUST
  <2>2. Ceiling(6) = 117
      BY DEF Ceiling
  <2> QED
      BY <2>1, <2>2 DEF TRUST_FLOOR
<1> QED
    BY <1>1, StrikesInit, StrikesStep, PTL DEF Spec

-----------------------------------------------------------------------------
(* Where the knowledge of a model comes from                               *)

(* The classes a model may know: those the stream has shown, and those     *)
(* enough senders have vouched for.                                        *)
Legitimate(seen, voices) ==
    {c \in Classes : c \in seen \/ Cardinality(voices[c]) >= Corroboration}

Backed(voices) ==
    {e \in [proto : Prototype, sender : Senders] :
        e.proto.label \in Classes /\ e.sender \in voices[e.proto.label]}

Shown(seen) == {d \in Stream : d.y \in seen}

(* The inductive invariant behind ForeignClassHasQuorum: every label of    *)
(* the model, the holdout and the quarantine has an origin in the history. *)
Provenance ==
    /\ model \in Models(Legitimate(lived, claimants), Nodes)
    /\ holdout \in Seq(Shown(lived))
    /\ quarantine \in Seq(Backed(claimants))
    /\ lived \subseteq Classes
    /\ claimants \in [Classes -> SUBSET Senders]

VoicesGrow(voices, more) ==
    /\ voices \in [Classes -> SUBSET Senders] /\ more \in [Classes -> SUBSET Senders]
    /\ \A c \in Classes : voices[c] \subseteq more[c]

(* Time only adds legitimate classes.                                      *)
LEMMA LegitimateGrows ==
    ASSUME NEW seen, NEW seen2, seen \subseteq seen2,
           NEW voices, NEW voices2, VoicesGrow(voices, voices2)
    PROVE  Legitimate(seen, voices) \subseteq Legitimate(seen2, voices2)
<1> SUFFICES ASSUME NEW c \in Classes, Cardinality(voices[c]) >= Corroboration
             PROVE  Cardinality(voices2[c]) >= Corroboration
    BY DEF Legitimate
<1>1. voices[c] \subseteq voices2[c] /\ voices2[c] \in SUBSET Senders /\ voices[c] \in SUBSET Senders
    BY DEF VoicesGrow
<1>2. Cardinality(voices[c]) <= Cardinality(voices2[c])
    BY <1>1, FewSenders, FS_Subset
<1> QED
    BY <1>1, <1>2, FewSenders, NodeAssumption

(* A model of some classes is one of more classes.                         *)
LEMMA ModelsGrow ==
    ASSUME NEW L, NEW M, L \subseteq M, NEW N
    PROVE  Models(L, N) \subseteq Models(M, N)
<1>1. Of(L) \subseteq Of(M)
    BY DEF Of
<1> QED
    BY <1>1 DEF Models

(* Claims stay backed.                                                     *)
LEMMA BackedGrows ==
    ASSUME NEW voices, NEW voices2, VoicesGrow(voices, voices2)
    PROVE  Backed(voices) \subseteq Backed(voices2)
BY DEF VoicesGrow, Backed

(* A quorum of votes is a quorum of senders that vouched for the class.    *)
LEMMA QuorumOfVoices ==
    ASSUME NEW voices \in [Classes -> SUBSET Senders], NEW buffer \in Seq(Backed(voices)),
           NEW p \in Prototype, p.label \in Classes, NEW sender \in voices[p.label],
           Corroborated(buffer, p, sender)
    PROVE  Cardinality(voices[p.label]) >= Corroboration
<1> DEFINE votes == Votes(buffer, p, sender, p.label)
<1>1. ASSUME NEW i \in DOMAIN buffer, buffer[i].proto.label = p.label
      PROVE  buffer[i].sender \in voices[p.label]
    BY <1>1 DEF Backed
<1>2. votes \subseteq voices[p.label]
    BY <1>1 DEF Votes
<1>3. Cardinality(votes) >= Corroboration
    BY DEF Corroborated
<1> HIDE DEF votes
<1>4. voices[p.label] \in SUBSET Senders /\ votes \in SUBSET Senders
    BY <1>2
<1>5. Cardinality(votes) <= Cardinality(voices[p.label])
    BY <1>2, <1>4, FewSenders, FS_Subset
<1> QED
    BY <1>3, <1>4, <1>5, FewSenders, NodeAssumption

(* The claims of a batch are backed by its sender.                         *)
LEMMA ClaimsType ==
    ASSUME NEW voices, NEW protos \in Seq(Prototype), NEW sender \in Senders,
           \A c \in Labels(protos) : c \in Classes /\ sender \in voices[c]
    PROVE  Claims(protos, sender) \in Seq(Backed(voices))
<1>1. ASSUME NEW i \in 1 .. Len(protos)
      PROVE  [proto |-> protos[i], sender |-> sender] \in Backed(voices)
  <2>1. protos[i] \in Prototype /\ protos[i].label \in Labels(protos)
      BY DEF Labels
  <2> QED
      BY <2>1 DEF Backed
<1> QED
    BY <1>1 DEF Claims

(* What the corroboration gate lets through is legitimate.                 *)
LEMMA PromotedType ==
    ASSUME NEW voices, VoicesGrow(claimants, voices), quarantine \in Seq(Backed(claimants)),
           NEW protos \in Seq(Prototype), NEW s \in Senders,
           \A c \in Labels(protos) : c \in Classes /\ s \in voices[c],
           NEW seen
    PROVE  Promoted(protos, s) \in Seq(Of(Legitimate(seen, voices)))
<1> DEFINE buffer(i) == Push(quarantine, SubSeq(Claims(protos, s), 1, i - 1), QuarantineSize)
           I == {i \in 1 .. Len(protos) : Corroborated(buffer(i), protos[i], s)}
           T == {protos[i] : i \in I}
           L == Legitimate(seen, voices)
<1>1. Promoted(protos, s) = Pick(protos, I)
    BY DEF Promoted
<1>2. Pick(protos, I) \in Seq(T)
    BY PickType
<1>3. quarantine \in Seq(Backed(voices)) /\ Claims(protos, s) \in Seq(Backed(voices))
  <2>1. Backed(claimants) \subseteq Backed(voices)
      BY BackedGrows
  <2>2. Claims(protos, s) \in Seq(Backed(voices))
      BY ClaimsType
  <2> QED
      BY <2>1, <2>2
<1>4. ASSUME NEW i \in 1 .. Len(protos) PROVE buffer(i) \in Seq(Backed(voices))
  <2>1. /\ Len(Claims(protos, s)) = Len(protos) /\ 1 \in Int /\ i - 1 \in Int
        /\ 1 >= 1 /\ i - 1 <= Len(protos)
      BY DEF Claims
  <2>2. SubSeq(Claims(protos, s), 1, i - 1) \in Seq(Backed(voices))
      BY <1>3, <2>1
  <2>3. QuarantineSize \in Nat
      BY NodeAssumption
  <2> QED
      BY <1>3, <2>2, <2>3, PushType
<1> HIDE DEF buffer
<1>5. ASSUME NEW i \in I PROVE protos[i] \in Of(L)
  <2>1. /\ i \in 1 .. Len(protos) /\ protos[i] \in Prototype
        /\ protos[i].label \in Classes /\ s \in voices[protos[i].label]
      BY DEF Labels
  <2>2. voices \in [Classes -> SUBSET Senders]
      BY DEF VoicesGrow
  <2>3. Cardinality(voices[protos[i].label]) >= Corroboration
      BY <1>4, <2>1, <2>2, QuorumOfVoices
  <2> QED
      BY <2>1, <2>3 DEF Of, Legitimate
<1>6. T \subseteq Of(L)
    BY <1>5
<1> HIDE DEF I, T, L
<1>7. Pick(protos, I) \in Seq(Of(L))
    BY <1>2, <1>6
<1> QED
    BY <1>1, <1>7 DEF L

(* The voices recorded with a quarantined batch.                           *)
LEMMA QuarantinedType ==
    ASSUME claimants \in [Classes -> SUBSET Senders], quarantine \in Seq(Backed(claimants)),
           NEW protos \in Seq(Prototype), NEW s \in Senders, Labels(protos) \subseteq Classes,
           Quarantined(protos, s)
    PROVE  /\ VoicesGrow(claimants, claimants')
           /\ \A c \in Labels(protos) : c \in Classes /\ s \in claimants'[c]
           /\ quarantine' \in Seq(Backed(claimants'))
<1>1. claimants' = [c \in Classes |->
            claimants[c] \cup (IF c \in Labels(protos) THEN {s} ELSE {})]
    BY DEF Quarantined
<1>2. VoicesGrow(claimants, claimants')
    BY <1>1 DEF VoicesGrow
<1>3. \A c \in Labels(protos) : c \in Classes /\ s \in claimants'[c]
    BY <1>1
<1>4. quarantine \in Seq(Backed(claimants')) /\ Claims(protos, s) \in Seq(Backed(claimants'))
    BY <1>2, <1>3, BackedGrows, ClaimsType
<1>5. QuarantineSize \in Nat
    BY NodeAssumption
<1>6. Push(quarantine, Claims(protos, s), QuarantineSize) \in Seq(Backed(claimants'))
    BY <1>4, <1>5, PushType
<1> QED
    BY <1>2, <1>3, <1>6 DEF Quarantined

(* A fresh node knows nothing.                                             *)
LEMMA ProvenanceInit == Init => Provenance
<1> SUFFICES ASSUME Init PROVE Provenance
    OBVIOUS
<1>1. model \in Models(Legitimate(lived, claimants), Nodes)
    BY DEF Init, Genesis, Models, Nodes
<1>2. holdout \in Seq(Shown(lived)) /\ quarantine \in Seq(Backed(claimants))
    BY DEF Init
<1> QED
    BY <1>1, <1>2 DEF Init, Provenance

(* The parts of the invariant that a change of the history alone keeps.    *)
LEMMA ProvenanceKept ==
    ASSUME Provenance, lived \subseteq lived', lived' \subseteq Classes,
           VoicesGrow(claimants, claimants')
    PROVE  /\ model \in Models(Legitimate(lived', claimants'), Nodes)
           /\ holdout \in Seq(Shown(lived'))
           /\ quarantine \in Seq(Backed(claimants'))
<1>1. Legitimate(lived, claimants) \subseteq Legitimate(lived', claimants')
    BY LegitimateGrows
<1>2. Models(Legitimate(lived, claimants), Nodes) \subseteq Models(Legitimate(lived', claimants'), Nodes)
    BY <1>1, ModelsGrow
<1>3. Backed(claimants) \subseteq Backed(claimants')
    BY BackedGrows
<1>4. Shown(lived) \subseteq Shown(lived')
    BY DEF Shown
<1> QED
    BY <1>2, <1>3, <1>4 DEF Provenance

(* Local learning keeps Provenance: observe adds its class to the history. *)
LEMMA ObserveProvenance ==
    ASSUME Provenance, NEW d \in Stream, Observe(d.x, d.y)
    PROVE  Provenance'
<1>1. d = [x |-> d.x, y |-> d.y] /\ d.x \in Sample /\ d.y \in Classes /\ d.y \in Nat
    BY NodeAssumption
<1>2. lived' = lived \cup {d.y} /\ UNCHANGED << claimants, quarantine >>
    BY DEF Observe
<1>3. claimants \in [Classes -> SUBSET Senders]
    BY DEF Provenance
<1>4. lived \subseteq lived' /\ lived' \subseteq Classes /\ VoicesGrow(claimants, claimants')
    BY <1>1, <1>2, <1>3 DEF Provenance, VoicesGrow
<1> DEFINE L == Legitimate(lived', claimants')
<1>5. model \in Models(L, Nodes) /\ holdout \in Seq(Shown(lived')) /\ quarantine \in Seq(Backed(claimants'))
    BY <1>4, ProvenanceKept
<1>6. d.y \in L
    BY <1>1, <1>2 DEF Legitimate
<1> HIDE DEF L
<1>7. Learned(model, d.x, d.y, Self) \in Models(L, Nodes)
    BY <1>1, <1>5, <1>6, LearnedType DEF Nodes
<1>8. Push(holdout, << d >>, HoldoutSize) \in Seq(Shown(lived'))
  <2>1. << d >> \in Seq(Shown(lived')) /\ HoldoutSize \in Nat
      BY <1>2, NodeAssumption DEF Shown
  <2> QED
      BY <1>5, <2>1, PushType
<1>9. /\ model' = model \/ model' = Learned(model, d.x, d.y, Self)
      /\ holdout' = holdout \/ holdout' = Push(holdout, << d >>, HoldoutSize)
    BY <1>1 DEF Observe
<1> QED
    BY <1>2, <1>3, <1>4, <1>5, <1>7, <1>8, <1>9 DEF Provenance, L

(* Gossip keeps Provenance: the holdout vouches for what is verifiable,    *)
(* the corroboration gate for the rest.                                    *)
LEMMA ReceiveProvenance ==
    ASSUME Provenance, NEW s \in Peers, NEW batch \in Batches, Receive(s, batch)
    PROVE  Provenance'
<1> DEFINE known        == {holdout[i].y : i \in DOMAIN holdout}
           verifiable   == Pick(batch, {i \in 1 .. Len(batch) : batch[i].label \in known})
           unverifiable == Pick(batch, {i \in 1 .. Len(batch) : batch[i].label \notin known})
           promoted     == Promoted(unverifiable, s)
           to_merge     == verifiable \o promoted
           merge        == MergedWith(model, to_merge, Self, trust[s])
           L            == Legitimate(lived', claimants')
<1>1. batch \in Seq(Prototype) /\ Labels(batch) \subseteq Classes /\ s \in Senders
    BY NodeAssumption DEF Senders
<1>2. UNCHANGED << lived, holdout >> /\ (model' = model \/ model' = merge.model)
    BY DEF Receive, Commit, Reject, NoVerdict
<1>3. Quarantined(unverifiable, s)
    BY DEF Receive
<1>4. unverifiable \in Seq(Prototype) /\ Labels(unverifiable) \subseteq Classes
  <2> DEFINE I == {i \in 1 .. Len(batch) : batch[i].label \notin known}
             T == {batch[i] : i \in I}
             U == {p \in Prototype : p.label \in Classes}
  <2>1. unverifiable \in Seq(T)
      BY <1>1, PickType
  <2>2. T \subseteq U
      BY <1>1 DEF Labels
  <2> HIDE DEF I, T, unverifiable
  <2>3. unverifiable \in Seq(U)
      BY <2>1, <2>2
  <2> QED
      BY <2>3 DEF Labels
<1> HIDE DEF unverifiable
<1>5. /\ claimants \in [Classes -> SUBSET Senders] /\ quarantine \in Seq(Backed(claimants))
      /\ holdout \in Seq(Shown(lived)) /\ lived \subseteq Classes
    BY DEF Provenance
<1>6. /\ VoicesGrow(claimants, claimants')
      /\ \A c \in Labels(unverifiable) : c \in Classes /\ s \in claimants'[c]
      /\ quarantine' \in Seq(Backed(claimants'))
    BY <1>1, <1>3, <1>4, <1>5, QuarantinedType
<1>7. model \in Models(L, Nodes) /\ holdout \in Seq(Shown(lived'))
    BY <1>2, <1>5, <1>6, ProvenanceKept
<1>8. promoted \in Seq(Of(L))
    BY <1>1, <1>4, <1>5, <1>6, PromotedType
<1>9. verifiable \in Seq(Of(L))
  <2> DEFINE I == {i \in 1 .. Len(batch) : batch[i].label \in known}
             T == {batch[i] : i \in I}
  <2>1. verifiable \in Seq(T)
      BY <1>1, PickType
  <2>2. known \subseteq lived'
      BY <1>7 DEF Shown
  <2>3. T \subseteq Of(L)
      BY <1>1, <2>2 DEF Labels, Of, Legitimate
  <2> HIDE DEF I, T, L, verifiable
  <2> QED
      BY <2>1, <2>3
<1> HIDE DEF promoted, verifiable, L, known
<1>10. to_merge \in Seq(Of(L))
    BY <1>8, <1>9
<1> HIDE DEF to_merge
<1>11. merge.model \in Models(L, Nodes)
    BY <1>7, <1>10, MergedWithType DEF Nodes
<1> HIDE DEF merge
<1>12. claimants' \in [Classes -> SUBSET Senders] /\ lived' \subseteq Classes
    BY <1>2, <1>5, <1>6 DEF VoicesGrow
<1>13. holdout' \in Seq(Shown(lived'))
    BY <1>2, <1>7
<1> QED
    BY <1>2, <1>6, <1>7, <1>11, <1>12, <1>13 DEF Provenance, L

(* A browser's claim keeps Provenance: it passes the corroboration gate or *)
(* changes nothing.                                                        *)
LEMMA ClaimProvenance ==
    ASSUME Provenance, NEW b \in Browsers, NEW c \in Corrections, SubmitCorrectionClaim(b, c.x, c.y)
    PROVE  Provenance'
<1> DEFINE p     == Exemplar(c.x, c.y)
           merge == Candidate(p)
           L     == Legitimate(lived', claimants')
<1>1. c.x \in Sample /\ c.y \in Classes /\ c.y \in Nat /\ b \in Senders
    BY NodeAssumption DEF Senders
<1>2. p \in Prototype /\ p.label \in Classes /\ p.label = c.y
    BY <1>1 DEF Exemplar, Sample, Prototype
<1>3. /\ UNCHANGED << lived, holdout >> /\ Quarantined(<< p >>, b)
      /\ model' = model \/ (model' = merge.model /\ Corroborated(quarantine, p, b))
    BY DEF SubmitCorrectionClaim, Commit, Reject, NoVerdict
<1> HIDE DEF p
<1>4. << p >> \in Seq(Prototype) /\ Labels(<< p >>) = {p.label}
    BY <1>2 DEF Labels
<1>5. /\ claimants \in [Classes -> SUBSET Senders] /\ quarantine \in Seq(Backed(claimants))
      /\ holdout \in Seq(Shown(lived)) /\ lived \subseteq Classes
    BY DEF Provenance
<1>6. /\ VoicesGrow(claimants, claimants') /\ b \in claimants'[p.label]
      /\ quarantine' \in Seq(Backed(claimants'))
    BY <1>1, <1>2, <1>3, <1>4, <1>5, QuarantinedType
<1>7. /\ model \in Models(L, Nodes) /\ holdout \in Seq(Shown(lived'))
      /\ quarantine \in Seq(Backed(claimants'))
    BY <1>3, <1>5, <1>6, ProvenanceKept
<1>8. claimants' \in [Classes -> SUBSET Senders] /\ lived' \subseteq Classes
    BY <1>3, <1>5, <1>6 DEF VoicesGrow
<1>9. ASSUME Corroborated(quarantine, p, b) PROVE merge.model \in Models(L, Nodes)
  <2>1. Cardinality(claimants'[p.label]) >= Corroboration
      BY <1>2, <1>6, <1>7, <1>8, <1>9, QuorumOfVoices
  <2>2. << p >> \in Seq(Of(L))
      BY <1>2, <2>1 DEF Of, Legitimate
  <2> HIDE DEF L
  <2> QED
      BY <1>7, <2>2, MergedWithType DEF Nodes, Candidate
<1>10. model' \in Models(L, Nodes)
    BY <1>3, <1>7, <1>9
<1>11. holdout' \in Seq(Shown(lived'))
    BY <1>3, <1>7
<1> QED
    BY <1>6, <1>8, <1>10, <1>11 DEF Provenance

(* No step leaves a label without an origin.                               *)
LEMMA ProvenanceStep == Provenance /\ [Next]_vars => Provenance'
<1>a. SUFFICES ASSUME Provenance, [Next]_vars PROVE Provenance'
    OBVIOUS
<1>1. CASE \E d \in Stream : Observe(d.x, d.y)
    BY <1>a, <1>1, ObserveProvenance
<1>2. CASE \E s \in Peers, batch \in Batches : Receive(s, batch)
    BY <1>a, <1>2, ReceiveProvenance
<1>3. CASE \E b \in Browsers, c \in Corrections : SubmitCorrectionClaim(b, c.x, c.y)
    BY <1>a, <1>3, ClaimProvenance
<1>4. CASE \E tally \in [Peers -> Tallies] : CalibrateTrust(tally)
    BY <1>a, <1>4 DEF CalibrateTrust, Provenance
<1>5. CASE UNCHANGED vars
    BY <1>a, <1>5 DEF vars, Provenance
<1> QED
    BY <1>a, <1>1, <1>2, <1>3, <1>4, <1>5 DEF Next

(* A class the stream has not shown is in the model only when enough       *)
(* distinct senders have claimed it.                                       *)
THEOREM ForeignClassesHaveQuorum == Spec => []ForeignClassHasQuorum
<1>1. Provenance => ForeignClassHasQuorum
  <2> SUFFICES ASSUME Provenance, NEW c \in Labels(model.protos)
               PROVE  c \in lived \/ Cardinality(claimants[c]) >= Corroboration
      BY DEF ForeignClassHasQuorum
  <2>1. model.protos \in Seq(Of(Legitimate(lived, claimants)))
      BY DEF Provenance, Models
  <2>2. c \in Legitimate(lived, claimants)
      BY <2>1 DEF Labels, Of
  <2> QED
      BY <2>2 DEF Legitimate
<1> QED
    BY <1>1, ProvenanceInit, ProvenanceStep, PTL DEF Spec

-----------------------------------------------------------------------------
(* The budget                                                              *)

(* The inductive invariant behind WithinBudget.                            *)
Budgeted == model \in Models(Classes, Nodes) /\ WithinBudget

(* The verifiable and the promoted part of a batch bring in no class that  *)
(* is not in Classes.                                                      *)
LEMMA GossipType ==
    ASSUME NEW batch \in Batches, NEW I, I \subseteq 1 .. Len(batch), NEW s
    PROVE  /\ Pick(batch, I) \in Seq(Of(Classes))
           /\ Promoted(Pick(batch, I), s) \in Seq(Of(Classes))
<1>1. batch \in Seq(Of(Classes))
  <2>1. batch \in Seq(Prototype) /\ Labels(batch) \subseteq Classes
      BY NodeAssumption
  <2>2. \A i \in 1 .. Len(batch) : batch[i] \in Of(Classes)
      BY <2>1 DEF Labels, Of
  <2> QED
      BY <2>1, <2>2
<1>2. Pick(batch, I) \in Seq(Of(Classes))
    BY <1>1, PickOf
<1> DEFINE list == Pick(batch, I)
           J == {i \in 1 .. Len(list) :
                    Corroborated(Push(quarantine, SubSeq(Claims(list, s), 1, i - 1), QuarantineSize),
                                 list[i], s)}
<1>3. Promoted(list, s) = Pick(list, J)
    BY DEF Promoted
<1>4. J \subseteq 1 .. Len(list)
    OBVIOUS
<1> HIDE DEF list, J
<1>5. Pick(list, J) \in Seq(Of(Classes))
    BY <1>2, <1>4, PickOf DEF list
<1> QED
    BY <1>2, <1>3, <1>5 DEF list

(* A fresh model is within any budget.                                     *)
LEMMA BudgetInit == Init => Budgeted
BY ModelAssumption DEF Init, Budgeted, Genesis, Models, Nodes, WithinBudget

(* Learning and merging leave room for every class.                        *)
LEMMA BudgetStep ==
    ASSUME IsFiniteSet(Classes), Cardinality(Classes) <= MaxPrototypes, Budgeted, [Next]_vars
    PROVE  Budgeted'
<1>0. /\ model \in Models(Classes, Nodes) /\ Len(model.protos) <= MaxPrototypes
      /\ Self \in Nodes
    BY DEF Budgeted, WithinBudget, Nodes
<1>1. ASSUME NEW d \in Stream, Observe(d.x, d.y) PROVE Budgeted'
  <2>1. d.x \in Sample /\ d.y \in Nat /\ d.y \in Classes
      BY NodeAssumption
  <2> DEFINE next == Learned(model, d.x, d.y, Self)
  <2>2. next \in Models(Classes, Nodes) /\ Len(next.protos) <= MaxPrototypes
      BY <1>0, <2>1, LearnedType
  <2>3. model' = model \/ model' = next
      BY <1>1 DEF Observe
  <2> HIDE DEF next
  <2> QED
      BY <1>0, <2>2, <2>3 DEF Budgeted, WithinBudget
<1>2. ASSUME NEW s \in Peers, NEW batch \in Batches, Receive(s, batch) PROVE Budgeted'
  <2> DEFINE known        == {holdout[i].y : i \in DOMAIN holdout}
             verifiable   == Pick(batch, {i \in 1 .. Len(batch) : batch[i].label \in known})
             unverifiable == Pick(batch, {i \in 1 .. Len(batch) : batch[i].label \notin known})
             to_merge     == verifiable \o Promoted(unverifiable, s)
             merge        == MergedWith(model, to_merge, Self, trust[s])
  <2>1. model' = model \/ (model' = merge.model /\ ~ merge.raised)
      BY <1>2 DEF Receive, Commit, Reject, NoVerdict, Raises
  <2>2. verifiable \in Seq(Of(Classes)) /\ Promoted(unverifiable, s) \in Seq(Of(Classes))
      BY GossipType
  <2> HIDE DEF verifiable, unverifiable
  <2>3. to_merge \in Seq(Of(Classes))
      BY <2>2
  <2> HIDE DEF to_merge
  <2>4. /\ merge.model \in Models(Classes, Nodes)
        /\ ~ merge.raised => Len(merge.model.protos) <= MaxPrototypes
      BY <1>0, <2>3, MergedWithType
  <2> HIDE DEF merge
  <2> QED
      BY <1>0, <2>1, <2>4 DEF Budgeted, WithinBudget
<1>3. ASSUME NEW b \in Browsers, NEW c \in Corrections, SubmitCorrectionClaim(b, c.x, c.y)
      PROVE  Budgeted'
  <2> DEFINE p     == Exemplar(c.x, c.y)
             merge == Candidate(p)
  <2>1. p \in Of(Classes)
    <3>1. c.x \in Sample /\ c.y \in Classes /\ c.y \in Nat
        BY NodeAssumption
    <3> QED
        BY <3>1 DEF Exemplar, Sample, Prototype, Of
  <2>2. model' = model \/ (model' = merge.model /\ ~ merge.raised)
      BY <1>3 DEF SubmitCorrectionClaim, Commit, Reject, NoVerdict, Raises
  <2> HIDE DEF p
  <2>3. << p >> \in Seq(Of(Classes))
      BY <2>1
  <2>4. /\ merge.model \in Models(Classes, Nodes)
        /\ ~ merge.raised => Len(merge.model.protos) <= MaxPrototypes
      BY <1>0, <2>3, MergedWithType DEF Candidate
  <2> HIDE DEF merge
  <2> QED
      BY <1>0, <2>2, <2>4 DEF Budgeted, WithinBudget
<1>4. CASE \E tally \in [Peers -> Tallies] : CalibrateTrust(tally)
    BY <1>4 DEF CalibrateTrust, Budgeted, WithinBudget
<1>5. CASE UNCHANGED vars
    BY <1>5 DEF vars, Budgeted, WithinBudget
<1> QED
    BY <1>1, <1>2, <1>3, <1>4, <1>5 DEF Next

(* With no more classes than prototypes, the model never outgrows the      *)
(* budget, however learning and merging alternate.                         *)
THEOREM BudgetIsKept ==
    ASSUME IsFiniteSet(Classes), Cardinality(Classes) <= MaxPrototypes
    PROVE  Spec => []WithinBudget
<1>1. Init => Budgeted
    BY BudgetInit
<1>2. Budgeted /\ [Next]_vars => Budgeted'
    BY BudgetStep
<1>3. Budgeted => WithinBudget
    BY DEF Budgeted
<1> QED
    BY <1>1, <1>2, <1>3, PTL DEF Spec

-----------------------------------------------------------------------------
(* Evictions                                                               *)

(* More trust than a stranger has is earned, by a merge or a calibration.  *)
EarnedTrust == \A s \in Senders : trust[s] > TRUST_INIT => s \in proven

(* A rejected merge does not raise trust.                                  *)
LEMMA EmaLowers ==
    ASSUME NEW t \in Trust
    PROVE  Ema(t, 0) <= t
<1>1. t \in 0 .. 1000
    BY DEF Trust, FULL_TRUST
<1>2. Ema(t, 0) = (7 * t) \div 10
    BY <1>1 DEF Ema
<1> QED
    BY <1>1, <1>2

(* Only a commit or a calibration raises trust.                            *)
LEMMA EarnedStep ==
    ASSUME StrikesCost, EarnedTrust, [Next]_vars
    PROVE  EarnedTrust'
<1>0. trust \in [Senders -> Trust] /\ Trust \subseteq Nat /\ TRUST_INIT \in Nat
  <2>1. trust \in [Senders -> Trust]
      BY DEF StrikesCost, TrustOK
  <2>2. Trust \subseteq Nat /\ TRUST_INIT \in Nat
      BY DEF Trust, FULL_TRUST, TRUST_INIT
  <2> QED
      BY <2>1, <2>2
<1>1. ASSUME NEW s \in Peers, NEW batch \in Batches, Receive(s, batch) PROVE EarnedTrust'
  <2>1. \/ UNCHANGED << trust, proven >>
        \/ trust' = [trust EXCEPT ![s] = Ema(@, 0)] /\ proven' = proven
        \/ trust' = [trust EXCEPT ![s] = Ema(@, FULL_TRUST)] /\ proven' = proven \cup {s}
      BY <1>1 DEF Receive
  <2>2. CASE UNCHANGED << trust, proven >>
      BY <2>2 DEF EarnedTrust
  <2>3. CASE trust' = [trust EXCEPT ![s] = Ema(@, 0)] /\ proven' = proven
    <3> SUFFICES ASSUME NEW r \in Senders, trust'[r] > TRUST_INIT PROVE r \in proven
        BY <2>3 DEF EarnedTrust
    <3>1. CASE r = s
      <4> DEFINE t == trust[s]
                 u == Ema(t, 0)
      <4>1. t \in Trust /\ t \in Nat /\ u <= t /\ trust'[r] = u
          BY <1>0, <2>3, <3>1, EmaLowers
      <4>2. u \in Nat
          BY <4>1 DEF Ema
      <4> HIDE DEF t, u
      <4>3. t > TRUST_INIT
          BY <1>0, <4>1, <4>2
      <4> QED
          BY <3>1, <4>3 DEF EarnedTrust, t
    <3>2. CASE r # s
        BY <1>0, <2>3, <3>2 DEF EarnedTrust
    <3> QED
        BY <3>1, <3>2
  <2>4. CASE trust' = [trust EXCEPT ![s] = Ema(@, FULL_TRUST)] /\ proven' = proven \cup {s}
      BY <1>0, <2>4 DEF EarnedTrust
  <2> QED
      BY <2>1, <2>2, <2>3, <2>4
<1>2. ASSUME NEW tally \in [Peers -> Tallies], CalibrateTrust(tally) PROVE EarnedTrust'
  <2> DEFINE marked == {s \in Peers : tally[s].seen > 0}
  <2>1. proven' = proven \cup marked /\ \A s \in Senders \ marked : trust'[s] = trust[s]
      BY <1>2 DEF CalibrateTrust
  <2> HIDE DEF marked
  <2> QED
      BY <2>1 DEF EarnedTrust
<1>3. CASE UNCHANGED << trust, proven >>
    BY <1>3 DEF EarnedTrust
<1> QED
    BY <1>1, <1>2, <1>3 DEF Next, Observe, SubmitCorrectionClaim, vars

(* Who has no more trust than a stranger takes no class from the model; a  *)
(* peer with more has earned it, and it is its merge that takes the class. *)
LEMMA EvictionStep ==
    ASSUME IsFiniteSet(Classes), Cardinality(Classes) <= MaxPrototypes, OverrideTrust > TRUST_INIT,
           Budgeted, StrikesCost, EarnedTrust, Next
    PROVE  \/ Labels(model.protos) \subseteq Labels(model'.protos)
           \/ \E s \in proven \cap Peers, batch \in Batches :
                    trust[s] >= OverrideTrust /\ Receive(s, batch)
<1>0. /\ model \in Models(Classes, Nodes) /\ Self \in Nodes
      /\ trust \in [Senders -> Nat] /\ OverrideTrust \in Nat /\ TRUST_INIT \in Nat
  <2>1. trust \in [Senders -> Trust]
      BY DEF StrikesCost, TrustOK
  <2>2. Trust \subseteq Nat /\ TRUST_INIT \in Nat
      BY DEF Trust, FULL_TRUST, TRUST_INIT
  <2>3. trust \in [Senders -> Nat]
      BY <2>1, <2>2
  <2>4. OverrideTrust \in Nat
      BY ModelAssumption
  <2> QED
      BY <2>2, <2>3, <2>4 DEF Budgeted, Nodes
<1>1. ASSUME NEW d \in Stream, Observe(d.x, d.y) PROVE Labels(model.protos) \subseteq Labels(model'.protos)
  <2>1. d.x \in Sample /\ d.y \in Nat /\ d.y \in Classes
      BY NodeAssumption
  <2>2. Labels(model.protos) \subseteq Labels(Learned(model, d.x, d.y, Self).protos)
      BY <1>0, <2>1, LearnedKeeps
  <2> QED
      BY <1>1, <2>2 DEF Observe
<1>2. ASSUME NEW s \in Peers, NEW batch \in Batches, Receive(s, batch), trust[s] < OverrideTrust
      PROVE  Labels(model.protos) \subseteq Labels(model'.protos)
  <2> DEFINE known        == {holdout[i].y : i \in DOMAIN holdout}
             verifiable   == Pick(batch, {i \in 1 .. Len(batch) : batch[i].label \in known})
             unverifiable == Pick(batch, {i \in 1 .. Len(batch) : batch[i].label \notin known})
             to_merge     == verifiable \o Promoted(unverifiable, s)
             merge        == MergedWith(model, to_merge, Self, trust[s])
  <2>1. model' = model \/ model' = merge.model
      BY <1>2 DEF Receive, Commit, Reject, NoVerdict
  <2>2. verifiable \in Seq(Of(Classes)) /\ Promoted(unverifiable, s) \in Seq(Of(Classes))
      BY GossipType
  <2> HIDE DEF verifiable, unverifiable
  <2>3. to_merge \in Seq(Of(Classes))
      BY <2>2
  <2> HIDE DEF to_merge
  <2>4. Labels(model.protos) \subseteq Labels(merge.model.protos)
      BY <1>0, <1>2, <2>3, MergeKeeps
  <2> QED
      BY <2>1, <2>4
<1>3. ASSUME NEW s \in Peers, NEW batch \in Batches, Receive(s, batch), ~ (trust[s] < OverrideTrust)
      PROVE  s \in proven /\ trust[s] >= OverrideTrust
  <2>1. s \in Senders /\ trust[s] \in Nat
      BY <1>0 DEF Senders
  <2>2. trust[s] >= OverrideTrust /\ trust[s] > TRUST_INIT
      BY <1>0, <1>3, <2>1
  <2> QED
      BY <2>1, <2>2 DEF EarnedTrust
<1>4. ASSUME NEW b \in Browsers, NEW c \in Corrections, SubmitCorrectionClaim(b, c.x, c.y)
      PROVE  Labels(model.protos) \subseteq Labels(model'.protos)
  <2> DEFINE p     == Exemplar(c.x, c.y)
             merge == Candidate(p)
  <2>1. p \in Of(Classes)
    <3>1. c.x \in Sample /\ c.y \in Classes /\ c.y \in Nat
        BY NodeAssumption
    <3> QED
        BY <3>1 DEF Exemplar, Sample, Prototype, Of
  <2>2. model' = model \/ model' = merge.model
      BY <1>4 DEF SubmitCorrectionClaim, Commit, Reject, NoVerdict
  <2> HIDE DEF p
  <2>3. << p >> \in Seq(Of(Classes)) /\ TRUST_INIT < OverrideTrust
      BY <1>0, <2>1
  <2>4. Labels(model.protos) \subseteq Labels(merge.model.protos)
      BY <1>0, <2>3, MergeKeeps DEF Candidate
  <2> QED
      BY <2>2, <2>4
<1>5. CASE \E tally \in [Peers -> Tallies] : CalibrateTrust(tally)
    BY <1>5 DEF CalibrateTrust
<1> QED
    BY <1>1, <1>2, <1>3, <1>4, <1>5 DEF Next

(* A class leaves the model only in the merge of a batch of a peer that    *)
(* earned its trust, if there is room for every class and overriding takes more trust *)
(* than a stranger has (0.6 against 0.5 in the code).                      *)
THEOREM StrangersNeverEvict ==
    ASSUME IsFiniteSet(Classes), Cardinality(Classes) <= MaxPrototypes, OverrideTrust > TRUST_INIT
    PROVE  Spec => StrangersEvictNothing
<1>1. Init => Budgeted /\ StrikesCost /\ EarnedTrust
  <2>1. Init => EarnedTrust
      BY DEF Init, EarnedTrust, TRUST_INIT
  <2> QED
      BY <2>1, BudgetInit, StrikesInit
<1>2. Budgeted /\ StrikesCost /\ EarnedTrust /\ [Next]_vars => (Budgeted /\ StrikesCost /\ EarnedTrust)'
    BY BudgetStep, StrikesStep, EarnedStep
<1>3. Budgeted /\ StrikesCost /\ EarnedTrust /\ [Next]_vars =>
        [ \/ Labels(model.protos) \subseteq Labels(model'.protos)
          \/ \E s \in proven \cap Peers, batch \in Batches :
                  trust[s] >= OverrideTrust /\ Receive(s, batch) ]_vars
    BY EvictionStep
<1> QED
    BY <1>1, <1>2, <1>3, PTL DEF Spec, StrangersEvictNothing

-----------------------------------------------------------------------------
(* Types                                                                   *)

(* The conjuncts of TypeOK that neither StrikesCost nor Provenance implies *)
Sizes ==
    /\ Len(holdout) <= HoldoutSize /\ Len(quarantine) <= QuarantineSize
    /\ verdicts \in [ok : Nat, rejected : Nat]
    /\ proven \subseteq Senders /\ calibrations \in Nat

(* Type correctness, which includes the bounds of both deques.             *)
THEOREM TypesAreCorrect == Spec => []TypeOK
<1> DEFINE Inv == Sizes /\ Provenance
<1>1. Init => Sizes
    BY NodeAssumption DEF Init, Sizes
<1>2. ASSUME Sizes, Provenance, [Next]_vars PROVE Sizes'
  <2>0. /\ holdout \in Seq(Shown(lived)) /\ quarantine \in Seq(Backed(claimants))
        /\ HoldoutSize \in Nat /\ QuarantineSize \in Nat
      BY <1>2, NodeAssumption DEF Provenance
  <2>1. ASSUME NEW protos \in Seq(Prototype), NEW s, Quarantined(protos, s)
        PROVE  Len(quarantine') <= QuarantineSize
    <3> DEFINE T == Backed(claimants) \cup {[proto |-> protos[i], sender |-> s] : i \in 1 .. Len(protos)}
    <3>1. quarantine \in Seq(T)
        BY <2>0
    <3>2. Claims(protos, s) \in Seq(T)
        BY DEF Claims
    <3> HIDE DEF T
    <3>3. Len(Push(quarantine, Claims(protos, s), QuarantineSize)) <= QuarantineSize
        BY <2>0, <3>1, <3>2, PushType
    <3> QED
        BY <2>1, <3>3 DEF Quarantined
  <2>2. ASSUME NEW d \in Stream, Observe(d.x, d.y) PROVE Sizes'
    <3>1. d = [x |-> d.x, y |-> d.y]
        BY NodeAssumption
    <3>2. holdout \in Seq(Stream) /\ << d >> \in Seq(Stream)
        BY <2>0 DEF Shown
    <3>3. Len(Push(holdout, << d >>, HoldoutSize)) <= HoldoutSize
        BY <2>0, <3>2, PushType
    <3> QED
        BY <1>2, <2>2, <3>1, <3>3 DEF Observe, Sizes
  <2>3. ASSUME NEW s \in Peers, NEW batch \in Batches, Receive(s, batch) PROVE Sizes'
    <3> DEFINE known        == {holdout[i].y : i \in DOMAIN holdout}
               unverifiable == Pick(batch, {i \in 1 .. Len(batch) : batch[i].label \notin known})
    <3>1. unverifiable \in Seq(Prototype)
        BY NodeAssumption, PickOf
    <3>2. Quarantined(unverifiable, s)
        BY <2>3 DEF Receive
    <3> HIDE DEF unverifiable
    <3>3. Len(quarantine') <= QuarantineSize
        BY <2>1, <3>1, <3>2
    <3>4. verdicts' \in [ok : Nat, rejected : Nat]
      <4>1. \/ verdicts' = verdicts
            \/ verdicts' = [verdicts EXCEPT !.ok = @ + 1]
            \/ verdicts' = [verdicts EXCEPT !.rejected = @ + 1]
          BY <2>3 DEF Receive, Commit, Reject, NoVerdict
      <4> QED
          BY <1>2, <4>1 DEF Sizes
    <3>5. UNCHANGED << holdout, calibrations >> /\ proven' \subseteq Senders
        BY <1>2, <2>3 DEF Receive, Sizes, Senders
    <3> QED
        BY <1>2, <3>3, <3>4, <3>5 DEF Sizes
  <2>4. ASSUME NEW b \in Browsers, NEW c \in Corrections, SubmitCorrectionClaim(b, c.x, c.y)
        PROVE  Sizes'
    <3> DEFINE p == Exemplar(c.x, c.y)
    <3>1. c.x \in Sample /\ c.y \in Nat
        BY NodeAssumption
    <3>2. p \in Prototype
        BY <3>1 DEF Exemplar, Sample, Prototype
    <3>3. Quarantined(<< p >>, b)
        BY <2>4 DEF SubmitCorrectionClaim
    <3> HIDE DEF p
    <3>4. Len(quarantine') <= QuarantineSize
      <4>1. << p >> \in Seq(Prototype)
          BY <3>2
      <4> DEFINE one == << p >>
      <4> HIDE DEF one
      <4>2. one \in Seq(Prototype) /\ Quarantined(one, b)
          BY <3>3, <4>1 DEF one
      <4> QED
          BY <2>1, <4>2
    <3>5. verdicts' \in [ok : Nat, rejected : Nat]
        BY <1>2, <2>4 DEF SubmitCorrectionClaim, Commit, Reject, NoVerdict, Sizes
    <3>6. UNCHANGED << holdout, calibrations, proven >>
        BY <2>4 DEF SubmitCorrectionClaim
    <3> QED
        BY <1>2, <3>4, <3>5, <3>6 DEF Sizes
  <2>5. ASSUME NEW tally \in [Peers -> Tallies], CalibrateTrust(tally) PROVE Sizes'
      BY <1>2, <2>5 DEF CalibrateTrust, Sizes, Senders
  <2>6. CASE UNCHANGED vars
      BY <1>2, <2>6 DEF vars, Sizes
  <2> QED
      BY <1>2, <2>2, <2>3, <2>4, <2>5, <2>6 DEF Next
<1>3. Sizes /\ Provenance /\ StrikesCost => TypeOK
  <2> SUFFICES ASSUME Sizes, Provenance, StrikesCost PROVE TypeOK
      OBVIOUS
  <2>1. model \in [protos : Seq(Prototype), counter : Nat, bumper : {"none", Self}]
    <3>1. Of(Legitimate(lived, claimants)) \subseteq Prototype
        BY DEF Of
    <3> QED
        BY <3>1 DEF Provenance, Models, Nodes
  <2>2. holdout \in Seq(Stream) /\ strikes \in [Senders -> Nat] /\ trust \in [Senders -> Trust]
      BY DEF StrikesCost, TrustOK
  <2>3. quarantine \in Seq([proto : Prototype, sender : Senders])
    <3> DEFINE T == Backed(claimants)
               U == [proto : Prototype, sender : Senders]
    <3>1. T \subseteq U
        BY DEF Backed
    <3>2. quarantine \in Seq(T)
        BY DEF Provenance
    <3> HIDE DEF T, U
    <3>3. quarantine \in Seq(U)
        BY <3>1, <3>2
    <3> QED
        BY <3>3 DEF U
  <2> QED
      BY <2>1, <2>2, <2>3 DEF Sizes, Provenance, TypeOK
<1>4. Spec => []Provenance
    BY ProvenanceInit, ProvenanceStep, PTL DEF Spec
<1>5. Spec => []StrikesCost
    BY StrikesInit, StrikesStep, PTL DEF Spec
<1> QED
    BY <1>1, <1>2, <1>3, <1>4, <1>5, PTL DEF Spec
=============================================================================
