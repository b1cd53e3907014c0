------------------------------ MODULE SwarmNode ------------------------------
(***************************************************************************)
(* One learning node (node/swarm_node.py): its model, the holdout it       *)
(* judges merges with, the quarantine of claims it cannot judge, and the   *)
(* trust it has in every sender.  Every handler is synchronous and runs to *)
(* its end on one event loop, so each is one action.  Peers and browsers   *)
(* are the environment: they send any batch and any claim.                 *)
(*                                                                         *)
(* Trust is kept in thousandths, rounded down.  Accuracies are compared as *)
(* exact fractions.  holdout_x and holdout_y are one sequence of pairs.    *)
(***************************************************************************)
EXTENDS PrototypeModel

CONSTANTS
    Self,                 \* node_id
    Peers,                \* senders of gossip
    Browsers,             \* senders of anonymous correction claims
    Classes,              \* the class labels
    Stream,               \* the labelled samples [x, y] of the local stream
    Corrections,          \* the labelled samples browsers submit
    Batches,              \* the payloads of "protos" messages
    HoldoutSize,          \* HOLDOUT_SIZE, 60
    HoldoutMin,           \* the literal 10 of receive()
    QuarantineSize,       \* QUARANTINE_SIZE, 500
    Corroboration,        \* CORROBORATION, 3
    CorroborationRadius,  \* CORROBORATION_RADIUS
    MaxVersion,           \* bound: local samples stop at this model version
    MaxVerdicts,          \* bound: gossip and claims stop at this many verdicts
    MaxCalibrations       \* bound: calls of calibrate_trust

Senders == Peers \cup Browsers

ASSUME NodeAssumption ==
    /\ Classes \subseteq Nat
    /\ Stream \cup Corrections \subseteq [x : Sample, y : Classes]
    \* One task, and browsers that were served its page: the code checks no
    \* dimension, and what a model made of a foreign correction does is not here.
    /\ \A c, d \in Stream \cup Corrections : c.x.shape = d.x.shape
    /\ Batches \subseteq Seq(Prototype)
    /\ \A batch \in Batches : Labels(batch) \subseteq Classes
    /\ HoldoutSize \in Nat \ {0} /\ HoldoutMin \in Nat \ {0} /\ QuarantineSize \in Nat \ {0}
    /\ Corroboration \in Nat \ {0} /\ CorroborationRadius \in Nat
    /\ MaxVersion \in Nat /\ MaxVerdicts \in Nat /\ MaxCalibrations \in Nat
    /\ IsFiniteSet(Peers) /\ IsFiniteSet(Browsers) /\ Peers \cap Browsers = {}

\* Mutant of TRUST_FLOOR: one step of the EMA too low.
LowFloor == 105

TRUST_INIT  == 500
TRUST_FLOOR == 150
FULL_TRUST  == 1000     \* the outcome 1.0
Trust       == 0 .. FULL_TRUST

VARIABLES
    model,       \* PrototypeModel: [protos, counter, bumper]
    holdout,     \* bounded deque of [x, y]
    quarantine,  \* bounded deque of [proto, sender]
    trust,       \* trust.get(sender, TRUST_INIT), for every possible sender
    verdicts,    \* [ok |-> merges_ok, rejected |-> merges_rejected]
    \* History, read by no action:
    lived,       \* the classes the local stream has ever shown
    claimants,   \* for each class, the senders that ever claimed it unverifiably
    strikes,     \* for each sender, its rejected merges since its last good mark
    proven,      \* the senders that ever had a merge committed or were calibrated
    calibrations \* calls of calibrate_trust, for the bound

vars == << model, holdout, quarantine, trust, verdicts,
           lived, claimants, strikes, proven, calibrations >>

Init ==
    /\ model = Genesis
    /\ holdout = << >> /\ quarantine = << >>
    /\ trust = [s \in Senders |-> TRUST_INIT]
    /\ verdicts = [ok |-> 0, rejected |-> 0]
    /\ lived = {} /\ claimants = [c \in Classes |-> {}]
    /\ strikes = [s \in Senders |-> 0] /\ proven = {} /\ calibrations = 0

\* Mutant of Push: a list in the place of the deque.
Unbounded(deque, s, size) == deque \o s

(* deque.append under a maxlen, for several elements at once.              *)
Push(deque, s, size) ==
    LET long == deque \o s
    IN  IF Len(long) <= size THEN long ELSE SubSeq(long, Len(long) - size + 1, Len(long))

-----------------------------------------------------------------------------
(* Local learning                                                          *)

(* observe(): about one sample in four is held out, never trained on.      *)
Observe(x, y) ==
    /\ model.counter < MaxVersion
    /\ \/ /\ holdout' = Push(holdout, << [x |-> x, y |-> y] >>, HoldoutSize)
          /\ UNCHANGED model
       \/ /\ model' = Learned(model, x, y, Self)
          /\ UNCHANGED holdout
    /\ lived' = lived \cup {y}
    /\ UNCHANGED << quarantine, trust, verdicts, claimants, strikes, proven, calibrations >>

-----------------------------------------------------------------------------
(* The corroboration gate                                                  *)

(* votes[label] of _corroborate: who claimed this class near p.            *)
Votes(buffer, p, sender, label) ==
    {buffer[i].sender : i \in
        {j \in DOMAIN buffer : /\ buffer[j].proto.label = label
                               /\ Within(buffer[j].proto, p, CorroborationRadius)}}
    \cup (IF label = p.label THEN {sender} ELSE {})

\* Mutant of Corroborated: the claims are counted and not their senders.
CountsClaims(buffer, p, sender) ==
    1 + Cardinality({i \in DOMAIN buffer : /\ buffer[i].proto.label = p.label
                                           /\ Within(buffer[i].proto, p, CorroborationRadius)})
        >= Corroboration

Corroborated(buffer, p, sender) ==
    LET n == Cardinality(Votes(buffer, p, sender, p.label))
    IN  /\ n >= Corroboration
        /\ \A c \in Classes \ {p.label} : n >= Cardinality(Votes(buffer, p, sender, c))

Claims(protos, sender) ==
    [i \in 1 .. Len(protos) |-> [proto |-> protos[i], sender |-> sender]]

(* The prototypes of a batch that pass the gate, each judged against the   *)
(* quarantine that holds the ones before it.                               *)
Promoted(protos, sender) ==
    Pick(protos, {i \in 1 .. Len(protos) :
        Corroborated(Push(quarantine, SubSeq(Claims(protos, sender), 1, i - 1), QuarantineSize),
                     protos[i], sender)})

(* There is no verdict on a merge that raised: in _prune, or in accuracy()  *)
(* when an empty model took over prototypes of another task's shape.       *)
Raises(merge) ==
    \/ merge.raised
    \/ merge.model.protos # << >> /\ \E i \in DOMAIN holdout :
            ~ DimMatches(merge.model.protos, holdout[i].x)

(* candidate against the current model: accuracy lost on the holdout by    *)
(* more than DEGRADE_EPS = 2/100, or more conflicts than acceptances.      *)
Harmful(merge) ==
    \/ 100 * Hits(merge.model.protos, holdout)
            < 100 * Hits(model.protos, holdout) - 2 * Len(holdout)
    \/ merge.conflicts > merge.accepted

Quarantined(protos, sender) ==
    /\ quarantine' = Push(quarantine, Claims(protos, sender), QuarantineSize)
    /\ claimants' = [c \in Classes |->
            claimants[c] \cup (IF c \in Labels(protos) THEN {sender} ELSE {})]

Commit(merge) ==
    /\ model' = merge.model
    /\ verdicts' = [verdicts EXCEPT !.ok = @ + 1]

Reject ==
    /\ verdicts' = [verdicts EXCEPT !.rejected = @ + 1]
    /\ UNCHANGED model

NoVerdict == UNCHANGED << model, verdicts >>

-----------------------------------------------------------------------------
(* Gossip                                                                  *)

(* The EMA of merge outcomes, TRUST_ALPHA = 3/10.                          *)
Ema(t, outcome) == (7 * t + 3 * outcome) \div 10

(* receive(): a peer below the floor is ignored, and so is everybody until *)
(* there is a holdout to judge with.  Known classes are merged directly,   *)
(* the others only when corroborated.                                      *)
Receive(s, batch) ==
    LET known        == {holdout[i].y : i \in DOMAIN holdout}
        verifiable   == Pick(batch, {i \in 1 .. Len(batch) : batch[i].label \in known})
        unverifiable == Pick(batch, {i \in 1 .. Len(batch) : batch[i].label \notin known})
        to_merge     == verifiable \o Promoted(unverifiable, s)
        merge        == MergedWith(model, to_merge, Self, trust[s])
    IN  /\ verdicts.ok + verdicts.rejected < MaxVerdicts
        /\ trust[s] >= TRUST_FLOOR
        /\ Len(holdout) >= HoldoutMin
        /\ Quarantined(unverifiable, s)
        /\ \/ /\ to_merge = << >> \/ Raises(merge) \/ (~ Harmful(merge) /\ merge.accepted = 0)
              /\ NoVerdict
              /\ UNCHANGED << trust, strikes, proven >>
           \/ /\ to_merge # << >> /\ ~ Raises(merge) /\ Harmful(merge)
              /\ Reject
              /\ trust' = [trust EXCEPT ![s] = Ema(@, 0)]
              /\ strikes' = [strikes EXCEPT ![s] = @ + 1]
              /\ UNCHANGED proven
           \/ /\ to_merge # << >> /\ ~ Raises(merge) /\ ~ Harmful(merge) /\ merge.accepted > 0
              /\ Commit(merge)
              /\ trust' = [trust EXCEPT ![s] = Ema(@, FULL_TRUST)]
              /\ strikes' = [strikes EXCEPT ![s] = 0]
              /\ proven' = proven \cup {s}
        /\ UNCHANGED << holdout, lived, calibrations >>

-----------------------------------------------------------------------------
(* Corrections from browsers                                               *)

\* Mutant of Candidate: a browser is believed like the best of peers.
BelievedFully(p) == MergedWith(model, << p >>, Self, FULL_TRUST)

\* A browser never has more trust than a stranger.
Candidate(p) == MergedWith(model, << p >>, Self, TRUST_INIT)

(* submit_correction_claim(): the same gate, whether or not the class is   *)
(* locally known, and no trust is kept for the sender.                     *)
SubmitCorrectionClaim(b, x, y) ==
    LET p     == Exemplar(x, y)
        merge == Candidate(p)
    IN  /\ verdicts.ok + verdicts.rejected < MaxVerdicts
        /\ Quarantined(<< p >>, b)
        /\ \/ /\ ~ Corroborated(quarantine, p, b) \/ Raises(merge)
              /\ NoVerdict
           \/ /\ Corroborated(quarantine, p, b) /\ ~ Raises(merge)
              /\ Harmful(merge) \/ merge.accepted = 0
              /\ Reject
           \/ /\ Corroborated(quarantine, p, b) /\ ~ Raises(merge)
              /\ ~ Harmful(merge) /\ merge.accepted > 0
              /\ Commit(merge)
        /\ UNCHANGED << holdout, trust, lived, strikes, proven, calibrations >>

-----------------------------------------------------------------------------
(* Calibration                                                             *)

(* How a peer may do on the holdout: it answers `seen` of the samples, and *)
(* `hits` of these answers are right.                                      *)
Tallies == {t \in [hits : 0 .. Len(holdout), seen : 0 .. Len(holdout)] : t.hits <= t.seen}

Rate(hits, seen) == (FULL_TRUST * hits) \div seen

Mean(t, rate) == (t + rate) \div 2

(* calibrate_trust(): every peer of the directory labels the holdout.  A   *)
(* peer that abstained throughout keeps its trust.                         *)
CalibrateTrust(tally) ==
    LET marked == {s \in Peers : tally[s].seen > 0}
    IN  /\ calibrations < MaxCalibrations
        /\ holdout # << >>
        /\ trust' = [s \in Senders |->
              IF s \in marked THEN Mean(trust[s], Rate(tally[s].hits, tally[s].seen))
              ELSE trust[s]]
        /\ strikes' = [s \in Senders |-> IF s \in marked THEN 0 ELSE strikes[s]]
        /\ proven' = proven \cup marked
        /\ calibrations' = calibrations + 1
        /\ UNCHANGED << model, holdout, quarantine, verdicts, lived, claimants >>

-----------------------------------------------------------------------------
Next ==
    \/ \E d \in Stream : Observe(d.x, d.y)
    \/ \E s \in Peers, batch \in Batches : Receive(s, batch)
    \/ \E b \in Browsers, c \in Corrections : SubmitCorrectionClaim(b, c.x, c.y)
    \/ \E tally \in [Peers -> Tallies] : CalibrateTrust(tally)

Spec == Init /\ [][Next]_vars

-----------------------------------------------------------------------------
(* Types                                                                   *)

(* The shape of the state.                                                 *)
TypeOK ==
    /\ model \in [protos : Seq(Prototype), counter : Nat, bumper : {"none", Self}]
    /\ holdout \in Seq(Stream) /\ Len(holdout) <= HoldoutSize
    /\ quarantine \in Seq([proto : Prototype, sender : Senders])
    /\ Len(quarantine) <= QuarantineSize
    /\ trust \in [Senders -> Trust]
    /\ verdicts \in [ok : Nat, rejected : Nat]
    /\ lived \subseteq Classes
    /\ claimants \in [Classes -> SUBSET Senders]
    /\ strikes \in [Senders -> Nat]
    /\ proven \subseteq Senders
    /\ calibrations \in Nat

-----------------------------------------------------------------------------
(* Safety                                                                  *)

(* Knowledge the node never lived through itself needs a quorum: a class   *)
(* in the model was either shown by the local stream or claimed by at      *)
(* least Corroboration distinct senders.  (receive and                     *)
(* submit_correction_claim, through _corroborate, over any history.)       *)
ForeignClassHasQuorum ==
    \A c \in Labels(model.protos) : c \in lived \/ Cardinality(claimants[c]) >= Corroboration

(* However high a sender's trust stood, the sixth rejected merge in a row  *)
(* takes it below the floor, so that nothing more of it is judged: the EMA *)
(* of receive() needs at most six steps from 1 to below TRUST_FLOOR.       *)
SixStrikes ==
    \A s \in Senders : strikes[s] <= 6 /\ (strikes[s] = 6 => trust[s] < TRUST_FLOOR)

(* The budget of prototypes holds after every learn and merge, however the *)
(* two alternate, as long as there are no more classes than prototypes.    *)
WithinBudget == Len(model.protos) <= MaxPrototypes

(* A class disappears from the model only in the merge of a batch whose    *)
(* sender earned the trust to override: a peer with a committed merge or a *)
(* calibration behind it.  No step of learning, no claim of a browser and  *)
(* no batch of a stranger evicts a class, whoever else is trusted by then. *)
StrangersEvictNothing ==
    [][ \/ Labels(model.protos) \subseteq Labels(model'.protos)
        \/ \E s \in proven \cap Peers, batch \in Batches :
                trust[s] >= OverrideTrust /\ Receive(s, batch) ]_vars
=============================================================================
