---------------------------- MODULE ServicesProofs ----------------------------
(***************************************************************************)
(* What the request services promise, for any peers, calls, bounds and     *)
(* loss: an answer is counted for the question it answers, trust moves by  *)
(* how right a peer is about the samples, a chain that verifies is one its *)
(* peer had, an embedding arrives whole, an answerer is kept exactly as    *)
(* long as its connection may live, the page lists the last to ask, and    *)
(* the tables hold what waits and no more.                                 *)
(***************************************************************************)
EXTENDS Services, SequenceTheorems, FiniteSetTheorems, WellFoundedInduction, TLAPS

(* What a call asks and what the peer's model says about it.               *)
Asks(sc, c) == c \in DOMAIN sc.calls /\ sc.calls[c].kind # "calibrate"
Right(sc, c, p) == sc.knows[p][sc.calls[c].x]

\* Queries and responses name the call and the peer, calibrations another call.
MessageFits(sc, m) ==
    /\ m.body.k = "query" =>
        \E c \in DOMAIN sc.calls : /\ Asks(sc, c) /\ m.body.id = << c, m.to >>
                                   /\ m.body.x = sc.calls[c].x
    /\ m.body.k = "response" =>
        \E c \in DOMAIN sc.calls : \E p : /\ Asks(sc, c) /\ m.body.id = << c, p >>
                                          /\ m.body.answer = Right(sc, c, p)
    /\ m.body.k \in {"calib_q", "calib_r"} =>
        \E c \in DOMAIN sc.calls : \E p : ~ Asks(sc, c) /\ m.body.id = << c, p >>

WireFits(sc, w) == \A m \in w : MessageFits(sc, m)

\* A request of a call that asks holds nothing, or the answer.
PendingFits(sc, table) ==
    \A c, p : Asks(sc, c) /\ << c, p >> \in DOMAIN table => table[<< c, p >>] \in {Nothing, Right(sc, c, p)}

Fields == {"state", "asked", "got", "samples", "answer"}

\* A call has counted nothing but answers, and waits for those in the table.
CallFits(sc, table, c, call) ==
    /\ DOMAIN call = Fields
    /\ DOMAIN call.got = ToSet(call.asked)
    /\ call.state \in {"idle", "waiting", "done"}
    /\ \A p \in ToSet(call.asked) :
        /\ Asks(sc, c) => call.got[p] \in {Nothing, Abstained, Right(sc, c, p)}
        /\ call.state = "waiting" /\ call.got[p] = Nothing => << c, p >> \in DOMAIN table

CallsFit(sc, table, cs) ==
    /\ DOMAIN cs = DOMAIN sc.calls
    /\ \A c \in DOMAIN sc.calls : CallFits(sc, table, c, cs[c])

OwnInv == WireFits(scenario, wire) /\ PendingFits(scenario, pending) /\ CallsFit(scenario, pending, calls)

-----------------------------------------------------------------------------
LEMMA OwnInit == Init => OwnInv
<1> SUFFICES ASSUME Init PROVE OwnInv
  OBVIOUS
<1>1. wire = {} /\ DOMAIN pending = {}
  BY DEF Init, RpcInit
<1>2. WireFits(scenario, wire) /\ PendingFits(scenario, pending)
  BY <1>1 DEF WireFits, PendingFits
<1>3. CallsFit(scenario, pending, calls)
  <2>1. calls = [c \in DOMAIN scenario.calls |-> [state |-> "idle", asked |-> << >>, got |-> << >>,
                                 samples |-> << >>, answer |-> Nothing]]
    BY DEF Init, RpcInit, Calls
  <2> SUFFICES ASSUME NEW c \in DOMAIN scenario.calls
               PROVE  CallFits(scenario, pending, c, calls[c])
    BY <2>1 DEF CallsFit
  <2>2. calls[c] = [state |-> "idle", asked |-> << >>, got |-> << >>, samples |-> << >>, answer |-> Nothing]
    BY <2>1
  <2>3. ToSet(calls[c].asked) = {} /\ DOMAIN calls[c].got = {}
    BY <2>2 DEF ToSet
  <2>4. DOMAIN calls[c] = Fields
    BY <2>2 DEF Fields
  <2> QED BY <2>2, <2>3, <2>4 DEF CallFits
<1> QED BY <1>2, <1>3 DEF OwnInv

(* What is sent fits if what was there and what is new does.               *)
LEMMA ExchangeFits ==
    ASSUME NEW sc, NEW w, NEW taken, NEW messages, WireFits(sc, w), \A m \in messages : MessageFits(sc, m)
    PROVE  WireFits(sc, (w \ taken) \cup messages)
BY DEF WireFits

(* Starting to ask.                                                        *)
LEMMA OwnStartInfer ==
    ASSUME OwnInv, NEW c \in Calls, StartInfer(c)
    PROVE  OwnInv'
<1> DEFINE ps == scenario.calls[c].peers
           addressees == IF Kind(c) = "infer" THEN Ranked(ps) ELSE ps
           requests == {Qid(c, p) : p \in ToSet(addressees)}
           messages == {Envelope(Me, p, Query(Qid(c, p), X(c))) : p \in ToSet(addressees)}
<1>0. /\ scenario' = scenario /\ Asks(scenario, c) /\ calls[c].state = "idle"
      /\ wire' = (wire \ {}) \cup messages
      /\ pending' = With(requests, Nothing)
      /\ calls' = [calls EXCEPT ![c] =
                    IF addressees = << >> THEN [@ EXCEPT !.state = "done", !.answer = OwnOpinion(c)]
                    ELSE [@ EXCEPT !.state = "waiting", !.asked = addressees,
                                   !.got = [p \in ToSet(addressees) |-> Nothing]]]
  BY DEF StartInfer, Asks, Calls, Kind, Exchange
<1> HIDE DEF addressees
<1>1. WireFits(scenario, wire')
  <2> SUFFICES ASSUME NEW p \in ToSet(addressees)
               PROVE  MessageFits(scenario, Envelope(Me, p, Query(Qid(c, p), X(c))))
    BY <1>0, ExchangeFits DEF OwnInv
  <2> QED BY <1>0 DEF MessageFits, Envelope, Query, Qid, X, Calls, Asks
<1>2. /\ DOMAIN pending' = requests \cup DOMAIN pending
      /\ \A q \in requests : pending'[q] = Nothing
      /\ \A q \in DOMAIN pending \ requests : pending'[q] = pending[q]
  BY <1>0 DEF With
<1>3. PendingFits(scenario, pending')
  BY <1>2 DEF OwnInv, PendingFits
<1>4. CallsFit(scenario, pending', calls')
  <2>1. DOMAIN calls' = DOMAIN scenario.calls
    BY <1>0 DEF OwnInv, CallsFit
  <2> SUFFICES ASSUME NEW d \in DOMAIN scenario.calls
               PROVE  CallFits(scenario, pending', d, calls'[d])
    BY <2>1 DEF CallsFit
  <2>2. CallFits(scenario, pending, d, calls[d]) /\ DOMAIN calls = DOMAIN scenario.calls
    BY DEF OwnInv, CallsFit
  <2>3. CASE d # c
    <3>1. calls'[d] = calls[d]
      BY <1>0, <2>2, <2>3
    <3> QED BY <3>1, <2>2, <1>2 DEF CallFits
  <2>4. CASE d = c /\ addressees = << >>
    <3>1. calls'[d] = [calls[d] EXCEPT !.state = "done", !.answer = OwnOpinion(c)]
      BY <1>0, <2>2, <2>4
    <3>2. /\ DOMAIN calls'[d] = Fields /\ calls'[d].state = "done"
          /\ calls'[d].asked = calls[d].asked /\ calls'[d].got = calls[d].got
      BY <3>1, <2>2 DEF CallFits, Fields
    <3> QED BY <3>2, <2>2 DEF CallFits
  <2>5. CASE d = c /\ addressees # << >>
    <3>1. calls'[d] = [calls[d] EXCEPT !.state = "waiting", !.asked = addressees, !.got = [p \in ToSet(addressees) |-> Nothing]]
      BY <1>0, <2>2, <2>5
    <3>2. /\ DOMAIN calls'[d] = Fields /\ calls'[d].state = "waiting"
          /\ calls'[d].asked = addressees /\ calls'[d].got = [p \in ToSet(addressees) |-> Nothing]
      BY <3>1, <2>2 DEF CallFits, Fields
    <3>3. \A p \in ToSet(addressees) : << c, p >> \in DOMAIN pending'
      BY <1>2 DEF Qid
    <3> QED BY <3>2, <3>3, <2>5 DEF CallFits
  <2> QED BY <2>3, <2>4, <2>5
<1> QED BY <1>0, <1>1, <1>3, <1>4 DEF OwnInv

(* Calls that calibrate: their requests are none of those that ask.        *)
LEMMA OwnStartCalibration ==
    ASSUME OwnInv, NEW c \in Calls, StartCalibration(c)
    PROVE  OwnInv'
<1> DEFINE addressees  == Others(scenario.calls[c].peers)
           chunks == SampleChunks
           requests == {Qid(c, p) : p \in ToSet(addressees)}
           entry == [labels |-> [i \in DOMAIN chunks |-> << >>], got |-> 0]
           messages == {Envelope(Me, p, CalibrationQuery(Qid(c, p), i, chunks[i])) :
                                    p \in ToSet(addressees), i \in DOMAIN chunks}
<1>0. /\ scenario' = scenario /\ c \in DOMAIN scenario.calls /\ ~ Asks(scenario, c) /\ calls[c].state = "idle"
      /\ \/ /\ calls' = [calls EXCEPT ![c].state = "done"]
            /\ wire' = wire /\ pending' = pending
         \/ /\ calls' = [calls EXCEPT ![c].state = "waiting", ![c].asked = addressees, ![c].samples = holdout,
                                          ![c].got = [p \in ToSet(addressees) |-> Nothing]]
            /\ pending' = With(requests, entry)
            /\ wire' = (wire \ {}) \cup messages
  <2>1. /\ scenario' = scenario /\ c \in DOMAIN scenario.calls /\ calls[c].state = "idle"
        /\ scenario.calls[c].kind = "calibrate"
    BY DEF StartCalibration, Calls, Kind
  <2>2. \/ calls' = [calls EXCEPT ![c].state = "done"] /\ wire' = wire /\ pending' = pending
        \/ Examine(c, addressees, chunks)
    BY DEF StartCalibration
  <2> QED BY <2>1, <2>2 DEF Asks, Examine, Exchange
<1>1. /\ DOMAIN calls = DOMAIN scenario.calls
      /\ \A d \in DOMAIN scenario.calls : CallFits(scenario, pending, d, calls[d])
  BY DEF OwnInv, CallsFit
<1> HIDE DEF addressees, chunks, entry
<1>2. CASE calls' = [calls EXCEPT ![c].state = "done"] /\ wire' = wire /\ pending' = pending
  <2> SUFFICES ASSUME NEW d \in DOMAIN scenario.calls
               PROVE  CallFits(scenario, pending, d, calls'[d])
    BY <1>0, <1>1, <1>2 DEF OwnInv, CallsFit
  <2>1. CASE d # c
    BY <1>1, <1>2, <2>1
  <2>2. CASE d = c
    <3>1. calls'[d] = [calls[d] EXCEPT !.state = "done"]
      BY <1>1, <1>2, <2>2
    <3>2. /\ DOMAIN calls'[d] = Fields /\ calls'[d].state = "done"
          /\ calls'[d].asked = calls[d].asked /\ calls'[d].got = calls[d].got
      BY <3>1, <1>1 DEF CallFits, Fields
    <3> QED BY <3>2, <1>1 DEF CallFits
  <2> QED BY <2>1, <2>2
<1>3. CASE /\ calls' = [calls EXCEPT ![c].state = "waiting", ![c].asked = addressees, ![c].samples = holdout,
                                     ![c].got = [p \in ToSet(addressees) |-> Nothing]]
           /\ pending' = With(requests, entry)
           /\ wire' = (wire \ {}) \cup messages
  <2>1. WireFits(scenario, wire')
    <3> SUFFICES ASSUME NEW m \in messages
                 PROVE  MessageFits(scenario, m)
      <4> HIDE DEF messages
      <4> QED BY <1>3, ExchangeFits DEF OwnInv
    <3>1. PICK p \in ToSet(addressees), i \in DOMAIN chunks : m = Envelope(Me, p, CalibrationQuery(Qid(c, p), i, chunks[i]))
      OBVIOUS
    <3> QED BY <3>1, <1>0 DEF MessageFits, Envelope, CalibrationQuery, Qid
  <2>2. /\ DOMAIN pending' = requests \cup DOMAIN pending
        /\ \A q \in DOMAIN pending \ requests : pending'[q] = pending[q]
    BY <1>3 DEF With
  <2>3. PendingFits(scenario, pending')
    <3> SUFFICES ASSUME NEW d, NEW p, Asks(scenario, d), << d, p >> \in DOMAIN pending'
                 PROVE  pending'[<< d, p >>] \in {Nothing, Right(scenario, d, p)}
      BY DEF PendingFits
    <3>1. << d, p >> \notin requests
      BY <1>0 DEF Qid
    <3> QED BY <3>1, <2>2 DEF OwnInv, PendingFits
  <2>4. CallsFit(scenario, pending', calls')
    <3> SUFFICES ASSUME NEW d \in DOMAIN scenario.calls
                 PROVE  CallFits(scenario, pending', d, calls'[d])
      BY <1>1, <1>3 DEF CallsFit
    <3>1. CASE d # c
      <4>1. calls'[d] = calls[d]
        BY <1>1, <1>3, <3>1
      <4> QED BY <4>1, <1>1, <2>2 DEF CallFits
    <3>2. CASE d = c
      <4>1. calls'[d] = [calls[d] EXCEPT !.state = "waiting", !.asked = addressees, !.samples = holdout,
                                         !.got = [p \in ToSet(addressees) |-> Nothing]]
        BY <1>1, <1>3, <3>2
      <4>2. /\ DOMAIN calls'[d] = Fields /\ calls'[d].state = "waiting"
            /\ calls'[d].asked = addressees /\ calls'[d].got = [p \in ToSet(addressees) |-> Nothing]
        BY <4>1, <1>1 DEF CallFits, Fields
      <4>3. \A p \in ToSet(addressees) : << c, p >> \in DOMAIN pending'
        BY <2>2 DEF Qid
      <4> QED BY <4>2, <4>3, <3>2 DEF CallFits
    <3> QED BY <3>1, <3>2
  <2> QED BY <1>0, <2>1, <2>3, <2>4 DEF OwnInv
<1> QED BY <1>0, <1>2, <1>3

-----------------------------------------------------------------------------
(* Answering.                                                              *)
LEMMA OwnQueries ==
    ASSUME OwnInv, NEW m \in wire, OnQuery(m) \/ OnCalibrationQuery(m)
    PROVE  OwnInv'
<1>1. MessageFits(scenario, m)
  BY DEF OwnInv, WireFits
<1>2. CASE OnQuery(m)
  <2> DEFINE answer == Envelope(m.to, m.from, Response(m.body.id, scenario.knows[m.to][m.body.x]))
  <2>1. /\ m.body.k = "query" /\ wire' = (wire \ {m}) \cup {answer}
        /\ scenario' = scenario /\ pending' = pending /\ calls' = calls
    BY <1>2 DEF OnQuery, Exchange, rpcVars
  <2>2. PICK c \in DOMAIN scenario.calls :
            Asks(scenario, c) /\ m.body.id = << c, m.to >> /\ m.body.x = scenario.calls[c].x
    BY <1>1, <2>1 DEF MessageFits
  <2>3. /\ answer.body.k = "response" /\ answer.body.id = << c, m.to >>
        /\ answer.body.answer = Right(scenario, c, m.to)
    BY <2>2 DEF Envelope, Response, Right
  <2>4. MessageFits(scenario, answer)
    BY <2>2, <2>3 DEF MessageFits
  <2> HIDE DEF answer
  <2>5. WireFits(scenario, wire')
    BY <2>1, <2>4, ExchangeFits DEF OwnInv
  <2> QED BY <2>1, <2>5 DEF OwnInv
<1>3. CASE OnCalibrationQuery(m)
  <2>1. PICK labels : wire' = (wire \ {m}) \cup {Envelope(m.to, m.from, CalibrationResponse(m.body.id, m.body.i, labels))}
    BY <1>3 DEF OnCalibrationQuery, Exchange
  <2> DEFINE answer == Envelope(m.to, m.from, CalibrationResponse(m.body.id, m.body.i, labels))
  <2>2. /\ m.body.k = "calib_q" /\ scenario' = scenario /\ pending' = pending /\ calls' = calls
    BY <1>3 DEF OnCalibrationQuery, rpcVars
  <2>3. answer.body.k = "calib_r" /\ answer.body.id = m.body.id
    BY DEF Envelope, CalibrationResponse
  <2>4. MessageFits(scenario, answer)
    BY <1>1, <2>2, <2>3 DEF MessageFits
  <2> HIDE DEF answer
  <2>5. WireFits(scenario, wire')
    BY <2>1, <2>4, ExchangeFits DEF OwnInv, answer
  <2> QED BY <2>2, <2>5 DEF OwnInv
<1> QED BY <1>2, <1>3

(* An answer is for the request it names, if that still waits.             *)
LEMMA OwnResponse ==
    ASSUME OwnInv, NEW m \in wire, OnResponse(m)
    PROVE  OwnInv'
<1>1. /\ m.body.k = "response" /\ wire' = (wire \ {m}) \cup {}
      /\ scenario' = scenario /\ calls' = calls
      /\ pending' = [q \in DOMAIN pending |->
                    IF q \in Recipients(m) /\ pending[q] = Nothing THEN m.body.answer ELSE pending[q]]
  BY DEF OnResponse, Exchange
<1>2. PICK c, p :
        c \in DOMAIN scenario.calls /\ Asks(scenario, c) /\ m.body.id = << c, p >> /\ m.body.answer = Right(scenario, c, p)
  BY <1>1 DEF OwnInv, WireFits, MessageFits
<1>3. WireFits(scenario, wire')
  BY <1>1, ExchangeFits DEF OwnInv
<1>4. PendingFits(scenario, pending')
  <2> SUFFICES ASSUME NEW d, NEW r, Asks(scenario, d), << d, r >> \in DOMAIN pending'
               PROVE  pending'[<< d, r >>] \in {Nothing, Right(scenario, d, r)}
    BY DEF PendingFits
  <2>1. << d, r >> \in DOMAIN pending /\ pending[<< d, r >>] \in {Nothing, Right(scenario, d, r)}
    BY <1>1 DEF OwnInv, PendingFits
  <2>2. << d, r >> \in Recipients(m) => m.body.answer = Right(scenario, d, r)
    BY <1>2 DEF Recipients
  <2> QED BY <1>1, <2>1, <2>2
<1>5. DOMAIN pending' = DOMAIN pending
  BY <1>1
<1>6. CallsFit(scenario, pending', calls')
  BY <1>1, <1>5 DEF OwnInv, CallsFit, CallFits
<1> QED BY <1>1, <1>3, <1>4, <1>6 DEF OwnInv

(* Labels of a chunk go to a calibration.                                  *)
LEMMA OwnCalibrationResponse ==
    ASSUME OwnInv, NEW m \in wire, OnCalibrationResponse(m)
    PROVE  OwnInv'
<1>1. /\ m.body.k = "calib_r" /\ wire' = (wire \ {m}) \cup {}
      /\ scenario' = scenario /\ calls' = calls
      /\ DOMAIN pending' = DOMAIN pending
      /\ \A q \in DOMAIN pending : q # m.body.id => pending'[q] = pending[q]
  BY DEF OnCalibrationResponse, Exchange
<1>2. PICK c, p : c \in DOMAIN scenario.calls /\ ~ Asks(scenario, c) /\ m.body.id = << c, p >>
  BY <1>1 DEF OwnInv, WireFits, MessageFits
<1>3. WireFits(scenario, wire')
  BY <1>1, ExchangeFits DEF OwnInv
<1>4. PendingFits(scenario, pending')
  BY <1>1, <1>2 DEF OwnInv, PendingFits
<1>5. CallsFit(scenario, pending', calls')
  BY <1>1 DEF OwnInv, CallsFit, CallFits
<1> QED BY <1>1, <1>3, <1>4, <1>5 DEF OwnInv

(* A request ends: the table forgets it, and what has come of it is known. *)
LEMMA OwnEnd ==
    ASSUME OwnInv, NEW c \in Calls, NEW p, calls[c].state = "waiting", p \in ToSet(calls[c].asked),
           NEW outcome, outcome # Nothing,
           Asks(scenario, c) => outcome \in {Abstained, Right(scenario, c, p)},
           NEW state \in {"waiting", "done"},
           scenario' = scenario, wire' = wire, pending' = Closed(Qid(c, p)),
           calls' = [calls EXCEPT ![c] = [calls[c] EXCEPT !.got = [calls[c].got EXCEPT ![p] = outcome], !.state = state]]
    PROVE  OwnInv'
<1>1. /\ DOMAIN pending' = DOMAIN pending \ {<< c, p >>}
      /\ \A q \in DOMAIN pending' : pending'[q] = pending[q]
  BY DEF Closed, Qid
<1>2. PendingFits(scenario, pending')
  BY <1>1 DEF OwnInv, PendingFits
<1>3. /\ DOMAIN calls = DOMAIN scenario.calls /\ c \in DOMAIN scenario.calls
      /\ \A d \in DOMAIN scenario.calls : CallFits(scenario, pending, d, calls[d])
  BY DEF OwnInv, CallsFit, Calls
<1>4. CallsFit(scenario, pending', calls')
  <2> SUFFICES ASSUME NEW d \in DOMAIN scenario.calls
               PROVE  CallFits(scenario, pending', d, calls'[d])
    BY <1>3 DEF CallsFit
  <2>1. CASE d # c
    <3>1. calls'[d] = calls[d]
      BY <1>3, <2>1
    <3>2. \A r : << d, r >> \in DOMAIN pending => << d, r >> \in DOMAIN pending'
      BY <1>1, <2>1
    <3> QED BY <3>1, <3>2, <1>3 DEF CallFits
  <2>2. CASE d = c
    <3>1. CallFits(scenario, pending, c, calls[c])
      BY <1>3
    <3>2. calls'[d] = [calls[c] EXCEPT !.got = [calls[c].got EXCEPT ![p] = outcome], !.state = state]
      BY <1>3, <2>2
    <3>3. /\ DOMAIN calls'[d] = Fields /\ calls'[d].state = state /\ calls'[d].asked = calls[c].asked
          /\ calls'[d].got = [calls[c].got EXCEPT ![p] = outcome]
      BY <3>1, <3>2 DEF CallFits, Fields
    <3>4. /\ DOMAIN calls'[d].got = ToSet(calls[c].asked)
          /\ calls'[d].got[p] = outcome
          /\ \A r \in ToSet(calls[c].asked) \ {p} : calls'[d].got[r] = calls[c].got[r]
      BY <3>1, <3>3 DEF CallFits
    <3>5. ASSUME NEW r \in ToSet(calls[c].asked)
          PROVE  /\ Asks(scenario, d) => calls'[d].got[r] \in {Nothing, Abstained, Right(scenario, d, r)}
                 /\ calls'[d].state = "waiting" /\ calls'[d].got[r] = Nothing => << d, r >> \in DOMAIN pending'
      <4>1. CASE r = p
        BY <3>4, <4>1, <2>2
      <4>2. CASE r # p
        <5>1. calls'[d].got[r] = calls[c].got[r]
          BY <3>4, <4>2
        <5>2. calls[c].got[r] = Nothing => << c, r >> \in DOMAIN pending
          BY <3>1 DEF CallFits
        <5>3. Asks(scenario, c) => calls[c].got[r] \in {Nothing, Abstained, Right(scenario, c, r)}
          BY <3>1 DEF CallFits
        <5> QED BY <5>1, <5>2, <5>3, <1>1, <2>2, <4>2
      <4> QED BY <4>1, <4>2
    <3> QED BY <3>3, <3>4, <3>5 DEF CallFits
  <2> QED BY <2>1, <2>2
<1> QED BY <1>2, <1>4 DEF OwnInv

LEMMA OwnEndQuery ==
    ASSUME OwnInv, NEW c \in Calls, NEW p, EndQuery(c, p)
    PROVE  OwnInv'
<1>1. PICK outcome \in Outcomes(pending[Qid(c, p)]) : calls' = [calls EXCEPT ![c].got[p] = outcome]
  BY DEF EndQuery
<1>2. /\ scenario' = scenario /\ wire' = wire /\ pending' = Closed(Qid(c, p))
      /\ calls[c].state = "waiting" /\ p \in ToSet(calls[c].asked) /\ calls[c].got[p] = Nothing
      /\ Asks(scenario, c) /\ c \in DOMAIN scenario.calls
  BY DEF EndQuery, Asks, Kind, Calls
<1>3. CallFits(scenario, pending, c, calls[c]) /\ DOMAIN calls = DOMAIN scenario.calls
  BY <1>2 DEF OwnInv, CallsFit
<1>4. << c, p >> \in DOMAIN pending
  BY <1>2, <1>3 DEF CallFits
<1>5. pending[Qid(c, p)] \in {Nothing, Right(scenario, c, p)}
  BY <1>2, <1>4 DEF OwnInv, PendingFits, Qid
<1>6. Abstained # Nothing
  BY DEF Abstained, Nothing, NoLabel
<1>7. outcome # Nothing /\ outcome \in {Abstained, Right(scenario, c, p)}
  BY <1>5, <1>6, <1>1 DEF Outcomes
<1>8. calls' = [calls EXCEPT ![c] = [calls[c] EXCEPT !.got = [calls[c].got EXCEPT ![p] = outcome], !.state = "waiting"]]
  <2>1. [calls[c] EXCEPT !.got = [calls[c].got EXCEPT ![p] = outcome], !.state = "waiting"]
        = [calls[c] EXCEPT !.got = [calls[c].got EXCEPT ![p] = outcome]]
    BY <1>2, <1>3 DEF CallFits, Fields
  <2> QED BY <1>1, <2>1
<1> QED BY <1>2, <1>7, <1>8, OwnEnd

LEMMA OwnEndCalibration ==
    ASSUME OwnInv, NEW c \in Calls, NEW p, EndCalibration(c, p)
    PROVE  OwnInv'
<1>1. PICK state \in {"waiting", "done"} :
        calls' = [calls EXCEPT ![c].got[p] = Abstained, ![c].state = state]
  BY DEF EndCalibration
<1>2. /\ scenario' = scenario /\ wire' = wire /\ pending' = Closed(Qid(c, p))
      /\ calls[c].state = "waiting" /\ p \in ToSet(calls[c].asked) /\ ~ Asks(scenario, c)
  BY DEF EndCalibration, Asks, Kind, Calls
<1>3. Abstained # Nothing
  BY DEF Abstained, Nothing, NoLabel
<1>4. c \in DOMAIN calls
  BY DEF OwnInv, CallsFit, Calls
<1>5. calls' = [calls EXCEPT ![c] = [calls[c] EXCEPT !.got = [calls[c].got EXCEPT ![p] = Abstained], !.state = state]]
  BY <1>1, <1>4
<1> QED BY <1>2, <1>3, <1>5, OwnEnd

(* With everybody heard, a call is over.                                   *)
LEMMA OwnConclude ==
    ASSUME OwnInv, NEW c \in Calls, Conclude(c)
    PROVE  OwnInv'
<1>1. PICK answer : calls' = [calls EXCEPT ![c].state = "done", ![c].answer = answer]
  BY DEF Conclude
<1>2. scenario' = scenario /\ wire' = wire /\ pending' = pending
  BY DEF Conclude
<1>3. /\ DOMAIN calls = DOMAIN scenario.calls /\ c \in DOMAIN scenario.calls
      /\ \A d \in DOMAIN scenario.calls : CallFits(scenario, pending, d, calls[d])
  BY DEF OwnInv, CallsFit, Calls
<1>4. CallsFit(scenario, pending, calls')
  <2> SUFFICES ASSUME NEW d \in DOMAIN scenario.calls
               PROVE  CallFits(scenario, pending, d, calls'[d])
    BY <1>1, <1>3 DEF CallsFit
  <2>1. CASE d # c
    BY <1>1, <1>3, <2>1
  <2>2. CASE d = c
    <3>1. calls'[d] = [calls[d] EXCEPT !.state = "done", !.answer = answer]
      BY <1>1, <1>3, <2>2
    <3>2. /\ DOMAIN calls'[d] = Fields /\ calls'[d].state = "done"
          /\ calls'[d].asked = calls[d].asked /\ calls'[d].got = calls[d].got
      BY <3>1, <1>3 DEF CallFits, Fields
    <3> QED BY <3>2, <1>3 DEF CallFits
  <2> QED BY <2>1, <2>2
<1> QED BY <1>2, <1>4 DEF OwnInv

(* Fetches and browsers send other messages, and touch nothing else.       *)
Foreign(m) == m.body.k \notin {"query", "response", "calib_q", "calib_r"}

LEMMA OwnElsewhere ==
    ASSUME OwnInv, scenario' = scenario, pending' = pending, calls' = calls,
           NEW taken, NEW messages, wire' = (wire \ taken) \cup messages, \A m \in messages : Foreign(m)
    PROVE  OwnInv'
<1>1. \A m \in messages : MessageFits(scenario, m)
  BY DEF Foreign, MessageFits
<1>2. WireFits(scenario, wire')
  BY <1>1, ExchangeFits DEF OwnInv
<1> QED BY <1>2 DEF OwnInv

LEMMA OwnFetch ==
    ASSUME OwnInv, FetchNext, UNCHANGED << rpcVars, answererVars >>
    PROVE  OwnInv'
<1>0. pending' = pending /\ calls' = calls
  BY DEF rpcVars
<1>1. ASSUME NEW f \in Fetches, StartFetch(f) PROVE OwnInv'
  <2>1. PICK body \in {EmbeddingRequest, ChainRequest} : wire' = (wire \ {}) \cup {Envelope(Me, PeerOf(f), body)}
    BY <1>1 DEF StartFetch, Exchange
  <2> DEFINE messages == {Envelope(Me, PeerOf(f), body)}
  <2>2. \A r \in messages : Foreign(r)
    BY DEF Foreign, Envelope, EmbeddingRequest, ChainRequest
  <2>3. scenario' = scenario /\ wire' = (wire \ {}) \cup messages
    BY <1>1, <2>1 DEF StartFetch
  <2> HIDE DEF messages
  <2> QED BY <1>0, <2>2, <2>3, OwnElsewhere
<1>2. ASSUME NEW f \in Fetches, EndFetch(f) PROVE OwnInv'
  <2>1. scenario' = scenario /\ wire' = (wire \ {}) \cup {}
    BY <1>2 DEF EndFetch
  <2> QED BY <1>0, <2>1, OwnElsewhere
<1>3. ASSUME NEW m \in wire, OnEmbeddingRequest(m) PROVE OwnInv'
  <2> DEFINE chunks == Sent(EmbeddingBlob, EMBEDDING_CHUNK_BYTES)
             messages == {Envelope(m.to, m.from, EmbeddingResponse(i, Len(chunks), chunks[i])) : i \in DOMAIN chunks}
  <2>1. scenario' = scenario /\ wire' = (wire \ {m}) \cup messages
    BY <1>3 DEF OnEmbeddingRequest, Exchange
  <2>2. \A r \in messages : Foreign(r)
    BY DEF Foreign, Envelope, EmbeddingResponse
  <2> HIDE DEF messages
  <2> QED BY <1>0, <2>1, <2>2, OwnElsewhere
<1>4. ASSUME NEW m \in wire, OnChainRequest(m) PROVE OwnInv'
  <2> DEFINE chunks == Sent(chains[m.to], CHAIN_ENTRIES_PER_CHUNK)
             messages == {Envelope(m.to, m.from, ChainResponse(i, Len(chunks), chunks[i])) : i \in DOMAIN chunks}
  <2>1. scenario' = scenario /\ wire' = (wire \ {m}) \cup messages
    BY <1>4 DEF OnChainRequest, Exchange
  <2>2. \A r \in messages : Foreign(r)
    BY DEF Foreign, Envelope, ChainResponse
  <2> HIDE DEF messages
  <2> QED BY <1>0, <2>1, <2>2, OwnElsewhere
<1>5. ASSUME NEW m \in wire, OnChunk(m) PROVE OwnInv'
  <2> DEFINE taken == {m}
             messages == {}
  <2>1. scenario' = scenario /\ wire' = (wire \ taken) \cup messages /\ \A r \in messages : Foreign(r)
    BY <1>5 DEF OnChunk, Exchange
  <2> HIDE DEF taken, messages
  <2> QED BY <1>0, <2>1, OwnElsewhere
<1>6. ASSUME NEW p \in Peers, Checkpoint(p) \/ RestartPeer(p) PROVE OwnInv'
  <2>1. scenario' = scenario /\ wire' = (wire \ {}) \cup {}
    BY <1>6 DEF Checkpoint, RestartPeer
  <2> QED BY <1>0, <2>1, OwnElsewhere
<1> QED BY <1>1, <1>2, <1>3, <1>4, <1>5, <1>6 DEF FetchNext, FetchReceive

LEMMA OwnAnswerer ==
    ASSUME OwnInv, AnswererNext, UNCHANGED << rpcVars, fetchVars >>
    PROVE  OwnInv'
<1>1. pending' = pending /\ calls' = calls /\ scenario' = scenario /\ wire' = (wire \ {}) \cup {}
  BY DEF rpcVars, AnswererNext, Signal, OfferAccepted, OfferRaises, ConnectionEnds, OnBrowserQuery
<1> QED BY <1>1, OwnElsewhere

LEMMA OwnNext ==
    ASSUME OwnInv, [Next]_vars
    PROVE  OwnInv'
<1>1. CASE RpcNext
  <2>1. ASSUME NEW c \in Calls, CallGoesOn(c) PROVE OwnInv'
    BY <2>1, OwnConclude, OwnEndQuery, OwnEndCalibration DEF CallGoesOn
  <2>2. ASSUME NEW m \in wire, RpcReceive(m) PROVE OwnInv'
    BY <2>2, OwnQueries, OwnResponse, OwnCalibrationResponse DEF RpcReceive
  <2>3. ASSUME Observe \/ \E p \in Peers : MergeJudged(p) PROVE OwnInv'
    <3>1. pending' = pending /\ calls' = calls /\ scenario' = scenario /\ wire' = wire
      BY <2>3 DEF Observe, MergeJudged
    <3> QED BY <3>1 DEF OwnInv
  <2> QED BY <1>1, <2>1, <2>2, <2>3, OwnStartInfer, OwnStartCalibration DEF RpcNext
<1>2. CASE FetchNext /\ UNCHANGED << rpcVars, answererVars >>
  BY <1>2, OwnFetch
<1>3. CASE AnswererNext /\ UNCHANGED << rpcVars, fetchVars >>
  BY <1>3, OwnAnswerer
<1>4. CASE \E m \in wire : Lose(m) /\ UNCHANGED << rpcVars, fetchVars, answererVars >>
  <2>1. PICK m \in wire : Lose(m) /\ UNCHANGED << rpcVars, fetchVars, answererVars >>
    BY <1>4
  <2> DEFINE taken == {m}
             messages == {}
  <2>2. /\ pending' = pending /\ calls' = calls /\ scenario' = scenario
        /\ wire' = (wire \ taken) \cup messages /\ \A r \in messages : Foreign(r)
    BY <2>1 DEF Lose, Exchange, rpcVars
  <2> HIDE DEF taken, messages
  <2> QED BY <2>2, OwnElsewhere
<1>5. CASE UNCHANGED vars
  BY <1>5 DEF vars, rpcVars, OwnInv
<1> QED BY <1>1, <1>2, <1>3, <1>4, <1>5 DEF Next

(* What infer(), and the page, take for the opinion of a peer is its       *)
(* answer to this question, or none (query_peer and _handle_response in    *)
(* rpc.py).                                                                *)
THEOREM AnswersAreTheirOwn == Spec => []AnswersAreOwn
<1>1. OwnInv => AnswersAreOwn
  <2> SUFFICES ASSUME OwnInv, NEW c \in Calls, Kind(c) # "calibrate", NEW p \in ToSet(calls[c].asked)
               PROVE  calls[c].got[p] \in {Nothing, Abstained, scenario.knows[p][X(c)]}
    BY DEF AnswersAreOwn
  <2>1. CallFits(scenario, pending, c, calls[c]) /\ Asks(scenario, c)
    BY DEF OwnInv, CallsFit, Asks, Calls, Kind
  <2> QED BY <2>1 DEF CallFits, Right, X
<1> QED BY <1>1, OwnInit, OwnNext, PTL DEF Spec

-----------------------------------------------------------------------------
(* Numbers and sequences.                                                  *)

(* Induction up to n, for a property given as the set of the numbers that  *)
(* have it.                                                                *)
LEMMA UpToN ==
    ASSUME NEW n \in Nat, NEW S, 0 \in S, \A k \in 0 .. n - 1 : k \in S => k + 1 \in S
    PROVE  \A k \in 0 .. n : k \in S
<1> DEFINE R == OpToRel(<, Nat)
           T == (0 .. n) \ S
<1>1. IsWellFoundedOn(R, Nat)
  BY NatLessThanWellFounded
<1>2. \A x, y \in Nat : << y, x >> \in R <=> y < x
  BY DEF OpToRel
<1> SUFFICES ASSUME T # {} PROVE FALSE
  OBVIOUS
<1>3. PICK x \in T : \A y \in T : << y, x >> \notin R
  <2>1. T \subseteq Nat
    OBVIOUS
  <2> HIDE DEF R, T
  <2> QED BY <1>1, <2>1, WFMin
<1> HIDE DEF R
<1>4. x \in 0 .. n /\ x \notin S /\ x # 0
  OBVIOUS
<1>5. x - 1 \in 0 .. n - 1 /\ x - 1 \in 0 .. n /\ (x - 1) + 1 = x
  BY <1>4
<1>6. << x - 1, x >> \in R
  BY <1>2, <1>5
<1>7. x - 1 \in S
  BY <1>3, <1>5, <1>6
<1> QED BY <1>4, <1>5, <1>7

\* g[k] is the concatenation of the first k of the sequences s.
Joining(g, s) ==
    \A k \in 1 .. Len(s) : g[k] = IF k = 1 THEN s[k] ELSE g[k - 1] \o s[k]

LEMMA FlattenIs ==
    ASSUME NEW S, NEW s \in Seq(Seq(S)), Len(s) # 0, NEW g \in [1 .. Len(s) -> Seq(S)], Joining(g, s)
    PROVE  FlattenSeq(s) = g[Len(s)]
<1> DEFINE n == Len(s)
           Step(f) == [i \in 1 .. n |-> IF i = 1 THEN s[i] ELSE f[i - 1] \o s[i]]
           flatten == CHOOSE f : f = Step(f)
<1>1. n \in Nat /\ n >= 1
  OBVIOUS
<1>2. g = Step(g)
  BY DEF Joining
<1>3. flatten = Step(flatten)
  <2> HIDE DEF Step
  <2> QED BY <1>2
<1>4. FlattenSeq(s) = flatten[n]
  <2>1. FlattenSeq(s) = (CHOOSE f : f = [i \in 1 .. Len(s) |-> IF i = 1 THEN s[i] ELSE f[i - 1] \o s[i]])[Len(s)]
    BY DEF FlattenSeq
  <2> QED BY <2>1
<1> DEFINE Same == {k \in 0 .. n : k = 0 \/ flatten[k] = g[k]}
<1>5. \A k \in 0 .. n : k \in Same
  <2> HIDE DEF n, flatten
  <2>1. 0 \in Same
    BY <1>1
  <2>2. ASSUME NEW k \in 0 .. n - 1, k \in Same PROVE k + 1 \in Same
    <3>1. k + 1 \in 1 .. n /\ (k # 0 => k + 1 # 1 /\ (k + 1) - 1 = k)
      BY <1>1
    <3>2. flatten[k + 1] = IF k + 1 = 1 THEN s[k + 1] ELSE flatten[(k + 1) - 1] \o s[k + 1]
      BY <1>3, <3>1
    <3>3. g[k + 1] = IF k + 1 = 1 THEN s[k + 1] ELSE g[(k + 1) - 1] \o s[k + 1]
      BY <1>2, <3>1
    <3>4. k # 0 => flatten[k] = g[k]
      BY <2>2
    <3>5. flatten[k + 1] = g[k + 1]
      BY <3>1, <3>2, <3>3, <3>4
    <3> QED BY <3>1, <3>5
  <2> HIDE DEF Same
  <2> QED BY <1>1, <2>1, <2>2, UpToN
<1>6. n \in Same
  <2> HIDE DEF Same
  <2> QED BY <1>1, <1>5
<1>7. flatten[n] = g[n]
  <2> HIDE DEF flatten
  <2> QED BY <1>1, <1>6
<1> QED BY <1>4, <1>7

(* There is such a g.                                                      *)
LEMMA FlattenRuns ==
    ASSUME NEW S, NEW s \in Seq(Seq(S))
    PROVE  \E g \in [1 .. Len(s) -> Seq(S)] : Joining(g, s)
<1> DEFINE n == Len(s)
           Upto(k, g) == /\ g \in [1 .. k -> Seq(S)]
                         /\ \A i \in 1 .. k : g[i] = IF i = 1 THEN s[i] ELSE g[i - 1] \o s[i]
           Runs == {k \in 0 .. n : \E g : Upto(k, g)}
<1>1. n \in Nat
  OBVIOUS
<1>2. 0 \in Runs
  <2>1. Upto(0, << >>)
    OBVIOUS
  <2> HIDE DEF Upto
  <2> QED BY <1>1, <2>1
<1>3. ASSUME NEW k \in 0 .. n - 1, k \in Runs PROVE k + 1 \in Runs
  <2>1. PICK g : Upto(k, g)
    BY <1>3
  <2> DEFINE last == IF k + 1 = 1 THEN s[k + 1] ELSE g[k] \o s[k + 1]
             h == [i \in 1 .. k + 1 |-> IF i = k + 1 THEN last ELSE g[i]]
  <2>2. k + 1 \in 1 .. n /\ s[k + 1] \in Seq(S)
    OBVIOUS
  <2>3. last \in Seq(S)
    <3>1. k # 0 => g[k] \in Seq(S)
      BY <2>1
    <3> QED BY <2>2, <3>1
  <2> HIDE DEF last
  <2>4. h \in [1 .. k + 1 -> Seq(S)]
    BY <2>1, <2>3
  <2>5. ASSUME NEW i \in 1 .. k + 1 PROVE h[i] = IF i = 1 THEN s[i] ELSE h[i - 1] \o s[i]
    <3>1. CASE i = k + 1
      <4>1. h[i] = last /\ (i # 1 => h[i - 1] = g[k])
        BY <3>1
      <4>2. last = IF i = 1 THEN s[i] ELSE g[k] \o s[i]
        BY <3>1 DEF last
      <4> QED BY <4>1, <4>2
    <3>2. CASE i # k + 1
      <4>1. i \in 1 .. k /\ h[i] = g[i] /\ (i # 1 => h[i - 1] = g[i - 1])
        BY <3>2
      <4> QED BY <2>1, <4>1
    <3> QED BY <3>1, <3>2
  <2>6. Upto(k + 1, h)
    BY <2>4, <2>5
  <2> HIDE DEF Upto
  <2> QED BY <1>1, <2>2, <2>6
<1> HIDE DEF Runs
<1>4. n \in Runs
  <2> HIDE DEF n
  <2>1. \A k \in 0 .. n : k \in Runs
    BY <1>1, <1>2, <1>3, UpToN
  <2> QED BY <1>1, <2>1
<1>5. PICK g : Upto(n, g)
  BY <1>4 DEF Runs
<1> QED BY <1>5 DEF Joining

(* What is put together from sequences over S is one.                      *)
LEMMA FlattenType ==
    ASSUME NEW S, NEW s \in Seq(Seq(S))
    PROVE  FlattenSeq(s) \in Seq(S)
<1>1. CASE Len(s) = 0
  <2>1. s = << >>
    BY <1>1
  <2>2. FlattenSeq(s) = s
    BY <1>1 DEF FlattenSeq
  <2>3. << >> \in Seq(S)
    OBVIOUS
  <2> QED BY <2>1, <2>2, <2>3
<1>2. CASE Len(s) # 0
  <2>1. PICK g \in [1 .. Len(s) -> Seq(S)] : Joining(g, s)
    BY FlattenRuns
  <2>2. FlattenSeq(s) = g[Len(s)]
    BY <1>2, <2>1, FlattenIs
  <2> QED BY <1>2, <2>1, <2>2
<1> QED BY <1>1, <1>2

LEMMA MinIs ==
    ASSUME NEW a \in Int, NEW b \in Int
    PROVE  Min({a, b}) = IF a <= b THEN a ELSE b
BY DEF Min

(* The chunks of `size` of a sequence of this length cover it.             *)
LEMMA ChunkCount ==
    ASSUME NEW len \in Nat, NEW size \in Nat \ {0}
    PROVE  LET n == (len + size - 1) \div size
           IN  /\ n \in Nat /\ (len > 0 => n > 0)
               /\ len <= n * size
               /\ \A k \in 1 .. n : (k - 1) * size \in Nat /\ (k - 1) * size < len /\ k * size = (k - 1) * size + size
<1> DEFINE n == (len + size - 1) \div size
<1>1. n \in Nat /\ n * size <= len + size - 1 /\ len + size - 1 < n * size + size
  OBVIOUS
<1> HIDE DEF n
<1>2. n * size \in Nat
  BY <1>1
<1>3. len <= n * size
  BY <1>1, <1>2
<1>4. len > 0 => n > 0
  <2>1. n = 0 => n * size = 0
    OBVIOUS
  <2> QED BY <1>1, <1>3, <2>1
<1>5. ASSUME NEW k \in 1 .. n
      PROVE (k - 1) * size \in Nat /\ (k - 1) * size < len /\ k * size = (k - 1) * size + size
  <2>1. k * size = (k - 1) * size + size /\ (k - 1) * size \in Nat
    <3>1. k - 1 \in Nat /\ k \in Int /\ size \in Nat
      BY <1>1
    <3>2. \A a, b \in Nat : a * b \in Nat
      OBVIOUS
    <3>3. \A a, b \in Int : a * b = (a - 1) * b + b
      OBVIOUS
    <3> QED BY <3>1, <3>2, <3>3
  <2>2. k * size <= n * size
    <3>1. \A a, b, c \in Nat : a <= b => a * c <= b * c
      OBVIOUS
    <3> QED BY <1>1, <3>1
  <2> QED BY <1>1, <1>2, <2>1, <2>2
<1> QED BY <1>1, <1>3, <1>4, <1>5 DEF n

(* Chunks are put together again in their order.                           *)
LEMMA ChunksFlatten ==
    ASSUME NEW S, NEW s \in Seq(S), s # << >>, NEW size \in Nat \ {0}
    PROVE  Chunks(s, size) \in Seq(Seq(S)) /\ FlattenSeq(Chunks(s, size)) = s
<1> DEFINE n == (Len(s) + size - 1) \div size
           end(k) == Min({k * size, Len(s)})
           chunks == Chunks(s, size)
           g == [k \in 1 .. n |-> SubSeq(s, 1, end(k))]
<1>1. Len(s) \in Nat /\ Len(s) > 0
  OBVIOUS
<1>2. /\ n \in Nat /\ n > 0
      /\ Len(s) <= n * size
      /\ \A k \in 1 .. n : (k - 1) * size \in Nat /\ (k - 1) * size < Len(s) /\ k * size = (k - 1) * size + size
  BY <1>1, ChunkCount
<1>3. chunks = [k \in 1 .. n |-> SubSeq(s, (k - 1) * size + 1, end(k))]
  BY DEF Chunks
<1> HIDE DEF n
<1>4. \A k \in 1 .. n : /\ end(k) \in (k - 1) * size .. Len(s)
                        /\ k > 1 => end(k - 1) = (k - 1) * size
  <2> SUFFICES ASSUME NEW k \in 1 .. n
               PROVE  end(k) \in (k - 1) * size .. Len(s) /\ (k > 1 => end(k - 1) = (k - 1) * size)
    OBVIOUS
  <2>1. end(k) = IF k * size <= Len(s) THEN k * size ELSE Len(s)
    BY <1>1, <1>2, MinIs
  <2>2. end(k) \in (k - 1) * size .. Len(s)
    <3> HIDE DEF end
    <3> QED BY <1>1, <1>2, <2>1
  <2>3. (k - 1) * size \in Int /\ (k - 1) * size < Len(s)
    BY <1>2
  <2>4. end(k - 1) = (k - 1) * size
    BY <1>1, <2>3, MinIs
  <2> QED BY <2>2, <2>4
<1>5. end(n) = Len(s)
  <2>1. n * size \in Int
    BY <1>2
  <2>2. end(n) = IF n * size <= Len(s) THEN n * size ELSE Len(s)
    BY <1>1, <2>1, MinIs
  <2> QED BY <1>1, <1>2, <2>1, <2>2
<1> HIDE DEF end
<1>6. ASSUME NEW k \in 1 .. n PROVE chunks[k] \in Seq(S) /\ g[k] \in Seq(S)
  <2>1. (k - 1) * size \in Nat /\ end(k) \in 0 .. Len(s) /\ end(k) \in Int
    BY <1>1, <1>2, <1>4
  <2>2. SubSeq(s, (k - 1) * size + 1, end(k)) \in Seq(S)
    <3>1. \A i \in (k - 1) * size + 1 .. end(k) : s[i] \in S
      BY <2>1
    <3>2. (k - 1) * size + 1 \in Int
      BY <2>1
    <3> QED BY <2>1, <3>1, <3>2, SubSeqProperties
  <2>3. SubSeq(s, 1, end(k)) \in Seq(S)
    BY <2>1
  <2> QED BY <1>3, <2>2, <2>3
<1>7. chunks \in Seq(Seq(S)) /\ Len(chunks) = n
  <2> HIDE DEF chunks
  <2>1. chunks \in [1 .. n -> Seq(S)]
    BY <1>3, <1>6
  <2> QED BY <1>2, <2>1
<1>8. g \in [1 .. n -> Seq(S)]
  BY <1>6
<1>9. ASSUME NEW k \in 1 .. n PROVE g[k] = IF k = 1 THEN chunks[k] ELSE g[k - 1] \o chunks[k]
  <2>1. CASE k = 1
    <3>1. (k - 1) * size + 1 = 1
      BY <2>1
    <3> QED BY <1>3, <2>1, <3>1
  <2>2. CASE k # 1
    <3> DEFINE m == (k - 1) * size
    <3>1. m \in 0 .. Len(s) /\ end(k) \in m .. Len(s) /\ k - 1 \in 1 .. n /\ end(k - 1) = m
      BY <1>1, <1>2, <1>4, <2>2
    <3>2. chunks[k] = SubSeq(s, m + 1, end(k)) /\ g[k] = SubSeq(s, 1, end(k)) /\ g[k - 1] = SubSeq(s, 1, m)
      BY <1>3, <3>1
    <3> HIDE DEF m, chunks, g
    <3>3. 1 \in 1 .. Len(s) + 1 /\ m \in 1 - 1 .. Len(s)
      BY <1>1, <3>1
    <3>4. SubSeq(s, 1, m) \o SubSeq(s, m + 1, end(k)) = SubSeq(s, 1, end(k))
      BY <3>1, <3>3, ConcatAdjacentSubSeq
    <3> QED BY <2>2, <3>2, <3>4
  <2> QED BY <2>1, <2>2
<1>10. Joining(g, chunks)
  <2> HIDE DEF g, chunks
  <2> QED BY <1>7, <1>9 DEF Joining
<1>11. FlattenSeq(chunks) = g[n]
  <2>1. Len(chunks) # 0
    BY <1>2, <1>7
  <2> HIDE DEF g, chunks
  <2>2. chunks \in Seq(Seq(S)) /\ g \in [1 .. Len(chunks) -> Seq(S)] /\ Len(chunks) = n
    BY <1>7, <1>8
  <2> QED BY <2>1, <2>2, <1>10, FlattenIs
<1>12. g[n] = s
  <2>1. g[n] = SubSeq(s, 1, Len(s))
    BY <1>2, <1>5
  <2> QED BY <2>1, SubSeqFull
<1> HIDE DEF g
<1>13. chunks \in Seq(Seq(S)) /\ FlattenSeq(chunks) = s
  <2> HIDE DEF chunks
  <2> QED BY <1>7, <1>11, <1>12
<1> QED BY <1>13

-----------------------------------------------------------------------------
(* Hash chains.                                                            *)

\* An entry of a chain over these digests.
Link(D) == [seq : Nat, prev_hash : Seq(D), model_digest : D]

\* Verifies, entry by entry.
Linked(s) ==
    \A i \in DOMAIN s : /\ s[i].seq = i - 1
                        /\ s[i].prev_hash = IF i = 1 THEN GENESIS_HASH ELSE EntryHash(s[i - 1])

LEMMA VerifiesIsLinked ==
    ASSUME NEW S, NEW s \in Seq(S)
    PROVE  Verifies(s) <=> Linked(s)
<1> SUFFICES ASSUME NEW i \in DOMAIN s
             PROVE  HeadHash(SubSeq(s, 1, i - 1)) = IF i = 1 THEN GENESIS_HASH ELSE EntryHash(s[i - 1])
  BY DEF Verifies, Linked
<1>1. i \in 1 .. Len(s)
  OBVIOUS
<1>2. CASE i = 1
  <2>1. SubSeq(s, 1, i - 1) = << >>
    BY <1>2
  <2> QED BY <1>2, <2>1 DEF HeadHash
<1>3. CASE i # 1
  <2> DEFINE before == SubSeq(s, 1, i - 1)
  <2>1. i - 1 \in 1 .. Len(s)
    BY <1>1, <1>3
  <2>2. before \in Seq(S) /\ Len(before) = i - 1 /\ before[i - 1] = s[i - 1]
    BY <1>1, <2>1
  <2> HIDE DEF before
  <2>3. before # << >> /\ Last(before) = s[i - 1]
    BY <2>1, <2>2 DEF Last
  <2> USE DEF before
  <2> QED BY <1>3, <2>3 DEF HeadHash
<1> QED BY <1>2, <1>3

(* What comes before an entry is settled by it.                            *)
LEMMA LinkedBack ==
    ASSUME NEW D, NEW a \in Seq(Link(D)), NEW b \in Seq(Link(D)), Linked(a), Linked(b),
           Len(a) = Len(b), Len(a) # 0, a[Len(a)] = b[Len(a)]
    PROVE  a = b
<1> DEFINE n == Len(a)
           Same == {j \in 0 .. n - 1 : a[n - j] = b[n - j]}
<1>1. n \in Nat /\ n >= 1 /\ n - 1 \in Nat
  OBVIOUS
<1>2. 0 \in Same
  BY <1>1
<1>3. ASSUME NEW j \in 0 .. (n - 1) - 1, j \in Same PROVE j + 1 \in Same
  <2> DEFINE k == n - j
  <2>1. k \in 2 .. n /\ k - 1 \in 1 .. n /\ n - (j + 1) = k - 1 /\ j + 1 \in 0 .. n - 1
    BY <1>1
  <2>2. a[k] = b[k]
    BY <1>3
  <2> HIDE DEF k
  <2>0. k \in DOMAIN a /\ k \in DOMAIN b /\ k - 1 \in DOMAIN a /\ k - 1 \in DOMAIN b /\ k # 1
    BY <2>1
  <2>3. a[k].prev_hash = EntryHash(a[k - 1]) /\ b[k].prev_hash = EntryHash(b[k - 1])
    BY <2>0 DEF Linked
  <2>4. a[k - 1] \in Link(D) /\ b[k - 1] \in Link(D)
    BY <2>1
  <2>5. a[k - 1].seq = b[k - 1].seq
    BY <2>0 DEF Linked
  <2>6. Append(a[k - 1].prev_hash, a[k - 1].model_digest) = Append(b[k - 1].prev_hash, b[k - 1].model_digest)
    BY <2>2, <2>3 DEF EntryHash
  <2>7. a[k - 1].prev_hash = b[k - 1].prev_hash /\ a[k - 1].model_digest = b[k - 1].model_digest
    <3>1. /\ a[k - 1].prev_hash \in Seq(D) /\ a[k - 1].model_digest \in D
          /\ b[k - 1].prev_hash \in Seq(D) /\ b[k - 1].model_digest \in D
      BY <2>4 DEF Link
    <3>2. \A x, y \in D : \A s, t \in Seq(D) : Append(s, x) = Append(t, y) => s = t /\ x = y
      BY AppendInjective
    <3> DEFINE u == a[k - 1]
               v == b[k - 1]
    <3>3. Append(u.prev_hash, u.model_digest) = Append(v.prev_hash, v.model_digest)
      BY <2>6
    <3>4. u.prev_hash \in Seq(D) /\ u.model_digest \in D /\ v.prev_hash \in Seq(D) /\ v.model_digest \in D
      BY <3>1
    <3>5. u.prev_hash = v.prev_hash /\ u.model_digest = v.model_digest
      <4> HIDE DEF u, v
      <4> QED BY <3>2, <3>3, <3>4, Zenon
    <3> QED BY <3>5
  <2>8. a[k - 1] = b[k - 1]
    <3>1. \A r \in Link(D) : r = [seq |-> r.seq, prev_hash |-> r.prev_hash, model_digest |-> r.model_digest]
      BY DEF Link
    <3> QED BY <2>4, <2>5, <2>7, <3>1
  <2> QED BY <2>1, <2>8
<1>4. \A j \in 0 .. n - 1 : j \in Same
  <2> HIDE DEF n, Same
  <2> QED BY <1>1, <1>2, <1>3, UpToN
<1>5. ASSUME NEW i \in 1 .. n PROVE a[i] = b[i]
  <2>1. n - i \in 0 .. n - 1 /\ n - (n - i) = i
    BY <1>1
  <2>2. n - i \in Same
    <3> HIDE DEF Same
    <3> QED BY <1>4, <2>1
  <2> QED BY <2>1, <2>2
<1> QED BY <1>5, SeqEqual

LEMMA ChainOfIsLinked ==
    ASSUME NEW D, NEW digests \in Seq(D)
    PROVE  ChainOf(digests) \in Seq(Link(D)) /\ Linked(ChainOf(digests))
<1> DEFINE n == Len(digests)
           c == ChainOf(digests)
<1>1. c = [i \in 1 .. n |-> [seq |-> i - 1, prev_hash |-> SubSeq(digests, 1, i - 1), model_digest |-> digests[i]]]
  BY DEF ChainOf
<1>2. n \in Nat
  OBVIOUS
<1>3. \A i \in 1 .. n : SubSeq(digests, 1, i - 1) \in Seq(D) /\ digests[i] \in D /\ i - 1 \in Nat
  OBVIOUS
<1> HIDE DEF c
<1>4. \A i \in 1 .. n : c[i] \in Link(D)
  BY <1>1, <1>3 DEF Link
<1>5. c \in Seq(Link(D))
  <2>1. c \in [1 .. n -> Link(D)]
    BY <1>1, <1>4
  <2> QED BY <1>2, <2>1
<1>6. ASSUME NEW i \in 1 .. n
      PROVE  c[i].seq = i - 1 /\ c[i].prev_hash = IF i = 1 THEN GENESIS_HASH ELSE EntryHash(c[i - 1])
  <2>1. c[i].seq = i - 1 /\ c[i].prev_hash = SubSeq(digests, 1, i - 1)
    BY <1>1
  <2>2. CASE i = 1
    <3>1. SubSeq(digests, 1, i - 1) = << >>
      BY <2>2
    <3> QED BY <2>1, <2>2, <3>1 DEF GENESIS_HASH
  <2>3. CASE i # 1
    <3>1. i - 1 \in 1 .. n /\ c[i - 1].prev_hash = SubSeq(digests, 1, (i - 1) - 1) /\ c[i - 1].model_digest = digests[i - 1]
      BY <1>1, <2>3
    <3>2. SubSeq(digests, 1, i - 1) = Append(SubSeq(digests, 1, (i - 1) - 1), digests[i - 1])
      <4> DEFINE m == i - 1
                 x == SubSeq(digests, 1, m)
                 y == SubSeq(digests, 1, m - 1)
      <4>1. m \in 1 .. n /\ digests[m] \in D /\ m - 1 \in 0 .. n
        BY <3>1
      <4> HIDE DEF m
      <4>2. x \in Seq(D) /\ Len(x) = m /\ \A j \in 1 .. m : x[j] = digests[j]
        BY <4>1
      <4>3. y \in Seq(D) /\ Len(y) = m - 1 /\ \A j \in 1 .. m - 1 : y[j] = digests[j]
        BY <4>1
      <4> HIDE DEF x, y
      <4>4. /\ Append(y, digests[m]) \in Seq(D) /\ Len(Append(y, digests[m])) = m
            /\ \A j \in 1 .. m : Append(y, digests[m])[j] = digests[j]
        <5> DEFINE z == Append(y, digests[m])
        <5>1. z \in Seq(D) /\ Len(z) = (m - 1) + 1 /\ z[(m - 1) + 1] = digests[m] /\ \A j \in 1 .. m - 1 : z[j] = y[j]
          BY <4>1, <4>3, AppendProperties
        <5>2. m \in Nat /\ (m - 1) + 1 = m
          BY <4>1
        <5> HIDE DEF z
        <5>3. Len(z) = m /\ \A j \in 1 .. m : z[j] = digests[j]
          BY <4>3, <5>1, <5>2
        <5>4. z \in Seq(D) /\ Len(z) = m /\ \A j \in 1 .. m : z[j] = digests[j]
          BY <5>1, <5>3
        <5> QED BY <5>4 DEF z
      <4>5. x = Append(y, digests[m])
        BY <4>2, <4>4, SeqEqual
      <4> QED BY <4>5 DEF m, x, y
    <3> QED BY <2>1, <2>3, <3>1, <3>2 DEF EntryHash
  <2> QED BY <2>2, <2>3
<1>7. Linked(c)
  BY <1>1, <1>6 DEF Linked
<1> QED BY <1>5, <1>7 DEF c

LEMMA CheckpointedIsLinked ==
    ASSUME NEW D, NEW c \in Seq(Link(D)), Linked(c), NEW digest \in D
    PROVE  /\ Checkpointed(c, digest) \in Seq(Link(D)) /\ Linked(Checkpointed(c, digest))
           /\ Len(Checkpointed(c, digest)) = Len(c) + 1
           /\ \A k \in 0 .. Len(c) : SubSeq(Checkpointed(c, digest), 1, k) = SubSeq(c, 1, k)
<1> DEFINE n == Len(c)
           link == [seq |-> Len(c), prev_hash |-> HeadHash(c), model_digest |-> digest]
           d == Append(c, link)
<1>0. Checkpointed(c, digest) = d /\ n \in Nat
  BY DEF Checkpointed
<1>1. HeadHash(c) = (IF n = 0 THEN GENESIS_HASH ELSE EntryHash(c[n])) /\ HeadHash(c) \in Seq(D)
  <2>1. CASE n = 0
    BY <2>1 DEF HeadHash, GENESIS_HASH
  <2>2. CASE n # 0
    <3>1. c # << >> /\ Last(c) = c[n] /\ c[n] \in Link(D)
      BY <2>2 DEF Last
    <3>2. EntryHash(c[n]) \in Seq(D)
      BY <3>1 DEF EntryHash, Link
    <3> QED BY <2>2, <3>1, <3>2 DEF HeadHash
  <2> QED BY <2>1, <2>2
<1>2. link \in Link(D)
  BY <1>1 DEF Link
<1>3. link.seq = n /\ link.prev_hash = HeadHash(c)
  OBVIOUS
<1> HIDE DEF link
<1>4. d \in Seq(Link(D)) /\ Len(d) = n + 1 /\ d[n + 1] = link /\ \A i \in 1 .. n : d[i] = c[i]
  BY <1>2, AppendProperties
<1> HIDE DEF d
<1>5. ASSUME NEW i \in 1 .. n + 1
      PROVE  d[i].seq = i - 1 /\ d[i].prev_hash = IF i = 1 THEN GENESIS_HASH ELSE EntryHash(d[i - 1])
  <2>1. CASE i = n + 1
    <3>1. d[i] = link /\ (i # 1 => n \in 1 .. n /\ d[i - 1] = c[n])
      BY <1>0, <1>4, <2>1
    <3> QED BY <1>0, <1>1, <1>3, <2>1, <3>1
  <2>2. CASE i # n + 1
    <3>1. i \in 1 .. n /\ d[i] = c[i] /\ (i # 1 => d[i - 1] = c[i - 1])
      BY <1>0, <1>4, <2>2
    <3>2. c[i].seq = i - 1 /\ c[i].prev_hash = IF i = 1 THEN GENESIS_HASH ELSE EntryHash(c[i - 1])
      BY <3>1 DEF Linked
    <3> QED BY <3>1, <3>2
  <2> QED BY <2>1, <2>2
<1>6. Linked(d)
  BY <1>4, <1>5 DEF Linked
<1>7. ASSUME NEW k \in 0 .. n PROVE SubSeq(d, 1, k) = SubSeq(c, 1, k)
  <2>1. SubSeq(d, 1, k) \in Seq(Link(D)) /\ Len(SubSeq(d, 1, k)) = k /\ \A i \in 1 .. k : SubSeq(d, 1, k)[i] = d[i]
    BY <1>0, <1>4
  <2>2. SubSeq(c, 1, k) \in Seq(Link(D)) /\ Len(SubSeq(c, 1, k)) = k /\ \A i \in 1 .. k : SubSeq(c, 1, k)[i] = c[i]
    BY <1>0
  <2>3. \A i \in 1 .. k : d[i] = c[i]
    BY <1>0, <1>4
  <2> QED BY <2>1, <2>2, <2>3, SeqEqual
<1> QED BY <1>0, <1>4, <1>6, <1>7

-----------------------------------------------------------------------------
(* Fetches.                                                                *)

\* The entries of p's chains so far, of all its lives.
Had(h, p) == UNION {ToSet(c) : c \in h[p]}

SpaceChunks == Sent(EmbeddingBlob, EMBEDDING_CHUNK_BYTES)

(* What a peer has had: chains that verify, with all that led to them.     *)
Grown(h) ==
    /\ << >> \in h
    /\ \A c \in h : /\ c \in Seq(Link(Digests)) /\ Linked(c)
                    /\ \A k \in 0 .. Len(c) : SubSeq(c, 1, k) \in h

ClaimInv ==
    /\ DOMAIN chains = Peers /\ DOMAIN claimed = Peers
    /\ \A p \in Peers : chains[p] \in claimed[p] /\ Grown(claimed[p])

\* Answers carry entries their sender has had, or a chunk of the one embedding.
AnswerFits(h, m) ==
    /\ m.body.k \in {"emb_req", "chain_req"} => m.to \in Peers
    /\ m.body.k = "emb_resp" =>
        m.body.n = Len(SpaceChunks) /\ m.body.i \in DOMAIN SpaceChunks /\ m.body.d = SpaceChunks[m.body.i]
    /\ m.body.k = "chain_resp" => m.from \in Peers /\ m.body.n \in Nat /\ m.body.d \in Seq(Had(h, m.from))

\* What is collected for a slot came in such answers.
CollectedFits(h, s, chunks) ==
    \A i \in DOMAIN chunks :
        IF s[1] = "emb" THEN i \in DOMAIN SpaceChunks /\ chunks[i] = SpaceChunks[i]
        ELSE chunks[i] \in Seq(Had(h, s[2]))

SlotInv ==
    \A s \in DOMAIN slots :
        /\ DOMAIN slots[s] = {"by", "chunks"}
        /\ slots[s].by \in Fetches /\ Slot(slots[s].by) = s /\ fetches[slots[s].by].state = "waiting"
        /\ CollectedFits(claimed, s, slots[s].chunks)

\* A future has one result at most.
FutureFits(h, s, fut) ==
    /\ \A a, b \in fut : a = b
    /\ fut \subseteq IF s[1] = "emb" THEN {EmbeddingBlob} ELSE Seq(Had(h, s[2]))

FetchFits(h, f, fetch) ==
    /\ DOMAIN fetch = {"state", "fut", "ok"}
    /\ FutureFits(h, Slot(f), fetch.fut)
    /\ fetch.state = "done" =>
        /\ fetch.fut # NotDone
        /\ fetch.ok /\ Slot(f)[1] = "chain" => \A r \in fetch.fut : Verifies(r)

FetchInv ==
    /\ scenario \in Scenarios
    /\ ClaimInv
    /\ \A m \in wire : AnswerFits(claimed, m)
    /\ SlotInv
    /\ DOMAIN fetches = Fetches
    /\ \A f \in Fetches : FetchFits(claimed, f, fetches[f])
    /\ SharedSpace

LEMMA SlotShape ==
    ASSUME scenario \in Scenarios, NEW f \in Fetches
    PROVE  /\ Slot(f)[1] \in {"emb", "chain"} /\ Slot(f)[2] = PeerOf(f) /\ PeerOf(f) \in Peers
           /\ Slot(f) = << Slot(f)[1], Slot(f)[2] >>
BY FetchAssumption DEF Fetches, Slot, PeerOf

LEMMA SentType ==
    ASSUME NEW S, NEW s \in Seq(S), NEW size \in Nat \ {0}
    PROVE  Sent(s, size) \in Seq(Seq(S)) /\ FlattenSeq(Sent(s, size)) = s
<1>1. CASE s = << >>
  <2> DEFINE c == << << >> >>
             g == [k \in 1 .. 1 |-> << >>]
  <2>1. Sent(s, size) = c
    BY <1>1 DEF Sent
  <2>2. c \in Seq(Seq(S)) /\ Len(c) = 1 /\ c[1] = << >> /\ g \in [1 .. Len(c) -> Seq(S)] /\ g[1] = << >>
    OBVIOUS
  <2> HIDE DEF c, g
  <2>3. Joining(g, c)
    BY <2>2 DEF Joining
  <2>4. FlattenSeq(c) = g[Len(c)]
    <3>1. Len(c) # 0
      BY <2>2
    <3> QED BY <2>2, <2>3, <3>1, FlattenIs
  <2> QED BY <1>1, <2>1, <2>2, <2>4
<1>2. CASE s # << >>
  BY <1>2, ChunksFlatten DEF Sent
<1> QED BY <1>1, <1>2

LEMMA SpaceIsWhole ==
    /\ SpaceChunks \in Seq(Seq(ToSet(EmbeddingBlob))) /\ Len(SpaceChunks) \in Nat
    /\ DOMAIN SpaceChunks = 1 .. Len(SpaceChunks)
    /\ FlattenSeq(SpaceChunks) = EmbeddingBlob
<1>1. SpaceChunks \in Seq(Seq(ToSet(EmbeddingBlob))) /\ FlattenSeq(SpaceChunks) = EmbeddingBlob
  BY FetchAssumption, SentType DEF SpaceChunks
<1> QED BY <1>1, LenProperties

LEMMA HadGrows ==
    ASSUME NEW h, NEW k, NEW p, h[p] \subseteq k[p]
    PROVE  Seq(Had(h, p)) \subseteq Seq(Had(k, p))
<1>1. Had(h, p) \subseteq Had(k, p)
  BY DEF Had
<1> QED BY <1>1, SeqMonotonic

(* What verifies is one of the chains the entries are from.                *)
LEMMA VerifiedIsHad ==
    ASSUME NEW h, NEW p, Grown(h[p]), NEW r \in Seq(Had(h, p)), Verifies(r)
    PROVE  r \in h[p]
<1>1. Had(h, p) \subseteq Link(Digests)
  BY DEF Had, Grown, ToSet
<1>2. r \in Seq(Link(Digests))
  BY <1>1, SeqMonotonic
<1>3. Linked(r)
  BY <1>2, VerifiesIsLinked
<1>4. CASE Len(r) = 0
  <2>1. r = << >>
    BY <1>4
  <2> QED BY <2>1 DEF Grown
<1>5. CASE Len(r) # 0
  <2> DEFINE n == Len(r)
  <2>1. n \in Nat \ {0} /\ n \in DOMAIN r /\ r[n] \in Had(h, p)
    BY <1>5
  <2>2. PICK c \in h[p] : r[n] \in ToSet(c)
    BY <2>1 DEF Had
  <2>3. PICK j \in DOMAIN c : c[j] = r[n]
    BY <2>2 DEF ToSet
  <2>4. c \in Seq(Link(Digests)) /\ Linked(c) /\ \A k \in 0 .. Len(c) : SubSeq(c, 1, k) \in h[p]
    BY DEF Grown
  <2>5. j = n
    <3>1. c[j].seq = j - 1 /\ r[n].seq = n - 1 /\ j \in 1 .. Len(c)
      BY <1>3, <2>1, <2>3, <2>4 DEF Linked
    <3> QED BY <2>1, <2>3, <3>1
  <2> DEFINE d == SubSeq(c, 1, n)
  <2>6. n \in 1 .. Len(c) /\ Len(c) \in Nat
    BY <2>3, <2>4, <2>5
  <2> HIDE DEF n
  <2>7. d \in Seq(Link(Digests)) /\ Len(d) = n /\ d \in h[p] /\ \A i \in 1 .. n : d[i] = c[i]
    BY <2>4, <2>6
  <2> HIDE DEF d
  <2>8. DOMAIN d = 1 .. n
    BY <2>7
  <2>9. Linked(d)
    <3> SUFFICES ASSUME NEW i \in 1 .. n
                 PROVE  d[i].seq = i - 1 /\ d[i].prev_hash = IF i = 1 THEN GENESIS_HASH ELSE EntryHash(d[i - 1])
      BY <2>8 DEF Linked
    <3>1. i \in DOMAIN c /\ d[i] = c[i] /\ (i # 1 => d[i - 1] = c[i - 1])
      BY <2>1, <2>4, <2>6, <2>7
    <3>2. c[i].seq = i - 1 /\ c[i].prev_hash = IF i = 1 THEN GENESIS_HASH ELSE EntryHash(c[i - 1])
      BY <2>4, <3>1 DEF Linked
    <3> QED BY <3>1, <3>2
  <2>10. r[Len(r)] = d[Len(r)] /\ Len(r) = Len(d) /\ Len(r) # 0
    BY <1>5, <2>1, <2>3, <2>5, <2>7 DEF n
  <2>11. r = d
    BY <1>2, <1>3, <2>7, <2>9, <2>10, LinkedBack
  <2> QED BY <2>7, <2>11
<1> QED BY <1>4, <1>5

(* Chunks that are all there make a sequence of entries, or the embedding. *)
LEMMA JoinedFits ==
    ASSUME NEW h, NEW s, NEW chunks, NEW n \in Nat, CollectedFits(h, s, chunks),
           s[1] = "emb" => n = Len(SpaceChunks)
    PROVE  FutureFits(h, s, Joined(chunks, n))
<1>1. CASE Joined(chunks, n) = {}
  BY <1>1 DEF FutureFits
<1>2. CASE Joined(chunks, n) # {}
  <2> DEFINE all == [i \in 1 .. n |-> chunks[i]]
  <2>1. Joined(chunks, n) = {FlattenSeq(all)} /\ 1 .. n \subseteq DOMAIN chunks
    BY <1>2 DEF Joined, NotDone
  <2>2. CASE s[1] = "emb"
    <3>1. \A i \in 1 .. n : chunks[i] = SpaceChunks[i]
      BY <2>1, <2>2 DEF CollectedFits
    <3>2. all = SpaceChunks
      <4>1. DOMAIN all = DOMAIN SpaceChunks /\ \A i \in DOMAIN all : all[i] = SpaceChunks[i]
        BY <2>2, <3>1, SpaceIsWhole
      <4>2. SpaceChunks = [i \in 1 .. n |-> SpaceChunks[i]]
        BY <2>2, SpaceIsWhole
      <4> QED BY <3>1, <4>2
    <3> HIDE DEF all
    <3> QED BY <2>1, <2>2, <3>2, SpaceIsWhole DEF FutureFits
  <2>3. CASE s[1] # "emb"
    <3> DEFINE S == Had(h, s[2])
    <3>1. \A i \in 1 .. n : chunks[i] \in Seq(S)
      BY <2>1, <2>3 DEF CollectedFits
    <3> HIDE DEF S
    <3>2. all \in Seq(Seq(S))
      BY <3>1
    <3> HIDE DEF all
    <3>3. FlattenSeq(all) \in Seq(S)
      BY <3>2, FlattenType
    <3> QED BY <2>1, <2>3, <3>3 DEF FutureFits, S
  <2> QED BY <2>2, <2>3
<1> QED BY <1>1, <1>2

LEMMA FetchStarts == Init => FetchInv
<1> SUFFICES ASSUME Init PROVE FetchInv
  OBVIOUS
<1>1. /\ scenario \in Scenarios /\ wire = {} /\ DOMAIN slots = {} /\ embedding = << >>
      /\ fetches = [f \in Fetches |-> [state |-> "idle", fut |-> NotDone, ok |-> FALSE]]
      /\ chains = [p \in Peers |-> ChainOf(scenario.history)]
      /\ claimed = [p \in Peers |-> Prefixes(chains[p])]
  BY DEF Init, FetchInit
<1>2. ClaimInv
  <2> DEFINE c == ChainOf(scenario.history)
  <2>1. c \in Seq(Link(Digests)) /\ Linked(c)
    BY <1>1, FetchAssumption, ChainOfIsLinked
  <2> SUFFICES ASSUME NEW p \in Peers PROVE chains[p] \in claimed[p] /\ Grown(claimed[p])
    BY <1>1 DEF ClaimInv
  <2>2. chains[p] = c /\ claimed[p] = {SubSeq(c, 1, k) : k \in 0 .. Len(c)}
    BY <1>1 DEF Prefixes
  <2> HIDE DEF c
  <2>3. Len(c) \in Nat /\ SubSeq(c, 1, Len(c)) = c /\ SubSeq(c, 1, 0) = << >>
    BY <2>1, SubSeqFull
  <2>4. c \in claimed[p] /\ << >> \in claimed[p]
    <3>1. Len(c) \in 0 .. Len(c) /\ 0 \in 0 .. Len(c)
      BY <2>3
    <3> QED BY <2>2, <2>3, <3>1
  <2>5. ASSUME NEW k \in 0 .. Len(c)
        PROVE  LET d == SubSeq(c, 1, k)
               IN  d \in Seq(Link(Digests)) /\ Linked(d) /\ \A l \in 0 .. Len(d) : SubSeq(d, 1, l) \in claimed[p]
    <3> DEFINE d == SubSeq(c, 1, k)
    <3>1. d \in Seq(Link(Digests)) /\ Len(d) = k /\ \A i \in 1 .. k : d[i] = c[i]
      BY <2>1, <2>3
    <3> HIDE DEF d
    <3>2. Linked(d)
      <4> SUFFICES ASSUME NEW i \in 1 .. k
                   PROVE  d[i].seq = i - 1 /\ d[i].prev_hash = IF i = 1 THEN GENESIS_HASH ELSE EntryHash(d[i - 1])
        BY <3>1 DEF Linked
      <4>1. i \in DOMAIN c /\ d[i] = c[i] /\ (i # 1 => d[i - 1] = c[i - 1])
        BY <2>1, <2>3, <3>1
      <4>2. c[i].seq = i - 1 /\ c[i].prev_hash = IF i = 1 THEN GENESIS_HASH ELSE EntryHash(c[i - 1])
        BY <2>1, <4>1 DEF Linked
      <4> QED BY <4>1, <4>2
    <3>3. ASSUME NEW l \in 0 .. Len(d) PROVE SubSeq(d, 1, l) \in claimed[p]
      <4>0. l \in 0 .. k /\ l \in 0 .. Len(c)
        BY <2>3, <3>1
      <4>1. SubSeq(d, 1, l) \in Seq(Link(Digests)) /\ Len(SubSeq(d, 1, l)) = l /\ \A i \in 1 .. l : SubSeq(d, 1, l)[i] = d[i]
        BY <3>1, <4>0
      <4>2. SubSeq(c, 1, l) \in Seq(Link(Digests)) /\ Len(SubSeq(c, 1, l)) = l /\ \A i \in 1 .. l : SubSeq(c, 1, l)[i] = c[i]
        BY <2>1, <4>0
      <4>3. \A i \in 1 .. l : d[i] = c[i]
        BY <3>1, <4>0
      <4>4. SubSeq(d, 1, l) = SubSeq(c, 1, l)
        BY <4>1, <4>2, <4>3, SeqEqual
      <4> QED BY <2>2, <4>0, <4>4
    <3> QED BY <3>1, <3>2, <3>3 DEF d
  <2> QED BY <2>2, <2>4, <2>5 DEF Grown
<1>3. \A f \in Fetches : FetchFits(claimed, f, fetches[f])
  BY <1>1 DEF FetchFits, FutureFits, NotDone
<1> QED BY <1>1, <1>2, <1>3 DEF FetchInv, SlotInv, SharedSpace

(* What fits still fits when peers have had more.                          *)
LEMMA FitsLater ==
    ASSUME NEW h, NEW k, \A p \in Peers : h[p] \subseteq k[p]
    PROVE  /\ \A m : AnswerFits(h, m) => AnswerFits(k, m)
           /\ \A s, chunks : s[2] \in Peers /\ CollectedFits(h, s, chunks) => CollectedFits(k, s, chunks)
           /\ \A s, fut : s[2] \in Peers /\ FutureFits(h, s, fut) => FutureFits(k, s, fut)
<1>1. \A p \in Peers : Seq(Had(h, p)) \subseteq Seq(Had(k, p))
  BY HadGrows
<1>2. \A m : AnswerFits(h, m) => AnswerFits(k, m)
  BY <1>1 DEF AnswerFits
<1>3. \A s, chunks : s[2] \in Peers /\ CollectedFits(h, s, chunks) => CollectedFits(k, s, chunks)
  BY <1>1 DEF CollectedFits
<1>4. \A s, fut : s[2] \in Peers /\ FutureFits(h, s, fut) => FutureFits(k, s, fut)
  BY <1>1 DEF FutureFits
<1> QED BY <1>2, <1>3, <1>4

LEMMA FetchElsewhere ==
    ASSUME FetchInv, scenario' = scenario, fetchVars' = fetchVars,
           NEW taken, NEW messages, wire' = (wire \ taken) \cup messages,
           \A m \in messages : AnswerFits(claimed, m)
    PROVE  FetchInv'
<1>1. /\ chains' = chains /\ slots' = slots /\ fetches' = fetches /\ embedding' = embedding /\ claimed' = claimed
  BY DEF fetchVars
<1>2. \A m \in wire' : AnswerFits(claimed, m)
  BY DEF FetchInv
<1> QED BY <1>1, <1>2 DEF FetchInv, ClaimInv, SlotInv, SharedSpace, Fetches, Slot, PeerOf, FetchFits

LEMMA FetchCheckpoint ==
    ASSUME FetchInv, NEW p \in Peers, Checkpoint(p)
    PROVE  FetchInv'
<1>1. PICK digest \in Digests : chains' = [chains EXCEPT ![p] = Checkpointed(@, digest)]
  BY DEF Checkpoint
<1>2. /\ claimed' = [claimed EXCEPT ![p] = @ \cup {chains'[p]}]
      /\ scenario' = scenario /\ wire' = wire /\ slots' = slots /\ fetches' = fetches /\ embedding' = embedding
  BY DEF Checkpoint
<1>3. /\ DOMAIN chains = Peers /\ DOMAIN claimed = Peers
      /\ \A q \in Peers : chains[q] \in claimed[q] /\ Grown(claimed[q])
  BY DEF FetchInv, ClaimInv
<1> DEFINE c == chains[p]
           d == Checkpointed(c, digest)
<1>4. c \in Seq(Link(Digests)) /\ Linked(c) /\ \A k \in 0 .. Len(c) : SubSeq(c, 1, k) \in claimed[p]
  BY <1>3 DEF Grown
<1>5. /\ d \in Seq(Link(Digests)) /\ Linked(d) /\ Len(d) = Len(c) + 1
      /\ \A k \in 0 .. Len(c) : SubSeq(d, 1, k) = SubSeq(c, 1, k)
  BY <1>4, CheckpointedIsLinked
<1>6. /\ chains'[p] = d /\ claimed'[p] = claimed[p] \cup {d}
      /\ \A q \in Peers \ {p} : chains'[q] = chains[q] /\ claimed'[q] = claimed[q]
      /\ DOMAIN chains' = Peers /\ DOMAIN claimed' = Peers
  BY <1>1, <1>2, <1>3
<1> HIDE DEF d
<1>7. Grown(claimed[p] \cup {d})
  <2>1. ASSUME NEW k \in 0 .. Len(d) PROVE SubSeq(d, 1, k) \in claimed[p] \cup {d}
    <3>1. CASE k = Len(d)
      BY <1>5, <3>1, SubSeqFull
    <3>2. CASE k # Len(d)
      <4>1. k \in 0 .. Len(c)
        BY <1>4, <1>5, <3>2
      <4> QED BY <1>4, <1>5, <4>1
    <3> QED BY <3>1, <3>2
  <2>2. /\ << >> \in claimed[p]
        /\ \A b \in claimed[p] : /\ b \in Seq(Link(Digests)) /\ Linked(b)
                                 /\ \A k \in 0 .. Len(b) : SubSeq(b, 1, k) \in claimed[p]
    BY <1>3 DEF Grown
  <2> QED BY <1>5, <2>1, <2>2 DEF Grown
<1>8. ClaimInv'
  <2> SUFFICES ASSUME NEW q \in Peers PROVE chains'[q] \in claimed'[q] /\ Grown(claimed'[q])
    BY <1>6 DEF ClaimInv
  <2>1. CASE q = p
    BY <1>6, <1>7, <2>1
  <2>2. CASE q # p
    BY <1>3, <1>6, <2>2
  <2> QED BY <2>1, <2>2
<1>9. \A q \in Peers : claimed[q] \subseteq claimed'[q]
  BY <1>6
<1>10. /\ \A m : AnswerFits(claimed, m) => AnswerFits(claimed', m)
       /\ \A s, chunks : s[2] \in Peers /\ CollectedFits(claimed, s, chunks) => CollectedFits(claimed', s, chunks)
       /\ \A s, fut : s[2] \in Peers /\ FutureFits(claimed, s, fut) => FutureFits(claimed', s, fut)
  BY <1>9, FitsLater
<1>11. (\A m \in wire : AnswerFits(claimed, m))'
  BY <1>2, <1>10 DEF FetchInv
<1>12. \A f \in Fetches : Slot(f)[2] \in Peers
  BY SlotShape DEF FetchInv
<1>13. SlotInv'
  BY <1>2, <1>10, <1>12 DEF FetchInv, SlotInv, Fetches, Slot
<1>14. (\A f \in Fetches : FetchFits(claimed, f, fetches[f]))'
  BY <1>2, <1>10, <1>12 DEF FetchInv, FetchFits, Fetches, Slot
<1> QED BY <1>2, <1>8, <1>11, <1>13, <1>14 DEF FetchInv, SharedSpace, Fetches

LEMMA FetchRestart ==
    ASSUME FetchInv, NEW p \in Peers, RestartPeer(p)
    PROVE  FetchInv'
<1>1. /\ chains' = [chains EXCEPT ![p] = << >>] /\ claimed' = claimed
      /\ scenario' = scenario /\ wire' = wire /\ slots' = slots /\ fetches' = fetches /\ embedding' = embedding
  BY DEF RestartPeer
<1>2. ClaimInv'
  BY <1>1 DEF FetchInv, ClaimInv, Grown
<1> QED BY <1>1, <1>2 DEF FetchInv, SlotInv, SharedSpace, Fetches, Slot, PeerOf, FetchFits

LEMMA FetchFacts ==
    ASSUME FetchInv, NEW f \in Fetches
    PROVE  /\ DOMAIN fetches[f] = {"state", "fut", "ok"} /\ FutureFits(claimed, Slot(f), fetches[f].fut)
           /\ FetchFits(claimed, f, fetches[f])
           /\ Slot(f)[1] \in {"emb", "chain"} /\ Slot(f)[2] = PeerOf(f) /\ PeerOf(f) \in Peers
BY SlotShape DEF FetchInv, FetchFits

LEMMA FetchStart ==
    ASSUME FetchInv, NEW f \in Fetches, StartFetch(f)
    PROVE  FetchInv'
<1>1. /\ fetches[f].state = "idle" /\ fetches' = [fetches EXCEPT ![f].state = "waiting"]
      /\ slots' = Put(slots, Slot(f), [by |-> f, chunks |-> << >>])
      /\ scenario' = scenario /\ chains' = chains /\ embedding' = embedding /\ claimed' = claimed
  BY DEF StartFetch
<1>2. PICK body \in {EmbeddingRequest, ChainRequest} : wire' = wire \cup {Envelope(Me, PeerOf(f), body)}
  BY DEF StartFetch, Exchange
<1>3. AnswerFits(claimed, Envelope(Me, PeerOf(f), body))
  BY FetchFacts DEF AnswerFits, Envelope, EmbeddingRequest, ChainRequest
<1>4. (\A m \in wire : AnswerFits(claimed, m))'
  BY <1>1, <1>2, <1>3 DEF FetchInv
<1>5. DOMAIN fetches = Fetches /\ Fetches' = Fetches /\ (\A g : Slot(g)' = Slot(g))
  BY <1>1 DEF FetchInv, Fetches, Slot
<1>6. /\ \A g \in Fetches \ {f} : fetches'[g] = fetches[g]
      /\ fetches'[f] = [fetches[f] EXCEPT !.state = "waiting"]
      /\ DOMAIN fetches' = Fetches
  BY <1>1, <1>5
<1>7. /\ fetches'[f].state = "waiting" /\ fetches'[f].fut = fetches[f].fut
      /\ DOMAIN fetches'[f] = {"state", "fut", "ok"}
  BY <1>6, FetchFacts
<1>8. (\A g \in Fetches : FetchFits(claimed, g, fetches[g]))'
  <2> SUFFICES ASSUME NEW g \in Fetches PROVE FetchFits(claimed, g, fetches[g])'
    BY <1>5
  <2>1. CASE g = f
    BY <1>1, <1>5, <1>7, <2>1, FetchFacts DEF FetchFits
  <2>2. CASE g # f
    BY <1>1, <1>5, <1>6, <2>2, FetchFacts DEF FetchFits
  <2> QED BY <2>1, <2>2
<1>9. SlotInv'
  <2> DEFINE fresh == [by |-> f, chunks |-> << >>]
  <2>1. /\ DOMAIN slots' = DOMAIN slots \cup {Slot(f)}
        /\ slots'[Slot(f)] = fresh
        /\ \A s \in DOMAIN slots \ {Slot(f)} : slots'[s] = slots[s]
    BY <1>1 DEF Put
  <2>2. DOMAIN fresh = {"by", "chunks"} /\ fresh.by = f /\ fresh.chunks = << >>
    OBVIOUS
  <2> HIDE DEF fresh
  <2> SUFFICES ASSUME NEW s \in DOMAIN slots'
               PROVE  /\ DOMAIN slots'[s] = {"by", "chunks"}
                      /\ slots'[s].by \in Fetches /\ Slot(slots'[s].by) = s /\ fetches'[slots'[s].by].state = "waiting"
                      /\ CollectedFits(claimed, s, slots'[s].chunks)
    BY <1>1, <1>5 DEF SlotInv
  <2>3. CASE s = Slot(f)
    <3>1. CollectedFits(claimed, s, << >>)
      BY DEF CollectedFits
    <3> QED BY <1>7, <2>1, <2>2, <2>3, <3>1
  <2>4. CASE s # Slot(f)
    <3>1. s \in DOMAIN slots /\ slots'[s] = slots[s]
      BY <2>1, <2>4
    <3> QED BY <1>6, <2>4, <3>1 DEF FetchInv, SlotInv
  <2> QED BY <2>3, <2>4
<1>10. ClaimInv' /\ SharedSpace'
  BY <1>1 DEF FetchInv, ClaimInv, SharedSpace
<1> QED BY <1>1, <1>4, <1>5, <1>6, <1>8, <1>9, <1>10 DEF FetchInv

LEMMA FetchEmbeddingRequest ==
    ASSUME FetchInv, NEW m \in wire, OnEmbeddingRequest(m)
    PROVE  FetchInv'
<1> DEFINE answers == {Envelope(m.to, m.from, EmbeddingResponse(i, Len(SpaceChunks), SpaceChunks[i])) :
                          i \in DOMAIN SpaceChunks}
           taken == {m}
<1>1. scenario' = scenario /\ fetchVars' = fetchVars /\ wire' = (wire \ taken) \cup answers
  BY DEF OnEmbeddingRequest, Exchange, SpaceChunks
<1>2. \A r \in answers : AnswerFits(claimed, r)
  BY DEF AnswerFits, Envelope, EmbeddingResponse
<1> HIDE DEF answers, taken
<1> QED BY <1>1, <1>2, FetchElsewhere

LEMMA FetchChainRequest ==
    ASSUME FetchInv, NEW m \in wire, OnChainRequest(m)
    PROVE  FetchInv'
<1> DEFINE p == m.to
           c == chains[p]
           chunks == Sent(c, CHAIN_ENTRIES_PER_CHUNK)
           answers == {Envelope(p, m.from, ChainResponse(i, Len(chunks), chunks[i])) : i \in DOMAIN chunks}
           taken == {m}
<1>1. scenario' = scenario /\ fetchVars' = fetchVars /\ wire' = (wire \ taken) \cup answers
  BY DEF OnChainRequest, Exchange
<1>2. p \in Peers
  BY DEF FetchInv, AnswerFits, OnChainRequest, ChainRequest
<1>3. c \in Seq(Link(Digests)) /\ c \in claimed[p]
  BY <1>2 DEF FetchInv, ClaimInv, Grown
<1>4. c \in Seq(Had(claimed, p))
  <2>1. \A i \in 1 .. Len(c) : c[i] \in Had(claimed, p)
    BY <1>3 DEF Had, ToSet
  <2>2. c = [i \in 1 .. Len(c) |-> c[i]] /\ Len(c) \in Nat
    BY <1>3
  <2> HIDE DEF c
  <2>3. c \in [1 .. Len(c) -> Had(claimed, p)]
    BY <2>1, <2>2
  <2> QED BY <2>2, <2>3
<1>5. chunks \in Seq(Seq(Had(claimed, p)))
  BY <1>4, FetchAssumption, SentType
<1>6. \A r \in answers : AnswerFits(claimed, r)
  <2> SUFFICES ASSUME NEW i \in DOMAIN chunks
               PROVE  AnswerFits(claimed, Envelope(p, m.from, ChainResponse(i, Len(chunks), chunks[i])))
    OBVIOUS
  <2>1. Len(chunks) \in Nat /\ chunks[i] \in Seq(Had(claimed, p))
    <3> HIDE DEF chunks
    <3> QED BY <1>5
  <2> HIDE DEF chunks, p
  <2> QED BY <1>2, <2>1 DEF AnswerFits, Envelope, ChainResponse
<1> HIDE DEF answers, taken
<1> QED BY <1>1, <1>6, FetchElsewhere

LEMMA FetchChunk ==
    ASSUME FetchInv, NEW m \in wire, OnChunk(m)
    PROVE  FetchInv'
<1> DEFINE slot == << IF m.body.k = "emb_resp" THEN "emb" ELSE "chain", m.from >>
           taken == {m}
           none == {}
<1>1. /\ m.body.k \in {"emb_resp", "chain_resp"} /\ scenario' = scenario /\ chains' = chains
      /\ embedding' = embedding /\ claimed' = claimed /\ wire' = (wire \ taken) \cup none
      /\ checkpointed' = checkpointed /\ restarted' = restarted
      /\ AnswerFits(claimed, m)
  BY DEF OnChunk, Exchange, FetchInv
<1>2. CASE slot \notin DOMAIN slots
  <2>1. fetchVars' = fetchVars /\ \A r \in none : AnswerFits(claimed, r)
    BY <1>1, <1>2 DEF OnChunk, fetchVars
  <2> HIDE DEF none, taken
  <2> QED BY <1>1, <2>1, FetchElsewhere
<1>3. CASE slot \in DOMAIN slots
  <2> DEFINE chunks == Collected(slots[slot].chunks, m.body.i, m.body.d)
             f == slots[slot].by
             joined == Joined(chunks, m.body.n)
  <2>1. /\ slots' = [slots EXCEPT ![slot].chunks = chunks]
        /\ fetches' = IF fetches[f].fut # NotDone THEN fetches ELSE [fetches EXCEPT ![f].fut = joined]
    BY <1>3 DEF OnChunk
  <2>2. /\ DOMAIN slots[slot] = {"by", "chunks"} /\ f \in Fetches /\ Slot(f) = slot /\ fetches[f].state = "waiting"
        /\ CollectedFits(claimed, slot, slots[slot].chunks)
    BY <1>3 DEF FetchInv, SlotInv
  <2>3. slot[1] = (IF m.body.k = "emb_resp" THEN "emb" ELSE "chain") /\ slot[2] = m.from
    OBVIOUS
  <2> HIDE DEF slot
  <2>4. /\ m.body.n \in Nat /\ (slot[1] = "emb" => m.body.n = Len(SpaceChunks))
        /\ IF slot[1] = "emb" THEN m.body.i \in DOMAIN SpaceChunks /\ m.body.d = SpaceChunks[m.body.i]
           ELSE m.body.d \in Seq(Had(claimed, slot[2]))
    BY <1>1, <2>3, SpaceIsWhole DEF AnswerFits
  <2>5. CollectedFits(claimed, slot, chunks)
    <3>1. /\ DOMAIN chunks = DOMAIN slots[slot].chunks \cup {m.body.i} /\ chunks[m.body.i] = m.body.d
          /\ \A i \in DOMAIN slots[slot].chunks \ {m.body.i} : chunks[i] = slots[slot].chunks[i]
      BY DEF Collected, Put
    <3> HIDE DEF chunks
    <3> QED BY <2>2, <2>4, <3>1 DEF CollectedFits
  <2>6. FutureFits(claimed, slot, joined)
    <3> HIDE DEF chunks
    <3> QED BY <2>4, <2>5, JoinedFits
  <2> HIDE DEF joined, chunks, f
  <2>7. DOMAIN fetches = Fetches /\ Fetches' = Fetches /\ (\A g : Slot(g)' = Slot(g))
    BY <1>1 DEF FetchInv, Fetches, Slot
  <2>8. /\ DOMAIN fetches' = Fetches /\ \A g \in Fetches \ {f} : fetches'[g] = fetches[g]
        /\ fetches'[f] = IF fetches[f].fut # NotDone THEN fetches[f] ELSE [fetches[f] EXCEPT !.fut = joined]
    BY <2>1, <2>2, <2>7
  <2>9. /\ DOMAIN fetches'[f] = {"state", "fut", "ok"} /\ fetches'[f].state = fetches[f].state
        /\ fetches'[f].fut = IF fetches[f].fut # NotDone THEN fetches[f].fut ELSE joined
    BY <2>2, <2>8, FetchFacts
  <2>10. \A g \in Fetches : fetches'[g].state = fetches[g].state
    BY <2>8, <2>9
  <2>11. (\A g \in Fetches : FetchFits(claimed, g, fetches[g]))'
    <3> SUFFICES ASSUME NEW g \in Fetches PROVE FetchFits(claimed, g, fetches[g])'
      BY <2>7
    <3>1. CASE g = f
      <4>1. FutureFits(claimed, Slot(g), fetches'[g].fut)
        BY <2>2, <2>6, <2>9, <3>1, FetchFacts
      <4>2. fetches'[g].state # "done"
        BY <2>2, <2>9, <3>1
      <4> QED BY <1>1, <2>7, <2>9, <3>1, <4>1, <4>2 DEF FetchFits
    <3>2. CASE g # f
      BY <1>1, <2>7, <2>8, <3>2, FetchFacts DEF FetchFits
    <3> QED BY <3>1, <3>2
  <2>12. SlotInv'
    <3>1. /\ DOMAIN slots' = DOMAIN slots /\ \A s \in DOMAIN slots \ {slot} : slots'[s] = slots[s]
          /\ slots'[slot] = [slots[slot] EXCEPT !.chunks = chunks]
      BY <1>3, <2>1
    <3>2. DOMAIN slots'[slot] = {"by", "chunks"} /\ slots'[slot].by = slots[slot].by /\ slots'[slot].chunks = chunks
      BY <2>2, <3>1
    <3> SUFFICES ASSUME NEW s \in DOMAIN slots
                 PROVE  /\ DOMAIN slots'[s] = {"by", "chunks"}
                        /\ slots'[s].by \in Fetches /\ Slot(slots'[s].by) = s /\ fetches'[slots'[s].by].state = "waiting"
                        /\ CollectedFits(claimed, s, slots'[s].chunks)
      BY <1>1, <2>7, <3>1 DEF SlotInv
    <3>3. CASE s = slot
      BY <2>2, <2>5, <2>10, <3>2, <3>3 DEF f
    <3>4. CASE s # slot
      <4>1. slots'[s] = slots[s]
        BY <3>1, <3>4
      <4> QED BY <2>10, <4>1 DEF FetchInv, SlotInv
    <3> QED BY <3>3, <3>4
  <2>13. (\A r \in wire : AnswerFits(claimed, r))'
    BY <1>1 DEF FetchInv
  <2>14. ClaimInv' /\ SharedSpace'
    BY <1>1 DEF FetchInv, ClaimInv, SharedSpace
  <2> QED BY <1>1, <2>7, <2>8, <2>11, <2>12, <2>13, <2>14 DEF FetchInv
<1> QED BY <1>2, <1>3

LEMMA FetchEnd ==
    ASSUME FetchInv, NEW f \in Fetches, EndFetch(f)
    PROVE  FetchInv'
<1>1. /\ slots' = [s \in DOMAIN slots \ {Slot(f)} |-> slots[s]]
      /\ scenario' = scenario /\ wire' = wire /\ chains' = chains /\ claimed' = claimed
  BY DEF EndFetch
<1>2. DOMAIN fetches = Fetches /\ Fetches' = Fetches /\ (\A g : Slot(g)' = Slot(g))
  BY <1>1 DEF FetchInv, Fetches, Slot
<1>3. /\ DOMAIN fetches' = Fetches /\ \A g \in Fetches \ {f} : fetches'[g] = fetches[g]
  BY <1>2 DEF EndFetch
<1>4. SlotInv'
  BY <1>1, <1>2, <1>3 DEF FetchInv, SlotInv
<1>5. FetchFits(claimed, f, fetches'[f]) /\ embedding' \in {<< >>, EmbeddingBlob}
  <2>1. CASE fetches' = [fetches EXCEPT ![f].state = "timeout"] /\ UNCHANGED embedding
    <3>1. fetches'[f] = [fetches[f] EXCEPT !.state = "timeout"]
      BY <1>2, <2>1
    <3>2. /\ DOMAIN fetches'[f] = {"state", "fut", "ok"} /\ fetches'[f].state = "timeout"
          /\ fetches'[f].fut = fetches[f].fut
      BY <3>1, FetchFacts
    <3>3. embedding' \in {<< >>, EmbeddingBlob}
      BY <2>1 DEF FetchInv, SharedSpace
    <3> QED BY <3>2, <3>3, FetchFacts DEF FetchFits
  <2>2. ASSUME NEW result \in fetches[f].fut,
               fetches' = [fetches EXCEPT ![f].state = "done", ![f].ok = Slot(f)[1] = "emb" \/ Verifies(result)],
               embedding' = IF Slot(f)[1] = "emb" THEN result ELSE embedding
        PROVE  FetchFits(claimed, f, fetches'[f]) /\ embedding' \in {<< >>, EmbeddingBlob}
    <3> DEFINE good == Slot(f)[1] = "emb" \/ Verifies(result)
    <3>1. fetches'[f] = [fetches[f] EXCEPT !.state = "done", !.ok = good]
      BY <1>2, <2>2
    <3> HIDE DEF good
    <3>2. /\ DOMAIN fetches'[f] = {"state", "fut", "ok"} /\ fetches'[f].state = "done"
          /\ fetches'[f].fut = fetches[f].fut
      BY <3>1, FetchFacts
    <3>3. fetches'[f].ok = good
      BY <3>1, FetchFacts
    <3>4. fetches'[f].ok /\ Slot(f)[1] = "chain" => \A r \in fetches'[f].fut : Verifies(r)
      BY <2>2, <3>2, <3>3, FetchFacts DEF good, FutureFits
    <3>5. embedding' \in {<< >>, EmbeddingBlob}
      BY <2>2, FetchFacts DEF FutureFits, FetchInv, SharedSpace
    <3>6. fetches'[f].fut # NotDone
      BY <3>2, <2>2 DEF NotDone
    <3> QED BY <3>2, <3>4, <3>5, <3>6, FetchFacts DEF FetchFits
  <2> QED BY <2>1, <2>2 DEF EndFetch
<1>6. (\A g \in Fetches : FetchFits(claimed, g, fetches[g]))'
  BY <1>1, <1>2, <1>3, <1>5, FetchFacts DEF FetchFits
<1> QED BY <1>1, <1>2, <1>3, <1>4, <1>5, <1>6 DEF FetchInv, ClaimInv, SharedSpace

RpcKinds == {"query", "response", "calib_q", "calib_r"}

(* Calls only exchange messages of their own kinds.                        *)
LEMMA RpcWire ==
    ASSUME RpcNext
    PROVE  /\ scenario' = scenario
           /\ \E taken, messages : /\ wire' = (wire \ taken) \cup messages
                                   /\ \A m \in messages : m.body.k \in RpcKinds
<1> DEFINE Goal == /\ scenario' = scenario
                   /\ \E taken, messages : /\ wire' = (wire \ taken) \cup messages
                                           /\ \A m \in messages : m.body.k \in RpcKinds
<1>1. ASSUME NEW taken, NEW messages, wire' = (wire \ taken) \cup messages, scenario' = scenario,
             \A m \in messages : m.body.k \in RpcKinds
      PROVE  Goal
  BY <1>1
<1>2. ASSUME scenario' = scenario, wire' = wire PROVE Goal
  <2> DEFINE none == {}
  <2>1. wire' = (wire \ none) \cup none /\ \A m \in none : m.body.k \in RpcKinds
    BY <1>2
  <2> HIDE DEF none
  <2> QED BY <1>1, <1>2, <2>1
<1> HIDE DEF Goal
<1>3. ASSUME NEW c \in Calls, StartInfer(c) PROVE Goal
  <2> DEFINE asked_ == IF Kind(c) = "infer" THEN Ranked(scenario.calls[c].peers) ELSE scenario.calls[c].peers
             messages == {Envelope(Me, p, Query(Qid(c, p), X(c))) : p \in ToSet(asked_)}
             none == {}
  <2>1. wire' = (wire \ none) \cup messages /\ scenario' = scenario
    BY <1>3 DEF StartInfer, Exchange
  <2>2. \A m \in messages : m.body.k \in RpcKinds
    BY DEF Envelope, Query, RpcKinds
  <2> HIDE DEF messages, none
  <2> QED BY <2>1, <2>2, <1>1
<1>4. ASSUME NEW c \in Calls, StartCalibration(c) PROVE Goal
  <2> DEFINE to == Others(scenario.calls[c].peers)
             chunks == SampleChunks
             messages == {Envelope(Me, p, CalibrationQuery(Qid(c, p), i, chunks[i])) : p \in ToSet(to), i \in DOMAIN chunks}
             none == {}
  <2>1. \/ wire' = wire
        \/ wire' = (wire \ none) \cup messages
    BY <1>4 DEF StartCalibration, Exchange, Examine
  <2>2. \A m \in messages : m.body.k \in RpcKinds
    BY DEF Envelope, CalibrationQuery, RpcKinds
  <2>3. scenario' = scenario
    BY <1>4 DEF StartCalibration
  <2> HIDE DEF messages, none
  <2> QED BY <2>1, <2>2, <2>3, <1>1, <1>2
<1>5. ASSUME NEW c \in Calls, CallGoesOn(c) PROVE Goal
  BY <1>5, <1>2 DEF CallGoesOn, Conclude, EndQuery, EndCalibration
<1>6. ASSUME NEW m \in wire, OnQuery(m) PROVE Goal
  <2> DEFINE messages == {Envelope(m.to, m.from, Response(m.body.id, scenario.knows[m.to][m.body.x]))}
             taken == {m}
  <2>1. wire' = (wire \ taken) \cup messages /\ scenario' = scenario
    BY <1>6 DEF OnQuery, Exchange
  <2>2. \A r \in messages : r.body.k \in RpcKinds
    BY DEF Envelope, Response, RpcKinds
  <2> HIDE DEF messages, taken
  <2> QED BY <2>1, <2>2, <1>1
<1>7. ASSUME NEW m \in wire, OnCalibrationQuery(m) PROVE Goal
  <2> DEFINE labels == [i \in DOMAIN m.body.xs |-> scenario.knows[m.to][m.body.xs[i]].label]
             messages == {Envelope(m.to, m.from, CalibrationResponse(m.body.id, m.body.i, labels))}
             taken == {m}
  <2>1. wire' = (wire \ taken) \cup messages /\ scenario' = scenario
    BY <1>7 DEF OnCalibrationQuery, Exchange
  <2>2. \A r \in messages : r.body.k \in RpcKinds
    BY DEF Envelope, CalibrationResponse, RpcKinds
  <2> HIDE DEF messages, taken
  <2> QED BY <2>1, <2>2, <1>1
<1>8. ASSUME NEW m \in wire, OnResponse(m) \/ OnCalibrationResponse(m) PROVE Goal
  <2> DEFINE messages == {}
             taken == {m}
  <2>1. wire' = (wire \ taken) \cup messages /\ scenario' = scenario /\ \A r \in messages : r.body.k \in RpcKinds
    BY <1>8 DEF OnResponse, OnCalibrationResponse, Exchange
  <2> HIDE DEF messages, taken
  <2> QED BY <2>1, <1>1
<1>9. ASSUME Observe \/ \E p \in Peers : MergeJudged(p) PROVE Goal
  BY <1>9, <1>2 DEF Observe, MergeJudged
<1>10. Goal
  BY <1>3, <1>4, <1>5, <1>6, <1>7, <1>8, <1>9 DEF RpcNext, RpcReceive
<1> QED BY <1>10 DEF Goal

LEMMA FetchNextKeeps ==
    ASSUME FetchInv, [Next]_vars
    PROVE  FetchInv'
<1>1. CASE RpcNext /\ UNCHANGED << fetchVars, answererVars >>
  <2>1. PICK taken, messages : wire' = (wire \ taken) \cup messages /\ \A m \in messages : m.body.k \in RpcKinds
    BY <1>1, RpcWire
  <2>2. \A m \in messages : AnswerFits(claimed, m)
    BY <2>1 DEF RpcKinds, AnswerFits
  <2>3. scenario' = scenario /\ fetchVars' = fetchVars
    BY <1>1, RpcWire
  <2> QED BY <2>1, <2>2, <2>3, FetchElsewhere
<1>2. CASE FetchNext
  BY <1>2, FetchStart, FetchEnd, FetchEmbeddingRequest, FetchChainRequest, FetchChunk, FetchCheckpoint, FetchRestart
     DEF FetchNext, FetchReceive
<1>3. CASE AnswererNext /\ UNCHANGED << rpcVars, fetchVars >>
  <2> DEFINE none == {}
  <2>1. /\ scenario' = scenario /\ wire' = (wire \ none) \cup none /\ fetchVars' = fetchVars
        /\ \A m \in none : AnswerFits(claimed, m)
    BY <1>3 DEF AnswererNext, Signal, OfferAccepted, OfferRaises, ConnectionEnds, OnBrowserQuery
  <2> HIDE DEF none
  <2> QED BY <2>1, FetchElsewhere
<1>4. CASE \E m \in wire : Lose(m) /\ UNCHANGED << rpcVars, fetchVars, answererVars >>
  <2>1. PICK m \in wire : Lose(m) /\ UNCHANGED << rpcVars, fetchVars, answererVars >>
    BY <1>4
  <2> DEFINE taken == {m}
             none == {}
  <2>2. /\ scenario' = scenario /\ wire' = (wire \ taken) \cup none /\ fetchVars' = fetchVars
        /\ \A r \in none : AnswerFits(claimed, r)
    BY <2>1 DEF Lose, Exchange
  <2> HIDE DEF taken, none
  <2> QED BY <2>2, FetchElsewhere
<1>5. CASE UNCHANGED vars
  <2> DEFINE none == {}
  <2>1. /\ scenario' = scenario /\ wire' = (wire \ none) \cup none /\ fetchVars' = fetchVars
        /\ \A m \in none : AnswerFits(claimed, m)
    BY <1>5 DEF vars
  <2> HIDE DEF none
  <2> QED BY <2>1, FetchElsewhere
<1> QED BY <1>1, <1>2, <1>3, <1>4, <1>5 DEF Next

(* fetch_chain() and verify_chain(): a chain that verifies is one the peer *)
(* had, whatever chunks of other answers and other lives are in it.        *)
THEOREM VerifiedChainsWereClaimed == Spec => []VerifiedWasClaimed
<1>1. FetchInv => VerifiedWasClaimed
  <2> SUFFICES ASSUME FetchInv, NEW f \in Fetches, fetches[f].state = "done", fetches[f].ok, Slot(f)[1] = "chain",
                      NEW r \in fetches[f].fut
               PROVE  r \in claimed[PeerOf(f)]
    BY DEF VerifiedWasClaimed
  <2>1. Verifies(r) /\ r \in Seq(Had(claimed, PeerOf(f)))
    BY FetchFacts DEF FetchFits, FutureFits
  <2>2. Grown(claimed[PeerOf(f)])
    BY FetchFacts DEF FetchInv, ClaimInv
  <2> QED BY <2>1, <2>2, VerifiedIsHad
<1> QED BY <1>1, FetchStarts, FetchNextKeeps, PTL DEF Spec

(* fetch_embedding(): what a joiner installs is the whole embedding of the *)
(* swarm, in order, whichever answers the chunks came in.                  *)
THEOREM JoinersShareTheSpace == Spec => []SharedSpace
<1>1. FetchInv => SharedSpace
  BY DEF FetchInv
<1> QED BY <1>1, FetchStarts, FetchNextKeeps, PTL DEF Spec

-----------------------------------------------------------------------------
(* Answerers: nothing but their own five actions touches them.             *)
LiveInv == DOMAIN connections = Offers /\ LiveIsKept

(* What the other services do leaves answerers alone.                      *)
LEMMA AnswererSteps ==
    ASSUME [Next]_vars
    PROVE  scenario' = scenario /\ (UNCHANGED answererVars \/ AnswererNext)
<1>1. CASE RpcNext /\ UNCHANGED << fetchVars, answererVars >>
  BY <1>1, RpcWire
<1>2. CASE FetchNext /\ UNCHANGED << rpcVars, answererVars >>
  BY <1>2 DEF FetchNext, FetchReceive, StartFetch, EndFetch, OnEmbeddingRequest, OnChainRequest, OnChunk,
              Checkpoint, RestartPeer
<1>3. CASE AnswererNext
  BY <1>3 DEF AnswererNext, Signal, OfferAccepted, OfferRaises, ConnectionEnds, OnBrowserQuery
<1>4. CASE \E m \in wire : Lose(m) /\ UNCHANGED << rpcVars, fetchVars, answererVars >>
  BY <1>4 DEF Lose
<1>5. CASE UNCHANGED vars
  BY <1>5 DEF vars
<1> QED BY <1>1, <1>2, <1>3, <1>4, <1>5 DEF Next

LEMMA LiveNext ==
    ASSUME LiveInv, [Next]_vars
    PROVE  LiveInv'
<1>0. /\ DOMAIN connections = Offers
      /\ \A k \in Offers : /\ connections[k] \in {"accepting", "open"} => k \in live
                           /\ connections[k] \in {"ended", "ended while accepting"} => k \notin live
  BY DEF LiveInv, LiveIsKept
<1> SUFFICES ASSUME scenario' = scenario, UNCHANGED << connections, live >> \/ AnswererNext
             PROVE  LiveInv'
  BY AnswererSteps DEF answererVars
<1>1. Offers' = Offers
  BY DEF Offers
<1>2. CASE UNCHANGED << connections, live >>
  BY <1>0, <1>1, <1>2 DEF LiveInv, LiveIsKept
<1>3. ASSUME NEW k \in Offers, Signal(k) PROVE LiveInv'
  BY <1>0, <1>1, <1>3 DEF LiveInv, LiveIsKept, Signal
<1>4. ASSUME NEW k \in Offers, OfferAccepted(k) PROVE LiveInv'
  BY <1>0, <1>1, <1>4 DEF LiveInv, LiveIsKept, OfferAccepted, Kept
<1>5. ASSUME NEW k \in Offers, OfferRaises(k) PROVE LiveInv'
  BY <1>0, <1>1, <1>5 DEF LiveInv, LiveIsKept, OfferRaises
<1>6. ASSUME NEW k \in Offers, ConnectionEnds(k) PROVE LiveInv'
  BY <1>0, <1>1, <1>6 DEF LiveInv, LiveIsKept, ConnectionEnds
<1>7. ASSUME NEW k \in Offers, NEW b \in Browsers, OnBrowserQuery(k, b) PROVE LiveInv'
  <2>1. UNCHANGED << connections, live >>
    BY <1>7 DEF OnBrowserQuery
  <2> QED BY <1>2, <2>1
<1> QED BY <1>2, <1>3, <1>4, <1>5, <1>6, <1>7 DEF AnswererNext

(* However the end of a connection and accept_offer() interleave, an       *)
(* answerer is in _live_answerers while queries can reach it, and gone     *)
(* once its connection is (_handle_signal in beacon_status.py).            *)
THEOREM AnswerersAreKept == Spec => []LiveIsKept
<1>1. Init => LiveInv
  BY DEF Init, AnswererInit, LiveInv, LiveIsKept
<1>2. LiveInv => LiveIsKept
  BY DEF LiveInv
<1> QED BY <1>1, <1>2, LiveNext, PTL DEF Spec
-----------------------------------------------------------------------------
(* Browsers.                                                               *)

\* When b asked last.
LastAsked(s, b) == Max({i \in DOMAIN s : s[i] = b})

LEMMA LargestUpTo ==
    ASSUME NEW n \in Nat, NEW S, S \subseteq 1 .. n, S # {}
    PROVE  Max(S) \in S /\ \A y \in S : Max(S) >= y
<1> DEFINE Below == {k \in 0 .. n : (\E y \in S : y <= k) => \E x \in S : x <= k /\ \A y \in S : y <= k => x >= y}
<1>1. 0 \in Below
  OBVIOUS
<1>2. ASSUME NEW k \in 0 .. n - 1, k \in Below PROVE k + 1 \in Below
  <2>1. CASE k + 1 \in S
    <3>1. \A y \in S : y <= k + 1 => k + 1 >= y
      OBVIOUS
    <3> QED BY <2>1, <3>1
  <2>2. CASE k + 1 \notin S
    <3>1. \A y \in S : y <= k + 1 <=> y <= k
      BY <2>2
    <3>2. k + 1 \in 0 .. n
      OBVIOUS
    <3> QED BY <1>2, <3>1, <3>2
  <2> QED BY <2>1, <2>2
<1>3. n \in Below
  <2> HIDE DEF Below
  <2>1. \A k \in 0 .. n : k \in Below
    BY <1>1, <1>2, UpToN
  <2> QED BY <2>1
<1>4. PICK x \in S : \A y \in S : x >= y
  <2>1. \A y \in S : y <= n /\ y \in Int
    OBVIOUS
  <2>2. PICK x \in S : x <= n /\ \A y \in S : y <= n => x >= y
    BY <1>3, <2>1
  <2> QED BY <2>1, <2>2
<1> QED BY <1>4 DEF Max

LEMMA LastAskedIs ==
    ASSUME NEW S, NEW s \in Seq(S), NEW b \in ToSet(s)
    PROVE  /\ LastAsked(s, b) \in 1 .. Len(s) /\ s[LastAsked(s, b)] = b
           /\ \A i \in 1 .. Len(s) : s[i] = b => i <= LastAsked(s, b)
<1> DEFINE I == {i \in DOMAIN s : s[i] = b}
<1>1. Len(s) \in Nat /\ I \subseteq 1 .. Len(s) /\ I # {}
  BY DEF ToSet
<1>2. Max(I) \in I /\ \A y \in I : Max(I) >= y
  <2> HIDE DEF I
  <2> QED BY <1>1, LargestUpTo
<1>3. LastAsked(s, b) = Max(I)
  BY DEF LastAsked
<1>4. DOMAIN s = 1 .. Len(s)
  OBVIOUS
<1>5. \A i \in 1 .. Len(s) : s[i] = b => i <= Max(I)
  <2> SUFFICES ASSUME NEW i \in 1 .. Len(s), s[i] = b PROVE i <= Max(I)
    OBVIOUS
  <2>1. i \in I
    BY <1>4
  <2>2. Max(I) >= i /\ Max(I) \in 1 .. Len(s)
    <3> HIDE DEF I
    <3> QED BY <1>1, <1>2, <2>1
  <2> HIDE DEF I
  <2> QED BY <2>2
<1> QED BY <1>2, <1>3, <1>4, <1>5

(* Who asks now asked last; for the others nothing changes.                *)
LEMMA LastAskedAppended ==
    ASSUME NEW S, NEW s \in Seq(S), NEW b \in S
    PROVE  /\ LastAsked(Append(s, b), b) = Len(s) + 1
           /\ \A c \in ToSet(s) : c # b => LastAsked(Append(s, b), c) = LastAsked(s, c)
           /\ ToSet(Append(s, b)) = ToSet(s) \cup {b}
<1> DEFINE t == Append(s, b)
           n == Len(s)
<1>1. n \in Nat /\ t \in Seq(S) /\ Len(t) = n + 1 /\ t[n + 1] = b /\ \A i \in 1 .. n : t[i] = s[i]
  BY AppendProperties
<1>2. DOMAIN t = 1 .. n + 1 /\ DOMAIN s = 1 .. n
  BY <1>1
<1> HIDE DEF t
<1>3. ToSet(t) = ToSet(s) \cup {b}
  BY <1>1, <1>2 DEF ToSet
<1>4. LastAsked(t, b) = n + 1
  <2>1. LastAsked(t, b) \in 1 .. n + 1 /\ \A i \in 1 .. n + 1 : t[i] = b => i <= LastAsked(t, b)
    BY <1>1, <1>3, LastAskedIs
  <2>2. n + 1 <= LastAsked(t, b)
    BY <1>1, <2>1
  <2> HIDE DEF n
  <2> QED BY <1>1, <2>1, <2>2
<1>5. ASSUME NEW c \in ToSet(s), c # b PROVE LastAsked(t, c) = LastAsked(s, c)
  <2>1. \A i \in DOMAIN t : t[i] = c <=> i \in DOMAIN s /\ s[i] = c
    <3> SUFFICES ASSUME NEW i \in 1 .. n + 1 PROVE t[i] = c <=> i \in 1 .. n /\ s[i] = c
      BY <1>2
    <3>1. CASE i = n + 1
      BY <1>1, <1>5, <3>1
    <3>2. CASE i # n + 1
      BY <1>1, <3>2
    <3> QED BY <3>1, <3>2
  <2>2. DOMAIN s \subseteq DOMAIN t
    BY <1>1, <1>2
  <2>3. {i \in DOMAIN t : t[i] = c} = {i \in DOMAIN s : s[i] = c}
    BY <2>1, <2>2
  <2> QED BY <2>3 DEF LastAsked
<1> QED BY <1>3, <1>4, <1>5 DEF t

LEMMA RemoveAtShape ==
    ASSUME NEW S, NEW s \in Seq(S), NEW i \in 1 .. Len(s)
    PROVE  /\ RemoveAt(s, i) \in Seq(S) /\ Len(RemoveAt(s, i)) = Len(s) - 1
           /\ \A k \in 1 .. Len(s) - 1 : RemoveAt(s, i)[k] = IF k < i THEN s[k] ELSE s[k + 1]
<1> DEFINE a == SubSeq(s, 1, i - 1)
           b == SubSeq(s, i + 1, Len(s))
<1>0. Len(s) \in Nat
  OBVIOUS
<1>1. a \in Seq(S) /\ Len(a) = i - 1 /\ \A k \in 1 .. i - 1 : a[k] = s[k]
  OBVIOUS
<1>2. b \in Seq(S) /\ Len(b) = Len(s) - i /\ \A k \in 1 .. Len(s) - i : b[k] = s[k + i]
  <2>1. \A k \in i + 1 .. Len(s) : s[k] \in S
    OBVIOUS
  <2>2. i + 1 \in Int /\ Len(s) \in Int
    OBVIOUS
  <2>3. /\ b \in Seq(S) /\ Len(b) = (IF i + 1 <= Len(s) THEN Len(s) - (i + 1) + 1 ELSE 0)
        /\ \A k \in 1 .. Len(s) - (i + 1) + 1 : b[k] = s[(i + 1) + k - 1]
    BY <2>1, <2>2, SubSeqProperties
  <2> HIDE DEF b
  <2>4. Len(b) = Len(s) - i
    BY <1>0, <2>3
  <2>5. ASSUME NEW k \in 1 .. Len(s) - i PROVE b[k] = s[k + i]
    <3>1. k \in 1 .. Len(s) - (i + 1) + 1 /\ (i + 1) + k - 1 = k + i
      BY <1>0
    <3> QED BY <2>3, <3>1
  <2> QED BY <2>3, <2>4, <2>5
<1> HIDE DEF a, b
<1>3. /\ a \o b \in Seq(S) /\ Len(a \o b) = Len(a) + Len(b)
      /\ \A k \in 1 .. Len(a) + Len(b) : (a \o b)[k] = IF k <= Len(a) THEN a[k] ELSE b[k - Len(a)]
  BY <1>1, <1>2, ConcatProperties
<1>4. RemoveAt(s, i) = a \o b
  BY DEF RemoveAt, a, b
<1>5. Len(a \o b) = Len(s) - 1
  BY <1>0, <1>1, <1>2, <1>3
<1>6. ASSUME NEW k \in 1 .. Len(s) - 1 PROVE (a \o b)[k] = IF k < i THEN s[k] ELSE s[k + 1]
  <2>1. (a \o b)[k] = IF k <= i - 1 THEN a[k] ELSE b[k - (i - 1)]
    BY <1>0, <1>1, <1>2, <1>3
  <2>2. CASE k < i
    BY <1>1, <2>1, <2>2
  <2>3. CASE ~ (k < i)
    <3>1. k - (i - 1) \in 1 .. Len(s) - i /\ (k - (i - 1)) + i = k + 1
      BY <1>0, <2>3
    <3>2. b[k - (i - 1)] = s[k + 1]
      BY <1>2, <3>1
    <3> QED BY <2>1, <2>3, <3>2
  <2> QED BY <2>2, <2>3
<1> QED BY <1>3, <1>4, <1>5, <1>6

(* The list of clients: each asked, in the order of their last queries,    *)
(* and whoever is not on it asked before them all.                         *)
InOrder(list, history) ==
    /\ \A k \in DOMAIN list : list[k] \in ToSet(history)
    /\ \A k, l \in DOMAIN list : k < l => LastAsked(history, list[k]) < LastAsked(history, list[l])
    /\ \A b \in ToSet(history) \ ToSet(list) : \A c \in ToSet(list) : LastAsked(history, b) < LastAsked(history, c)

RecentInv ==
    /\ asked \in Seq(Browsers) /\ recent \in Seq(Browsers)
    /\ Len(recent) <= RECENT_BROWSER_CLIENTS_MAX
    /\ InOrder(recent, asked)

\* The list without b, who will be put at its end.
Making(list, b) ==
    IF Contains(list, b) THEN RemoveFirst(list, b)
    ELSE IF Len(list) >= RECENT_BROWSER_CLIENTS_MAX THEN Tail(list) ELSE list

LEMMA OrderIsInjective ==
    ASSUME NEW list \in Seq(Browsers), NEW history \in Seq(Browsers), InOrder(list, history)
    PROVE  \A k, l \in DOMAIN list : list[k] = list[l] => k = l
<1> SUFFICES ASSUME NEW k \in DOMAIN list, NEW l \in DOMAIN list, list[k] = list[l], k # l PROVE FALSE
  OBVIOUS
<1>1. k \in Int /\ l \in Int
  OBVIOUS
<1>2. LastAsked(history, list[k]) \in Int
  BY LastAskedIs DEF InOrder
<1>3. k < l \/ l < k
  BY <1>1
<1> QED BY <1>2, <1>3 DEF InOrder

(* Making room keeps the order, and drops none but b and the first.        *)
LEMMA MakingShape ==
    ASSUME NEW list \in Seq(Browsers), NEW history \in Seq(Browsers), InOrder(list, history),
           Len(list) <= RECENT_BROWSER_CLIENTS_MAX, NEW b \in Browsers
    PROVE  LET rest == Making(list, b)
           IN  /\ rest \in Seq(Browsers) /\ Len(rest) < RECENT_BROWSER_CLIENTS_MAX
               /\ b \notin ToSet(rest)
               /\ \A k \in DOMAIN rest : \E i \in DOMAIN list : i >= k /\ rest[k] = list[i]
               /\ \A k, l \in DOMAIN rest : k < l => LastAsked(history, rest[k]) < LastAsked(history, rest[l])
               /\ \A d \in ToSet(history) \ ToSet(rest) : d # b =>
                    \A c \in ToSet(rest) : LastAsked(history, d) < LastAsked(history, c)
<1> DEFINE rest == Making(list, b)
           n == Len(list)
<1>0. n \in Nat /\ DOMAIN list = 1 .. n /\ RECENT_BROWSER_CLIENTS_MAX \in Nat \ {0}
  BY AnswerersAssumption
<1>1. \A k, l \in DOMAIN list : list[k] = list[l] => k = l
  BY OrderIsInjective
<1>2. ASSUME ~ Contains(list, b), n < RECENT_BROWSER_CLIENTS_MAX
      PROVE  /\ rest = list /\ b \notin ToSet(rest)
  <2>1. rest = list
    <3>1. ~ Contains(list, b) /\ ~ (Len(list) >= RECENT_BROWSER_CLIENTS_MAX)
      BY <1>0, <1>2
    <3> QED BY <3>1, Zenon DEF Making
  <2>2. b \notin ToSet(list)
    BY <1>0, <1>2 DEF Contains, ToSet
  <2> HIDE DEF rest
  <2> QED BY <2>1, <2>2
<1>3. ASSUME Contains(list, b) \/ n >= RECENT_BROWSER_CLIENTS_MAX
      PROVE  \E i \in 1 .. n : /\ rest = RemoveAt(list, i)
                               /\ \A k \in 1 .. n : list[k] = b => k = i
                               /\ i = 1 \/ list[i] = b
  <2>1. CASE Contains(list, b)
    <3>1. PICK i \in 1 .. n : list[i] = b
      BY <2>1 DEF Contains
    <3>2. {j \in 1 .. n : list[j] = b} = {i}
      BY <1>0, <1>1, <3>1
    <3>3. Min({i}) = i
      BY <3>1 DEF Min
    <3>4. RemoveFirst(list, b) = RemoveAt(list, i)
      <4>1. SelectInSeq(list, LAMBDA v : v = b) = i
        BY <3>2, <3>3 DEF SelectInSeq
      <4> QED BY <3>1, <4>1 DEF RemoveFirst
    <3>5. \A k \in 1 .. n : list[k] = b => k = i
      BY <3>2
    <3> QED BY <2>1, <3>1, <3>4, <3>5 DEF Making
  <2>2. CASE ~ Contains(list, b)
    <3>1. n >= RECENT_BROWSER_CLIENTS_MAX /\ n \in Nat \ {0} /\ 1 \in 1 .. n
      BY <1>0, <1>3, <2>2
    <3>2. rest = Tail(list)
      BY <2>2, <3>1 DEF Making
    <3>3. Tail(list) = RemoveAt(list, 1)
      <4>1. list # << >>
        BY <3>1
      <4>2. Tail(list) \in Seq(Browsers) /\ Len(Tail(list)) = n - 1 /\ \A k \in 1 .. n - 1 : Tail(list)[k] = list[k + 1]
        BY <4>1, HeadTailProperties
      <4>3. /\ RemoveAt(list, 1) \in Seq(Browsers) /\ Len(RemoveAt(list, 1)) = n - 1
            /\ \A k \in 1 .. n - 1 : RemoveAt(list, 1)[k] = IF k < 1 THEN list[k] ELSE list[k + 1]
        BY <3>1, RemoveAtShape
      <4>4. \A k \in 1 .. n - 1 : RemoveAt(list, 1)[k] = list[k + 1]
        BY <4>3
      <4> QED BY <4>2, <4>3, <4>4, SeqEqual
    <3>4. \A k \in 1 .. n : list[k] # b
      BY <2>2 DEF Contains
    <3> QED BY <3>1, <3>2, <3>3, <3>4
  <2> QED BY <2>1, <2>2
<1> DEFINE Goal == /\ rest \in Seq(Browsers) /\ Len(rest) < RECENT_BROWSER_CLIENTS_MAX
                   /\ b \notin ToSet(rest)
                   /\ \A k \in DOMAIN rest : \E i \in DOMAIN list : i >= k /\ rest[k] = list[i]
                   /\ \A k, l \in DOMAIN rest : k < l => LastAsked(history, rest[k]) < LastAsked(history, rest[l])
                   /\ \A d \in ToSet(history) \ ToSet(rest) : d # b =>
                        \A c \in ToSet(rest) : LastAsked(history, d) < LastAsked(history, c)
<1> HIDE DEF rest
<1>4. CASE ~ Contains(list, b) /\ n < RECENT_BROWSER_CLIENTS_MAX
  <2>1. rest = list /\ b \notin ToSet(rest)
    BY <1>2, <1>4
  <2> QED BY <1>0, <1>4, <2>1 DEF InOrder, rest
<1>5. CASE Contains(list, b) \/ n >= RECENT_BROWSER_CLIENTS_MAX
  <2>1. PICK i \in 1 .. n : /\ rest = RemoveAt(list, i)
                            /\ \A k \in 1 .. n : list[k] = b => k = i
                            /\ i = 1 \/ list[i] = b
    BY <1>3, <1>5
  <2>2. /\ rest \in Seq(Browsers) /\ Len(rest) = n - 1
        /\ \A k \in 1 .. n - 1 : rest[k] = IF k < i THEN list[k] ELSE list[k + 1]
    BY <2>1, RemoveAtShape
  <2>3. DOMAIN rest = 1 .. n - 1
    BY <2>2
  <2> DEFINE at(k) == IF k < i THEN k ELSE k + 1
  <2>4. \A k \in DOMAIN rest : at(k) \in 1 .. n /\ at(k) # i /\ at(k) >= k /\ rest[k] = list[at(k)]
    BY <1>0, <2>2, <2>3
  <2>5. \A k, l \in DOMAIN rest : k < l => at(k) < at(l)
    BY <1>0, <2>3
  <2>6. \A k \in 1 .. n : k # i => \E l \in DOMAIN rest : rest[l] = list[k]
    <3> SUFFICES ASSUME NEW k \in 1 .. n, k # i PROVE \E l \in DOMAIN rest : rest[l] = list[k]
      OBVIOUS
    <3>1. CASE k < i
      <4>1. k \in DOMAIN rest /\ rest[k] = list[k]
        BY <1>0, <2>2, <2>3, <3>1
      <4> QED BY <4>1
    <3>2. CASE k > i
      <4>1. k - 1 \in DOMAIN rest /\ rest[k - 1] = list[k]
        BY <1>0, <2>2, <2>3, <3>2
      <4> QED BY <4>1
    <3> QED BY <3>1, <3>2
  <2> HIDE DEF at
  <2>7. b \notin ToSet(rest)
    BY <2>1, <2>4 DEF ToSet
  <2>8. \A k, l \in DOMAIN rest : k < l => LastAsked(history, rest[k]) < LastAsked(history, rest[l])
    BY <1>0, <2>4, <2>5 DEF InOrder
  <2>9. ASSUME NEW d \in ToSet(history) \ ToSet(rest), d # b, NEW c \in ToSet(rest)
        PROVE  LastAsked(history, d) < LastAsked(history, c)
    <3>1. PICK k \in DOMAIN rest : c = rest[k]
      BY DEF ToSet
    <3>2. c = list[at(k)] /\ at(k) \in 1 .. n /\ at(k) # i /\ c \in ToSet(list)
      BY <1>0, <2>4, <3>1 DEF ToSet
    <3>3. CASE d \notin ToSet(list)
      BY <2>9, <3>2, <3>3 DEF InOrder
    <3>4. CASE d \in ToSet(list)
      <4>1. PICK j \in 1 .. n : list[j] = d
        BY <1>0, <3>4 DEF ToSet
      <4>2. j = i
        BY <2>6, <2>9, <4>1 DEF ToSet
      <4>3. i = 1
        BY <2>1, <2>9, <4>1, <4>2
      <4>4. j < at(k)
        BY <1>0, <3>2, <4>2, <4>3
      <4> QED BY <1>0, <3>2, <4>1, <4>4 DEF InOrder
    <3> QED BY <3>3, <3>4
  <2>10. Len(rest) < RECENT_BROWSER_CLIENTS_MAX
    BY <1>0, <2>2
  <2>11. \A k \in DOMAIN rest : \E j \in DOMAIN list : j >= k /\ rest[k] = list[j]
    BY <1>0, <2>4
  <2> QED BY <2>2, <2>7, <2>8, <2>9, <2>10, <2>11 DEF rest
<1>6. (Contains(list, b) \/ n >= RECENT_BROWSER_CLIENTS_MAX) \/ (~ Contains(list, b) /\ n < RECENT_BROWSER_CLIENTS_MAX)
  BY <1>0
<1> QED BY <1>4, <1>5, <1>6

LEMMA RecentQuery ==
    ASSUME RecentInv, NEW k, NEW b \in Browsers, OnBrowserQuery(k, b)
    PROVE  RecentInv'
<1> DEFINE rest == Making(recent, b)
           n == Len(rest)
<1>1. recent' = Append(rest, b) /\ asked' = Append(asked, b)
  BY DEF OnBrowserQuery, Listed, Making
<1>2. /\ rest \in Seq(Browsers) /\ n < RECENT_BROWSER_CLIENTS_MAX
      /\ b \notin ToSet(rest)
      /\ \A i \in DOMAIN rest : \E j \in DOMAIN recent : j >= i /\ rest[i] = recent[j]
      /\ \A i, j \in DOMAIN rest : i < j => LastAsked(asked, rest[i]) < LastAsked(asked, rest[j])
      /\ \A d \in ToSet(asked) \ ToSet(rest) : d # b =>
           \A c \in ToSet(rest) : LastAsked(asked, d) < LastAsked(asked, c)
  BY MakingShape DEF RecentInv
<1>3. n \in Nat /\ DOMAIN rest = 1 .. n /\ RECENT_BROWSER_CLIENTS_MAX \in Nat /\ asked \in Seq(Browsers) /\ Len(asked) \in Nat
  BY <1>2, AnswerersAssumption DEF RecentInv
<1>4. ToSet(rest) \subseteq ToSet(asked)
  BY <1>2 DEF RecentInv, InOrder, ToSet
<1> HIDE DEF rest
<1>5. /\ recent' \in Seq(Browsers) /\ Len(recent') = n + 1 /\ recent'[n + 1] = b
      /\ \A i \in 1 .. n : recent'[i] = rest[i]
  BY <1>1, <1>2, AppendProperties
<1>6. /\ asked' \in Seq(Browsers) /\ LastAsked(asked', b) = Len(asked) + 1
      /\ \A c \in ToSet(asked) : c # b => LastAsked(asked', c) = LastAsked(asked, c)
      /\ ToSet(asked') = ToSet(asked) \cup {b}
  BY <1>1, <1>3, LastAskedAppended
<1>7. \A c \in ToSet(asked) : LastAsked(asked, c) \in 1 .. Len(asked)
  BY <1>3, LastAskedIs
<1>8. DOMAIN recent' = 1 .. n + 1 /\ ToSet(recent') = ToSet(rest) \cup {b}
  <2>1. DOMAIN recent' = 1 .. n + 1
    BY <1>3, <1>5
  <2> QED BY <1>1, <1>2, <2>1, <1>3, <1>5 DEF ToSet
<1>9. ASSUME NEW i \in 1 .. n
      PROVE  rest[i] \in ToSet(rest) /\ rest[i] \in ToSet(asked) /\ rest[i] # b /\ LastAsked(asked', rest[i]) = LastAsked(asked, rest[i])
  <2>1. rest[i] \in ToSet(rest)
    BY <1>3 DEF ToSet
  <2> QED BY <1>2, <1>4, <1>6, <2>1
<1>10. \A i \in 1 .. n + 1 : recent'[i] \in ToSet(asked')
  <2> SUFFICES ASSUME NEW i \in 1 .. n + 1 PROVE recent'[i] \in ToSet(asked')
    OBVIOUS
  <2>1. i = n + 1 \/ i \in 1 .. n
    BY <1>3
  <2> QED BY <1>5, <1>6, <1>9, <2>1
<1>11. ASSUME NEW i \in 1 .. n + 1, NEW j \in 1 .. n + 1, i < j
       PROVE  LastAsked(asked', recent'[i]) < LastAsked(asked', recent'[j])
  <2>1. i \in 1 .. n /\ recent'[i] = rest[i]
    BY <1>3, <1>5, <1>11
  <2>2. CASE j = n + 1
    <3>1. LastAsked(asked, rest[i]) < Len(asked) + 1
      BY <1>3, <1>7, <1>9, <2>1
    <3> QED BY <1>5, <1>6, <1>9, <2>1, <2>2, <3>1
  <2>3. CASE j # n + 1
    <3>1. j \in 1 .. n
      BY <1>3, <2>3
    <3> QED BY <1>2, <1>3, <1>5, <1>9, <1>11, <2>1, <3>1
  <2> QED BY <2>2, <2>3
<1>12. ASSUME NEW d \in ToSet(asked') \ ToSet(recent'), NEW c \in ToSet(recent')
       PROVE  LastAsked(asked', d) < LastAsked(asked', c)
  <2>1. d # b /\ d \in ToSet(asked) \ ToSet(rest) /\ LastAsked(asked', d) = LastAsked(asked, d)
    BY <1>6, <1>8
  <2>2. CASE c = b
    BY <1>3, <1>6, <1>7, <2>1, <2>2
  <2>3. CASE c # b
    BY <1>2, <1>4, <1>6, <1>8, <2>1, <2>3
  <2> QED BY <2>2, <2>3
<1>13. Len(recent') <= RECENT_BROWSER_CLIENTS_MAX
  BY <1>2, <1>3, <1>5
<1>14. InOrder(recent', asked')
  BY <1>8, <1>10, <1>11, <1>12 DEF InOrder
<1> QED BY <1>5, <1>6, <1>13, <1>14 DEF RecentInv

(* The list is that of the last to ask, in their order.                    *)
LEMMA RecentNext ==
    ASSUME RecentInv, [Next]_vars
    PROVE  RecentInv'
<1>1. CASE UNCHANGED << recent, asked >>
  BY <1>1 DEF RecentInv
<1>2. CASE \E k \in Offers, b \in Browsers : OnBrowserQuery(k, b)
  BY <1>2, RecentQuery
<1> QED BY <1>1, <1>2, AnswererSteps
        DEF answererVars, AnswererNext, Signal, OfferAccepted, OfferRaises, ConnectionEnds

(* _record_browser_query(): whoever is not on the page asked before all    *)
(* who are, whatever the order and the repetitions of their queries.       *)
THEOREM LastToAskAreListed == Spec => []RecentAskedLast
<1>1. Init => RecentInv
  BY AnswerersAssumption DEF Init, AnswererInit, RecentInv, InOrder, ToSet
<1>2. RecentInv => RecentAskedLast
  BY DEF RecentInv, InOrder, RecentAskedLast, LastAsked
<1> QED BY <1>1, <1>2, RecentNext, PTL DEF Spec

-----------------------------------------------------------------------------
(* The types.                                                              *)

(* Ranks number the peers, so that there is one of each rank.              *)
LEMMA RankedType ==
    ASSUME NEW S, trust \in [Peers -> 0 .. FULL_TRUST], NEW ps \in Seq(Peers)
    PROVE  Ranked(ps) \in Seq(Peers)
<1> DEFINE n == Len(ps)
           better(i, j) == trust[ps[i]] > trust[ps[j]] \/ (trust[ps[i]] = trust[ps[j]] /\ i < j)
           Above(j) == {i \in 1 .. n : better(i, j)}
           rank == [j \in 1 .. n |-> Cardinality(Above(j)) + 1]
<1>1. n \in Nat /\ DOMAIN ps = 1 .. n /\ \A i \in 1 .. n : ps[i] \in Peers /\ trust[ps[i]] \in Int /\ i \in Int
  <2>1. n \in Nat /\ DOMAIN ps = 1 .. n /\ \A i \in 1 .. n : ps[i] \in Peers /\ i \in Int
    OBVIOUS
  <2>2. \A p \in Peers : trust[p] \in 0 .. FULL_TRUST
    OBVIOUS
  <2>3. \A v \in 0 .. FULL_TRUST : v \in Int
    BY DEF FULL_TRUST
  <2> QED BY <2>1, <2>2, <2>3
<1>2. \A i, j, k \in 1 .. n : /\ ~ better(i, i)
                              /\ better(i, j) /\ better(j, k) => better(i, k)
                              /\ i # j => better(i, j) \/ better(j, i)
  BY <1>1
<1> HIDE DEF better
<1>3. \A j \in 1 .. n : IsFiniteSet(Above(j)) /\ Cardinality(Above(j)) \in 0 .. n - 1
  <2> SUFFICES ASSUME NEW j \in 1 .. n PROVE IsFiniteSet(Above(j)) /\ Cardinality(Above(j)) \in 0 .. n - 1
    OBVIOUS
  <2>1. IsFiniteSet(1 .. n) /\ Cardinality(1 .. n) = n
    <3>1. 1 \in Int /\ n \in Int
      BY <1>1
    <3>2. IsFiniteSet(1 .. n) /\ Cardinality(1 .. n) = IF 1 > n THEN 0 ELSE n - 1 + 1
      BY <3>1, FS_Interval
    <3> QED BY <1>1, <3>2
  <2>2. IsFiniteSet((1 .. n) \ {j}) /\ Cardinality((1 .. n) \ {j}) = n - 1
    BY <2>1, FS_RemoveElement
  <2>3. Above(j) \in SUBSET ((1 .. n) \ {j})
    BY <1>2
  <2> HIDE DEF Above
  <2>4. IsFiniteSet(Above(j)) /\ Cardinality(Above(j)) <= n - 1
    BY <2>2, <2>3, FS_Subset
  <2> QED BY <1>1, <2>4, FS_CardinalityType
<1>4. ASSUME NEW i \in 1 .. n, NEW j \in 1 .. n, better(i, j) PROVE rank[i] < rank[j]
  <2>1. Above(i) \cup {i} \subseteq Above(j) /\ i \notin Above(i)
    BY <1>2, <1>4
  <2>2. IsFiniteSet(Above(i)) /\ IsFiniteSet(Above(j))
    BY <1>3
  <2>3. rank[i] = Cardinality(Above(i)) + 1 /\ rank[j] = Cardinality(Above(j)) + 1
    OBVIOUS
  <2> HIDE DEF Above, rank
  <2>4. Cardinality(Above(i) \cup {i}) = Cardinality(Above(i)) + 1
    BY <2>1, <2>2, FS_AddElement
  <2>5. Cardinality(Above(i) \cup {i}) <= Cardinality(Above(j))
    BY <2>1, <2>2, FS_Subset
  <2>6. Cardinality(Above(i)) \in Nat /\ Cardinality(Above(j)) \in Nat
    BY <2>2, FS_CardinalityType
  <2> QED BY <2>3, <2>4, <2>5, <2>6
<1>5. rank \in [1 .. n -> 1 .. n]
  <2> HIDE DEF Above
  <2> QED BY <1>1, <1>3
<1>6. rank \in Injection(1 .. n, 1 .. n)
  <2>1. \A i, j \in 1 .. n : i # j => rank[i] # rank[j]
    <3> HIDE DEF rank
    <3> QED BY <1>1, <1>2, <1>4, <1>5
  <2> HIDE DEF rank
  <2> QED BY <1>5, <2>1 DEF Injection, IsInjective
<1>7. rank \in Surjection(1 .. n, 1 .. n)
  <2>1. IsFiniteSet(1 .. n)
    BY <1>1, FS_Interval
  <2> HIDE DEF rank
  <2> QED BY <1>6, <2>1, FS_Injection
<1>8. \A r \in 1 .. n : \E j \in 1 .. n : rank[j] = r
  <2> HIDE DEF rank
  <2> QED BY <1>7 DEF Surjection
<1> DEFINE m == Min({TopN, n})
<1>9. m \in 0 .. n
  BY <1>1, RpcAssumption, MinIs
<1>10. Ranked(ps) = [r \in 1 .. m |-> ps[CHOOSE j \in DOMAIN ps : Cardinality({i \in DOMAIN ps : better(i, j)}) + 1 = r]]
  BY DEF Ranked, better
<1>11. ASSUME NEW r \in 1 .. m
       PROVE  ps[CHOOSE j \in DOMAIN ps : Cardinality({i \in DOMAIN ps : better(i, j)}) + 1 = r] \in Peers
  <2>1. r \in 1 .. n
    BY <1>1, <1>9
  <2>2. \E j \in DOMAIN ps : Cardinality({i \in DOMAIN ps : better(i, j)}) + 1 = r
    BY <1>1, <1>8, <2>1
  <2>3. (CHOOSE j \in DOMAIN ps : Cardinality({i \in DOMAIN ps : better(i, j)}) + 1 = r) \in DOMAIN ps
    BY <2>2
  <2> QED BY <1>1, <2>3
<1> HIDE DEF m
<1>12. Ranked(ps) \in [1 .. m -> Peers]
  BY <1>10, <1>11
<1> QED BY <1>1, <1>9, <1>12

(* Trust stays between none and full.                                      *)
LEMMA CalibratedType ==
    ASSUME NEW t \in 0 .. FULL_TRUST, NEW labels, NEW S, NEW samples \in Seq(S)
    PROVE  Calibrated(t, labels, samples) \in 0 .. FULL_TRUST
<1> DEFINE seen == {i \in DOMAIN samples : labels[i] # NoLabel}
           hits == {i \in seen : labels[i] = samples[i].y}
           h == Cardinality(hits)
           s == Cardinality(seen)
<1>1. IsFiniteSet(1 .. Len(samples))
  BY FS_Interval
<1>2. IsFiniteSet(seen)
  <2>1. seen \in SUBSET (1 .. Len(samples))
    OBVIOUS
  <2> HIDE DEF seen
  <2> QED BY <1>1, <2>1, FS_Subset
<1>3. IsFiniteSet(hits) /\ h <= s
  <2>1. hits \in SUBSET seen
    OBVIOUS
  <2> HIDE DEF seen, hits
  <2> QED BY <1>2, <2>1, FS_Subset
<1>4. h \in Nat /\ s \in Nat /\ (seen # {} => s # 0)
  <2> HIDE DEF seen, hits
  <2> QED BY <1>2, <1>3, FS_CardinalityType, FS_EmptySet
<1>5. Calibrated(t, labels, samples) = IF seen = {} THEN t ELSE (t + (FULL_TRUST * h) \div s) \div 2
  BY DEF Calibrated
<1> HIDE DEF seen, hits, h, s
<1>6. CASE seen = {}
  BY <1>5, <1>6
<1>7. CASE seen # {}
  <2> DEFINE q == (FULL_TRUST * h) \div s
  <2>1. q \in 0 .. FULL_TRUST
    <3>1. FULL_TRUST * h \in Nat /\ s > 0
      BY <1>4, <1>7 DEF FULL_TRUST
    <3>2. q \in Nat /\ q * s <= FULL_TRUST * h
      <4> DEFINE a == FULL_TRUST * h
      <4>1. a \in Nat
        BY <3>1
      <4> HIDE DEF a
      <4>2. a \div s \in Nat /\ (a \div s) * s <= a
        BY <1>4, <3>1, <4>1
      <4> QED BY <4>2 DEF a
    <3>3. FULL_TRUST * h <= FULL_TRUST * s
      BY <1>3, <1>4 DEF FULL_TRUST
    <3> HIDE DEF q
    <3>4. q > FULL_TRUST => q * s > FULL_TRUST * s
      <4>1. \A x, y, z \in Nat : x > y /\ z > 0 => x * z > y * z
        OBVIOUS
      <4>2. FULL_TRUST \in Nat
        BY DEF FULL_TRUST
      <4> QED BY <1>4, <3>1, <3>2, <4>1, <4>2
    <3>5. FULL_TRUST * h \in Int /\ FULL_TRUST * s \in Int /\ q * s \in Int /\ FULL_TRUST \in Nat
      BY <1>4, <3>2 DEF FULL_TRUST
    <3> QED BY <3>2, <3>3, <3>4, <3>5
  <2> HIDE DEF q
  <2>2. Calibrated(t, labels, samples) = (t + q) \div 2
    BY <1>5, <1>7 DEF q
  <2>3. FULL_TRUST = 8000 /\ t \in Nat /\ q \in Nat /\ t <= 8000 /\ q <= 8000
    BY <2>1 DEF FULL_TRUST
  <2>4. \A w \in Nat : w <= 16000 => w \div 2 \in Nat /\ w \div 2 <= 8000
    OBVIOUS
  <2>5. t + q \in Nat /\ t + q <= 16000
    BY <2>3
  <2>6. (t + q) \div 2 \in Nat /\ (t + q) \div 2 <= 8000
    BY <2>4, <2>5
  <2> QED BY <2>2, <2>3, <2>6
<1> QED BY <1>6, <1>7

(* What the steps of calls do.                                             *)
Addressees(c) == IF Kind(c) = "infer" THEN Ranked(scenario.calls[c].peers) ELSE scenario.calls[c].peers

OnlyCall(c) == DOMAIN calls' = DOMAIN calls /\ \A d \in DOMAIN calls \ {c} : calls'[d] = calls[d]

\* Entries of other requests stay as they are.
OnlyRequests(c, ps) == \A q \in DOMAIN pending : (\A p \in ps : q # << c, p >>) => pending'[q] = pending[q]

LEMMA CallShape ==
    ASSUME OwnInv
    PROVE  /\ DOMAIN calls = Calls
           /\ \A c \in Calls : /\ DOMAIN calls[c] = Fields /\ DOMAIN calls[c].got = ToSet(calls[c].asked)
                               /\ calls[c].state \in {"idle", "waiting", "done"}
BY DEF OwnInv, CallsFit, CallFits, Calls

LEMMA StartInferDoes ==
    ASSUME OwnInv, NEW c \in Calls, StartInfer(c)
    PROVE  /\ UNCHANGED << scenario, trust, holdout, fed, merged >>
           /\ Asks(scenario, c) /\ calls[c].state = "idle"
           /\ OnlyCall(c) /\ OnlyRequests(c, ToSet(Addressees(c)))
           /\ calls'[c].samples = calls[c].samples
           /\ \/ /\ Addressees(c) = << >> /\ calls'[c].state = "done" /\ calls'[c].answer = OwnOpinion(c)
                 /\ calls'[c].asked = calls[c].asked /\ calls'[c].got = calls[c].got
              \/ /\ Addressees(c) # << >> /\ calls'[c].state = "waiting" /\ calls'[c].asked = Addressees(c)
                 /\ calls'[c].got = [p \in ToSet(Addressees(c)) |-> Nothing]
           /\ DOMAIN pending' = {<< c, p >> : p \in ToSet(Addressees(c))} \cup DOMAIN pending
           /\ wire' = wire \cup {Envelope(Me, p, Query(<< c, p >>, X(c))) : p \in ToSet(Addressees(c))}
<1> DEFINE to == Addressees(c)
           none == [p \in ToSet(to) |-> Nothing]
           requests == {<< c, p >> : p \in ToSet(to)}
           messages == {Envelope(Me, p, Query(<< c, p >>, X(c))) : p \in ToSet(to)}
           own == OwnOpinion(c)
<1>1. /\ UNCHANGED << scenario, trust, holdout, fed, merged >>
      /\ Asks(scenario, c) /\ calls[c].state = "idle"
      /\ pending' = With(requests, Nothing)
      /\ wire' = (wire \ {}) \cup messages
      /\ calls' = [calls EXCEPT ![c] = IF to = << >> THEN [@ EXCEPT !.state = "done", !.answer = own]
                                       ELSE [@ EXCEPT !.state = "waiting", !.asked = to, !.got = none]]
  BY DEF StartInfer, Asks, Calls, Kind, Exchange, Addressees, Qid
<1>2. c \in DOMAIN calls /\ DOMAIN calls[c] = Fields
  BY CallShape
<1> HIDE DEF to, none, requests, messages, own
<1>3. OnlyCall(c) /\ calls'[c] = IF to = << >> THEN [calls[c] EXCEPT !.state = "done", !.answer = own]
                                 ELSE [calls[c] EXCEPT !.state = "waiting", !.asked = to, !.got = none]
  BY <1>1, <1>2 DEF OnlyCall
<1>4. DOMAIN pending' = requests \cup DOMAIN pending /\ \A q \in DOMAIN pending \ requests : pending'[q] = pending[q]
  BY <1>1 DEF With
<1>5. OnlyRequests(c, ToSet(to))
  BY <1>4 DEF OnlyRequests, requests
<1>6. /\ calls'[c].samples = calls[c].samples
      /\ \/ /\ to = << >> /\ calls'[c].state = "done" /\ calls'[c].answer = own
            /\ calls'[c].asked = calls[c].asked /\ calls'[c].got = calls[c].got
         \/ to # << >> /\ calls'[c].state = "waiting" /\ calls'[c].asked = to /\ calls'[c].got = none
  BY <1>2, <1>3 DEF Fields
<1>7. wire' = wire \cup messages
  BY <1>1
<1> QED BY <1>1, <1>3, <1>4, <1>5, <1>6, <1>7 DEF to, none, requests, messages, own

\* A call examines peers, or has nobody or nothing to examine.
Examines(c, to, chunks) ==
    /\ calls'[c].state = "waiting" /\ calls'[c].samples = holdout /\ holdout # << >>
    /\ calls'[c].asked = to /\ calls'[c].got = [p \in ToSet(to) |-> Nothing]
    /\ DOMAIN pending' = {<< c, p >> : p \in ToSet(to)} \cup DOMAIN pending
    /\ OnlyRequests(c, ToSet(to))
    /\ \A p \in ToSet(to) : pending'[<< c, p >>] = [labels |-> [i \in DOMAIN chunks |-> << >>], got |-> 0]
    /\ wire' = wire \cup {Envelope(Me, p, CalibrationQuery(<< c, p >>, i, chunks[i])) :
                             p \in ToSet(to), i \in DOMAIN chunks}

ExaminesNone(c) ==
    /\ calls'[c].state = "done" /\ calls'[c].samples = calls[c].samples
    /\ calls'[c].asked = calls[c].asked /\ calls'[c].got = calls[c].got
    /\ pending' = pending /\ wire' = wire

LEMMA StartCalibrationDoes ==
    ASSUME OwnInv, NEW c \in Calls, StartCalibration(c)
    PROVE  /\ UNCHANGED << scenario, trust, holdout, fed, merged >>
           /\ ~ Asks(scenario, c) /\ Kind(c) = "calibrate" /\ calls[c].state = "idle"
           /\ OnlyCall(c)
           /\ ExaminesNone(c) \/ Examines(c, Others(scenario.calls[c].peers), SampleChunks)
<1> DEFINE to == Others(scenario.calls[c].peers)
           chunks == SampleChunks
           none == [p \in ToSet(to) |-> Nothing]
           entry == [labels |-> [i \in DOMAIN chunks |-> << >>], got |-> 0]
           requests == {<< c, p >> : p \in ToSet(to)}
           messages == {Envelope(Me, p, CalibrationQuery(<< c, p >>, i, chunks[i])) : p \in ToSet(to), i \in DOMAIN chunks}
<1>1. /\ UNCHANGED << scenario, trust, holdout, fed, merged >>
      /\ ~ Asks(scenario, c) /\ Kind(c) = "calibrate" /\ calls[c].state = "idle"
      /\ \/ calls' = [calls EXCEPT ![c].state = "done"] /\ pending' = pending /\ wire' = wire
         \/ /\ holdout # << >>
            /\ calls' = [calls EXCEPT ![c].state = "waiting", ![c].asked = to, ![c].samples = holdout, ![c].got = none]
            /\ pending' = With(requests, entry)
            /\ wire' = (wire \ {}) \cup messages
  <2>1. /\ UNCHANGED << scenario, trust, holdout, fed, merged >>
        /\ ~ Asks(scenario, c) /\ Kind(c) = "calibrate" /\ calls[c].state = "idle"
    BY DEF StartCalibration, Asks, Kind
  <2>2. \/ calls' = [calls EXCEPT ![c].state = "done"] /\ pending' = pending /\ wire' = wire
        \/ holdout # << >> /\ Examine(c, to, chunks)
    BY DEF StartCalibration
  <2> QED BY <2>1, <2>2 DEF Examine, Exchange, Qid
<1>2. c \in DOMAIN calls /\ DOMAIN calls[c] = Fields
  BY CallShape
<1> HIDE DEF to, chunks, none, entry, requests, messages
<1>3. CASE calls' = [calls EXCEPT ![c].state = "done"] /\ pending' = pending /\ wire' = wire
  <2>1. OnlyCall(c) /\ calls'[c] = [calls[c] EXCEPT !.state = "done"]
    BY <1>2, <1>3 DEF OnlyCall
  <2>2. /\ calls'[c].state = "done" /\ calls'[c].samples = calls[c].samples
        /\ calls'[c].asked = calls[c].asked /\ calls'[c].got = calls[c].got
    BY <1>2, <2>1 DEF Fields
  <2> QED BY <1>1, <1>3, <2>1, <2>2 DEF ExaminesNone
<1>4. CASE /\ holdout # << >>
           /\ calls' = [calls EXCEPT ![c].state = "waiting", ![c].asked = to, ![c].samples = holdout, ![c].got = none]
           /\ pending' = With(requests, entry)
           /\ wire' = (wire \ {}) \cup messages
  <2>1. OnlyCall(c) /\ calls'[c] = [calls[c] EXCEPT !.state = "waiting", !.asked = to, !.samples = holdout, !.got = none]
    BY <1>2, <1>4 DEF OnlyCall
  <2>2. /\ calls'[c].state = "waiting" /\ calls'[c].samples = holdout
        /\ calls'[c].asked = to /\ calls'[c].got = none
    BY <1>2, <2>1 DEF Fields
  <2>3. /\ DOMAIN pending' = requests \cup DOMAIN pending
        /\ \A q \in requests : pending'[q] = entry
        /\ \A q \in DOMAIN pending \ requests : pending'[q] = pending[q]
    BY <1>4 DEF With
  <2>4. OnlyRequests(c, ToSet(to)) /\ \A p \in ToSet(to) : pending'[<< c, p >>] = entry
    BY <2>3 DEF OnlyRequests, requests
  <2>5. wire' = wire \cup messages
    BY <1>4
  <2>6. Examines(c, to, chunks)
    BY <1>4, <2>2, <2>3, <2>4, <2>5 DEF Examines, none, entry, requests, messages
  <2> QED BY <1>1, <2>1, <2>6 DEF to, chunks
<1> QED BY <1>1, <1>3, <1>4

\* A call hears of a peer, or no longer waits for it.
Ends(c, p, outcome, state) ==
    /\ calls[c].state = "waiting" /\ p \in ToSet(calls[c].asked) /\ calls[c].got[p] = Nothing
    /\ UNCHANGED << scenario, wire, holdout, fed, merged >>
    /\ OnlyCall(c)
    /\ calls'[c].state = state /\ calls'[c].samples = calls[c].samples /\ calls'[c].answer = calls[c].answer
    /\ calls'[c].asked = calls[c].asked /\ calls'[c].got = [calls[c].got EXCEPT ![p] = outcome]
    /\ outcome # Nothing
    /\ DOMAIN pending' = DOMAIN pending \ {<< c, p >>}
    /\ \A q \in DOMAIN pending' : pending'[q] = pending[q]

LEMMA EndQueryDoes ==
    ASSUME OwnInv, NEW c \in Calls, NEW p, EndQuery(c, p)
    PROVE  UNCHANGED trust /\ Asks(scenario, c) /\ \E outcome : Ends(c, p, outcome, "waiting")
<1>1. PICK outcome \in Outcomes(pending[Qid(c, p)]) : calls' = [calls EXCEPT ![c].got[p] = outcome]
  BY DEF EndQuery
<1>2. /\ UNCHANGED << scenario, wire, holdout, fed, merged, trust >> /\ pending' = Closed(Qid(c, p))
      /\ calls[c].state = "waiting" /\ p \in ToSet(calls[c].asked) /\ calls[c].got[p] = Nothing
      /\ Asks(scenario, c)
  BY DEF EndQuery, Asks, Kind, Calls
<1>3. c \in DOMAIN calls /\ DOMAIN calls[c] = Fields
  BY CallShape
<1>4. Abstained # Nothing
  BY DEF Abstained, Nothing, NoLabel
<1>5. outcome # Nothing
  BY <1>1, <1>4 DEF Outcomes
<1>6. OnlyCall(c) /\ calls'[c] = [calls[c] EXCEPT !.got[p] = outcome]
  BY <1>1, <1>3 DEF OnlyCall
<1>7. /\ calls'[c].state = "waiting" /\ calls'[c].samples = calls[c].samples /\ calls'[c].answer = calls[c].answer
      /\ calls'[c].asked = calls[c].asked /\ calls'[c].got = [calls[c].got EXCEPT ![p] = outcome]
  BY <1>2, <1>3, <1>6 DEF Fields
<1>8. DOMAIN pending' = DOMAIN pending \ {<< c, p >>} /\ \A q \in DOMAIN pending' : pending'[q] = pending[q]
  BY <1>2 DEF Closed, Qid
<1>9. Ends(c, p, outcome, "waiting")
  BY <1>2, <1>5, <1>6, <1>7, <1>8 DEF Ends
<1> QED BY <1>2, <1>9

LEMMA EndCalibrationDoes ==
    ASSUME OwnInv, NEW c \in Calls, NEW p, EndCalibration(c, p)
    PROVE  /\ ~ Asks(scenario, c) /\ \E state \in {"waiting", "done"} : Ends(c, p, Abstained, state)
           /\ LET entry == pending[<< c, p >>]
              IN  \/ trust' = trust
                  \/ /\ entry.got = Len(entry.labels)
                     /\ trust' = [trust EXCEPT ![p] =
                            Calibrated(trust[p], FlattenSeq(entry.labels), calls[c].samples)]
<1>1. PICK state \in {"waiting", "done"} : calls' = [calls EXCEPT ![c].got[p] = Abstained, ![c].state = state]
  <2> DEFINE state == IF {q \in ToSet(calls[c].asked) \ {p} : calls[c].got[q] = Nothing} = {} THEN "done" ELSE calls[c].state
  <2>1. /\ calls' = [calls EXCEPT ![c].got[p] = Abstained, ![c].state = state]
        /\ state \in {"waiting", "done"}
    BY DEF EndCalibration
  <2> HIDE DEF state
  <2> QED BY <2>1
<1>2. /\ UNCHANGED << scenario, wire, holdout, fed, merged >> /\ pending' = Closed(Qid(c, p))
      /\ calls[c].state = "waiting" /\ p \in ToSet(calls[c].asked) /\ calls[c].got[p] = Nothing
      /\ ~ Asks(scenario, c)
  BY DEF EndCalibration, Asks, Kind, Calls
<1>3. c \in DOMAIN calls /\ DOMAIN calls[c] = Fields
  BY CallShape
<1>4. Abstained # Nothing
  BY DEF Abstained, Nothing, NoLabel
<1>6. OnlyCall(c) /\ calls'[c] = [calls[c] EXCEPT !.got[p] = Abstained, !.state = state]
  BY <1>1, <1>3 DEF OnlyCall
<1>7. /\ calls'[c].state = state /\ calls'[c].samples = calls[c].samples /\ calls'[c].answer = calls[c].answer
      /\ calls'[c].asked = calls[c].asked /\ calls'[c].got = [calls[c].got EXCEPT ![p] = Abstained]
  BY <1>2, <1>3, <1>6 DEF Fields
<1>8. DOMAIN pending' = DOMAIN pending \ {<< c, p >>} /\ \A q \in DOMAIN pending' : pending'[q] = pending[q]
  BY <1>2 DEF Closed, Qid
<1>9. Ends(c, p, Abstained, state)
  BY <1>2, <1>4, <1>6, <1>7, <1>8 DEF Ends
<1>10. LET entry == pending[<< c, p >>]
       IN  \/ trust' = trust
           \/ /\ entry.got = Len(entry.labels)
              /\ trust' = [trust EXCEPT ![p] =
                            Calibrated(trust[p], FlattenSeq(entry.labels), calls[c].samples)]
  BY DEF EndCalibration, Qid
<1> QED BY <1>2, <1>9, <1>10

LEMMA ConcludeDoes ==
    ASSUME OwnInv, NEW c \in Calls, Conclude(c)
    PROVE  /\ UNCHANGED << scenario, wire, trust, holdout, fed, merged, pending >>
           /\ Asks(scenario, c) /\ OnlyCall(c) /\ calls[c].state = "waiting"
           /\ calls'[c].state = "done" /\ calls'[c].samples = calls[c].samples
           /\ calls'[c].asked = calls[c].asked /\ calls'[c].got = calls[c].got
           /\ \E l, s, o : calls'[c].answer = [label |-> l, share |-> s, of |-> o]
<1>1. PICK answer : /\ calls' = [calls EXCEPT ![c].state = "done", ![c].answer = answer]
                    /\ \E l, s, o : answer = [label |-> l, share |-> s, of |-> o]
  <2>1. PICK whom, opinions, weigh, own, label :
          LET vote == Aggregate(whom, opinions, weigh)
          IN  calls' = [calls EXCEPT ![c].state = "done",
                                     ![c].answer = IF own THEN [vote EXCEPT !.label = label] ELSE vote]
    BY DEF Conclude
  <2> DEFINE vote == Aggregate(whom, opinions, weigh)
             answer == IF own THEN [vote EXCEPT !.label = label] ELSE vote
  <2>2. \E l, s, o : vote = [label |-> l, share |-> s, of |-> o]
    BY DEF Aggregate
  <2>3. calls' = [calls EXCEPT ![c].state = "done", ![c].answer = answer]
    BY <2>1
  <2> HIDE DEF vote
  <2>4. PICK l, s, o : vote = [label |-> l, share |-> s, of |-> o]
    BY <2>2
  <2>5. answer = [label |-> IF own THEN label ELSE l, share |-> s, of |-> o]
    BY <2>4
  <2> HIDE DEF answer
  <2> QED BY <2>3, <2>5
<1>2. /\ UNCHANGED << scenario, wire, trust, holdout, fed, merged, pending >> /\ Asks(scenario, c)
      /\ calls[c].state = "waiting"
  BY DEF Conclude, Asks, Kind, Calls
<1>3. c \in DOMAIN calls /\ DOMAIN calls[c] = Fields
  BY CallShape
<1>4. OnlyCall(c) /\ calls'[c] = [calls[c] EXCEPT !.state = "done", !.answer = answer]
  BY <1>1, <1>3 DEF OnlyCall
<1>5. /\ calls'[c].state = "done" /\ calls'[c].samples = calls[c].samples /\ calls'[c].answer = answer
      /\ calls'[c].asked = calls[c].asked /\ calls'[c].got = calls[c].got
  BY <1>3, <1>4 DEF Fields
<1>6. \E l, s, o : calls'[c].answer = [label |-> l, share |-> s, of |-> o]
  BY <1>1, <1>5
<1> HIDE DEF OnlyCall
<1> QED BY <1>2, <1>4, <1>5, <1>6

\* Samples a node may have.
Material(sc) == ToSet(sc.holdout) \cup ToSet(sc.feed)

CallTyped(sc, c, call) ==
    /\ call.asked \in Seq(Peers) /\ call.samples \in Seq(Material(sc))
    /\ call.state = "idle" => call.asked = << >>
    /\ call.state = "waiting" /\ ~ Asks(sc, c) => call.samples # << >>
    /\ call.state = "done" /\ Asks(sc, c) => call.answer # Nothing

\* Requests in the table are those that wait.
TableFits(sc, table, cs) ==
    /\ \A q \in DOMAIN table : \E c \in DOMAIN sc.calls : \E p \in ToSet(cs[c].asked) :
            q = << c, p >> /\ cs[c].got[p] = Nothing
    /\ \A c \in DOMAIN sc.calls : \A p \in ToSet(cs[c].asked) :
            cs[c].got[p] = Nothing => << c, p >> \in DOMAIN table

AtHome(m) == {m.from, m.to} \subseteq Peers \cup {Me}

TypeInv ==
    /\ scenario \in Scenarios
    /\ \A m \in wire : AtHome(m)
    /\ trust \in [Peers -> 0 .. FULL_TRUST]
    /\ holdout \in Seq(Material(scenario)) /\ Len(holdout) = Len(scenario.holdout)
    /\ fed \in Nat /\ merged \in Nat
    /\ TableFits(scenario, pending, calls)
    /\ \A c \in DOMAIN scenario.calls : CallTyped(scenario, c, calls[c])

LEMMA TypeStarts == Init => TypeInv
<1> SUFFICES ASSUME Init PROVE TypeInv
  OBVIOUS
<1>1. /\ scenario \in Scenarios /\ wire = {} /\ fed = 0 /\ merged = 0 /\ DOMAIN pending = {}
      /\ trust = [p \in Peers |-> TRUST_INIT] /\ holdout = scenario.holdout
  BY DEF Init, RpcInit
<1>2. trust \in [Peers -> 0 .. FULL_TRUST]
  BY <1>1 DEF TRUST_INIT, FULL_TRUST
<1>3. holdout \in Seq(Material(scenario))
  BY <1>1, RpcAssumption DEF Material
<1>4. ASSUME NEW c \in DOMAIN scenario.calls
      PROVE  calls[c].state = "idle" /\ calls[c].asked = << >> /\ calls[c].samples = << >>
  BY DEF Init, RpcInit, Calls
<1>5. TableFits(scenario, pending, calls)
  BY <1>1, <1>4 DEF TableFits, ToSet
<1>6. \A c \in DOMAIN scenario.calls : CallTyped(scenario, c, calls[c])
  <2>1. << >> \in Seq(Peers) /\ << >> \in Seq(Material(scenario))
    OBVIOUS
  <2> QED BY <1>4, <2>1 DEF CallTyped
<1> QED BY <1>1, <1>2, <1>3, <1>5, <1>6 DEF TypeInv

(* What calls do to the table keeps it.                                    *)
LEMMA TypedCall ==
    ASSUME TypeInv, OwnInv, NEW c \in Calls, OnlyCall(c), scenario' = scenario, CallTyped(scenario, c, calls'[c])
    PROVE  (\A d \in DOMAIN scenario.calls : CallTyped(scenario, d, calls[d]))'
BY CallShape DEF TypeInv, OnlyCall, Calls, CallTyped, Material, Asks

(* Requests of one call.                                                   *)
LEMMA TableCall ==
    ASSUME TypeInv, OwnInv, NEW c \in Calls, OnlyCall(c), scenario' = scenario,
           \A d, p : d # c => (<< d, p >> \in DOMAIN pending' <=> << d, p >> \in DOMAIN pending),
           \A q \in DOMAIN pending' : q \in DOMAIN pending \/ \E p : q = << c, p >>,
           \A p : << c, p >> \in DOMAIN pending' <=> p \in ToSet(calls'[c].asked) /\ calls'[c].got[p] = Nothing
    PROVE  TableFits(scenario, pending, calls)'
<1>1. /\ DOMAIN calls = DOMAIN scenario.calls
      /\ \A d \in DOMAIN scenario.calls \ {c} : calls'[d] = calls[d]
  BY CallShape DEF OnlyCall, Calls
<1>2. ASSUME NEW q \in DOMAIN pending'
      PROVE  \E d \in DOMAIN scenario.calls : \E p \in ToSet(calls'[d].asked) : q = << d, p >> /\ calls'[d].got[p] = Nothing
  <2>1. CASE \E p : q = << c, p >>
    BY <2>1 DEF Calls
  <2>2. CASE ~ \E p : q = << c, p >>
    <3>1. PICK d \in DOMAIN scenario.calls : \E p \in ToSet(calls[d].asked) : q = << d, p >> /\ calls[d].got[p] = Nothing
      BY <2>2 DEF TypeInv, TableFits
    <3>2. d # c
      BY <2>2, <3>1
    <3> QED BY <1>1, <3>1, <3>2
  <2> QED BY <2>1, <2>2
<1>3. ASSUME NEW d \in DOMAIN scenario.calls, NEW p \in ToSet(calls'[d].asked), calls'[d].got[p] = Nothing
      PROVE  << d, p >> \in DOMAIN pending'
  <2>1. CASE d = c
    BY <1>3, <2>1
  <2>2. CASE d # c
    BY <1>1, <1>3, <2>2 DEF TypeInv, TableFits
  <2> QED BY <2>1, <2>2
<1> QED BY <1>2, <1>3 DEF TableFits

(* Peers of a call.                                                        *)
LEMMA ToPeers ==
    ASSUME TypeInv, NEW c \in Calls
    PROVE  /\ Asks(scenario, c) => Addressees(c) \in Seq(Peers) /\ OwnOpinion(c) # Nothing
           /\ ~ Asks(scenario, c) => Others(scenario.calls[c].peers) \in Seq(Peers)
           /\ \A ps \in Seq(Peers) : ToSet(ps) \subseteq Peers
<1>1. /\ scenario.calls[c].peers \in Seq(IF scenario.calls[c].kind = "calibrate" THEN Peers \cup {Me} ELSE Peers)
      /\ scenario.calls[c].kind # "calibrate" => DOMAIN scenario.local[scenario.calls[c].x] = {"label", "conf"}
  BY RpcAssumption DEF TypeInv, Calls
<1>2. ASSUME Asks(scenario, c) PROVE Addressees(c) \in Seq(Peers) /\ OwnOpinion(c) # Nothing
  <2>1. scenario.calls[c].peers \in Seq(Peers) /\ DOMAIN scenario.local[X(c)] = {"label", "conf"}
    BY <1>1, <1>2 DEF Asks, X
  <2>2. DOMAIN Nothing = {"pending"}
    BY DEF Nothing
  <2>3. Ranked(scenario.calls[c].peers) \in Seq(Peers)
    BY <2>1, RankedType DEF TypeInv
  <2>4. DOMAIN [label |-> scenario.local[X(c)].label, share |-> 0, of |-> 1] = {"label", "share", "of"}
    OBVIOUS
  <2>5. OwnOpinion(c) # Nothing
    BY <2>1, <2>2, <2>4 DEF OwnOpinion
  <2> QED BY <2>1, <2>3, <2>5 DEF Addressees
<1>3. ASSUME ~ Asks(scenario, c) PROVE Others(scenario.calls[c].peers) \in Seq(Peers)
  <2>1. scenario.calls[c].peers \in Seq(Peers \cup {Me})
    BY <1>1, <1>3 DEF Asks, Calls
  <2> DEFINE ps == scenario.calls[c].peers
             parts == [i \in DOMAIN ps |-> IF ps[i] = Me THEN << >> ELSE << ps[i] >>]
  <2>2. \A i \in DOMAIN ps : ps[i] \in Peers \cup {Me} /\ DOMAIN ps = 1 .. Len(ps) /\ Len(ps) \in Nat
    BY <2>1
  <2>3. \A p \in Peers : << p >> \in Seq(Peers) /\ << >> \in Seq(Peers)
    OBVIOUS
  <2>4. parts \in Seq(Seq(Peers))
    <3>1. DOMAIN ps = 1 .. Len(ps) /\ Len(ps) \in Nat
      BY <2>1
    <3>2. << >> \in Seq(Peers)
      OBVIOUS
    <3>3. \A i \in 1 .. Len(ps) : parts[i] \in Seq(Peers)
      BY <2>2, <2>3, <3>1, <3>2
    <3>4. parts \in [1 .. Len(ps) -> Seq(Peers)]
      BY <3>1, <3>3
    <3> QED BY <3>1, <3>4
  <2> HIDE DEF parts
  <2>5. FlattenSeq(parts) \in Seq(Peers)
    BY <2>4, FlattenType
  <2> QED BY <2>5 DEF Others, parts
<1>4. \A ps \in Seq(Peers) : ToSet(ps) \subseteq Peers
  BY DEF ToSet
<1> QED BY <1>2, <1>3, <1>4

LEMMA TypeStartInfer ==
    ASSUME TypeInv, OwnInv, NEW c \in Calls, StartInfer(c)
    PROVE  TypeInv'
<1> DEFINE to == Addressees(c)
           messages == {Envelope(Me, p, Query(<< c, p >>, X(c))) : p \in ToSet(to)}
<1>1. /\ UNCHANGED << scenario, trust, holdout, fed, merged >>
      /\ Asks(scenario, c) /\ calls[c].state = "idle" /\ OnlyCall(c)
      /\ calls'[c].samples = calls[c].samples
      /\ \/ /\ to = << >> /\ calls'[c].state = "done" /\ calls'[c].answer = OwnOpinion(c)
            /\ calls'[c].asked = calls[c].asked /\ calls'[c].got = calls[c].got
         \/ /\ to # << >> /\ calls'[c].state = "waiting" /\ calls'[c].asked = to
            /\ calls'[c].got = [p \in ToSet(to) |-> Nothing]
      /\ DOMAIN pending' = {<< c, p >> : p \in ToSet(to)} \cup DOMAIN pending
      /\ wire' = wire \cup messages
  BY StartInferDoes
<1>2. to \in Seq(Peers) /\ OwnOpinion(c) # Nothing /\ ToSet(to) \subseteq Peers
  BY <1>1, ToPeers
<1>3. CallTyped(scenario, c, calls[c]) /\ calls[c].asked = << >>
  BY <1>1 DEF TypeInv, CallTyped, Calls
<1>4. \A m \in messages : AtHome(m)
  <2> HIDE DEF to
  <2> SUFFICES ASSUME NEW p \in ToSet(to) PROVE AtHome(Envelope(Me, p, Query(<< c, p >>, X(c))))
    OBVIOUS
  <2> QED BY <1>2 DEF AtHome, Envelope
<1> HIDE DEF to, messages
<1>5. \A m \in wire' : AtHome(m)
  BY <1>1, <1>4 DEF TypeInv
<1>6. CallTyped(scenario, c, calls'[c])
  BY <1>1, <1>2, <1>3 DEF CallTyped
<1>7. \A p : << c, p >> \notin DOMAIN pending
  <2>1. ToSet(calls[c].asked) = {}
    BY <1>3 DEF ToSet
  <2> QED BY <2>1 DEF TypeInv, TableFits
<1>8. \A p : << c, p >> \in DOMAIN pending' <=> p \in ToSet(calls'[c].asked) /\ calls'[c].got[p] = Nothing
  <2>1. CASE to = << >>
    <3>1. ToSet(to) = {} /\ ToSet(calls[c].asked) = {}
      BY <2>1, <1>3 DEF ToSet
    <3> QED BY <1>1, <1>7, <2>1, <3>1
  <2>2. CASE to # << >>
    BY <1>1, <1>7, <2>2
  <2> QED BY <2>1, <2>2
<1>9. TableFits(scenario, pending, calls)'
  BY <1>1, <1>8, TableCall
<1>10. (\A d \in DOMAIN scenario.calls : CallTyped(scenario, d, calls[d]))'
  BY <1>1, <1>6, TypedCall
<1> QED BY <1>1, <1>5, <1>9, <1>10 DEF TypeInv

LEMMA TypeStartCalibration ==
    ASSUME TypeInv, OwnInv, NEW c \in Calls, StartCalibration(c)
    PROVE  TypeInv'
<1> DEFINE to == Others(scenario.calls[c].peers)
           chunks == SampleChunks
           messages == {Envelope(Me, p, CalibrationQuery(<< c, p >>, i, chunks[i])) : p \in ToSet(to), i \in DOMAIN chunks}
<1>1. /\ UNCHANGED << scenario, trust, holdout, fed, merged >>
      /\ ~ Asks(scenario, c) /\ calls[c].state = "idle" /\ OnlyCall(c)
      /\ ExaminesNone(c) \/ Examines(c, to, chunks)
  BY StartCalibrationDoes
<1>2. to \in Seq(Peers) /\ ToSet(to) \subseteq Peers
  BY <1>1, ToPeers
<1>3. CallTyped(scenario, c, calls[c]) /\ calls[c].asked = << >>
  BY <1>1 DEF TypeInv, CallTyped, Calls
<1>4. \A m \in messages : AtHome(m)
  <2> HIDE DEF to, chunks
  <2> SUFFICES ASSUME NEW m \in messages PROVE AtHome(m)
    OBVIOUS
  <2>1. PICK p \in ToSet(to), i \in DOMAIN chunks : m = Envelope(Me, p, CalibrationQuery(<< c, p >>, i, chunks[i]))
    OBVIOUS
  <2> QED BY <1>2, <2>1 DEF AtHome, Envelope
<1>5. \A p : << c, p >> \notin DOMAIN pending
  <2>1. ToSet(calls[c].asked) = {}
    BY <1>3 DEF ToSet
  <2> QED BY <2>1 DEF TypeInv, TableFits
<1> HIDE DEF to, chunks
<1>6. CASE ExaminesNone(c)
  <2>1. /\ calls'[c].state = "done" /\ calls'[c].samples = calls[c].samples
        /\ calls'[c].asked = calls[c].asked /\ calls'[c].got = calls[c].got
        /\ pending' = pending /\ wire' = wire
    BY <1>6 DEF ExaminesNone
  <2>2. CallTyped(scenario, c, calls'[c])
    BY <1>1, <1>3, <2>1 DEF CallTyped
  <2>3. ToSet(calls[c].asked) = {}
    BY <1>3 DEF ToSet
  <2>4. TableFits(scenario, pending, calls)'
    BY <1>1, <1>5, <2>1, <2>3, TableCall
  <2>5. (\A d \in DOMAIN scenario.calls : CallTyped(scenario, d, calls[d]))'
    BY <1>1, <2>2, TypedCall
  <2> QED BY <1>1, <2>1, <2>4, <2>5 DEF TypeInv
<1>7. CASE Examines(c, to, chunks)
  <2>1. /\ calls'[c].state = "waiting" /\ calls'[c].samples = holdout /\ holdout # << >>
        /\ calls'[c].asked = to /\ calls'[c].got = [p \in ToSet(to) |-> Nothing]
        /\ DOMAIN pending' = {<< c, p >> : p \in ToSet(to)} \cup DOMAIN pending
        /\ wire' = wire \cup messages
    BY <1>7 DEF Examines
  <2> HIDE DEF messages
  <2>2. \A m \in wire' : AtHome(m)
    BY <1>4, <2>1 DEF TypeInv
  <2>3. CallTyped(scenario, c, calls'[c])
    BY <1>1, <1>2, <2>1 DEF CallTyped, TypeInv
  <2>4. \A p : << c, p >> \in DOMAIN pending' <=> p \in ToSet(calls'[c].asked) /\ calls'[c].got[p] = Nothing
    BY <1>5, <2>1
  <2>5. TableFits(scenario, pending, calls)'
    BY <1>1, <2>1, <2>4, TableCall
  <2>6. (\A d \in DOMAIN scenario.calls : CallTyped(scenario, d, calls[d]))'
    BY <1>1, <2>3, TypedCall
  <2> QED BY <1>1, <2>1, <2>2, <2>5, <2>6 DEF TypeInv
<1> QED BY <1>1, <1>6, <1>7

(* A request ends.                                                         *)
LEMMA TypeEnds ==
    ASSUME TypeInv, OwnInv, NEW c \in Calls, NEW p, NEW outcome, NEW state \in {"waiting", "done"},
           Ends(c, p, outcome, state), Asks(scenario, c) => state = "waiting",
           trust' \in [Peers -> 0 .. FULL_TRUST]
    PROVE  TypeInv'
<1>1. /\ calls[c].state = "waiting" /\ p \in ToSet(calls[c].asked) /\ calls[c].got[p] = Nothing
      /\ UNCHANGED << scenario, wire, holdout, fed, merged >> /\ OnlyCall(c)
      /\ calls'[c].state = state /\ calls'[c].samples = calls[c].samples
      /\ calls'[c].asked = calls[c].asked /\ calls'[c].got = [calls[c].got EXCEPT ![p] = outcome]
      /\ outcome # Nothing
      /\ DOMAIN pending' = DOMAIN pending \ {<< c, p >>}
  BY DEF Ends
<1>2. CallTyped(scenario, c, calls[c]) /\ DOMAIN calls[c].got = ToSet(calls[c].asked)
  BY CallShape DEF TypeInv, Calls
<1>3. CallTyped(scenario, c, calls'[c])
  BY <1>1, <1>2 DEF CallTyped
<1>4. \A r : << c, r >> \in DOMAIN pending <=> r \in ToSet(calls[c].asked) /\ calls[c].got[r] = Nothing
  BY DEF TypeInv, TableFits, Calls
<1>5. \A r : << c, r >> \in DOMAIN pending' <=> r \in ToSet(calls'[c].asked) /\ calls'[c].got[r] = Nothing
  BY <1>1, <1>2, <1>4
<1>6. TableFits(scenario, pending, calls)'
  BY <1>1, <1>5, TableCall
<1>7. (\A d \in DOMAIN scenario.calls : CallTyped(scenario, d, calls[d]))'
  BY <1>1, <1>3, TypedCall
<1> QED BY <1>1, <1>6, <1>7 DEF TypeInv

LEMMA TypeConclude ==
    ASSUME TypeInv, OwnInv, NEW c \in Calls, Conclude(c)
    PROVE  TypeInv'
<1>1. /\ UNCHANGED << scenario, wire, trust, holdout, fed, merged, pending >>
      /\ Asks(scenario, c) /\ OnlyCall(c) /\ calls[c].state = "waiting"
      /\ calls'[c].state = "done" /\ calls'[c].samples = calls[c].samples
      /\ calls'[c].asked = calls[c].asked /\ calls'[c].got = calls[c].got
      /\ \E l, s, o : calls'[c].answer = [label |-> l, share |-> s, of |-> o]
  BY ConcludeDoes
<1>2. calls'[c].answer # Nothing
  <2>1. \A l, s, o : [label |-> l, share |-> s, of |-> o] # Nothing
    <3> SUFFICES ASSUME NEW l, NEW s, NEW o PROVE [label |-> l, share |-> s, of |-> o] # Nothing
      OBVIOUS
    <3>1. DOMAIN [label |-> l, share |-> s, of |-> o] # DOMAIN Nothing
      BY DEF Nothing
    <3> QED BY <3>1
  <2> QED BY <1>1, <2>1
<1>3. CallTyped(scenario, c, calls[c])
  BY DEF TypeInv, Calls
<1>4. CallTyped(scenario, c, calls'[c])
  BY <1>1, <1>2, <1>3 DEF CallTyped
<1>5. \A r : << c, r >> \in DOMAIN pending <=> r \in ToSet(calls[c].asked) /\ calls[c].got[r] = Nothing
  BY DEF TypeInv, TableFits, Calls
<1>6. TableFits(scenario, pending, calls)'
  BY <1>1, <1>5, TableCall
<1>7. (\A d \in DOMAIN scenario.calls : CallTyped(scenario, d, calls[d]))'
  BY <1>1, <1>4, TypedCall
<1> QED BY <1>1, <1>6, <1>7 DEF TypeInv

(* Steps that leave calls and the table's requests alone.                  *)
LEMMA TypeElsewhere ==
    ASSUME TypeInv, scenario' = scenario, calls' = calls, DOMAIN pending' = DOMAIN pending,
           UNCHANGED << holdout, fed, merged, trust >>,
           NEW taken, NEW messages, wire' = (wire \ taken) \cup messages, \A m \in messages : AtHome(m)
    PROVE  TypeInv'
<1>1. \A m \in wire' : AtHome(m)
  BY DEF TypeInv
<1> QED BY <1>1 DEF TypeInv, TableFits

LEMMA TypeObserve ==
    ASSUME TypeInv, Observe
    PROVE  TypeInv'
<1>1. /\ fed < Len(scenario.feed) /\ fed' = fed + 1
      /\ holdout' = Append(Tail(holdout), scenario.feed[fed + 1])
      /\ UNCHANGED << scenario, wire, trust, merged, pending, calls >>
  BY DEF Observe
<1>2. /\ scenario.feed \in Seq(Material(scenario)) /\ scenario.holdout \in Seq(Material(scenario))
      /\ scenario.feed # << >> => scenario.holdout # << >>
      /\ holdout \in Seq(Material(scenario)) /\ Len(holdout) = Len(scenario.holdout) /\ fed \in Nat
  BY RpcAssumption DEF TypeInv, Material
<1> DEFINE M == Material(scenario)
           x == scenario.feed[fed + 1]
<1> HIDE DEF M
<1>3. x \in M /\ scenario.feed # << >>
  BY <1>1, <1>2 DEF M
<1>4. holdout # << >> /\ holdout \in Seq(M)
  BY <1>2, <1>3 DEF M
<1> HIDE DEF x
<1>5. Tail(holdout) \in Seq(M) /\ Len(Tail(holdout)) = Len(holdout) - 1 /\ Len(holdout) \in Nat
  BY <1>4
<1>6. Append(Tail(holdout), x) \in Seq(M) /\ Len(Append(Tail(holdout), x)) = Len(holdout)
  BY <1>3, <1>5
<1>7. holdout' \in Seq(M) /\ Len(holdout') = Len(holdout) /\ fed' \in Nat
  BY <1>1, <1>2, <1>6 DEF x
<1> QED BY <1>1, <1>7 DEF TypeInv, M

LEMMA TypeMerge ==
    ASSUME TypeInv, NEW p \in Peers, MergeJudged(p)
    PROVE  TypeInv'
<1>1. PICK outcome \in {0, FULL_TRUST} : trust' = [trust EXCEPT ![p] = (7 * trust[p] + 3 * outcome) \div 10]
  BY DEF MergeJudged
<1>2. UNCHANGED << scenario, wire, holdout, fed, pending, calls >> /\ merged' = merged + 1
  BY DEF MergeJudged
<1>3. (7 * trust[p] + 3 * outcome) \div 10 \in 0 .. FULL_TRUST
  <2>1. trust[p] \in 0 .. FULL_TRUST
    BY DEF TypeInv
  <2>0. FULL_TRUST = 8000 /\ trust[p] \in 0 .. 8000 /\ (outcome = 0 \/ outcome = 8000)
    BY <2>1 DEF FULL_TRUST
  <2> DEFINE t == trust[p]
  <2> HIDE DEF t
  <2>7. t \in 0 .. 8000 /\ (outcome = 0 \/ outcome = 8000)
    BY <2>0 DEF t
  <2>2. t \in Nat /\ t <= 8000 /\ outcome \in Nat /\ outcome <= 8000
    BY <2>7
  <2>3. \A w \in Nat : w <= 80000 => w \div 10 \in Nat /\ w \div 10 <= 8000
    OBVIOUS
  <2>4. 7 * t + 3 * outcome \in Nat /\ 7 * t + 3 * outcome <= 80000
    BY <2>2
  <2>5. (7 * t + 3 * outcome) \div 10 \in Nat /\ (7 * t + 3 * outcome) \div 10 <= 8000
    BY <2>3, <2>4
  <2> HIDE DEF FULL_TRUST
  <2>6. \A v \in Nat : v <= 8000 => v \in 0 .. FULL_TRUST
    BY <2>0
  <2> QED BY <2>5, <2>6 DEF t
<1>4. trust' \in [Peers -> 0 .. FULL_TRUST]
  BY <1>1, <1>3 DEF TypeInv
<1> QED BY <1>2, <1>4 DEF TypeInv

\* What a service other than calls does to the wire.
SendsElsewhere ==
    /\ UNCHANGED << scenario, rpcVars >>
    /\ \E taken, messages : /\ wire' = (wire \ taken) \cup messages
                            /\ \A m \in messages : Foreign(m) /\ AtHome(m)

LEMMA FetchSends ==
    ASSUME TypeInv, FetchNext, UNCHANGED rpcVars
    PROVE  SendsElsewhere
<1>1. ASSUME NEW taken, NEW messages, wire' = (wire \ taken) \cup messages, scenario' = scenario,
             \A m \in messages : Foreign(m) /\ AtHome(m)
      PROVE  SendsElsewhere
  BY <1>1 DEF SendsElsewhere
<1> DEFINE none == {}
<1>2. \A m \in none : Foreign(m) /\ AtHome(m)
  OBVIOUS
<1> HIDE DEF none
<1>3. ASSUME NEW f \in Fetches, StartFetch(f) PROVE SendsElsewhere
  <2>1. PICK body \in {EmbeddingRequest, ChainRequest} : wire' = (wire \ {}) \cup {Envelope(Me, PeerOf(f), body)}
    BY <1>3 DEF StartFetch, Exchange
  <2> DEFINE messages == {Envelope(Me, PeerOf(f), body)}
  <2>2. PeerOf(f) \in Peers
    BY SlotShape DEF TypeInv
  <2>3. \A m \in messages : Foreign(m) /\ AtHome(m)
    BY <2>2 DEF Foreign, AtHome, Envelope, EmbeddingRequest, ChainRequest
  <2>4. scenario' = scenario /\ wire' = (wire \ none) \cup messages
    BY <1>3, <2>1 DEF StartFetch, none
  <2> HIDE DEF messages
  <2> QED BY <1>1, <2>3, <2>4
<1>4. ASSUME NEW f \in Fetches, EndFetch(f) PROVE SendsElsewhere
  <2>1. scenario' = scenario /\ wire' = (wire \ none) \cup none
    BY <1>4 DEF EndFetch, none
  <2> QED BY <1>1, <1>2, <2>1
<1>5. ASSUME NEW m \in wire, OnEmbeddingRequest(m) PROVE SendsElsewhere
  <2> DEFINE chunks == Sent(EmbeddingBlob, EMBEDDING_CHUNK_BYTES)
             messages == {Envelope(m.to, m.from, EmbeddingResponse(i, Len(chunks), chunks[i])) : i \in DOMAIN chunks}
             taken == {m}
  <2>1. scenario' = scenario /\ wire' = (wire \ taken) \cup messages
    BY <1>5 DEF OnEmbeddingRequest, Exchange
  <2>2. AtHome(m)
    BY DEF TypeInv
  <2>3. \A r \in messages : Foreign(r) /\ AtHome(r)
    BY <2>2 DEF Foreign, AtHome, Envelope, EmbeddingResponse
  <2> HIDE DEF messages, taken
  <2> QED BY <1>1, <2>1, <2>3
<1>6. ASSUME NEW m \in wire, OnChainRequest(m) PROVE SendsElsewhere
  <2> DEFINE chunks == Sent(chains[m.to], CHAIN_ENTRIES_PER_CHUNK)
             messages == {Envelope(m.to, m.from, ChainResponse(i, Len(chunks), chunks[i])) : i \in DOMAIN chunks}
             taken == {m}
  <2>1. scenario' = scenario /\ wire' = (wire \ taken) \cup messages
    BY <1>6 DEF OnChainRequest, Exchange
  <2>2. AtHome(m)
    BY DEF TypeInv
  <2>3. \A r \in messages : Foreign(r) /\ AtHome(r)
    BY <2>2 DEF Foreign, AtHome, Envelope, ChainResponse
  <2> HIDE DEF messages, taken
  <2> QED BY <1>1, <2>1, <2>3
<1>7. ASSUME NEW m \in wire, OnChunk(m) PROVE SendsElsewhere
  <2> DEFINE taken == {m}
  <2>1. scenario' = scenario /\ wire' = (wire \ taken) \cup none
    BY <1>7 DEF OnChunk, Exchange, none
  <2> HIDE DEF taken
  <2> QED BY <1>1, <1>2, <2>1
<1>8. ASSUME NEW p \in Peers, Checkpoint(p) \/ RestartPeer(p) PROVE SendsElsewhere
  <2>1. scenario' = scenario /\ wire' = (wire \ none) \cup none
    BY <1>8 DEF Checkpoint, RestartPeer, none
  <2> QED BY <1>1, <1>2, <2>1
<1> QED BY <1>3, <1>4, <1>5, <1>6, <1>7, <1>8 DEF FetchNext, FetchReceive

(* Every step is one of a call, or does no more than send elsewhere.       *)
LEMMA RpcOrElsewhere ==
    ASSUME TypeInv, [Next]_vars
    PROVE  RpcNext \/ SendsElsewhere
<1> DEFINE none == {}
<1>1. ASSUME NEW taken, wire' = (wire \ taken) \cup none, UNCHANGED << scenario, rpcVars >>
      PROVE  SendsElsewhere
  <2>1. \A m \in none : Foreign(m) /\ AtHome(m)
    OBVIOUS
  <2> HIDE DEF none
  <2> QED BY <1>1, <2>1 DEF SendsElsewhere
<1>2. CASE FetchNext /\ UNCHANGED << rpcVars, answererVars >>
  BY <1>2, FetchSends
<1>3. CASE AnswererNext /\ UNCHANGED << rpcVars, fetchVars >>
  <2>1. UNCHANGED << scenario, rpcVars >> /\ wire' = (wire \ none) \cup none
    BY <1>3 DEF AnswererNext, Signal, OfferAccepted, OfferRaises, ConnectionEnds, OnBrowserQuery
  <2> HIDE DEF none
  <2> QED BY <1>1, <2>1
<1>4. CASE \E m \in wire : Lose(m) /\ UNCHANGED << rpcVars, fetchVars, answererVars >>
  <2>1. PICK m \in wire : Lose(m) /\ UNCHANGED << rpcVars, fetchVars, answererVars >>
    BY <1>4
  <2> DEFINE taken == {m}
  <2>2. UNCHANGED << scenario, rpcVars >> /\ wire' = (wire \ taken) \cup none
    BY <2>1 DEF Lose, Exchange
  <2> HIDE DEF taken, none
  <2> QED BY <1>1, <2>2
<1>5. CASE UNCHANGED vars
  <2>1. UNCHANGED << scenario, rpcVars >> /\ wire' = (wire \ none) \cup none
    BY <1>5 DEF vars
  <2> HIDE DEF none
  <2> QED BY <1>1, <2>1
<1> HIDE DEF none
<1> QED BY <1>2, <1>3, <1>4, <1>5 DEF Next

LEMMA TypeQueries ==
    ASSUME TypeInv, NEW m \in wire, RpcReceive(m)
    PROVE  TypeInv'
<1> DEFINE taken == {m}
<1>1. AtHome(m)
  BY DEF TypeInv
<1>2. ASSUME NEW body, wire' = (wire \ {m}) \cup {Envelope(m.to, m.from, body)}, UNCHANGED << scenario, rpcVars >>
      PROVE  TypeInv'
  <2> DEFINE messages == {Envelope(m.to, m.from, body)}
  <2>1. wire' = (wire \ taken) \cup messages /\ \A r \in messages : AtHome(r)
    BY <1>1, <1>2 DEF AtHome, Envelope
  <2> HIDE DEF messages, taken
  <2> QED BY <1>2, <2>1, TypeElsewhere DEF rpcVars
<1>3. CASE OnQuery(m)
  BY <1>2, <1>3 DEF OnQuery, Exchange
<1>4. CASE OnCalibrationQuery(m)
  <2>1. PICK body : wire' = (wire \ {m}) \cup {Envelope(m.to, m.from, body)}
    BY <1>4 DEF OnCalibrationQuery, Exchange
  <2> QED BY <1>2, <1>4, <2>1 DEF OnCalibrationQuery
<1>5. CASE OnResponse(m) \/ OnCalibrationResponse(m)
  <2> DEFINE none == {}
  <2>1. /\ wire' = (wire \ taken) \cup none /\ \A r \in none : AtHome(r)
        /\ DOMAIN pending' = DOMAIN pending /\ calls' = calls /\ scenario' = scenario
        /\ UNCHANGED << holdout, fed, merged, trust >>
    BY <1>5 DEF OnResponse, OnCalibrationResponse, Exchange
  <2> HIDE DEF none, taken
  <2> QED BY <2>1, TypeElsewhere
<1> QED BY <1>3, <1>4, <1>5 DEF RpcReceive

LEMMA TypeNext ==
    ASSUME TypeInv, OwnInv, [Next]_vars
    PROVE  TypeInv'
<1>1. ASSUME NEW c \in Calls, NEW p \in Peers, EndQuery(c, p) PROVE TypeInv'
  <2>1. PICK outcome : Ends(c, p, outcome, "waiting")
    BY <1>1, EndQueryDoes
  <2>2. trust' = trust
    BY <1>1, EndQueryDoes
  <2> QED BY <2>1, <2>2, TypeEnds DEF TypeInv
<1>2. ASSUME NEW c \in Calls, NEW p \in Peers, EndCalibration(c, p) PROVE TypeInv'
  <2>1. PICK state \in {"waiting", "done"} : Ends(c, p, Abstained, state)
    BY <1>2, EndCalibrationDoes
  <2>2. ~ Asks(scenario, c)
    BY <1>2, EndCalibrationDoes
  <2>3. trust' = trust \/ \E labels : trust' = [trust EXCEPT ![p] = Calibrated(trust[p], labels, calls[c].samples)]
    BY <1>2, EndCalibrationDoes
  <2>4. \A labels : Calibrated(trust[p], labels, calls[c].samples) \in 0 .. FULL_TRUST
    <3>1. calls[c].samples \in Seq(Material(scenario)) /\ trust[p] \in 0 .. FULL_TRUST
      BY DEF TypeInv, CallTyped, Calls
    <3> QED BY <3>1, CalibratedType
  <2>5. trust' \in [Peers -> 0 .. FULL_TRUST]
    BY <2>3, <2>4 DEF TypeInv
  <2> QED BY <2>1, <2>2, <2>5, TypeEnds
<1>3. ASSUME NEW c \in Calls, CallGoesOn(c) PROVE TypeInv'
  BY <1>1, <1>2, <1>3, TypeConclude DEF CallGoesOn
<1>4. CASE RpcNext
  BY <1>3, <1>4, TypeStartInfer, TypeStartCalibration, TypeQueries, TypeObserve, TypeMerge DEF RpcNext
<1>5. CASE SendsElsewhere
  <2>1. PICK taken, messages : wire' = (wire \ taken) \cup messages /\ \A m \in messages : AtHome(m)
    BY <1>5 DEF SendsElsewhere
  <2>2. UNCHANGED << scenario, rpcVars >>
    BY <1>5 DEF SendsElsewhere
  <2> QED BY <2>1, <2>2, TypeElsewhere DEF rpcVars
<1> QED BY <1>4, <1>5, RpcOrElsewhere

(* The tables hold exactly the requests that wait, and values have their   *)
(* types (_pending and _pending_calib of rpc.py, _pending_emb and          *)
(* _pending_chain of net_node.py).                                         *)
THEOREM ServicesAreTyped == Spec => []TypeOK
<1> DEFINE Live == live \subseteq Offers
<1>1. Init => Live
  BY DEF Init, AnswererInit
<1>2. Live /\ [Next]_vars => Live'
  <2> SUFFICES ASSUME Live, [Next]_vars PROVE Live'
    OBVIOUS
  <2>1. scenario' = scenario /\ (UNCHANGED answererVars \/ AnswererNext)
    BY AnswererSteps
  <2>2. Offers' = Offers
    BY <2>1 DEF Offers
  <2> QED BY <2>1, <2>2 DEF answererVars, AnswererNext, Signal, OfferAccepted, Kept, OfferRaises, ConnectionEnds, OnBrowserQuery
<1>3. Init => RecentInv
  BY AnswerersAssumption DEF Init, AnswererInit, RecentInv, InOrder, ToSet
<1>4. OwnInv /\ TypeInv /\ FetchInv /\ RecentInv /\ Live => TypeOK
  <2> SUFFICES ASSUME OwnInv, TypeInv, FetchInv, RecentInv, Live PROVE TypeOK
    OBVIOUS
  <2>1. DOMAIN pending = UNION {Waiting(c) : c \in Calls}
    <3>1. ASSUME NEW q \in DOMAIN pending PROVE q \in UNION {Waiting(c) : c \in Calls}
      <4>1. PICK c \in Calls : \E p \in ToSet(calls[c].asked) : q = << c, p >> /\ calls[c].got[p] = Nothing
        BY DEF TypeInv, TableFits, Calls
      <4>2. q \in Waiting(c)
        BY <4>1 DEF Waiting
      <4> QED BY <4>2
    <3>2. ASSUME NEW c \in Calls, NEW q \in Waiting(c) PROVE q \in DOMAIN pending
      BY DEF Waiting, TypeInv, TableFits, Calls
    <3> QED BY <3>1, <3>2
  <2>2. \A c \in Calls : calls[c].state = "done" => calls[c].answer # Nothing \/ Kind(c) = "calibrate"
    BY DEF TypeInv, CallTyped, Asks, Kind, Calls
  <2>3. \A s \in DOMAIN slots : fetches[slots[s].by].state = "waiting" /\ Slot(slots[s].by) = s
    BY DEF FetchInv, SlotInv
  <2>4. \A p \in Peers : chains[p] \in claimed[p]
    BY DEF FetchInv, ClaimInv
  <2>5. IsInjective(recent) /\ Len(recent) <= RECENT_BROWSER_CLIENTS_MAX
    BY OrderIsInjective DEF RecentInv, IsInjective
  <2>6. \A m \in wire : {m.from, m.to} \subseteq Peers \cup {Me}
    BY DEF TypeInv, AtHome
  <2> QED BY <2>1, <2>2, <2>3, <2>4, <2>5, <2>6 DEF TypeInv, TypeOK
<1> HIDE DEF Live
<1> QED BY <1>1, <1>2, <1>3, <1>4, OwnInit, OwnNext, TypeStarts, TypeNext, FetchStarts, FetchNextKeeps, RecentNext, PTL DEF Spec

-----------------------------------------------------------------------------
(* Calibration.                                                            *)

Rows(samples) == [i \in DOMAIN samples |-> samples[i].x]
Exam(samples) == Chunks(Rows(samples), CALIB_CHUNK)
Opinion(sc, p, xs) == [i \in DOMAIN xs |-> sc.knows[p][xs[i]].label]

\* Where a chunk begins and ends.
ChunkOf(s, size, k) == SubSeq(s, (k - 1) * size + 1, Min({k * size, Len(s)}))

ChunkTotal(len, size) == (len + size - 1) \div size

\* The chunk is the l elements after the first a, in any sequence of this length.
Runs(len, size, k, a, l) ==
    /\ a + l <= len
    /\ \A T : \A t \in Seq(T) : Len(t) = len => ChunkOf(t, size, k) = [j \in 1 .. l |-> t[a + j]]

LEMMA ChunkRuns ==
    ASSUME NEW S, NEW s \in Seq(S), NEW size \in Nat \ {0}
    PROVE  /\ ChunkTotal(Len(s), size) \in Nat
           /\ Chunks(s, size) = [k \in 1 .. ChunkTotal(Len(s), size) |-> ChunkOf(s, size, k)]
           /\ \A k \in 1 .. ChunkTotal(Len(s), size) : \E a \in Nat, l \in 1 .. Len(s) : Runs(Len(s), size, k, a, l)
<1> DEFINE n == (Len(s) + size - 1) \div size
<1>1. Len(s) \in Nat
  OBVIOUS
<1>2. /\ n \in Nat
      /\ \A k \in 1 .. n : (k - 1) * size \in Nat /\ (k - 1) * size < Len(s) /\ k * size = (k - 1) * size + size
  BY <1>1, ChunkCount
<1>3. Chunks(s, size) = [k \in 1 .. n |-> ChunkOf(s, size, k)]
  BY DEF Chunks, ChunkOf
<1> HIDE DEF n
<1>4. ASSUME NEW k \in 1 .. n
      PROVE  \E a \in Nat, l \in 1 .. Len(s) : Runs(Len(s), size, k, a, l)
  <2> DEFINE a == (k - 1) * size
             e == Min({k * size, Len(s)})
             l == e - a
  <2>1. a \in Nat /\ a < Len(s) /\ k * size = a + size
    BY <1>2
  <2> HIDE DEF a
  <2>2. e = IF a + size <= Len(s) THEN a + size ELSE Len(s)
    BY <1>1, <2>1, MinIs
  <2> HIDE DEF e
  <2>3. e \in Nat /\ e <= Len(s) /\ l \in 1 .. Len(s) /\ a + l = e
    BY <1>1, <2>1, <2>2
  <2>4. ASSUME NEW T, NEW t \in Seq(T), Len(t) = Len(s)
        PROVE  ChunkOf(t, size, k) = [j \in 1 .. l |-> t[a + j]]
    <3>1. ChunkOf(t, size, k) = SubSeq(t, a + 1, e)
      BY <2>4 DEF ChunkOf, a, e
    <3>2. SubSeq(t, a + 1, e) = [j \in 1 .. 1 + e - (a + 1) |-> t[a + 1 + j - 1]]
      BY <2>1, <2>3
    <3>3. 1 + e - (a + 1) = l /\ \A j \in 1 .. l : a + 1 + j - 1 = a + j
      BY <2>1, <2>3
    <3> QED BY <3>1, <3>2, <3>3
  <2> HIDE DEF l
  <2>5. Runs(Len(s), size, k, a, l)
    BY <2>3, <2>4 DEF Runs
  <2> QED BY <2>1, <2>3, <2>5
<1> QED BY <1>2, <1>3, <1>4 DEF n, ChunkTotal

LEMMA ExamShape ==
    ASSUME NEW S, NEW samples \in Seq(S)
    PROVE  /\ \E n \in Nat : DOMAIN Exam(samples) = 1 .. n
           /\ \A i \in DOMAIN Exam(samples) : DOMAIN Exam(samples)[i] # {}
<1> DEFINE rows == Rows(samples)
           T == {samples[i].x : i \in DOMAIN samples}
           n == ChunkTotal(Len(rows), CALIB_CHUNK)
<1>1. rows \in Seq(T)
  <2>1. DOMAIN samples = 1 .. Len(samples) /\ Len(samples) \in Nat
    OBVIOUS
  <2>2. rows \in [1 .. Len(samples) -> T]
    BY <2>1 DEF Rows
  <2> HIDE DEF rows, T
  <2> QED BY <2>1, <2>2
<1>2. CALIB_CHUNK \in Nat \ {0}
  BY RpcAssumption
<1> HIDE DEF rows, T
<1>3. n \in Nat /\ Exam(samples) = [k \in 1 .. n |-> ChunkOf(rows, CALIB_CHUNK, k)]
  BY <1>1, <1>2, ChunkRuns DEF Exam, rows
<1>4. ASSUME NEW k \in 1 .. n PROVE DOMAIN ChunkOf(rows, CALIB_CHUNK, k) # {}
  <2>1. PICK a \in Nat, l \in 1 .. Len(rows) : Runs(Len(rows), CALIB_CHUNK, k, a, l)
    BY <1>1, <1>2, ChunkRuns
  <2>2. ChunkOf(rows, CALIB_CHUNK, k) = [j \in 1 .. l |-> rows[a + j]]
    BY <1>1, <2>1 DEF Runs
  <2>3. 1 \in 1 .. l
    BY <1>1
  <2> QED BY <2>2, <2>3
<1> HIDE DEF n
<1> QED BY <1>3, <1>4

\* What p says to each chunk, and about each sample.
Opinions(sc, p, samples) == [i \in DOMAIN Exam(samples) |-> Opinion(sc, p, Exam(samples)[i])]
Labels(sc, p, samples) == [i \in DOMAIN samples |-> sc.knows[p][samples[i].x].label]

(* The opinions on the chunks, together, are those on the samples.         *)
LEMMA OpinionOfAll ==
    ASSUME NEW sc, NEW p, NEW S, NEW samples \in Seq(S), samples # << >>
    PROVE  FlattenSeq(Opinions(sc, p, samples)) = Labels(sc, p, samples)
<1> DEFINE rows == Rows(samples)
           all == Labels(sc, p, samples)
           T == {samples[i].x : i \in DOMAIN samples}
           U == {all[i] : i \in DOMAIN samples}
           parts == Opinions(sc, p, samples)
           n == ChunkTotal(Len(rows), CALIB_CHUNK)
<1>1. DOMAIN samples = 1 .. Len(samples) /\ Len(samples) \in Nat /\ Len(samples) # 0
  OBVIOUS
<1>2. rows \in [1 .. Len(samples) -> T] /\ all \in [1 .. Len(samples) -> U]
  <2> HIDE DEF all
  <2>1. \A i \in DOMAIN samples : all[i] \in U
    OBVIOUS
  <2> QED BY <1>1, <2>1 DEF Rows, all, Labels
<1>3. \A j \in 1 .. Len(samples) : all[j] = sc.knows[p][rows[j]].label
  BY <1>1 DEF Rows, Labels
<1>4. CALIB_CHUNK \in Nat \ {0}
  BY RpcAssumption
<1> HIDE DEF rows, all, T, U
<1>5. rows \in Seq(T) /\ all \in Seq(U) /\ Len(rows) = Len(samples) /\ Len(all) = Len(samples) /\ all # << >>
  BY <1>1, <1>2
<1>6. n \in Nat /\ Exam(samples) = [k \in 1 .. n |-> ChunkOf(rows, CALIB_CHUNK, k)]
  BY <1>4, <1>5, ChunkRuns DEF Exam, rows
<1>7. Chunks(all, CALIB_CHUNK) = [k \in 1 .. n |-> ChunkOf(all, CALIB_CHUNK, k)]
  BY <1>4, <1>5, ChunkRuns
<1>8. ASSUME NEW k \in 1 .. n PROVE Opinion(sc, p, ChunkOf(rows, CALIB_CHUNK, k)) = ChunkOf(all, CALIB_CHUNK, k)
  <2>1. PICK a \in Nat, l \in 1 .. Len(rows) : Runs(Len(rows), CALIB_CHUNK, k, a, l)
    BY <1>4, <1>5, ChunkRuns
  <2>2. /\ ChunkOf(rows, CALIB_CHUNK, k) = [j \in 1 .. l |-> rows[a + j]]
        /\ ChunkOf(all, CALIB_CHUNK, k) = [j \in 1 .. l |-> all[a + j]]
    BY <1>5, <2>1 DEF Runs
  <2>3. \A j \in 1 .. l : a + j \in 1 .. Len(samples)
    BY <1>1, <1>5, <2>1 DEF Runs
  <2>4. Opinion(sc, p, ChunkOf(rows, CALIB_CHUNK, k)) = [j \in 1 .. l |-> sc.knows[p][rows[a + j]].label]
    BY <2>2 DEF Opinion
  <2> QED BY <1>3, <2>2, <2>3, <2>4
<1> HIDE DEF n
<1>9. parts = Chunks(all, CALIB_CHUNK)
  BY <1>6, <1>7, <1>8 DEF Opinions
<1>10. FlattenSeq(Chunks(all, CALIB_CHUNK)) = all
  BY <1>4, <1>5, ChunksFlatten
<1> HIDE DEF parts
<1>11. FlattenSeq(parts) = all
  BY <1>9, <1>10
<1> QED BY <1>11 DEF parts, all

IsExam(m) == m.body.k \in {"calib_q", "calib_r"}

\* A question of the exam of call c for p, or what p says to it.
ExamMessage(sc, samples, c, p, m) ==
    /\ m.body.id = << c, p >> /\ m.body.i \in DOMAIN Exam(samples)
    /\ m.body.k = "calib_q" => m.to = p /\ m.body.xs = Exam(samples)[m.body.i]
    /\ m.body.k = "calib_r" => m.body.labels = Opinion(sc, p, Exam(samples)[m.body.i])

MessagesOfExams(sc, cs, w) ==
    \A m \in w : IsExam(m) =>
        \E c \in DOMAIN sc.calls : \E p : /\ ~ Asks(sc, c) /\ cs[c].state # "idle"
                                          /\ ExamMessage(sc, cs[c].samples, c, p, m)

\* Every question is in one message at most: itself, or its answer.
AskedOnce(w) ==
    \A m, r \in w : IsExam(m) /\ IsExam(r) /\ m.body.id = r.body.id /\ m.body.i = r.body.i => m = r

Answered(exam, entry) == {i \in DOMAIN exam : entry.labels[i] # << >>}

Graded(sc, p, exam, entry) ==
    /\ DOMAIN entry = {"labels", "got"} /\ entry.labels = [i \in DOMAIN exam |-> entry.labels[i]]
    /\ \A i \in DOMAIN exam : entry.labels[i] \in {<< >>, Opinion(sc, p, exam[i])}
    /\ entry.got = Cardinality(Answered(exam, entry))

AllGraded(sc, cs, table) ==
    \A c \in DOMAIN sc.calls : \A p :
        ~ Asks(sc, c) /\ << c, p >> \in DOMAIN table => Graded(sc, p, Exam(cs[c].samples), table[<< c, p >>])

\* What is on its way has not been counted.
NotYetCounted(w, table) ==
    \A m \in w : IsExam(m) /\ m.body.id \in DOMAIN table => table[m.body.id].labels[m.body.i] = << >>

ExamInv ==
    /\ MessagesOfExams(scenario, calls, wire)
    /\ AskedOnce(wire)
    /\ AllGraded(scenario, calls, pending)
    /\ NotYetCounted(wire, pending)

LEMMA ExamStarts == Init => ExamInv
<1> SUFFICES ASSUME Init PROVE ExamInv
  OBVIOUS
<1>1. wire = {} /\ DOMAIN pending = {}
  BY DEF Init, RpcInit
<1> QED BY <1>1 DEF ExamInv, MessagesOfExams, AskedOnce, AllGraded, NotYetCounted

(* Steps that neither ask nor answer nor count in an exam.                 *)
LEMMA ExamElsewhere ==
    ASSUME ExamInv, scenario' = scenario,
           NEW taken, NEW messages, wire' = (wire \ taken) \cup messages, \A m \in messages : ~ IsExam(m),
           \A c \in DOMAIN scenario.calls : /\ calls'[c].samples = calls[c].samples
                                            /\ calls[c].state # "idle" => calls'[c].state # "idle",
           \A c \in DOMAIN scenario.calls : \A p : ~ Asks(scenario, c) /\ << c, p >> \in DOMAIN pending' =>
                << c, p >> \in DOMAIN pending /\ pending'[<< c, p >>] = pending[<< c, p >>]
    PROVE  ExamInv'
<1>1. \A m \in wire' : IsExam(m) => m \in wire
  OBVIOUS
<1>2. MessagesOfExams(scenario, calls, wire)'
  <2> SUFFICES ASSUME NEW m \in wire', IsExam(m)
               PROVE  \E c \in DOMAIN scenario.calls : \E p :
                        ~ Asks(scenario, c) /\ calls'[c].state # "idle" /\ ExamMessage(scenario, calls'[c].samples, c, p, m)
    BY DEF MessagesOfExams
  <2>1. PICK c, p :
            c \in DOMAIN scenario.calls /\ ~ Asks(scenario, c) /\ calls[c].state # "idle" /\ ExamMessage(scenario, calls[c].samples, c, p, m)
    BY <1>1 DEF ExamInv, MessagesOfExams
  <2> QED BY <2>1
<1>3. AskedOnce(wire)'
  BY <1>1 DEF ExamInv, AskedOnce
<1>4. AllGraded(scenario, calls, pending)'
  BY DEF ExamInv, AllGraded
<1>5. NotYetCounted(wire, pending)'
  <2> SUFFICES ASSUME NEW m \in wire', IsExam(m), m.body.id \in DOMAIN pending'
               PROVE  pending'[m.body.id].labels[m.body.i] = << >>
    BY DEF NotYetCounted
  <2>1. PICK c, p : c \in DOMAIN scenario.calls /\ ~ Asks(scenario, c) /\ ExamMessage(scenario, calls[c].samples, c, p, m)
    BY <1>1 DEF ExamInv, MessagesOfExams
  <2>2. m.body.id = << c, p >>
    BY <2>1 DEF ExamMessage
  <2>3. m.body.id \in DOMAIN pending /\ pending'[m.body.id] = pending[m.body.id]
    BY <2>1, <2>2
  <2> QED BY <1>1, <2>3 DEF ExamInv, NotYetCounted
<1> QED BY <1>2, <1>3, <1>4, <1>5 DEF ExamInv

(* An exam begins.                                                         *)
LEMMA ExamBegins ==
    ASSUME ExamInv, TypeInv, OwnInv, NEW c \in Calls, NEW to, scenario' = scenario,
           ~ Asks(scenario, c), calls[c].state = "idle", OnlyCall(c), Examines(c, to, SampleChunks)
    PROVE  ExamInv'
<1> DEFINE exam == SampleChunks
           messages == {Envelope(Me, p, CalibrationQuery(<< c, p >>, i, exam[i])) : p \in ToSet(to), i \in DOMAIN exam}
           blank == [labels |-> [i \in DOMAIN exam |-> << >>], got |-> 0]
<1>1. /\ calls'[c].state = "waiting" /\ calls'[c].samples = holdout
      /\ DOMAIN pending' = {<< c, p >> : p \in ToSet(to)} \cup DOMAIN pending
      /\ \A q \in DOMAIN pending : (\A p \in ToSet(to) : q # << c, p >>) => pending'[q] = pending[q]
      /\ \A p \in ToSet(to) : pending'[<< c, p >>] = blank
      /\ wire' = wire \cup messages
  BY DEF Examines, OnlyRequests
<1>2. exam = Exam(holdout)
  BY DEF SampleChunks, Exam, Rows
<1>3. \A d \in DOMAIN scenario.calls \ {c} : calls'[d] = calls[d]
  BY CallShape DEF OnlyCall, Calls
<1>4. \A p : << c, p >> \notin DOMAIN pending
  <2>1. calls[c].asked = << >>
    BY DEF TypeInv, CallTyped, Calls
  <2>2. ToSet(calls[c].asked) = {}
    BY <2>1 DEF ToSet
  <2> QED BY <2>2 DEF TypeInv, TableFits
<1>5. ASSUME NEW m \in wire, IsExam(m)
      PROVE  /\ \E d \in DOMAIN scenario.calls : \E p :
                    ~ Asks(scenario, d) /\ calls'[d].state # "idle" /\ ExamMessage(scenario, calls'[d].samples, d, p, m)
             /\ \A p : m.body.id # << c, p >>
  <2>1. PICK d, p :
            d \in DOMAIN scenario.calls /\ ~ Asks(scenario, d) /\ calls[d].state # "idle" /\ ExamMessage(scenario, calls[d].samples, d, p, m)
    BY <1>5 DEF ExamInv, MessagesOfExams
  <2>2. d # c /\ m.body.id = << d, p >>
    BY <2>1 DEF ExamMessage
  <2> QED BY <1>3, <2>1, <2>2
<1> HIDE DEF exam
<1>6. ASSUME NEW m \in messages
      PROVE  \E p \in ToSet(to), i \in DOMAIN exam :
                /\ m = Envelope(Me, p, CalibrationQuery(<< c, p >>, i, exam[i]))
                /\ IsExam(m) /\ m.body.id = << c, p >> /\ m.body.i = i
                /\ ExamMessage(scenario, holdout, c, p, m)
  <2>1. PICK p \in ToSet(to), i \in DOMAIN exam : m = Envelope(Me, p, CalibrationQuery(<< c, p >>, i, exam[i]))
    BY <1>6
  <2>2. /\ m.to = p /\ m.body.k = "calib_q" /\ m.body.id = << c, p >> /\ m.body.i = i /\ m.body.xs = exam[i]
    BY <2>1 DEF Envelope, CalibrationQuery
  <2>3. IsExam(m) /\ ExamMessage(scenario, holdout, c, p, m)
    BY <1>2, <2>2 DEF IsExam, ExamMessage
  <2> QED BY <2>1, <2>2, <2>3
<1> HIDE DEF messages
<1>7. MessagesOfExams(scenario, calls, wire)'
  <2>1. ASSUME NEW m \in messages
        PROVE  \E d \in DOMAIN scenario.calls : \E p :
                    ~ Asks(scenario, d) /\ calls'[d].state # "idle" /\ ExamMessage(scenario, calls'[d].samples, d, p, m)
    BY <1>1, <1>6, <2>1 DEF Calls
  <2> QED BY <1>1, <1>5, <2>1 DEF MessagesOfExams
<1>8. AskedOnce(wire)'
  <2> SUFFICES ASSUME NEW m \in wire', NEW r \in wire', IsExam(m), IsExam(r), m.body.id = r.body.id, m.body.i = r.body.i
               PROVE  m = r
    BY DEF AskedOnce
  <2>1. CASE m \in wire /\ r \in wire
    BY <2>1 DEF ExamInv, AskedOnce
  <2>2. CASE m \in messages /\ r \in messages
    <3>1. PICK p \in ToSet(to), i \in DOMAIN exam :
            m = Envelope(Me, p, CalibrationQuery(<< c, p >>, i, exam[i])) /\ m.body.id = << c, p >> /\ m.body.i = i
      BY <1>6, <2>2
    <3>2. PICK q \in ToSet(to), j \in DOMAIN exam :
            r = Envelope(Me, q, CalibrationQuery(<< c, q >>, j, exam[j])) /\ r.body.id = << c, q >> /\ r.body.i = j
      BY <1>6, <2>2
    <3>3. p = q /\ i = j
      BY <3>1, <3>2
    <3> QED BY <3>1, <3>2, <3>3
  <2>3. CASE (m \in messages /\ r \in wire) \/ (m \in wire /\ r \in messages)
    BY <1>5, <1>6, <2>3
  <2>4. m \in wire \cup messages /\ r \in wire \cup messages
    BY <1>1
  <2> QED BY <2>1, <2>2, <2>3, <2>4
<1>9. \A p : Graded(scenario, p, exam, blank)
  <2>1. DOMAIN blank = {"labels", "got"} /\ blank.labels = [i \in DOMAIN exam |-> << >>] /\ blank.got = 0
    OBVIOUS
  <2> HIDE DEF blank
  <2>2. Answered(exam, blank) = {}
    BY <2>1 DEF Answered
  <2> QED BY <2>1, <2>2, FS_EmptySet DEF Graded
<1>10. AllGraded(scenario, calls, pending)'
  <2> SUFFICES ASSUME NEW d \in DOMAIN scenario.calls, NEW p, ~ Asks(scenario, d), << d, p >> \in DOMAIN pending'
               PROVE  Graded(scenario, p, Exam(calls'[d].samples), pending'[<< d, p >>])
    BY DEF AllGraded
  <2>1. CASE d = c
    <3>1. p \in ToSet(to)
      BY <1>1, <1>4, <2>1
    <3> HIDE DEF blank
    <3> QED BY <1>1, <1>2, <1>9, <2>1, <3>1
  <2>2. CASE d # c
    <3>1. << d, p >> \in DOMAIN pending /\ pending'[<< d, p >>] = pending[<< d, p >>]
      BY <1>1, <2>2
    <3> QED BY <1>3, <2>2, <3>1 DEF ExamInv, AllGraded
  <2> QED BY <2>1, <2>2
<1>11. NotYetCounted(wire, pending)'
  <2> SUFFICES ASSUME NEW m \in wire', IsExam(m), m.body.id \in DOMAIN pending'
               PROVE  pending'[m.body.id].labels[m.body.i] = << >>
    BY DEF NotYetCounted
  <2>1. CASE m \in messages
    <3>1. PICK p \in ToSet(to), i \in DOMAIN exam : m.body.id = << c, p >> /\ m.body.i = i
      BY <1>6, <2>1
    <3> QED BY <1>1, <3>1
  <2>2. CASE m \in wire
    <3>1. m.body.id \in DOMAIN pending /\ pending'[m.body.id] = pending[m.body.id]
      BY <1>1, <1>5, <2>2
    <3> QED BY <2>2, <3>1 DEF ExamInv, NotYetCounted
  <2> QED BY <1>1, <2>1, <2>2
<1> QED BY <1>7, <1>8, <1>10, <1>11 DEF ExamInv

(* p answers a question: its answer takes the place of the question.       *)
LEMMA ExamAnswered ==
    ASSUME ExamInv, NEW m \in wire, OnCalibrationQuery(m)
    PROVE  ExamInv'
<1> DEFINE a == Envelope(m.to, m.from, CalibrationResponse(m.body.id, m.body.i, Opinion(scenario, m.to, m.body.xs)))
<1>1. /\ m.body.k = "calib_q" /\ wire' = (wire \ {m}) \cup {a}
      /\ scenario' = scenario /\ calls' = calls /\ pending' = pending
  BY DEF OnCalibrationQuery, Exchange, Opinion, rpcVars
<1>2. IsExam(m)
  BY <1>1 DEF IsExam
<1>3. PICK c, p : /\ c \in DOMAIN scenario.calls /\ ~ Asks(scenario, c) /\ calls[c].state # "idle"
                  /\ ExamMessage(scenario, calls[c].samples, c, p, m)
  BY <1>2 DEF ExamInv, MessagesOfExams
<1>4. /\ a.body.k = "calib_r" /\ a.body.id = m.body.id /\ a.body.i = m.body.i
      /\ a.body.labels = Opinion(scenario, m.to, m.body.xs)
  BY DEF Envelope, CalibrationResponse
<1> HIDE DEF a
<1>5. IsExam(a) /\ ExamMessage(scenario, calls[c].samples, c, p, a)
  BY <1>1, <1>3, <1>4 DEF IsExam, ExamMessage
<1>6. MessagesOfExams(scenario, calls, wire)'
  BY <1>1, <1>3, <1>5 DEF ExamInv, MessagesOfExams
<1>7. AskedOnce(wire)'
  <2>1. \A r \in wire \ {m} : IsExam(r) => ~ (r.body.id = a.body.id /\ r.body.i = a.body.i)
    BY <1>2, <1>4 DEF ExamInv, AskedOnce
  <2>2. \A r, s \in wire \ {m} : IsExam(r) /\ IsExam(s) /\ r.body.id = s.body.id /\ r.body.i = s.body.i => r = s
    BY DEF ExamInv, AskedOnce
  <2> SUFFICES ASSUME NEW r \in wire', NEW s \in wire', IsExam(r), IsExam(s), r.body.id = s.body.id, r.body.i = s.body.i
               PROVE  r = s
    BY DEF AskedOnce
  <2>3. (r = a \/ r \in wire \ {m}) /\ (s = a \/ s \in wire \ {m})
    BY <1>1
  <2> QED BY <2>1, <2>2, <2>3
<1>8. AllGraded(scenario, calls, pending)'
  BY <1>1 DEF ExamInv, AllGraded
<1>9. NotYetCounted(wire, pending)'
  BY <1>1, <1>2, <1>4 DEF ExamInv, NotYetCounted
<1> QED BY <1>6, <1>7, <1>8, <1>9 DEF ExamInv

(* An answer is put where its question was, and counted once.              *)
LEMMA ExamCounted ==
    ASSUME ExamInv, TypeInv, NEW m \in wire, OnCalibrationResponse(m)
    PROVE  ExamInv'
<1> DEFINE id == m.body.id
           i == m.body.i
           old == pending[id]
           new == [labels |-> [old.labels EXCEPT ![i] = m.body.labels], got |-> old.got + 1]
           taken == {m}
           none == {}
<1>1. /\ m.body.k = "calib_r" /\ wire' = (wire \ taken) \cup none
      /\ scenario' = scenario /\ calls' = calls
      /\ pending' = IF id \in DOMAIN pending THEN [pending EXCEPT ![id] = new] ELSE pending
  BY DEF OnCalibrationResponse, Exchange, Placed
<1>2. IsExam(m)
  BY <1>1 DEF IsExam
<1>3. PICK c, p : /\ c \in DOMAIN scenario.calls /\ ~ Asks(scenario, c) /\ calls[c].state # "idle"
                  /\ ExamMessage(scenario, calls[c].samples, c, p, m)
  BY <1>2 DEF ExamInv, MessagesOfExams
<1>4. id = << c, p >> /\ i \in DOMAIN Exam(calls[c].samples) /\ m.body.labels = Opinion(scenario, p, Exam(calls[c].samples)[i])
  BY <1>1, <1>3 DEF ExamMessage
<1>5. CASE id \notin DOMAIN pending
  <2>1. pending' = pending /\ \A r \in none : ~ IsExam(r)
    BY <1>1, <1>5
  <2> HIDE DEF taken, none
  <2> QED BY <1>1, <2>1, ExamElsewhere
<1>6. CASE id \in DOMAIN pending
  <2> DEFINE exam == Exam(calls[c].samples)
  <2>1. Graded(scenario, p, exam, old)
    BY <1>3, <1>4, <1>6 DEF ExamInv, AllGraded
  <2>2. old.labels[i] = << >>
    BY <1>2, <1>6 DEF ExamInv, NotYetCounted
  <2>3. (\E n \in Nat : DOMAIN exam = 1 .. n) /\ DOMAIN exam[i] # {}
    <3>1. calls[c].samples \in Seq(Material(scenario))
      BY <1>3 DEF TypeInv, CallTyped
    <3> QED BY <1>4, <3>1, ExamShape
  <2>4. /\ pending' = [pending EXCEPT ![id] = new]
        /\ DOMAIN pending' = DOMAIN pending /\ pending'[id] = new
        /\ \A q \in DOMAIN pending : q # id => pending'[q] = pending[q]
    BY <1>1, <1>6
  <2>5. m.body.labels # << >>
    <3>1. DOMAIN Opinion(scenario, p, exam[i]) = DOMAIN exam[i]
      BY DEF Opinion
    <3> QED BY <1>4, <2>3, <3>1
  <2>6. /\ DOMAIN new = {"labels", "got"} /\ new.got = old.got + 1
        /\ new.labels = [old.labels EXCEPT ![i] = m.body.labels]
    OBVIOUS
  <2> HIDE DEF new, old
  <2>7. /\ DOMAIN old.labels = DOMAIN exam /\ DOMAIN new.labels = DOMAIN exam
        /\ new.labels[i] = m.body.labels
        /\ \A j \in DOMAIN exam : j # i => new.labels[j] = old.labels[j]
    BY <1>4, <2>1, <2>6 DEF Graded
  <2> HIDE DEF exam
  <2>8. Graded(scenario, p, exam, new)
    <3>1. Answered(exam, new) = Answered(exam, old) \cup {i} /\ i \notin Answered(exam, old)
      BY <1>4, <2>2, <2>5, <2>7 DEF Answered, exam
    <3>2. IsFiniteSet(Answered(exam, old))
      <4>1. IsFiniteSet(DOMAIN exam)
        BY <2>3, FS_Interval
      <4>2. Answered(exam, old) \in SUBSET DOMAIN exam
        BY DEF Answered
      <4> QED BY <4>1, <4>2, FS_Subset
    <3>3. Cardinality(Answered(exam, new)) = Cardinality(Answered(exam, old)) + 1
      BY <3>1, <3>2, FS_AddElement
    <3>4. \A j \in DOMAIN exam : new.labels[j] \in {<< >>, Opinion(scenario, p, exam[j])}
      BY <1>4, <2>1, <2>7 DEF Graded, exam
    <3>5. new.labels = [j \in DOMAIN exam |-> new.labels[j]]
      <4>1. new.labels = [j \in DOMAIN old.labels |-> IF j = i THEN m.body.labels ELSE old.labels[j]]
        BY <2>6
      <4> QED BY <2>7, <4>1
    <3> QED BY <2>1, <2>6, <2>7, <3>3, <3>4, <3>5 DEF Graded
  <2>9. AllGraded(scenario, calls, pending)'
    <3> SUFFICES ASSUME NEW d \in DOMAIN scenario.calls, NEW q, ~ Asks(scenario, d), << d, q >> \in DOMAIN pending
                 PROVE  Graded(scenario, q, Exam(calls[d].samples), pending'[<< d, q >>])
      BY <1>1, <2>4 DEF AllGraded
    <3>1. CASE << d, q >> = id
      <4>1. d = c /\ q = p
        BY <1>4, <3>1
      <4> QED BY <2>4, <2>8, <3>1, <4>1 DEF exam
    <3>2. CASE << d, q >> # id
      BY <2>4, <3>2 DEF ExamInv, AllGraded
    <3> QED BY <3>1, <3>2
  <2>10. wire' = wire \ {m}
    BY <1>1
  <2>11. MessagesOfExams(scenario, calls, wire)' /\ AskedOnce(wire)'
    BY <1>1, <2>10 DEF ExamInv, MessagesOfExams, AskedOnce
  <2>12. NotYetCounted(wire, pending)'
    <3> SUFFICES ASSUME NEW r \in wire', IsExam(r), r.body.id \in DOMAIN pending
                 PROVE  pending'[r.body.id].labels[r.body.i] = << >>
      BY <2>4 DEF NotYetCounted
    <3>1. r \in wire /\ r # m /\ pending[r.body.id].labels[r.body.i] = << >>
      BY <2>10 DEF ExamInv, NotYetCounted
    <3>2. CASE r.body.id # id
      BY <2>4, <3>1, <3>2
    <3>3. CASE r.body.id = id
      <4>1. r.body.i # i
        BY <1>2, <3>1, <3>3 DEF ExamInv, AskedOnce
      <4>2. PICK d, q : d \in DOMAIN scenario.calls /\ ExamMessage(scenario, calls[d].samples, d, q, r)
        BY <3>1 DEF ExamInv, MessagesOfExams
      <4>3. d = c
        BY <1>4, <3>3, <4>2 DEF ExamMessage
      <4>4. r.body.i \in DOMAIN exam
        BY <4>2, <4>3 DEF ExamMessage, exam
      <4> QED BY <2>4, <2>7, <3>1, <3>3, <4>1, <4>4 DEF old
    <3> QED BY <3>2, <3>3
  <2> QED BY <2>9, <2>11, <2>12 DEF ExamInv
<1> QED BY <1>5, <1>6

\* Nothing is sent, and no exam has another entry or other samples.
LEMMA ExamSilent ==
    ASSUME ExamInv, OwnInv, NEW c \in Calls, scenario' = scenario, wire' = wire, OnlyCall(c),
           calls'[c].samples = calls[c].samples, calls'[c].state # "idle",
           \A d, p : ~ Asks(scenario, d) /\ << d, p >> \in DOMAIN pending' =>
                << d, p >> \in DOMAIN pending /\ pending'[<< d, p >>] = pending[<< d, p >>]
    PROVE  ExamInv'
<1> DEFINE none == {}
<1>1. wire' = (wire \ none) \cup none /\ \A m \in none : ~ IsExam(m)
  OBVIOUS
<1>2. \A d \in DOMAIN scenario.calls : /\ calls'[d].samples = calls[d].samples
                                       /\ calls[d].state # "idle" => calls'[d].state # "idle"
  BY CallShape DEF OnlyCall, Calls
<1> HIDE DEF none
<1> QED BY <1>1, <1>2, ExamElsewhere

LEMMA ExamNext ==
    ASSUME ExamInv, TypeInv, OwnInv, [Next]_vars
    PROVE  ExamInv'
<1>1. ASSUME NEW c \in Calls, StartInfer(c) PROVE ExamInv'
  <2> DEFINE messages == {Envelope(Me, p, Query(<< c, p >>, X(c))) : p \in ToSet(Addressees(c))}
             none == {}
  <2>1. /\ scenario' = scenario /\ Asks(scenario, c) /\ OnlyCall(c) /\ OnlyRequests(c, ToSet(Addressees(c)))
        /\ calls'[c].samples = calls[c].samples /\ calls'[c].state # "idle"
        /\ DOMAIN pending' = {<< c, p >> : p \in ToSet(Addressees(c))} \cup DOMAIN pending
        /\ wire' = wire \cup messages
    BY <1>1, StartInferDoes
  <2>2. \A m \in messages : ~ IsExam(m)
    BY DEF IsExam, Envelope, Query
  <2>3. wire' = (wire \ none) \cup messages
    BY <2>1
  <2>4. \A d \in DOMAIN scenario.calls : /\ calls'[d].samples = calls[d].samples
                                         /\ calls[d].state # "idle" => calls'[d].state # "idle"
    BY <2>1, CallShape DEF OnlyCall, Calls
  <2>5. \A d \in DOMAIN scenario.calls : \A p : ~ Asks(scenario, d) /\ << d, p >> \in DOMAIN pending' =>
                << d, p >> \in DOMAIN pending /\ pending'[<< d, p >>] = pending[<< d, p >>]
    BY <2>1 DEF OnlyRequests
  <2> HIDE DEF messages, none
  <2> QED BY <2>1, <2>2, <2>3, <2>4, <2>5, ExamElsewhere
<1>2. ASSUME NEW c \in Calls, StartCalibration(c) PROVE ExamInv'
  <2>1. /\ scenario' = scenario /\ ~ Asks(scenario, c) /\ calls[c].state = "idle" /\ OnlyCall(c)
        /\ ExaminesNone(c) \/ Examines(c, Others(scenario.calls[c].peers), SampleChunks)
    BY <1>2, StartCalibrationDoes
  <2>2. CASE ExaminesNone(c)
    BY <2>1, <2>2, ExamSilent DEF ExaminesNone
  <2> QED BY <2>1, <2>2, ExamBegins
<1>3. ASSUME NEW c \in Calls, NEW p, NEW outcome, NEW state \in {"waiting", "done"}, Ends(c, p, outcome, state)
      PROVE  ExamInv'
  BY <1>3, ExamSilent DEF Ends
<1>4. ASSUME NEW c \in Calls, CallGoesOn(c) PROVE ExamInv'
  <2>1. CASE Conclude(c)
    BY <2>1, ConcludeDoes, ExamSilent
  <2>2. ASSUME NEW p \in Peers, EndQuery(c, p) PROVE ExamInv'
    BY <1>3, <2>2, EndQueryDoes
  <2>3. ASSUME NEW p \in Peers, EndCalibration(c, p) PROVE ExamInv'
    <3>1. PICK state \in {"waiting", "done"} : Ends(c, p, Abstained, state)
      BY <2>3, EndCalibrationDoes
    <3> QED BY <1>3, <3>1
  <2> QED BY <1>4, <2>1, <2>2, <2>3 DEF CallGoesOn
<1>5. ASSUME NEW m \in wire, OnQuery(m) \/ OnResponse(m) PROVE ExamInv'
  <2>1. PICK messages : /\ wire' = (wire \ {m}) \cup messages /\ \A r \in messages : ~ IsExam(r)
    <3>1. CASE OnQuery(m)
      <4> DEFINE messages == {Envelope(m.to, m.from, Response(m.body.id, scenario.knows[m.to][m.body.x]))}
      <4>1. wire' = (wire \ {m}) \cup messages
        BY <3>1 DEF OnQuery, Exchange
      <4>2. \A r \in messages : ~ IsExam(r)
        BY DEF IsExam, Envelope, Response
      <4> HIDE DEF messages
      <4> QED BY <4>1, <4>2
    <3>2. CASE OnResponse(m)
      <4> DEFINE messages == {}
      <4>1. wire' = (wire \ {m}) \cup messages /\ \A r \in messages : ~ IsExam(r)
        BY <3>2 DEF OnResponse, Exchange
      <4> HIDE DEF messages
      <4> QED BY <4>1
    <3> QED BY <1>5, <3>1, <3>2
  <2>2. scenario' = scenario /\ calls' = calls
    BY <1>5 DEF OnQuery, OnResponse, rpcVars
  <2>3. ASSUME NEW d, NEW p, ~ Asks(scenario, d), << d, p >> \in DOMAIN pending'
        PROVE  << d, p >> \in DOMAIN pending /\ pending'[<< d, p >>] = pending[<< d, p >>]
    <3>1. CASE OnQuery(m)
      BY <2>3, <3>1 DEF OnQuery, rpcVars
    <3>2. CASE OnResponse(m)
      <4>1. PICK c, q : Asks(scenario, c) /\ m.body.id = << c, q >>
        BY <3>2 DEF OnResponse, OwnInv, WireFits, MessageFits
      <4>2. << d, p >> \notin Recipients(m)
        BY <2>3, <4>1 DEF Recipients
      <4> QED BY <2>3, <3>2, <4>2 DEF OnResponse
    <3> QED BY <1>5, <3>1, <3>2
  <2> DEFINE taken == {m}
  <2> HIDE DEF taken
  <2>4. wire' = (wire \ taken) \cup messages
    BY <2>1 DEF taken
  <2> QED BY <2>1, <2>2, <2>3, <2>4, ExamElsewhere
<1>6. ASSUME UNCHANGED << scenario, wire, pending, calls >> PROVE ExamInv'
  BY <1>6 DEF ExamInv, MessagesOfExams, AskedOnce, AllGraded, NotYetCounted
<1>7. CASE Observe \/ \E p \in Peers : MergeJudged(p)
  BY <1>6, <1>7 DEF Observe, MergeJudged
<1>8. CASE RpcNext
  BY <1>1, <1>2, <1>4, <1>5, <1>7, <1>8, ExamAnswered, ExamCounted DEF RpcNext, RpcReceive
<1>9. CASE SendsElsewhere
  <2>1. PICK taken, messages : wire' = (wire \ taken) \cup messages /\ \A m \in messages : Foreign(m)
    BY <1>9 DEF SendsElsewhere
  <2>2. \A m \in messages : ~ IsExam(m)
    BY <2>1 DEF Foreign, IsExam
  <2>3. UNCHANGED << scenario, pending, calls >>
    BY <1>9 DEF SendsElsewhere, rpcVars
  <2> QED BY <2>1, <2>2, <2>3, ExamElsewhere
<1> QED BY <1>8, <1>9, RpcOrElsewhere

(* With an answer counted for each chunk, the labels are what the peer     *)
(* says about the samples, in their order.                                 *)
LEMMA AllAnswered ==
    ASSUME NEW sc, NEW p, NEW S, NEW samples \in Seq(S), samples # << >>, NEW entry,
           Graded(sc, p, Exam(samples), entry), entry.got = Len(entry.labels)
    PROVE  FlattenSeq(entry.labels) = Labels(sc, p, samples)
<1> DEFINE exam == Exam(samples)
           filled == Answered(exam, entry)
<1>1. PICK n \in Nat : DOMAIN exam = 1 .. n
  BY ExamShape
<1>2. /\ entry.labels = [i \in DOMAIN exam |-> entry.labels[i]] /\ entry.got = Cardinality(filled)
      /\ \A i \in DOMAIN exam : entry.labels[i] \in {<< >>, Opinion(sc, p, exam[i])}
  BY DEF Graded
<1>3. filled \in SUBSET (1 .. n) /\ \A i \in filled : entry.labels[i] # << >>
  BY <1>1 DEF Answered
<1>8. FlattenSeq(Opinions(sc, p, samples)) = Labels(sc, p, samples)
  BY OpinionOfAll
<1> HIDE DEF exam, filled
<1>4. IsFiniteSet(1 .. n) /\ Cardinality(1 .. n) = n
  <2>1. Cardinality(1 .. n) = IF 1 > n THEN 0 ELSE n - 1 + 1
    BY FS_Interval
  <2> QED BY <2>1, FS_Interval
<1>5. Len(entry.labels) = n
  <2> DEFINE labels == entry.labels
  <2> HIDE DEF labels
  <2>1. labels = [i \in 1 .. n |-> labels[i]]
    BY <1>1, <1>2 DEF labels
  <2>2. Len(labels) = n
    BY <2>1
  <2> QED BY <2>2 DEF labels
<1>6. filled = 1 .. n
  BY <1>2, <1>3, <1>4, <1>5, FS_Subset
<1>7. entry.labels = Opinions(sc, p, samples)
  <2>1. entry.labels = [i \in DOMAIN exam |-> Opinion(sc, p, exam[i])]
    BY <1>1, <1>2, <1>3, <1>6
  <2> QED BY <2>1 DEF Opinions, exam
<1> QED BY <1>7, <1>8

(* What a step does to the trust in a peer, unless it judges a merge.      *)
LEMMA TrustMoves ==
    ASSUME ExamInv, TypeInv, OwnInv, [Next]_vars, NEW p \in Peers, trust'[p] # trust[p], merged' = merged
    PROVE  \E c \in Calls : calls[c].state = "waiting" /\ trust'[p] = Verdict(trust[p], p, calls[c].samples)
<1>1. RpcNext
  BY RpcOrElsewhere DEF SendsElsewhere, rpcVars
<1>2. \A c \in Calls : ~ StartInfer(c) /\ ~ StartCalibration(c) /\ ~ Conclude(c)
  BY DEF StartInfer, StartCalibration, Conclude
<1>3. \A m \in wire : ~ RpcReceive(m)
  BY DEF RpcReceive, OnQuery, OnCalibrationQuery, OnResponse, OnCalibrationResponse, rpcVars
<1>4. ~ Observe
  BY DEF Observe
<1>5. \A q \in Peers : ~ MergeJudged(q)
  BY DEF MergeJudged, TypeInv
<1>6. \A c \in Calls : \A q : ~ EndQuery(c, q)
  BY DEF EndQuery
<1>7. PICK c \in Calls, q \in Peers : EndCalibration(c, q)
  BY <1>1, <1>2, <1>3, <1>4, <1>5, <1>6 DEF RpcNext, CallGoesOn
<1> DEFINE entry == pending[<< c, q >>]
<1>8. /\ ~ Asks(scenario, c)
      /\ entry.got = Len(entry.labels)
      /\ trust' = [trust EXCEPT ![q] = Calibrated(trust[q], FlattenSeq(entry.labels), calls[c].samples)]
  BY <1>7, EndCalibrationDoes
<1>9. q = p /\ trust'[p] = Calibrated(trust[p], FlattenSeq(entry.labels), calls[c].samples)
  BY <1>8 DEF TypeInv
<1>10. calls[c].state = "waiting" /\ << c, p >> \in DOMAIN pending /\ c \in DOMAIN scenario.calls
  <2>1. calls[c].state = "waiting" /\ q \in ToSet(calls[c].asked) /\ calls[c].got[q] = Nothing
    BY <1>7, EndCalibrationDoes DEF Ends
  <2> QED BY <1>9, <2>1 DEF TypeInv, TableFits, Calls
<1>11. calls[c].samples \in Seq(Material(scenario)) /\ calls[c].samples # << >>
  BY <1>8, <1>10 DEF TypeInv, CallTyped
<1>12. Graded(scenario, p, Exam(calls[c].samples), entry)
  BY <1>8, <1>9, <1>10 DEF ExamInv, AllGraded
<1> HIDE DEF entry
<1>13. FlattenSeq(entry.labels) = Labels(scenario, p, calls[c].samples)
  <2> DEFINE samples == calls[c].samples
             M == Material(scenario)
  <2>1. samples \in Seq(M) /\ samples # << >> /\ Graded(scenario, p, Exam(samples), entry) /\ entry.got = Len(entry.labels)
    BY <1>8, <1>11, <1>12
  <2> HIDE DEF samples, M
  <2>2. FlattenSeq(entry.labels) = Labels(scenario, p, samples)
    BY <2>1, AllAnswered
  <2> QED BY <2>2 DEF samples
<1>14. trust'[p] = Verdict(trust[p], p, calls[c].samples)
  BY <1>9, <1>13 DEF Verdict, Labels
<1> QED BY <1>10, <1>14

(* calibrate_trust() (rpc.py): trust moves by how right a peer is about    *)
(* the samples the call began with, in whatever order its answers come and *)
(* whatever becomes of the holdout meanwhile.                              *)
THEOREM TrustFollowsTheSamples == Spec => CalibratedByTheSamples
<1> DEFINE Moves == \A p \in Peers : trust'[p] # trust[p] /\ merged' = merged =>
                        \E c \in Calls : /\ calls[c].state = "waiting"
                                         /\ trust'[p] = Verdict(trust[p], p, calls[c].samples)
<1>1. ExamInv /\ TypeInv /\ OwnInv /\ [Next]_vars => [Moves]_vars
  BY TrustMoves
<1> QED BY <1>1, ExamStarts, ExamNext, TypeStarts, TypeNext, OwnInit, OwnNext, PTL DEF Spec, CalibratedByTheSamples
=============================================================================
