------------------------------ MODULE Answerers ------------------------------
(***************************************************************************)
(* Browsers that ask the beacon: POST /signal makes an answerer for each   *)
(* offer (network/beacon_status.py), which answers queries over its WebRTC *)
(* data channel (network/webrtc_answerer.py).  A connection may end at any *)
(* time, also while the offer is still being accepted.                     *)
(***************************************************************************)
EXTENDS Wire

CONSTANTS
    Browsers,
    RECENT_BROWSER_CLIENTS_MAX

ASSUME AnswerersAssumption == RECENT_BROWSER_CLIENTS_MAX \in Nat \ {0}

(* A scenario has how many offers there may be (offers) and how many       *)
(* envelopes browsers send (envelopes).                                    *)

VARIABLES
    connections,    \* of every offer: state of its peer connection
    live,           \* _live_answerers
    recent,         \* _recent_browser_clients, oldest first
    asked           \* senders of all answered queries, in order: history

answererVars == << connections, live, recent, asked >>

Offers == 1 .. scenario.offers

AnswererInit ==
    /\ connections = [k \in Offers |-> "none"]
    /\ live = {} /\ recent = << >> /\ asked = << >>

(* _handle_signal() up to its await: the answerer is kept alive from here. *)
Signal(k) ==
    /\ connections[k] = "none"
    /\ connections' = [connections EXCEPT ![k] = "accepting"]
    /\ live' = live \cup {k}
    /\ UNCHANGED << scenario, wire, recent, asked >>

\* Mutant of Kept: the answerer is put into the table once the offer is accepted.
KeptLate(k) == live \cup {k}

Kept(k) == live

(* accept_offer() returns, or raises on what is no session description;    *)
(* then nothing closes the connection, and nothing forgets the answerer.   *)
OfferAccepted(k) ==
    /\ connections[k] \in {"accepting", "ended while accepting"}
    /\ connections' = [connections EXCEPT ![k] = IF @ = "accepting" THEN "open" ELSE "ended"]
    /\ live' = Kept(k)
    /\ UNCHANGED << scenario, wire, recent, asked >>

OfferRaises(k) ==
    /\ connections[k] = "accepting"
    /\ connections' = [connections EXCEPT ![k] = "raised"]
    /\ UNCHANGED << scenario, wire, live, recent, asked >>

(* connectionstatechange: closed, failed or disconnected.                  *)
ConnectionEnds(k) ==
    /\ connections[k] \in {"accepting", "open"}
    /\ connections' = [connections EXCEPT ![k] =
                          IF @ = "open" THEN "ended" ELSE "ended while accepting"]
    /\ live' = live \ {k}
    /\ UNCHANGED << scenario, wire, recent, asked >>

\* Mutant of Listed: a client keeps the place of its first query.
ListedOnce(b) ==
    IF Contains(recent, b) THEN recent
    ELSE Append(IF Len(recent) >= RECENT_BROWSER_CLIENTS_MAX THEN Tail(recent) ELSE recent, b)

(* _record_browser_query()                                                 *)
Listed(b) ==
    IF Contains(recent, b) THEN Append(RemoveFirst(recent, b), b)
    ELSE Append(IF Len(recent) >= RECENT_BROWSER_CLIENTS_MAX THEN Tail(recent) ELSE recent, b)

(* _handle_message() of a query: answered, and listed for the page.  What  *)
(* a correction does is SwarmNode!SubmitCorrectionClaim.                   *)
OnBrowserQuery(k, b) ==
    /\ connections[k] = "open" /\ Len(asked) < scenario.envelopes
    /\ recent' = Listed(b)
    /\ asked' = Append(asked, b)
    /\ UNCHANGED << scenario, wire, connections, live >>

AnswererNext ==
    \E k \in Offers :
        \/ Signal(k) \/ OfferAccepted(k) \/ OfferRaises(k) \/ ConnectionEnds(k)
        \/ \E b \in Browsers : OnBrowserQuery(k, b)
=============================================================================
