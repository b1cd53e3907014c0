------------------------------ MODULE Transport ------------------------------
(***************************************************************************)
(* The UDP bus of every node (network/udp_bus.py) over signed envelopes    *)
(* (network/identity.py): addresses learned from verified datagrams, the   *)
(* replay guard, and the relay tier that carries a peer's envelope to a    *)
(* node it cannot reach.  Between the nodes lies the Internet: datagrams   *)
(* are lost, duplicated and reordered, and a NAT lets in only answers to   *)
(* what its node sent.  A signature is modelled by what it does: an        *)
(* envelope is by the node it says it is by.                               *)
(***************************************************************************)
EXTENDS Integers, Sequences, FiniteSets, FiniteSetsExt, SequencesExt

CONSTANTS
    Natted,         \* nodes behind a NAT of their own
    Rendezvous,     \* the node anybody can reach
    EnableRelay,    \* enable_relay
    InFlight,       \* bound: datagrams on their way at any time
    Scenarios       \* bounds, see `scenario`

ASSUME TransportAssumption ==
    /\ IsFiniteSet(Natted) /\ Rendezvous \notin Natted
    /\ EnableRelay \in BOOLEAN
    /\ InFlight \in Nat
    /\ \A s \in Scenarios : s.symmetric \subseteq Natted /\ {s.rebinds, s.copies, s.sends} \subseteq Nat

Nodes == Natted \cup {Rendezvous}

VARIABLES
    scenario,       \* of this behaviour: the nodes whose NAT uses another port for
                    \* every destination (symmetric), how often a NAT may give its
                    \* node another port (rebinds), how many datagrams arrive once
                    \* more (copies), how many messages a node sends before
                    \* they count as lost (sends), and what NatTraversal adds
    port,           \* the public port a NAT uses now
    holes,          \* pairs of a public address and one it takes datagrams from
    wire,           \* the datagrams on their way
    copied,         \* datagrams the Internet duplicated
    sent,           \* messages sent so far: the nonces used
    bus,            \* of a node: peer_addrs, relay_id followed by relay_ids,
                    \* relay_only and the nonces of its replay_guard, which
                    \* in so short a time forgets none
    \* History, read by no action:
    handled,        \* the envelopes a node's handler got
    twice           \* it got one of them again

natVars == << scenario, port, holes >>
transportVars == << natVars, wire, copied, sent, bus, handled, twice >>

-----------------------------------------------------------------------------
(* The Internet                                                            *)

Nowhere == [host |-> "none", port |-> 0, for |-> "any"]

Home(n) == [host |-> n, port |-> 0, for |-> "any"]

\* The address a datagram from n to address `to` seems to come from.
Source(n, to) ==
    IF n = Rendezvous THEN Home(n)
    ELSE [host |-> n, port |-> port[n], for |-> IF n \in scenario.symmetric THEN to.host ELSE "any"]

Admitted(d) ==
    d.dst.host \in Natted => d.dst.port = port[d.dst.host] /\ << d.dst, d.src >> \in holes

(* A NAT gives its node another port and forgets what it let in.           *)
RebindNat(n) ==
    /\ n \in Natted /\ port[n] < scenario.rebinds
    /\ port' = [port EXCEPT ![n] = @ + 1]
    /\ holes' = {h \in holes : h[1].host # n}
    /\ UNCHANGED << scenario, wire, copied, sent, bus, handled, twice >>

-----------------------------------------------------------------------------
(* Envelopes                                                               *)

Envelope(n, nonce, body) == [by |-> n, nonce |-> nonce, body |-> body]

Relay(target, blob)   == [kind |-> "relay", target |-> target, blob |-> blob]
Relayed(origin, blob) == [kind |-> "relayed", origin |-> origin, blob |-> blob]

IsWrapper(body) == body.kind \in {"relay", "relayed"}

Nonce(env) == << env.by, env.nonce, IsWrapper(env.body) >>

\* Mutant of Unseen: what came through a relay is not asked for again.
UnseenOutside(b, env) == ~ IsWrapper(env.body) \/ Nonce(env) \notin b.seen

(* verify_envelope(), as far as an honest envelope can fail.               *)
Unseen(b, env) == Nonce(env) \notin b.seen

Recorded(b, env) == [b EXCEPT !.seen = @ \cup {Nonce(env)}]

-----------------------------------------------------------------------------
(* Sending, by a node whose bus is b                                       *)

Message(to, body) == [to |-> to, body |-> body]

(* _relay_target_addr(): the first relay candidate with a known address.   *)
RelayTarget(b, p) ==
    LET usable == {i \in DOMAIN b.relays : b.relays[i] # p /\ b.addrs[b.relays[i]] # Nowhere}
    IN  IF EnableRelay /\ p \in b.only /\ usable # {}
        THEN b.addrs[b.relays[Min(usable)]] ELSE Nowhere

(* send() of the i-th message of a handler: wrapped for the relay, or      *)
(* straight to the peer, or nowhere.                                       *)
Datagram(n, b, i, m) ==
    LET nonce == sent[n] + i
        inner == Envelope(n, nonce, m.body)
        relay == RelayTarget(b, m.to)
        dst   == IF relay # Nowhere THEN relay ELSE b.addrs[m.to]
    IN  [src |-> Source(n, dst), dst |-> dst,
         env |-> IF relay # Nowhere THEN Envelope(n, nonce, Relay(m.to, inner)) ELSE inner]

Datagrams(n, b, messages) == {Datagram(n, b, i, messages[i]) : i \in DOMAIN messages}

(* Datagrams open the NAT of their sender; any of them may be lost on the  *)
(* way.  `taken` is what is no longer on its way.                          *)
Transmit(n, datagrams, taken) ==
    LET out == {d \in datagrams : d.dst # Nowhere /\ d.env.nonce <= scenario.sends}
    IN  /\ sent' = [sent EXCEPT ![n] = @ + Cardinality(out)]
        /\ holes' = IF n = Rendezvous THEN holes ELSE holes \cup {<< d.src, d.dst >> : d \in out}
        /\ \E kept \in SUBSET out :
              /\ wire' = (wire \ taken) \cup kept
              /\ Cardinality(wire') <= InFlight

-----------------------------------------------------------------------------
(* Receiving                                                               *)

Inbox(n) == {d \in wire : d.dst.host = n}

(* A datagram the Internet lets through to n.  It may arrive again.        *)
Arrives(n, d, taken) ==
    /\ d \in Inbox(n) /\ Admitted(d)
    /\ Unseen(bus[n], d.env)
    /\ \/ taken = {d} /\ copied' = copied
       \/ taken = {} /\ copied < scenario.copies /\ copied' = copied + 1

(* _on_datagram(): the sender's address is learned from any datagram.      *)
OnDatagram(n, d) == Recorded([bus[n] EXCEPT !.addrs[d.env.by] = d.src], d.env)

\* Mutants of ReceiveRelayed: the way back is not remembered; a relay is
\* appended to the candidates whenever it delivers.
ForgetsTheWay(n, d) == Recorded(OnDatagram(n, d), d.env.body.blob)

AppendsAlways(n, d) ==
    [Recorded(OnDatagram(n, d), d.env.body.blob) EXCEPT
        !.relays = Append(@, d.env.by), !.only = @ \cup {d.env.body.origin}]

(* _receive_relayed(): the origin is answered by the same way from now on. *)
ReceiveRelayed(n, d) ==
    LET b == Recorded(OnDatagram(n, d), d.env.body.blob)
    IN  IF ~ EnableRelay THEN b
        ELSE [b EXCEPT !.relays = IF Contains(@, d.env.by) THEN @ ELSE Append(@, d.env.by),
                       !.only = @ \cup {d.env.body.origin}]

\* What the bus hands to the node's handler, and the bus after it.
Inner(d)    == IF d.env.body.kind = "relayed" THEN d.env.body.blob ELSE d.env
After(n, d) == IF d.env.body.kind = "relayed" THEN ReceiveRelayed(n, d) ELSE OnDatagram(n, d)

(* The bus hands d to the handler.  What a relay brought is verified once  *)
(* more; as the relay forwards an envelope once, that never fails.         *)
Delivers(n, d, taken) ==
    /\ Arrives(n, d, taken)
    /\ d.env.body.kind # "relay"
    /\ Unseen(bus[n], Inner(d))
    /\ handled' = [handled EXCEPT ![n] = @ \cup {Nonce(Inner(d))}]
    /\ twice' = (twice \/ Nonce(Inner(d)) \in handled[n])

(* _forward_relay(): the inner envelope goes on untouched, to the address  *)
(* the relay has for its target.                                           *)
ForwardRelay(n, d) ==
    LET b   == OnDatagram(n, d)
        dst == b.addrs[d.env.body.target]
        out == [src |-> Source(n, dst), dst |-> dst,
                env |-> Envelope(n, sent[n] + 1, Relayed(d.env.by, d.env.body.blob))]
    IN  \E taken \in {{}, {d}} :
            /\ Arrives(n, d, taken)
            /\ d.env.body.kind = "relay"
            /\ bus' = [bus EXCEPT ![n] = b]
            /\ Transmit(n, IF EnableRelay THEN {out} ELSE {}, taken)
            /\ UNCHANGED << scenario, port, handled, twice >>

(* A datagram is kept out by a NAT, or refused as known.                   *)
Drop(d) ==
    /\ d \in wire
    /\ ~ Admitted(d) \/ ~ Unseen(bus[d.dst.host], d.env)
    /\ wire' = wire \ {d}
    /\ UNCHANGED << natVars, copied, sent, bus, handled, twice >>
=============================================================================
