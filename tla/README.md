# Swarmint in TLA+

Swarmint is a swarm of small learning nodes.  Each keeps a bounded list of
labelled prototypes, learns from its own stream, gossips prototypes to its
peers and judges what it receives against a private holdout; beacons help the
nodes find each other and form a directory without a master.  This directory
holds its formal models, what TLC checks of them, and the theorems TLAPS proves.
Paths are relative to the repository; `PROJECT.json` maps every definition to
the lines it translates, and lists the hazards and who covers them.

## 1. The system

All of a node runs on one asyncio event loop: a handler is atomic, and steps
interleave only where a coroutine awaits (queries, fetches, NAT, lookups) and
between nodes.

| Component | State | Operations | What is hard | What makes it correct | Status |
|---|---|---|---|---|---|
| **Micro-model** `core/prototype_model.py` | `protos`, `version` | `learn`, `predict`, `accuracy`, `merged_with`, `_prune` | the list at its budget; contradictions within one batch; duplicates | the budget holds; consolidation forgets no evidence; a low-trust sender takes nothing away; a repeat is a no-op | modelled |
| **Swarm node** `node/swarm_node.py` | model, holdout, quarantine, trust | `observe`, `gossip_step`, `receive`, `submit_correction_claim`, `calibrate_trust` | long histories of claims, merges and calibrations of several senders | a foreign class needs a quorum; trust runs out; only earned trust evicts | modelled |
| **Versions, update chain** `core/version.py`, `core/update_chain.py` | counter; hashed entries | `bump`, `checkpoint`, `verify_chain` | restarts, growth while it is being fetched | what verifies was claimed as a whole | modelled |
| **Envelopes, replay guard** `network/identity.py` | FIFO of nonces | sign, verify, `record` | capacity against the freshness window | an envelope is verified once | modelled |
| **UDP bus, relay** `network/udp_bus.py` | `peer_addrs`, `relay_only`, relay candidates | `send`, `_on_datagram`, `_forward_relay`, `_receive_relayed` | loss, copies, two ways for one message | a message is handled once, whichever way it comes | partly |
| **NAT traversal** `network/nat.py` | future, `reachable` | whoami, connect, punch, ack | answers against timeouts; both sides at once; ports that change | reachable means a path was opened, or the relay is used; every join ends | modelled |
| **Discovery, peer exchange** `network/discovery.py` | `peer_addrs`, `peer_seen_at`, adverts | publish, refresh, `lookup`, `ingest_pex`, `_expire_stale` | hearsay, restarts at another port, failing lookups | nodes of one swarm find each other again | partly |
| **Federation** `network/federation.py` | registry, guard, pings, bridges, census | `announce_to_genesis`, `tick`, `_on_gossip`, `_on_ping`, `_on_census` | adverts by several ways and out of order, expiry, restarts, firewalls | newest wins, dead beacons are forgotten, reachable means it answered, pages are complete, bridges share a space | modelled |
| **Inference RPC** `inference/` | pending queries and calibrations | `infer`, `query_peer`, `calibrate_trust`, `aggregate` | timeouts against late answers; state read before an await | an answer counts for its question, once; every call ends | modelled |
| **NetNode** `node/net_node.py` | everything wired; pending fetches | `start`, `dispatch`, `feed_and_pex`, `fetch_chain`, `fetch_embedding` | chunks of two answers mixed | the embedding is whole, what verifies was claimed | partly |
| **Runner** `node/runner.py` | loop task | start, stop, loop | an exception ends the loop silently | | partly |
| **Status page, WebRTC** `network/beacon_status.py`, `network/webrtc_answerer.py` | live answerers, recent clients | `snapshot`, `POST /signal`, `POST /infer`, data channel | a connection that ends while its offer is accepted | an answerer lives as long as its connection | partly |
| **Launchers, clients** `sim/run_multiproc.py`, `sim/*backbone.py`, `sim/run_cross_beacon.py`, `sim/*query.py` | plan, result files, port file | plan, launch, kill, restart, collect; ask once | files of earlier runs; kills; dead experts | results are of this run; every live expert is heard | partly |
| Simulated bus, embeddings, CLI, browser client | | | | | not modelled |

They interact so: the runner calls `observe`, `gossip_step` and `feed_and_pex`
in every round; the bus verifies datagrams, learns the sender's address and hands
them to `NetNode.dispatch`, which makes the sender a peer and passes them to the
swarm node (`protos`), the inference service, discovery (`pex`), NAT, the fetches
or the federation; the federation writes `bus.peer_addrs` and the node's peers
(bridging); the status page and the data channel put corrections into the node;
calibration and merges both write its trust.

## 2. The modules

| Module | Models | State and actions |
|---|---|---|
| `PrototypeModel` | the micro-model | operators only: `Learned`, `MergedWith`, `Prune`, `predict`, `Hits` |
| `ModelExchange` | two models that learn and merge | `LearnMine`, `LearnTheirs`, `Merge` |
| `SwarmNode` | one node against any peers and browsers | `Observe`, `Receive`, `SubmitCorrectionClaim`, `CalibrateTrust` |
| `AdvertLife` | abstract: what federation promises of one beacon's adverts | `Round`, `Accept`, `Lose`, `Crash`, `Restart`, `Advance` |
| `Federation` | the beacons' directory and the part of the bus it rests on; implements `AdvertLife` | `Announce`, `Tick`, `OnGossip`, `OnPing`, `OnPong`, `Crash`, `Restart`, `CloseFirewall`, `Advance` |
| `ReplayGuard` | the guard of the bus with its capacity and a clock | `Verify`, `VerifyBoth`, `Wait` |
| `Transport` | the bus, envelopes, relay, and NATs on the Internet | operators and steps of one node: `Transmit`, `Delivers`, `ForwardRelay`, `Drop`, `RebindNat` |
| `NatTraversal` | hole punching and the join of `sim/net_daemon.py`, on `Transport` | the handlers `OnWhoami` ... `OnPunchAck`, the coroutines `AskReflexive` ... `PauseEnds`, `Gossip` |
| `Wire` | the messages of the request services, on a bus that loses and reorders | records and `Exchange`, `Lose` |
| `Rpc` | inference, calibration, their handlers, against merges that move trust | `StartInfer`, `OnQuery`, `OnResponse`, `EndQuery`, `Conclude`, `StartCalibration`, ..., `MergeJudged` |
| `UpdateChain` | the hash chain | operators: `Checkpointed`, `Verifies` |
| `ChunkedFetch` | fetches of chain and embedding | `Checkpoint`, `RestartPeer`, `StartFetch`, `OnChunk`, `EndFetch`, ... |
| `Answerers` | WebRTC answerers of a beacon | `Signal`, `OfferAccepted`, `OfferRaises`, `ConnectionEnds`, `OnBrowserQuery` |
| `Services` | `Rpc`, `ChunkedFetch` and `Answerers` on one bus and one event loop | |
| `Directory` | adverts, lookups, start and restart, rounds, peer exchange | `Start`, `LookupFinds`, `FallBack`, `Round`, `Receive`, `Refresh`, ... |
| `Census` | on `Directory`: endpoints, the page, bridging, the census, fingerprints | `Meet`, `Bridge`, `FederationTick`, `ReceiveCensus` |
| `QueryClient` | on `Census`: the clients that ask a backbone once | `RunInfer`, `Seed`, `Classify`, `AnswerQuery`, `Conclude` |
| `Launchers` | on `QueryClient`: the programs that start and observe a swarm | `Build`, `LaunchNext`, `OpenMetrics`, `Kill`, `Restart`, `Aggregate`, `RunBackbone`, `RunCross`, ... |
| `MC*` | the instances for TLC | |
| `*Proofs` | the proofs | |

**PrototypeModel.**  A vector is a point of a line, kept as the exact total of
the samples a prototype absorbed, so that a centroid is a fraction and every
distance comparison is exact; the code rounds to float32.  `shape` stands for
the dimensionality, which decides comparability.  The operators keep the code's
order: argmin takes the first least element, `_prune` scans classes by first
appearance, `merged_with` folds over the batch with the deduplication keys of
the list before it.  `list.remove` in the last branch of `_prune` raises unless
the lightest prototype is the first, and so does the operator (`raised`).
Weights are positive, as learning and merging make them; `network/wire.py:71`
would take any number from a peer, so what is said of evidence
(`PruneKeepsEvidence`, `UntrustedTakesNothing`) is about prototypes that some
model really had.

**SwarmNode.**  Each handler is one action, with all its early returns.
`Receive` splits a batch by verifiability, passes the rest through the gate one
prototype after the other with the quarantine growing in between, judges the
merged candidate and moves trust; a merge that raises leaves what was already
quarantined.  Trust is in thousandths, rounded down.  Whether a sample is held
out is a choice.  All samples of the stream and of browsers have one shape, as
from the page of the beacon's own task; the code checks no dimension of a
correction (`node/swarm_node.py:194`), and what a model that took over a foreign
one does next is not modelled.  Foreign shapes in gossip are.  `gossip_step`, `answer_query` and `infer` do not change the
node and are left to its environment.

**Federation.**  A unit of time is one federation round (eight gossip rounds),
of which every running beacon takes one, in any order.  An advert is its
beacon and the time of its signature; the pair also names its nonce.  Any
datagram may be lost at once, and the rest arrive in any order within
`MaxDelay`.  `addrs` is `bus.peer_addrs` up to what matters: unknown, the
address advertised, or the source address of the last datagram, which answers
get back to through a firewall.  Fan-out and datagram size are subsumed by loss.
The nonces of lost pings, and adverts nobody holds any more in the guards, are
forgotten by the model and kept by the code; no step can tell.  `AdvertLife`
says what is promised of the adverts of one beacon: held for a while, forwarded
while held, accepted once by each.  `Federation` instantiates it for every
beacon (`Life(c)`) with a refinement mapping that forgets pings, addresses and
who sends to whom; `AdvertsLive` checks each step against it, and is proved.

**Transport and NatTraversal.**  An address is a host, the port its NAT uses
now, and for a symmetric NAT the destination.  A NAT lets in what comes from an
address its node has sent to; `RebindNat` gives it another port.  A datagram
may be lost when it is sent or later, arrive in any order, and arrive again
(`copies`).  An envelope is by whom it says; `Nonce` tells a wrapper from the
envelope in it.  The guard remembers everything here; what its capacity does is
`ReplayGuard`.  The burst of five punches is one that is lost if all are.
`main()` of the daemon is a program counter per node with all its awaits: each
ends by its answer or its timeout, and a late answer finds the future of
another attempt or none.

**Services.**  Every call (`infer`, also as the page's `POST /infer`, or
`calibrate_trust`) is a coroutine: asked, waiting, done.  `pending` and `slots`
are the code's tables, `wire` the messages under way, which may be lost or come
in any order.  A request id is the call and the peer, as random ids do not
collide.  What the peers' models answer, and the sample a call is about, are
constants of a scenario; an answer that `infer` gives by itself is scored like the
vote it replaces; merges may move trust at any time (`MergeJudged`).  A
`future` is the set of its result, empty until it is set.  A hash is what it
commits to, so that forged chains do not exist and mixed ones fail.

**Directory, Census, QueryClient, Launchers.**  A node is a process with a
life; each life has another port, and forgets all.  The node's knowledge is
`peers`, the bus's addresses (last seen), the discovery's (first seen) and
stamps.  kademlia is external: whoever is linked to a contact's DHT finds an
advert there, unless the scenario is `flaky`.  The page is a function of the
state (`Page`).  Topic hints are left out.  Lines of the metrics files are
abstracted to none or some, and the deal of classes is computed as in the code
with `top-up` as a choice.  `Aggregate` waits for every process to have ended;
the code's `join` has a timeout well beyond the run.  In `QueryClient` a timeout
is longer than a round trip (late and lost answers are the subject of `Rpc`),
the book is seeded before anything else happens once `start()` has returned, and
only who has a voice is kept: what `aggregate` makes of voices is in `Rpc`, and
fusion is a computation.

## 3. The runs

| Run | Shows |
|---|---|
| `SwarmNode` | `TypeOK`, `ForeignClassHasQuorum`, `WithinBudget`, `SixStrikes`, `StrangersEvictNothing`: a peer and a browser, seven verdicts and two calibrations; a quorum of two claims of a class not yet lived through; a deque of one holdout sample makes known classes unverifiable again; a quarantine of one claim forgets the older one, and a second sender can still corroborate the one that stays; six rejections in a row do occur (two calibrations and a commit lift trust to 0.912; then 0.638, 0.446, 0.312, 0.218, 0.152, 0.106), and so do evictions by a peer above `OverrideTrust` |
| `SwarmNode_budget` | finding: with more classes than prototypes `_prune` raises and `learn` leaves the list over its budget |
| `ModelExchange` | `TypeOK`, `PruneKeepsEvidence`, `UntrustedTakesNothing`, `RepeatIsNoOp` on every pair of models up to version 4, with the budget of three reached |
| `ModelExchange_order` | finding: merging is not order-invariant |
| `AdvertLife` | `TypeOK`, `AdvertsDieOut`: two observers; time runs past twice the lifetime, and the bound is reached exactly |
| `Federation` | `TypeOK`, `ReachableWasUp`, `AdvertsLive`, `StaleNeverWins`: two beacons with a crash and restarts over more than a lifetime, or three that forward each other's adverts while a firewall may close |
| `Federation_inbound` | finding: a beacon whose firewall closed to inbound traffic stays reachable |
| `NatTraversal` | `TypeOK`, `HandledOnce`, `PunchedOrRelayed`, `JoinEnds`: two nodes behind NATs and a rendezvous, in five scenarios with a trouble each: a datagram that comes twice, a symmetric NAT, a NAT that changes its port, a second attempt, two nodes that punch each other at once |
| `Services` | `TypeOK` (which says that the tables hold exactly the requests that wait), `AnswersAreOwn`, `CalibratedByTheSamples`, `VerifiedWasClaimed`, `SharedSpace`, `LiveIsKept`, `RecentAskedLast`, `CallsEnd`: two inferences of the same peers, two calibrations while samples and merges come in, two fetches of one chain that grows and is lost, two joiners' fetches, two browser connections |
| `Services_chain` | finding: what `fetch_chain` returns for inspection may be a mixture the peer never claimed |
| `Launchers` | `TypeOK`, `ReportsThisRun`, `HeardIsActive`, `Reunited`, `PagesAreComplete`, `LiveExpertsAreHeard`, `BridgedShareSpace` in eleven scenarios: a run that its budget cuts to one node, chaos with a kill and a restart, several datagrams under way, files of an earlier run, a backbone, two beacons with lookups that fail, of different spaces, on one machine, alone with a peer that leaves, and the two kinds of clients with an expert or a beacon that has gone |
| `Launchers_spaces` | finding: beacons of different spaces become gossip peers and prototypes cross |

**Bounds** are constants of the modules or fields of a scenario, and stand in
guards: `MaxVersion`, `MaxVerdicts`, `MaxCalibrations` (SwarmNode), `MaxTime`,
`MaxDelay` (AdvertLife, Federation), `crashes`, `closed`, `inFlight`, `time` of
a federation scenario, `copies`, `rebinds`, `sends`, `attempts`, `gossip` and
`InFlight` of a join, `merges`, `checkpoints`, `restarts`, `offers`,
`envelopes` and the lists of calls and fetches of the services, `Processes`,
`until`, `inFlight` and `kills` of the launchers.  They are chosen so that the
deepest behaviour a property is about fits, which the mutants of
`PROJECT.json` confirm: each property is violated, within the same bounds, once
the code has a bug it is about.  In `Launchers` the clock's unit is about 100
seconds, so that the window of an active row (30 s) and the life of a census
entry (90 s) are 0 and that of a stale peer (120 s) is 1 unit; one datagram is
under way at a time, and three in the scenario `Pair`.  A chunk holds two
samples, entries or bytes, so that there are two chunks to mix.
`CHECK_DEADLOCK` is off since the bounds stop every instance.

**Fairness** is assumed in two places.  `NatTraversal`: weak fairness of the
steps of each node's join.  `Services`: weak fairness of the event loop's
coroutines.  In both every await has a timeout of its own (`asyncio.wait_for`),
so that such a step stays enabled until it is taken, and the event loop does
take it.  Nothing is assumed of messages, peers or the network.  On this rest
`JoinEnds` and `CallsEnd`.

**Quiescence** stands for liveness where gossip picks its peers at random:
`Reunited` and `PagesAreComplete` are invariants about states in which no
message from anybody to anybody could change what is known (`Settled`,
`CensusSettled`).  They say that the exchange gets stuck nowhere else, and not
that it gets there: random choice is not fair in the sense of TLA+.

**Found on the way and kept as no run.**  A punch that came through the relay
marks its sender reachable (`network/nat.py:74`), so that a later `punch()`
reports a direct path there is none; hence the second half of
`PunchedOrRelayed`.  The greedy deal of classes can leave a class with fewer
holders than guaranteed (`sim/run_multiproc.py:169`; eleven nodes, one of them
malicious).  With two or fewer honest nodes the top-up draws from an empty list
(`:178`).  The port file of an earlier run survives and may be read before node
0 writes its own (`:381`).  Hearsay about a loopback address is resolved to the
beacon's own host, against the docstring at `network/federation.py:82`, and with
two machines of several nodes each it may keep live nodes apart (section 4).
`run_cross_beacon` on one machine never has a census to send, as loopback
endpoints are dropped, though `tests/test_cross_beacon.py:30` asserts one.  The
census lists a dead peer for as long as somebody's node keeps it as a peer.
`multimodal_backbone` and `multimodal_query` have different default ports.
The fingerprint of the digits task depends on `SWARM_DIM`, which defines nothing
there, so that equal spaces may refuse each other (`sim/net_daemon.py:141`).

## 4. The theorems

Everything is proved for all constants that satisfy the modules' `ASSUME`s.

* `SwarmNodeProofs!TypesAreCorrect`: `TypeOK`.  The loops of `_prune` and
  `merged_with` are recursive functions; `PrototypeModelProofs` gives them their
  meaning by induction on a bounded counter and says what each operator returns.
* `StrikesAreBounded`: `SixStrikes`.  `StrikesCost` bounds the trust after `k`
  strikes by a table (1000, 700, 490, 343, 240, 168, 117); the last is below
  the floor, so the sixth strike is the last.  `SixStrikes` by itself speaks only
  of the trust after the sixth and is not inductive.
* `ForeignClassesHaveQuorum`: `ForeignClassHasQuorum`.  `Provenance` adds that
  every quarantined claim and every holdout label has been accounted for in
  `claimants` and `lived`, since the votes are read from the former.
* `BudgetIsKept`: `WithinBudget`, assuming no more classes than prototypes.  By
  the pigeonhole principle a list over budget has two prototypes of a class, so
  the branch of `_prune` that raises is never reached (`Budgeted`).  Without the
  assumption the run `SwarmNode_budget` refutes it.
* `StrangersNeverEvict`: `StrangersEvictNothing`, an action property: a step that
  takes a class from the model is `Receive` of a sender that is proven and trusted
  at that moment, and no other step is, whoever else is trusted.  It holds if there is
  room for every class and overriding takes more trust than a stranger has (0.6
  against 0.5 in the code; at 0.5 any stranger could override).  `PruneOnceKeeps`,
  `TakeKeeps`, `MergeKeeps` and `LearnedKeeps` say of every operator that it loses
  no class: two prototypes of one class are fused while there are two, and what
  clashes with an untrusted sender's prototype keeps it out.  `EarnedTrust`: more
  trust than at the start is had only by those with a merge or calibration.
* `ModelExchangeProofs!PruningKeepsTheEvidence`: `PruneKeepsEvidence`.  A sum
  over a list is a recursive function, and `SumRuns` gives it partial sums; those
  of two lists are compared by induction on a bounded counter (`SumAppend`,
  `SumExcept`, `SumWithout`).  A turn of `_prune` adds one value to another of its
  class and deletes it (`SumFused`).
* `UntrustedMergesTakeNothing`: `UntrustedTakesNothing`, and
  `RepeatedGossipIsNoOp`: `RepeatIsNoOp`.  Of a sender below `override_trust` a
  prototype is known, refused or appended (`UntrustedTurn`), so a merge only
  appends until it prunes (`MergeAppends`).  What was refused at some turn still
  clashes at the end, and what was appended is found by its key (`AllSettled`), so
  the second offer finds nothing to take (`NothingTaken`).  Above the budget the
  first merge may consolidate what it took, and the offer is news again.
* `ExchangeIsTyped`: `TypeOK`, with at most as many classes as prototypes; with
  more, `_prune` may raise and leave a list over the budget.
* `FreshnessProofs!DeadAdvertsDieOut`: `AdvertsDieOut`.  The invariant counts
  the observers that have verified an advert (`Spread`): a copy under way was
  sent within `Spread` lifetimes of the signature (`OnTheWay`) and a copy listed
  was accepted within one less (`Listed`).  An observer joins the count when it
  accepts, and cannot do so twice.  A restart of an observer forgets its guard;
  adverts older than the last restart are exempt.  `AdvertTypes` is `TypeOK`.
* `FederationProofs!AdvertsLiveAsPromised`: `AdvertsLive`, every step of
  `Federation` is for each beacon one of `AdvertLife` or a stutter.  Each handler
  has its lemma (`TickLives`, `GossipLives`, ...).  The merge of a batch, a
  recursive function, is characterised by induction on the number of adverts
  looked at (`Recording`).
* `StaleGossipLoses`: `StaleNeverWins`, and `ReachableIsRecent`:
  `ReachableWasUp`.  All three rest on the inductive invariant `Invariance`:
  besides the types, nothing is of the future (`ClockInv`), a ping goes to the
  beacon its nonce names and a pong comes from it, sent while it was up
  (`PongInv`), and no entry has outlived its lifetime or, if reachable, the
  reachability window (`ListInv`); the limit is a round more for a beacon whose
  round is still to come.  That window must be at least one round
  (`FederationAssumption`): at zero a restarted beacon would still be shown
  reachable by what came before its crash.  `TypesHold` is `TypeOK`.
* `FreshnessProofs!NoEnvelopeIsVerifiedTwice`: `VerifiedOnce`.  The guard
  always holds the last `Capacity` of all verified nonces (`HoldsTheLast`), so
  an envelope it has forgotten was followed by that many others; by the premise
  `WithinRate` that takes longer than the envelope is fresh.  The premise is on
  the load: at most `Capacity` (10,000) envelopes verified within twice the
  tolerance (60 s), by a clock that does not go back.  Time is unbounded here,
  and the module is proved about only.
* `ServicesProofs!AnswersAreTheirOwn`: `AnswersAreOwn`.  `OwnInv` says what the
  property rests on: every query and response under way names its call and peer
  (`WireFits`), an entry of the table holds nothing or the right answer
  (`PendingFits`), and a waiting call finds its own entries (`CallsFit`).  A late
  response finds no entry, or the one of the same question.
* `ServicesProofs!AnswerersAreKept`: `LiveIsKept`.  It is inductive once the
  states of a connection are known: an end while the offer is being accepted is
  remembered, and acceptance puts nothing back.
* `VerifiedChainsWereClaimed`: `VerifiedWasClaimed`.  A slot is keyed by peer, so
  it may hold entries of chains the peer had at different times (`FetchInv`: each
  is an entry some chain of the peer had).  That is enough: an entry holds the hash
  of the one before it, so two verifying chains with the same last entry are equal
  (`LinkedBack`), and a chain of the peer which ends in that entry is among those
  it claimed.  `FetchAssumption` gives the sizes and the kinds of fetches.
* `JoinersShareTheSpace`: `SharedSpace`.  The chunks of one embedding, put back in
  the order of their indices, are the whole (`ChunksFlatten`, by induction on a
  bounded counter); no index is ever filled with anything else.
* `LastToAskAreListed`: `RecentAskedLast`.  `InOrder` says that a client stands
  before another if it asked later and that whoever is missing asked before all
  that are listed.
* `ServicesAreTyped`: `TypeOK`.  `TypeInv` adds that the table's requests are
  exactly those that calls still wait for (`TableFits`).  That `Ranked` names every
  peer once rests on its ranks being a permutation.
* `TrustFollowsTheSamples`: `CalibratedByTheSamples`, an action property.
  `ExamInv` relates messages, table and exam: each chunk of an exam is in one
  message at most, the question or its answer (`AskedOnce`), which has not been
  counted yet (`NotYetCounted`); an entry holds, at each place, nothing or the
  peer's opinion on that chunk, and its counter is the number of filled places
  (`Graded`).  So when the count says that all have come, no place is empty, and
  the labels in order are the opinions on the samples (`OpinionOfAll`).  The loop
  over them is `observe`, once for each sample, from the trust the peer had.
  `RpcAssumption` says that whom a calibration asks and what it samples exist.
* `NatTraversalProofs!MessagesAreHandledOnce`: `HandledOnce`.  What a node's
  handler got is in its guard (`handled` within `seen`), through every handler,
  the join's steps and the relay, for any number of nodes and NATs.
* `NatTypesHold`: `TypeOK`.  `TypeInv` says that every datagram comes from where
  its signer is and is for another node, that the relay's wrappers name their
  target and origin truly, and that whatever a message says of a third node is an
  address of that node (`DatagramFits`); so is all that a bus learns (`BusFits`).
  The join sequence is at a peer it wants, with attempts left (`JoinFits`).
* `PunchingTakesBoth`: `PunchedOrRelayed`.  No step forgets whom a node dialled,
  unless its NAT changes its port (`Remembers`).  A punch that got through the NAT
  without the relay comes from an address the node had dialled, and the relay is
  noted for whoever came by it (`ArrivalFits`).

* `LaunchersProofs!CensusCompletesPages`: `PagesAreComplete`.  Whom a beacon
  heard is among its peers for as long as it runs, and it registers only other
  beacons (`PeersInv`), so its census source names whomever it heard; an address
  it can dial always gives an endpoint to tell (`DialledHaveEndpoints`).
* `SwarmsAreTyped`: `TypeOK`.  Every address that a node has, of an advert, of a
  datagram or by peer exchange, is of the peer it stands for, and it has none of
  its own (`KnowInv`); a datagram is for another node, and its list of addresses
  is as true (`WireInv`).  Both are needed at once: a list is copied from what the
  sender knows to what the receiver does.  An address without a stamp is of the
  contact that `start()` was told of (`Told`), the only one that never expires.
* `FilesAreOfThisRun`: `ReportsThisRun`.  `StageInv` says which nodes the launcher
  has started, killed and joined at each of its stages; `WorkerFits` says that a
  file with a line is of the node's last life, unless the node still runs, and that
  a node which is down without a line is a victim that was not restarted.  The
  first fails before `_build_swarm()` has removed the files of an earlier run.
  `LauncherAssumption` and `QueryClientAssumption` say that a scenario's numbers
  are numbers and that its scripts and experts are nodes there are; TLC evaluates
  them on every scenario.  The conjunction of all these invariants was also
  checked by TLC on the eleven scenarios of the run `Launchers`.
* `EveryExpertIsHeard`: `LiveExpertsAreHeard`.  A book that says where an expert
  is would be wrong after a restart; but a script starts each node once and is
  through before the client starts (`OnceInv`), so an expert that is there has its
  first life, and whatever the client hears of it since the book was seeded names
  the same one (`LivesInv`, `BookInv`).  Then the client's query, or the answer, is
  on its way to somebody it reaches, and neither is given up, or the answer is
  there (`VoiceInv`).  Assumed of a scenario: a script has each node once and not
  the client, who is no beacon, and the experts run at the public host that the
  book names.  As in the model's `Conclude`, a timeout is longer than a round trip.

* `TheRestartedAreFound`: `Reunited`, of the layouts in which only one machine
  runs more than one of the nodes (`OneSite`).  Four facts are inductive together
  with those above.  A node is started once, except for one victim of `run_chaos`
  which is never node 0 (`LifeInv`), and it looks for a contact that was there
  (`ContactInv`).  All addresses, in adverts, lists and books, are of a first or
  the present life, and a loopback address is only of a node which shares its
  machine (`AddrInv`): `ingest_pex` mixes what old and new lists say, but makes
  nothing up.  Who is up dials its contact where it is (`JoinedInv`): at first from
  an advert or as it was told, later where datagrams come from.  Then, at rest, a
  peer that is reached has heard the sender and its list (`MetIsMutual`), so the
  contact has told each of the other; and of two peers at least one reaches the
  other, since of two restarted or two loopback addresses one at most is useless
  (`OneReaches`).  Its datagram carries the right address back.  The four facts
  were checked by TLC on the eleven scenarios before they were proved.

  The hypothesis is needed: with nodes 0 and 3 on one machine and 1 and 2 on
  another, all with contact 0, TLC finds a trace of 27 states after which 2 and 3
  have only each other's loopback address and nobody has news.  The contact has
  heard 3 next door, at 127.0.0.1, and tells 2 so; 1 has heard 2 next door and
  tells 3; `_on_pex` never replaces an address, and neither ever hears the other.
  (`Processes = 4`, one datagram at a time, no lookup fails; the search takes too
  long to be repeated with every change, so it is no run.)  `MCLaunchers` evaluates
  `OneSite` (`CheckedLayouts`).

  `LayoutAssumption` says of a scenario what the launchers do: the processes of
  `run_multiproc` bind 127.0.0.1 (`sim/run_multiproc.py:97`), `start()` has a
  fallback address or finds the contact within its rounds of lookups (20 of 0.2 s,
  `node/net_node.py:226`, while an advert is published within 1 s of having a
  neighbour), a contact starts before who joins it, and nobody joins the client.

No invariant of a run is left that is only model-checked.  Liveness (`JoinEnds`,
`CallsEnd`) is out of the prover's reach, and so is induction over data by the
library's theorems; where a loop or a sum had to be followed, its steps are
numbered and the induction is over the numbers, with sets in the place of
predicates (`BoundedInduction`).

## 5. Not modelled, and why

* **SimBus** and `run_sim`: a synchronous bus without loss for experiments; the
  programs that run as processes use the UDP bus.
* **Embeddings and features**: numerical pipelines without control state.  What
  a projection is fitted to matters for the fingerprint and is in `Census`.
* **Command line, browser client, HTML**: parsing, printing, front ends.
* **Bytes**: msgpack, base-64 and HTTP are conversions no property is about.
* **Several relays** and `add_relay()`: no launcher calls it; `Transport` has the
  candidates and their order, but one rendezvous, so nothing fails over.
  `_rebind()` of a lost socket is left out.
* **Topics**: `infer_topic`, `peers_for_topic` and the topic field of adverts.
* **The replay guards of discovery, federation and WebRTC** verify without a
  clock (`now=None`).  `AdvertLife` gives the federation's its bound by lifetime;
  nothing is proved of the other two.
* **Compositions left**: a `SwarmNode` as the node of `Services` and `Launchers`,
  whose merges and answers are choices there; `Transport` under `Directory`, whose
  nodes are not behind NATs.

Next would come these compositions, whose theorems would rest on those above.
