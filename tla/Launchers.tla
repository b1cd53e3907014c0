------------------------------ MODULE Launchers ------------------------------
(***************************************************************************)
(* The programs that start a swarm and look at what comes of it:           *)
(*   multiproc  sim/run_multiproc.py: processes that report to files, of   *)
(*              which run_chaos() kills some and restarts one;             *)
(*   backbone   sim/swarm_backbone.py: nodes that join a public beacon;    *)
(*   multimodal sim/multimodal_backbone.py: the same for each modality;    *)
(*   cross      sim/run_cross_beacon.py: two beacons and their workers.    *)
(* They plan who learns which class, start the nodes of Census one after   *)
(* the other, and collect.  The clients of a backbone are in QueryClient,  *)
(* and learning is in SwarmNode.                                           *)
(***************************************************************************)
EXTENDS QueryClient

CONSTANTS
    N_CLASSES, CLASSES_PER_NODE

\* A script starts every node once, and not the one that asks.
ASSUME LauncherAssumption ==
    \A s \in Scenarios :
        /\ {s.requested, s.budget.max_nodes, s.budget.cpus, s.budget.cpu_percent, s.budget.mem_nodes} \subseteq Nat
        /\ s.script \in Seq([node : Nodes, contact : Nodes]) /\ Len(s.script) <= Processes
        /\ \A i, j \in 1 .. Len(s.script) : s.script[i].node = s.script[j].node => i = j
        /\ s.client # "none" => \A i \in 1 .. Len(s.script) : s.script[i].node # Client

\* The processes of run_multiproc.py talk over one machine's loopback; start()
\* knows where the contact is, or finds it in time; beacons start first.
ASSUME LayoutAssumption ==
    \A s \in Scenarios :
        /\ s.kind \in {"run", "chaos"} => s.local
        /\ s.local => \A n, m \in Nodes : s.machine[n] = s.machine[m]
        /\ s.told \/ (~ s.flaky /\ LookupRounds > 1)
        /\ \A i, j \in 1 .. Len(s.script) : s.script[j].node = s.script[i].contact => j <= i
        /\ s.client # "none" => \A i \in 1 .. Len(s.script) : s.script[i].contact # Client

VARIABLES
    launcher,   \* pc: where it is; plan: how many nodes, which of them are
                \* malicious, who learns what; next: the node to start; boot:
                \* the life of node 0 whose DHT port it read; victims
    sidecar,    \* the life of node 0 whose port is in the file; OfEarlierRun
    metrics     \* of a node's file: the life that opened it, lines in it

vars == << directoryVars, censusVars, query, launcher, sidecar, metrics >>

OfEarlierRun == -1
NoFile == [life |-> 0, lines |-> 0]

-----------------------------------------------------------------------------
(* Planning                                                                *)

(* ResourceBudget.resolve(): an override, or what CPUs and memory allow.   *)
Resolve(requested, budget) ==
    LET cap == IF budget.max_nodes # 0 THEN budget.max_nodes
               ELSE Min({Max({1, (budget.cpus * budget.cpu_percent) \div 100}), Max({1, budget.mem_nodes})})
    IN  Min({requested, cap})

(* _required_classes_per_node()                                            *)
RequiredClassesPerNode(n) == Max({CLASSES_PER_NODE, (scenario.min_coverage * N_CLASSES + n - 1) \div n})

Classes == 0 .. N_CLASSES - 1

\* Classes are dealt one by one: the one with the most left to deal, to the
\* emptiest of the nodes that have room and lack it.
DealOne(s, n, perNode) ==
    LET c == CHOOSE c \in Classes : \A k \in Classes : s.left[k] < s.left[c] \/ (s.left[k] = s.left[c] /\ c <= k)
        Size(i) == Cardinality(s.held[i])
        eligible == {i \in 0 .. n - 1 : Size(i) < perNode /\ c \notin s.held[i]}
        i == CHOOSE i \in eligible : \A j \in eligible : Size(i) < Size(j) \/ (Size(i) = Size(j) /\ i <= j)
    IN  CASE s.left[c] = 0  -> s
          [] s.left[c] > 0 /\ eligible = {} -> [s EXCEPT !.left[c] = 0]
          [] OTHER -> [held |-> [s.held EXCEPT ![i] = @ \cup {c}], left |-> [s.left EXCEPT ![c] = @ - 1]]

Dealt(n, perNode) ==
    LET slots == n * perNode
        Even  == [c \in Classes |-> slots \div N_CLASSES + (IF c < slots % N_CLASSES THEN 1 ELSE 0)]
        deal[k \in 0 .. slots] ==
            IF k = 0 THEN [held |-> [i \in 0 .. n - 1 |-> {}], left |-> Even] ELSE DealOne(deal[k - 1], n, perNode)
    IN  deal[slots].held

(* _assign_classes_with_min_coverage(): who got less is topped up at       *)
(* random, which raises when there are not so many classes.                *)
AssignClasses(n, perNode) ==
    LET held  == Dealt(n, perNode)
        short == {i \in 0 .. n - 1 : Cardinality(held[i]) < perNode}
        lacks(i) == kSubset(perNode - Cardinality(held[i]), Classes \ held[i])
    IN  {[i \in 0 .. n - 1 |-> IF i \in short THEN held[i] \cup extra[i] ELSE held[i]] :
            extra \in {e \in [short -> UNION {lacks(i) : i \in short}] : \A i \in short : e[i] \in lacks(i)}}

Malicious(n, wanted) == LET m == Min({wanted, n - 2}) IN 1 .. m

Multiproc == scenario.kind \in {"run", "chaos"}

NoPlan == [nodes |-> 0, malicious |-> {}, classes |-> << >>]

(* _build_swarm(), and the plans of the backbones: the honest nodes of     *)
(* each modality share the classes, or top-up raised.                      *)
Plan ==
    LET n == IF Multiproc THEN Resolve(scenario.requested, scenario.budget) ELSE scenario.requested
        malicious == IF Multiproc THEN Malicious(n, scenario.malicious) ELSE {}
        honest    == n - Cardinality(malicious)
        choices   == AssignClasses(honest, RequiredClassesPerNode(honest))
    IN  \/ \E classes \in [Modalities -> choices] : launcher' = [launcher EXCEPT
                !.pc = IF Multiproc THEN "seed" ELSE "launch",
                !.plan = [nodes |-> n, malicious |-> malicious, classes |-> classes]]
        \/ choices = {} /\ launcher' = [launcher EXCEPT !.pc = "failed"]

\* Mutant of Build: the files of an earlier run stay.
BuildOver ==
    /\ launcher.pc = "build" /\ Plan
    /\ UNCHANGED << directoryVars, censusVars, query, sidecar, metrics >>

\* Only the metrics of an earlier run are removed.
Build ==
    /\ launcher.pc = "build" /\ Plan
    /\ metrics' = IF Multiproc THEN [i \in Nodes |-> NoFile] ELSE metrics
    /\ UNCHANGED << directoryVars, censusVars, query, sidecar >>

-----------------------------------------------------------------------------
(* run_multiproc.py                                                        *)

Fits == launcher.plan.nodes <= Processes

LaunchSeed ==
    /\ launcher.pc = "seed" /\ Fits
    /\ Start(0, 0, TRUE)
    /\ launcher' = [launcher EXCEPT !.pc = "read"]
    /\ UNCHANGED << censusVars, query, sidecar, metrics >>

(* _read_bootstrap_addr(): whatever the file says, or an error.            *)
ReadBootstrapAddr ==
    /\ launcher.pc = "read"
    /\ launcher' = IF sidecar = 0 THEN [launcher EXCEPT !.pc = "failed"]
                   ELSE [launcher EXCEPT !.pc = "launch", !.boot = sidecar]
    /\ UNCHANGED << directoryVars, censusVars, query, sidecar, metrics >>

LaunchNext ==
    LET i == launcher.next
    IN  /\ launcher.pc = "launch" /\ Multiproc
        /\ IF i < launcher.plan.nodes
           THEN /\ Start(i, 0, launcher.boot = proc[0].life /\ ~ Down(0))
                /\ launcher' = [launcher EXCEPT !.next = i + 1]
           ELSE /\ launcher' = [launcher EXCEPT !.pc = IF scenario.kind = "chaos" THEN "chaos" ELSE "join"]
                /\ UNCHANGED directoryVars
        /\ UNCHANGED << censusVars, query, sidecar, metrics >>

(* _worker() after start(): node 0 writes its port, everybody truncates    *)
(* its file, adds lines, and stops at the end.                             *)
OpenMetrics(i) ==
    /\ Multiproc /\ Up(i) /\ metrics[i].life # proc[i].life
    /\ sidecar' = IF i = 0 THEN proc[i].life ELSE sidecar
    /\ metrics' = [metrics EXCEPT ![i] = [life |-> proc[i].life, lines |-> 0]]
    /\ UNCHANGED << directoryVars, censusVars, query, launcher >>

Report(i) ==
    /\ Multiproc /\ Up(i) /\ metrics[i] = [life |-> proc[i].life, lines |-> 0]
    /\ metrics' = [metrics EXCEPT ![i].lines = 1]
    /\ UNCHANGED << directoryVars, censusVars, query, launcher, sidecar >>

WorkerEnds(i) ==
    /\ Multiproc /\ Up(i) /\ metrics[i] = [life |-> proc[i].life, lines |-> 1]
    /\ Stopped({i})
    /\ UNCHANGED << scenario, now, node, advert, wire, heard, censusVars, query, launcher, sidecar, metrics >>

(* run_chaos(): some honest nodes other than node 0 die at once, and the   *)
(* first of them starts again.                                             *)
Killable == {i \in 1 .. launcher.plan.nodes - 1 : i \notin launcher.plan.malicious}
Victims == {i \in Killable : Cardinality({j \in Killable : j < i}) < Max({1, scenario.kills})}

Kill ==
    /\ launcher.pc = "chaos"
    /\ Stopped(Victims)
    /\ launcher' = [launcher EXCEPT !.pc = IF Victims = {} THEN "failed" ELSE "restart", !.victims = Victims]
    /\ UNCHANGED << scenario, now, node, advert, wire, heard, censusVars, query, sidecar, metrics >>

Restart ==
    /\ launcher.pc = "restart"
    /\ Start(Min(launcher.victims), 0, launcher.boot = proc[0].life /\ ~ Down(0))
    /\ launcher' = [launcher EXCEPT !.pc = "join"]
    /\ UNCHANGED << censusVars, query, sidecar, metrics >>

(* The processes are joined, and _aggregate() reads the files.             *)
Aggregate ==
    /\ launcher.pc = "join"
    /\ \A i \in 0 .. launcher.plan.nodes - 1 : Down(i)
    /\ launcher' = [launcher EXCEPT !.pc = "done"]
    /\ UNCHANGED << directoryVars, censusVars, query, sidecar, metrics >>

PerNode == {i \in 0 .. launcher.plan.nodes - 1 : metrics[i].lines > 0}

-----------------------------------------------------------------------------
(* The backbones and run_cross_beacon.py, in one process: the next node    *)
(* starts when the one before is up.                                       *)

Script == scenario.script

(* A node after the other: _beacon() and _worker().                        *)
LaunchScripted ==
    LET i == launcher.next
    IN  /\ launcher.pc = "launch"
        /\ \A n \in Nodes : proc[n].state # "starting"
        /\ IF i <= Len(Script)
           THEN /\ Start(Script[i].node, Script[i].contact, TRUE)
                /\ launcher' = [launcher EXCEPT !.next = i + 1]
           ELSE /\ launcher' = [launcher EXCEPT !.pc = "running"]
                /\ UNCHANGED directoryVars
        /\ UNCHANGED << censusVars, query, sidecar, metrics >>

RunBackbone == scenario.kind = "backbone" /\ LaunchScripted
RunMultimodalBackbone == scenario.kind = "multimodal" /\ LaunchScripted
RunCross == scenario.kind = "cross" /\ LaunchScripted

(* After a while all nodes are stopped, workers before beacons; a peer     *)
(* somebody else runs may go any time.                                     *)
StopScripted ==
    /\ launcher.pc = "running"
    /\ scenario.ends
    /\ Stopped(Nodes)
    /\ launcher' = [launcher EXCEPT !.pc = "done"]
    /\ UNCHANGED << scenario, now, node, advert, wire, heard, censusVars, query, sidecar, metrics >>

Leave(n) ==
    /\ ~ Multiproc /\ n \in scenario.leavers /\ Up(n)
    /\ Stopped({n})
    /\ UNCHANGED << scenario, now, node, advert, wire, heard, censusVars, query, launcher, sidecar, metrics >>

(* infer_query.py and multimodal_query.py, once the backbone is there.     *)
RunQuery == launcher.pc = "running" /\ (RunInfer \/ RunMultimodalQuery)

-----------------------------------------------------------------------------
Init ==
    /\ QueryInit
    /\ launcher = [pc |-> IF scenario.kind = "cross" THEN "launch" ELSE "build", plan |-> NoPlan,
                   next |-> 1, boot |-> 0, victims |-> {}]
    /\ sidecar = IF scenario.reused THEN OfEarlierRun ELSE 0
    /\ metrics = [i \in Nodes |-> IF scenario.reused THEN [life |-> OfEarlierRun, lines |-> 1] ELSE NoFile]

Launching ==
    \/ Build \/ LaunchSeed \/ ReadBootstrapAddr \/ LaunchNext \/ Kill \/ Restart \/ Aggregate
    \/ RunBackbone \/ RunMultimodalBackbone \/ RunCross

Next ==
    \/ (ClientNext \/ RunQuery) /\ UNCHANGED << launcher, sidecar, metrics >>
    \/ /\ ~ Joining
       /\ \/ Launching \/ StopScripted
          \/ \E i \in Nodes : OpenMetrics(i) \/ Report(i) \/ WorkerEnds(i) \/ Leave(i)
          \/ CensusNext /\ UNCHANGED << query, launcher, sidecar, metrics >>

Spec == Init /\ [][Next]_vars

-----------------------------------------------------------------------------
(* Processes and their files: at most one life writes, and only node 0     *)
(* says where the DHT is.  See DirectoryTypeOK for what nodes know.        *)
TypeOK ==
    /\ DirectoryTypeOK
    /\ launcher.next \in 1 .. Processes + 1
    /\ launcher.victims \subseteq Nodes \ {0}
    /\ sidecar \in {OfEarlierRun} \cup 0 .. proc[0].life
    /\ \A i \in Nodes : metrics[i].life <= proc[i].life
    /\ \A b, p \in Nodes : Vouchers(census[b][p]) # {} => Beacon(b) /\ p # b

(* What a launcher aggregates was written in this run, by the last process *)
(* of that node, and only nodes that stayed dead have nothing to say       *)
(* (_build_swarm, _worker and _aggregate in run_multiproc.py).             *)
ReportsThisRun ==
    launcher.pc = "done" /\ Multiproc =>
        /\ \A i \in PerNode : metrics[i].life = proc[i].life
        /\ \A i \in Nodes : i < launcher.plan.nodes /\ (i \in launcher.victims => i = Min(launcher.victims))
            => i \in PerNode

(* A beacon's page shows a peer as active while the beacon itself has      *)
(* heard of it within the window, whatever it was told before, after, or   *)
(* by others (dispatch in net_node.py, snapshot in beacon_status.py).      *)
HeardIsActive ==
    \A b \in scenario.beacons : \A p \in Nodes \ (registry[b] \cup {b}) :
        /\ Up(b) /\ ~ scenario.local
        /\ heard[b][p] # Never /\ now - heard[b][p] <= ACTIVE_WINDOW_S
        => p \in DOMAIN Page(b) /\ Active(Page(b)[p])

\* Only one machine runs more than one of the nodes.
OneSite ==
    \A s \in Scenarios : \A i, j, k, l \in Nodes :
        i # j /\ s.machine[i] = s.machine[j] /\ k # l /\ s.machine[k] = s.machine[l] => s.machine[i] = s.machine[k]

(* When there is nothing left that one node could tell another, two nodes  *)
(* in the DHT of one live contact know each other at the right address,    *)
(* although one of them was killed and is now found at another port        *)
(* (run_chaos: "must re-bootstrap from node 0 and rejoin").                *)
Reunited ==
    Settled =>
        \A n, m \in Nodes :
            /\ n # m /\ Up(n) /\ Up(m) /\ Up(proc[n].contact)
            /\ proc[n].contact = proc[m].contact /\ proc[n].linked /\ proc[m].linked
            => m \in node[n].peers /\ node[n].bus[m] = Observed(n, m, proc[m].life)

(* Once the beacons have no news for each other, each of them lists every  *)
(* peer one of them has heard, although datagrams were lost, peers joined  *)
(* and left in between, and beacons do not forward what others report      *)
(* (federation.py, tick: "makes the swarm-peer aggregate complete on every *)
(* beacon without any forwarding").                                        *)
PagesAreComplete ==
    CensusSettled =>
        \A b, c \in scenario.beacons : \A p \in Nodes \ scenario.beacons :
            Up(b) /\ Up(c) /\ heard[c][p] # Never /\ ~ scenario.local => p \in DOMAIN Page(b)

(* A client that asks once hears every live expert that has an opinion,    *)
(* and every modality of such an expert takes part in the fusion, although *)
(* the beacon may be gone, lookups fail and no peer exchange came by       *)
(* (backbone_addrs: "depending on neither PEX ... nor the DHT").           *)
LiveExpertsAreHeard ==
    query.pc = "done" =>
        \A m \in Modalities : \A e \in ExpertsOf(m) \cap scenario.knowing :
            Up(e) => (IF scenario.client = "infer" THEN e ELSE m) \in Voices

(* Two beacons are bridged only if what their prototypes mean is the same, *)
(* however each of them was configured (space_fingerprint: "identical      *)
(* genesis space => prototype vectors are mutually meaningful").           *)
BridgedShareSpace ==
    \A b, c \in Nodes : c \in bridged[b] => Space(BuildTask(b)) = Space(BuildTask(c))

(* Prototypes are on their way from a beacon to another only if both are   *)
(* of one space (space_fingerprint: "Two beacons cross-learn only if these *)
(* match"; the README: beacons of different spaces "just don't             *)
(* cross-learn").                                                          *)
OnlyOneSpaceLearns ==
    \A d \in wire :
        d.kind = "protos" /\ Beacon(d.by) /\ Beacon(d.dst.of)
        => Space(BuildTask(d.by)) = Space(BuildTask(d.dst.of))
=============================================================================
