----------------------------- MODULE MCLaunchers -----------------------------
(* Small instances of Launchers. *)
EXTENDS Launchers

Budget == [max_nodes |-> 0, cpus |-> 8, cpu_percent |-> 60, mem_nodes |-> 3]

OneMachine == [n \in Nodes |-> "m0"]
Apart == [n \in Nodes |-> IF n = 0 THEN "m0" ELSE IF n = 1 THEN "m1" ELSE "m2"]

Synthetic(seed) == [name |-> "synthetic", dim |-> 16, world_seed |-> seed]
Digits(seed) == [Synthetic(seed) EXCEPT !.name = "digits"]
Same == [n \in Nodes |-> Digits(0)]

Base == [machine |-> OneMachine, local |-> TRUE, flaky |-> FALSE, told |-> FALSE, until |-> 0, inFlight |-> 1,
         beacons |-> {}, config |-> Same, kind |-> "run", requested |-> 24, budget |-> Budget,
         malicious |-> 0, kills |-> 1, reused |-> FALSE, script |-> << >>, ends |-> FALSE, leavers |-> {},
         min_coverage |-> 2, modalities |-> 1, client |-> "none", publicHost |-> "m0", knowing |-> {}]

Chaos  == [Base EXCEPT !.kind = "chaos"]
Pair   == [Chaos EXCEPT !.budget.mem_nodes = 2, !.inFlight = 3]
Again  == [Chaos EXCEPT !.reused = TRUE, !.kills = 2]
Alone  == [Base EXCEPT !.budget.cpus = 2]

Node(n, c) == [node |-> n, contact |-> c]
TwoBeacons == [Base EXCEPT !.kind = "cross", !.machine = Apart, !.local = FALSE, !.flaky = TRUE, !.told = TRUE,
                           !.beacons = {0, 1}, !.script = << Node(0, 0), Node(1, 1), Node(2, 0) >>]
Strangers  == [TwoBeacons EXCEPT !.config[1] = Digits(1), !.flaky = FALSE, !.until = 1, !.leavers = {2}]
Lonely     == [TwoBeacons EXCEPT !.until = 2, !.script = << Node(0, 0), Node(1, 0) >>, !.beacons = {0}, !.leavers = {1}]
Bench      == [TwoBeacons EXCEPT !.local = TRUE, !.machine = OneMachine, !.ends = TRUE]
Backbone   == [TwoBeacons EXCEPT !.kind = "backbone", !.machine = OneMachine, !.beacons = {0},
                           !.requested = 2, !.script = << Node(0, 0), Node(1, 0), Node(2, 0) >>]

\* The experts are 1 and 2, and the client, which is elsewhere, is the last.
Elsewhere == [n \in Nodes |-> IF n = Client THEN "m1" ELSE "m0"]
Infer == [TwoBeacons EXCEPT !.kind = "backbone", !.machine = Elsewhere, !.beacons = {}, !.requested = 2, !.inFlight = 2,
                            !.script = << Node(1, 0), Node(2, 0) >>, !.client = "infer", !.knowing = {1, 2}, !.leavers = {1}]
Fuse  == [Infer EXCEPT !.kind = "multimodal", !.requested = 1, !.modalities = 2, !.min_coverage = 1, !.client = "fuse",
                       !.script = << Node(0, 0), Node(1, 0) >>, !.knowing = {1}, !.leavers = {0}, !.flaky = FALSE]

Everything == {Chaos, Pair, Again, Alone, TwoBeacons, Strangers, Bench, Backbone, Lonely, Infer, Fuse}
JustStrangers == {Strangers}

\* Reunited is false where two machines run several nodes each (see the README).
ASSUME CheckedLayouts == OneSite
=============================================================================
