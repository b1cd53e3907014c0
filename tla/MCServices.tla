----------------------------- MODULE MCServices -----------------------------
(* Small instances of Services.  Each scenario exercises one service.      *)
EXTENDS Services

CONSTANTS p, q      \* peers

Blob == << 1, 2, 3 >>

Says(label, conf) == [label |-> label, conf |-> conf]
Models ==
    (p :> (0 :> Says("m", 2) @@ 1 :> Says("n", 1) @@ 2 :> Abstained))
    @@ (q :> (0 :> Says("n", 1) @@ 1 :> Abstained @@ 2 :> Abstained))
Mine == 0 :> Says("m", 1) @@ 1 :> Abstained
Sample(x, y) == [x |-> x, y |-> y]

Calling(cs, feed, merges) ==
    [calls |-> cs, knows |-> Models, local |-> Mine,
     holdout |-> << Sample(0, "m"), Sample(1, "m"), Sample(2, "n") >>, feed |-> feed, merges |-> merges,
     fetches |-> << >>, history |-> << >>, checkpoints |-> 0, restarts |-> 0, offers |-> 0, envelopes |-> 0]

Call(kind, x, ps) == [kind |-> kind, x |-> x, peers |-> ps]
Idle == Calling(<< >>, << >>, 0)
Fetch(kind, peer) == [kind |-> kind, peer |-> peer]

Questions == Calling(<< Call("infer", 0, << p, q >>), Call("page", 1, << q, p >>) >>, << >>, 1)
Alone     == Calling(<< Call("infer", 0, << >>), Call("infer", 1, << p, q >>) >>, << >>, 0)
Exams     == Calling(<< Call("calibrate", 0, << p, Me >>), Call("calibrate", 0, << p >>) >>, << Sample(0, "n") >>, 1)
Audits    == [Idle EXCEPT !.fetches = << Fetch("chain", p), Fetch("chain", p) >>, 
                        !.history = << 1, 1, 1 >>, !.checkpoints = 3, !.restarts = 1]
Joins     == [Idle EXCEPT !.fetches = << Fetch("emb", p), Fetch("emb", p) >>]
Pages     == [Idle EXCEPT !.offers = 2, !.envelopes = 4]

Everything == {Questions, Alone, Exams, Audits, Joins, Pages}
JustAudits == {Audits}
=============================================================================
