------------------------------ MODULE MCSession ------------------------------
(* Scripts for TLC: f and c share a bucket, h has its own. *)
EXTENDS Session

Def(n, body) == [op |-> "def", name |-> n, body |-> body]
CallOf(n) == [op |-> "call", name |-> n]
DotOf(f) == [op |-> "dot", file |-> f]
Other == [op |-> "plain"]

MCName == {"f", "c", "h"}
MCHash == [f |-> 103, c |-> 100, h |-> 105]
MCText(form, items) == [form |-> form, items |-> items]
MCContent ==
    [\* f() { c; . run; }; c() { :; }; f() { c; . run; }; f; . lib; . lib; f; h
     main |-> MCText("good", <<Def("f", <<CallOf("c"), DotOf("run")>>), Def("c", <<Other>>),
                               Def("f", <<CallOf("c"), DotOf("run")>>),
                               CallOf("f"), DotOf("lib"), DotOf("lib"), CallOf("f"),
                               CallOf("h")>>),
     \* f; . broken; c
     plain |-> MCText("good", <<CallOf("f"), DotOf("broken"), CallOf("c")>>),
     \* h() { :; }; . open; h
     last |-> MCText("good", <<Def("h", <<Other>>), DotOf("open"), CallOf("h")>>),
     \* c() { h; }; h() { . run; }; c; . half; c; c
     deep |-> MCText("good", <<Def("c", <<CallOf("h")>>), Def("h", <<DotOf("run"), Other>>),
                               CallOf("c"), DotOf("half"), CallOf("c"), CallOf("c")>>),
     \* c; :; h
     run |-> MCText("good", <<CallOf("c"), Other, CallOf("h")>>),
     \* c() { h; }; f() { :; }; f() { c; }; f
     lib |-> MCText("good", <<Def("c", <<CallOf("h")>>), Def("f", <<Other>>),
                              Def("f", <<CallOf("c")>>), CallOf("f")>>),
     \* h() { :; }; and a syntax error
     half |-> MCText("grammar", <<Def("h", <<Other>>), CallOf("h")>>),
     broken |-> MCText("quote", << >>),
     open |-> MCText("var", << >>),
     long |-> MCText("long", <<CallOf("c")>>)]
MCFile == DOMAIN MCContent
=============================================================================
