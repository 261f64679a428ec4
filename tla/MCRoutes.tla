------------------------------ MODULE MCRoutes ------------------------------
EXTENDS Routes

MCLits == {"a", "b", "c"}
MCVerbs == {"GET", "POST"}
Tx == [name |-> "tx", needs |-> TRUE, absent |-> FALSE]
MCMws == {Tx, [Tx EXCEPT !.absent = TRUE]}

Call(kind, method, p) == [kind |-> kind, method |-> method, pattern |-> p, absent |-> FALSE, keep |-> FALSE]
A == Pattern(<<"a">>, "exact")
Files == Call("mount", "*", Pattern(<<"b">>, "tree"))
MCCalls == {Call("typed", "GET", A), Call("plain", "GET", Slash), Call("typed", "GET", Pattern(<<"{w}">>, "exact")),
            Files, [Files EXCEPT !.keep = TRUE], [Call("plain", "GET", A) EXCEPT !.absent = TRUE]}
MCGroups == {A}

Mod(name, scope, cs) == [name |-> name, scope |-> scope, calls |-> cs,
                        parts |-> <<"job">>, models |-> {"Post"}, says |-> {}]
M1 == Mod("m1", NoScope, <<Call("typed", "GET", A), Files>>)
M2 == [Mod("m2", [prefix |-> A, mws |-> <<Tx>>], <<[Files EXCEPT !.keep = TRUE], Call("plain", "POST", Slash)>>)
      EXCEPT !.says = {[name |-> "", routes |-> {}, models |-> {{}}]}]
Wrong == Mod("m4", NoScope, <<Call("plain", "GET", Empty), Call("plain", "GET", [A EXCEPT !.rooted = FALSE]),
                               [Files EXCEPT !.absent = TRUE], Call("plain", "GET", A), Call("typed", "GET", A)>>)
MCLists == {<<M1>>, <<M2, M1>>, <<M2, M2>>, <<NoModule, M2>>, <<[M2 EXCEPT !.name = ""]>>,
            <<M1, [M1 EXCEPT !.name = "m3"]>>,
            <<M2, [M1 EXCEPT !.name = "m2"]>>, <<Wrong>>}
=============================================================================
