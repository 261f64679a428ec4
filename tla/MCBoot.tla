------------------------------- MODULE MCBoot -------------------------------
EXTENDS Boot

F(snake, kind) == [go |-> snake, tag |-> <<>>, explicit |-> FALSE, snake |-> snake, kind |-> kind, anon |-> FALSE,
                   exported |-> TRUE, required |-> FALSE, secret |-> FALSE, unknown |-> FALSE, def |-> <<>>, fields |-> <<>>]
Default(f, v) == [f EXCEPT !.def = <<v>>]
OTel == [F(<<"OTEL">>, "struct") EXCEPT !.explicit = TRUE, !.tag = <<"OTEL">>, !.fields =
            <<Default(F(<<"ENDPOINT">>, "url"), "")>>]
BaseConfig == <<Default(F(<<"PORT">>, "int"), "8080"), Default(F(<<"GRACE">>, "duration"), "15s"),
                Default(F(<<"MIGRATE", "ON", "BOOT">>, "bool"), "false"),
                [F(<<"AVERO", "SECRET">>, "string") EXCEPT !.required = TRUE, !.secret = TRUE], OTel>>
Embedded == [F(<<"BaseConfig">>, "struct") EXCEPT !.anon = TRUE, !.fields = BaseConfig]
Plain == <<Embedded, F(<<"DATABASE", "URL">>, "string")>>
\* The configuration that `avero new` writes, which gives the address a default.
Defaulted == <<Embedded, Default(F(<<"DATABASE", "URL">>, "string"), "A")>>
\* The same configuration with a field that each fault of a tag spoils, fields that the loader skips, and second
\* fields that read PORT and the variable of the nested OTEL, and a number of a narrow type.
Odd == Plain \o <<[F(<<"X">>, "string") EXCEPT !.required = TRUE, !.def = <<"x">>], [F(<<"Y">>, "string") EXCEPT !.unknown = TRUE],
                  F(<<"Z">>, "other"), [F(<<"W">>, "other") EXCEPT !.tag = <<"-">>], [F(<<"v">>, "other") EXCEPT !.exported = FALSE],
                  Default(F(<<"U">>, "bool"), "maybe"),
                  [F(<<"SECOND", "PORT">>, "int") EXCEPT !.explicit = TRUE, !.tag = <<"PORT">>, !.required = TRUE],
                  [F(<<"COLLECTOR">>, "url") EXCEPT !.explicit = TRUE, !.tag = <<"OTEL", "ENDPOINT">>],
                  Default(F(<<"LIMIT">>, "int8"), "5")>>

App == [type |-> Plain, dsn |-> TRUE, wire |-> "ok", handler |-> TRUE, sets |-> {1, 2}, older |-> FALSE, gomod |-> TRUE]
Odds == {[App EXCEPT !.dsn = FALSE], [App EXCEPT !.wire = "both"],
         [App EXCEPT !.handler = FALSE], [App EXCEPT !.gomod = FALSE], [App EXCEPT !.older = TRUE], [App EXCEPT !.sets = {}]}

S(v) == <<<<"AVERO", "SECRET">>, v>>
U(v) == <<<<"DATABASE", "URL">>, v>>
Shell == <<S("long"), U("A")>>
OnBootShell == Append(Shell, <<<<"MIGRATE", "ON", "BOOT">>, "true">>)
Wide == <<U("A"), <<<<"LIMIT">>, "8080">>, <<<<"OTEL", "ENDPOINT">>, "::">>>>
Shells == {<<S("short")>>, <<S(""), U(""), <<<<"PORT">>, "maybe">>>>}
Line(name, text, marks) == [name |-> name, text |-> text, marks |-> marks]
EnvFile == <<[name |-> <<>>, text |-> "", marks |-> 0], Line(<<"AVERO", "SECRET">>, "long", 0), Line(<<"DATABASE", "URL">>, "B", 2)>>
\* The .env that is a copy of the .env.example of `avero new`.
NewEnvFile == <<Line(<<"AVERO", "SECRET">>, "long", 0), Line(<<"DATABASE", "URL">>, "A", 0)>>
EnvFiles == {<<Line(<<"DATABASE", "URL">>, "B", 0), Line(<<"KEY">>, "", 1), Line(<<"inside">>, "", 0), Line(<<"end">>, "", 1)>>,
             <<Line(<<"KEY">>, "", 1), Line(<<"AVERO", "SECRET">>, "long", 0)>>}
Dir == [up |-> {1, 2}, down |-> {2}]
At(a, s, e, d) == [app |-> a, shell |-> s, envfile |-> e, dir |-> d]
MCSurroundings == {At(App, Shell, EnvFile, Dir), At(App, OnBootShell, <<>>, Dir),
                   At([App EXCEPT !.older = TRUE], Shell, EnvFile, [up |-> {2}, down |-> {2}]),
                   At([App EXCEPT !.type = Defaulted], <<S("long")>>, EnvFile, Dir),
                   At([App EXCEPT !.type = Defaulted], <<S("long")>>, NewEnvFile, Dir),
                   At([App EXCEPT !.type = Odd], Wide, <<>>, Dir)}
             \cup {At(a, Shell, <<>>, Dir) : a \in Odds} \cup {At(App, s, EnvFile, Dir) : s \in Shells}
             \cup {At(App, <<S("long")>>, e, Dir) : e \in EnvFiles}
Symmetry == Permutations(Procs)
=============================================================================
