------------------------------- MODULE Config -------------------------------
(***************************************************************************)
(* The configuration of an application: config.LoadFrom fills a struct     *)
(* from an environment and collects every fault, and the CLI reads .env    *)
(* and the shell into one environment. A field of a struct type is         *)
(* [go, tag, explicit, snake, kind, anon, exported, required, secret,      *)
(* unknown, def, fields]; tag is the name of its env tag, <<>> for none,   *)
(* and snake the name the loader derives. A name is the sequence of the    *)
(* words between its underscores.                                          *)
(***************************************************************************)
EXTENDS Naturals, SequencesExt

CONSTANT Nesting   \* bound: how deep the structs of a configuration nest, their fields included

ASSUME NestingAssumption == Nesting \in Nat

Redacted == "********"
Lists == {"string", "strings"}

\* What the parser of each kind accepts, over the values of the model.
Parses(kind, raw) ==
    \/ kind \in Lists
    \/ kind = "url" /\ raw # "::"
    \/ kind = "bool" /\ raw \in {"true", "false"}
    \/ kind = "int" /\ raw \in {"5", "8080"}
    \/ kind = "int8" /\ raw = "5"
    \/ kind = "duration" /\ raw = "15s"

Supported(kind) == kind \in Lists \cup {"url", "bool", "int", "int8", "duration"}

\* The example that the repair of a fault gives. It knows no width.
Example(kind) == CASE kind \in Lists -> "a value" [] kind = "url" -> "https" [] kind = "bool" -> "true"
                   [] kind \in {"int", "int8"} -> "8080" [] kind = "duration" -> "15s" [] OTHER -> "a value"

Show(raw, secret) == IF secret /\ raw # "" THEN Redacted ELSE raw

\* os/exec and hasEnv read the last value of a name; <<>> is a variable that is not set.
Lookup(env, name) ==
    LET at == {i \in DOMAIN env : env[i][1] = name}
    IN IF at = {} THEN <<>> ELSE <<env[CHOOSE i \in at : \A j \in at : j <= i][2]>>

\* What one leaf adds: its row, its fault and the value it sets.
Leaf(f, name, path, env) ==
    LET fault(why, shown, tag) == [name |-> name, why |-> why, shown |-> shown, tag |-> tag, kind |-> f.kind]
        tagged(why) == [rows |-> <<>>, values |-> <<>>, faults |-> <<fault(why, "", TRUE)>>]
        row(source, value) == [path |-> path, name |-> name, source |-> source, value |-> value]
        absent == row("absent", "")
        filled(source, raw, tag) ==
            [rows |-> <<row(source, Show(raw, f.secret))>>,
             values |-> IF Parses(f.kind, raw) THEN <<<<name, raw>>>> ELSE <<>>,
             faults |-> IF Parses(f.kind, raw) THEN <<>> ELSE <<fault("shape", Show(raw, f.secret), tag)>>]
        missing(why) == [rows |-> <<absent>>, values |-> <<>>, faults |-> <<fault(why, "", FALSE)>>]
        raw == Lookup(env, name)
    IN IF ~Supported(f.kind) THEN tagged("type")
       ELSE IF f.unknown THEN tagged("option")
       ELSE IF f.required /\ f.def # <<>> THEN tagged("default")
       ELSE IF raw = <<"">> /\ f.required THEN missing("empty")
       ELSE IF raw # <<>> THEN filled("env", raw[1], FALSE)
       ELSE IF f.def # <<>> THEN filled("default", f.def[1], TRUE)
       ELSE IF f.required THEN missing("unset")
       ELSE [rows |-> <<absent>>, values |-> <<>>, faults |-> <<>>]

Nothing == [rows |-> <<>>, values |-> <<>>, faults |-> <<>>]
\* A mutant: the walk stops at the first fault.
JoinedStops(a, b) == IF a.faults # <<>> THEN a
                     ELSE [rows |-> a.rows \o b.rows, values |-> a.values \o b.values, faults |-> b.faults]
Joined(a, b) == [rows |-> a.rows \o b.rows, values |-> a.values \o b.values, faults |-> a.faults \o b.faults]

\* A field of a type, with the prefix of its name and the path of the structs around it.
FieldAt(f, prefix, path) == [f |-> f, prefix |-> prefix, path |-> path]
Name(l) == l.prefix \o IF l.f.tag = <<>> THEN l.f.snake ELSE l.f.tag
Path(l) == Append(l.path, l.f.go)

\* What the walk meets at a field: nothing, a leaf, or the fields of a struct. An embedded struct with no tag shares
\* the prefix and the path of its parent.
Inside(l) ==
    LET shares == l.f.anon /\ ~l.f.explicit
    IN IF ~l.f.exported \/ l.f.tag = <<"-">> THEN <<>>
       ELSE IF l.f.kind # "struct" THEN <<l>>
       ELSE [i \in DOMAIN l.f.fields |-> IF shares THEN FieldAt(l.f.fields[i], l.prefix, l.path)
                                         ELSE FieldAt(l.f.fields[i], Name(l), Path(l))]
Deeper(ls) == FlattenSeq([i \in DOMAIN ls |-> Inside(ls[i])])

\* The leaves of a type, in the order of the walk.
Walk(type) ==
    LET level[n \in Nat] == IF n = 0 THEN [i \in DOMAIN type |-> FieldAt(type[i], <<>>, <<>>)] ELSE Deeper(level[n - 1])
    IN level[Nesting]

\* Every leaf is read, so one load names every fault. The value and the report come back beside the faults.
LoadFrom(type, env) == FoldLeft(LAMBDA got, l : Joined(got, Leaf(l.f, Name(l), Path(l), env)), Nothing, Walk(type))

\* The value of a variable in what LoadFrom filled; a field that no value filled holds its zero, "".
ValueOf(load, name) == LET got == Lookup(load.values, name) IN IF got = <<>> THEN "" ELSE got[1]

\* The .env file. A line is [name, text, marks]: the quotation marks it holds decide whether it opens a value,
\* and a line inside an open value ends it at its first mark.
ParseEnv(lines) ==
    LET line(s, l) ==
            CASE s.open # <<>> /\ l.marks = 0 -> s
              [] s.open # <<>> /\ l.marks > 0 -> [open |-> <<>>, out |-> Append(s.out, <<s.open[1], "several lines">>)]
              [] s.open = <<>> /\ l.name = <<>> -> s
              [] s.open = <<>> /\ l.name # <<>> /\ l.marks = 1 -> [s EXCEPT !.open = <<l.name>>]
              [] OTHER -> [s EXCEPT !.out = Append(s.out, <<l.name, l.text>>)]
    IN FoldLeft(line, [open |-> <<>>, out |-> <<>>], lines)

EnvFault(lines) == ParseEnv(lines).open # <<>>

\* The variables of .env, and the variables of the shell after them.
\* A mutant: the file wins over the shell.
EnvironmentOfFile(lines, shell) == shell \o ParseEnv(lines).out
Environment(lines, shell) == ParseEnv(lines).out \o shell
HasEnv(env, name) == Lookup(env, name) \notin {<<>>, <<"">>}
=============================================================================
