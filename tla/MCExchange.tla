----------------------------- MODULE MCExchange -----------------------------
EXTENDS Documents

Tags(at) == [src \in Sources |-> IF src \in DOMAIN at THEN at[src] ELSE "none"]
F(name, snake, kind, at, rules) ==
    [name |-> name, snake |-> snake, kind |-> kind, tags |-> Tags(at), skip |-> FALSE, embedded |-> FALSE, rules |-> rules]
R(name) == [name |-> name, arg |-> 0, values |-> {}]
N(name, n) == [R(name) EXCEPT !.arg = n]
V(name, vs) == [R(name) EXCEPT !.values = vs]

\* The first field of an input type, and the second.
Firsts == {
    F("Id", "id", "string", [path |-> "id"], <<>>),
    F("Q", "q", "string", [query |-> "q"], <<R("required"), V("oneof", {"x"})>>),
    F("N", "n", "int", [query |-> "n", form |-> "n"], <<N("min", 3)>>),
    F("N", "n", "int8", [json |-> "n"], <<N("max", 4)>>),
    F("Up", "up", "file", [form |-> "up"], <<R("required"), N("maxsize", 1), V("accept", {"png"})>>),
    F("Tags", "tags", "strings", [query |-> "tags"], <<R("required")>>),
    F("Wait", "wait", "duration", [query |-> "wait"], <<N("max", 4)>>)}
Seconds == {
    F("T", "t", "string", [json |-> "t", form |-> "t"], <<R("required"), N("min", 2)>>),
    F("M", "m", "string", [form |-> "m"], <<R("email")>>),
    F("Done", "done", "bool", [json |-> "done", query |-> "d"], <<>>),
    F("At", "at", "time", [json |-> "at"], <<R("required")>>),
    [F("X", "x", "string", [json |-> "x"], <<N("min", 2)>>) EXCEPT !.skip = TRUE]}
Wrong == {F("B", "b", "bool", [form |-> "b"], <<R("required")>>), F("O", "o", "other", [json |-> "o"], <<>>),
          F("U", "u", "string", [header |-> "u"], <<>>), F("S", "s", "string", [query |-> "s"], <<N("maxsize", 1)>>),
          [F("E", "e", "string", [json |-> "e"], <<>>) EXCEPT !.embedded = TRUE]}

Field(go, json, type) == [go |-> go, json |-> json, omit |-> FALSE, type |-> type, anon |-> FALSE, exported |-> TRUE]
Struct(name, fields) == [kind |-> "struct", name |-> name, elem |-> "text", fields |-> fields]
Leaf(kind) == [kind |-> kind, name |-> "", elem |-> "text", fields |-> <<>>]
Of(kind, elem) == [Leaf(kind) EXCEPT !.elem = elem]
Outer(embedded) == Struct("Board", <<[Field(embedded, "", embedded) EXCEPT !.anon = TRUE, !.exported = embedded = "Base"],
                                     Field("ID", "id", "time"), Field("Meta", "meta", "map"), Field("None", "-", "text")>>)
MCGoTypes ==
    [text |-> Leaf("scalar"), time |-> Leaf("known"), map |-> Of("map", "time"),
     posts |-> Of("slice", "View"), any |-> Leaf("interface"), nameless |-> Struct("", <<>>),
     View |-> Struct("View", <<Field("ID", "id", "text"), Field("Author", "author", "Author"), Field("Any", "any", "any")>>),
     Author |-> Struct("User", <<Field("Name", "name", "text"), [Field("Posts", "posts", "posts") EXCEPT !.omit = TRUE]>>),
     Account |-> Struct("User", <<Field("Mail", "mail", "text"), Field("Free", "free", "nameless")>>),
     Base |-> Struct("Base", <<Field("ID", "id", "text"), Field("Made", "made", "time")>>),
     Board |-> Outer("Base"),
     base |-> Struct("base", <<Field("Made", "made", "time")>>),
     Other |-> Struct("Other", <<Field("ID", "id", "time"), Field("Mail", "mail", "text")>>),
     \* Fields that only encoding/json reads, and two embedded structs with one member.
     Loose |-> Struct("Loose", <<[Field("base", "", "base") EXCEPT !.anon = TRUE, !.exported = FALSE],
                                 Field("Extra", "", "text"), Field("ID", "id", "Author")>>),
     Twin |-> Struct("Twin", <<[Field("Base", "", "Base") EXCEPT !.anon = TRUE],
                               [Field("Other", "", "Other") EXCEPT !.anon = TRUE]>>),
     Problem |-> Struct("Problem", <<Field("Title", "title", "text"), Field("Code", "status", "text")>>)]

Route(input, method, body, answers) ==
    [input |-> input, check |-> IF input = <<>> THEN <<>> ELSE <<"t">>, method |-> method, body |-> body, answers |-> answers,
     wilds |-> <<>>, custom |-> {}]
MCBuilt == {[code |-> 303, body |-> {}], [code |-> 422, body |-> {"Form"}]}
Show == <<F("Id", "id", "string", [path |-> "id"], <<>>), F("At", "at", "string", [path |-> "at"], <<>>),
          F("N", "n", "int", [query |-> "n"], <<N("max", 4)>>), F("D", "d", "bool", [query |-> "d"], <<>>)>>
ShowRoute == [Route(Show, "POST", "View", <<<<409, "Problem">>>>) EXCEPT !.wilds = <<"id", "at">>]
\* A tag without a name, and two answers of one status: the first option names no type.
UnnamedRoutes == {Route(<<F("W", "w", "string", [query |-> ""], <<R("required")>>)>>, "POST", "View", <<>>)}
TwiceRoutes == {Route(<<>>, "GET", "View", <<<<409, "nobody">>, <<409, "Problem">>>>)}
OwnRoutes == {[Route(<<F("T", "t", "string", [form |-> "t"], <<R("required")>>)>>, "POST", b, <<<<409, "Problem">>>>)
                 EXCEPT !.custom = c] : b \in {"View", "nobody"}, c \in SUBSET {"response", "responder", "invalid", "error"}}
MCRoutes == {Route(<<a, b>>, m, "View", <<>>) : a \in Firsts, b \in Seconds, m \in {"GET", "POST"}}
            \cup {Route(<<w>>, "POST", "View", <<>>) : w \in Wrong}
            \cup {Route(<<>>, "GET", b, as) : b \in {"View", "Board", "Loose", "Twin", "nobody", "interface"},
                                              as \in {<<>>, <<<<409, "Problem">>, <<200, "Board">>>>, <<<<410, "Account">>>>}}
            \cup {ShowRoute} \cup UnnamedRoutes \cup TwiceRoutes \cup OwnRoutes

Option(go, wire, at, kind) == [go |-> go, wire |-> wire, at |-> at, kind |-> kind, ptr |-> FALSE, omit |-> FALSE]
P(name, kind) == [name |-> name, kind |-> kind, fields |-> <<>>]
Opts == [P("opts", "options") EXCEPT !.fields = <<[Option("N", "n", "query", "int") EXCEPT !.ptr = TRUE],
            Option("D", "d", "query", "bool"), [Option("H", "h", "header", "string") EXCEPT !.omit = TRUE]>>]
Method(params) == [directive |-> "ok", http |-> "POST", path |-> <<[wild |-> FALSE, name |-> "posts"],
                   [wild |-> TRUE, name |-> "id"], [wild |-> TRUE, name |-> "at"]>>, opts |-> <<<<"idempotent", TRUE>>>>,
                   ctx |-> TRUE, params |-> params, results |-> "value"]
Good == Method(<<P("id", "string"), P("at", "string"), Opts>>)
Client(m) == [base |-> "http", auth |-> "none", opts |-> <<<<"attempts", TRUE>>>>, embeds |-> FALSE, methods |-> <<m>>]
\* The two parameters of the path stand in the other order, under one type.
Swapped == [Good EXCEPT !.params = <<@[2], @[1], @[3]>>]
MCInterfaces == {Client(Good), Client(Swapped), Client([Good EXCEPT !.opts = <<>>, !.params = Append(SubSeq(Good.params, 1, 2), P("body", "struct"))]),
                 Client([Good EXCEPT !.http = "GET", !.params = @ \o <<P("body", "struct")>>]),
                 Client([Good EXCEPT !.params = <<P("id", "time")>>, !.results = "none"]),
                 [Client([Good EXCEPT !.directive = "none"]) EXCEPT !.base = ""]}

Words(k) == CASE k = "string" -> {"", "x", "e@x"}
              [] k = "bool" -> {"true", "5"}
              [] k = "duration" -> {"5s", "5"}
              [] k = "time" -> {"t", "x"}
              [] k = "strings" -> {"x"}
              [] OTHER -> {"", "0", "5", "300"}
Partial(named, values(_)) ==
    LET all == UNION {values(n) : n \in named}
    IN UNION {{f \in [s -> all] : \A n \in s : f[n] \in values(n)} : s \in SUBSET named}
Named(rt, src) == {i \in DOMAIN rt.input : src \in DOMAIN rt.input[i].tags /\ SourceName(rt.input[i], src) # "none"}
Sent1(rt, src, values(_)) ==
    LET nm(i) == SourceName(rt.input[i], src)
        names == {nm(i) : i \in Named(rt, src)}
        val(n) == values(rt.input[CHOOSE i \in Named(rt, src) : nm(i) = n].kind)
    IN Partial(names, val)
Json(k) == {[t |-> "string", v |-> w] : w \in IF k \in {"string", "time"} THEN Words(k) ELSE {"x"}}
           \cup (IF k \in {"int", "int8"} THEN {[t |-> "number", v |-> w] : w \in {"0", "5", "300"}} ELSE {})
           \cup (IF k = "bool" THEN {[t |-> "bool", v |-> "true"]} ELSE {})
Uploads(k) == IF File(k) THEN {[size |-> 1, type |-> "png"], [size |-> 2, type |-> "png"], [size |-> 1, type |-> ""]} ELSE {}

Blanks == [ctype |-> "none", bad |-> FALSE, json |-> <<>>, form |-> <<>>, files |-> <<>>, query |-> <<>>, path |-> <<>>]
MCRequestsOf(rt) ==
    LET urls == {[Blanks EXCEPT !.query = q, !.path = p] :
                   q \in Sent1(rt, "query", Words), p \in Sent1(rt, "path", Words)}
        forms == Sent1(rt, "form", Words)
    IN UNION {{u, [u EXCEPT !.ctype = "urlencoded", !.bad = TRUE], [u EXCEPT !.ctype = "json", !.bad = TRUE]}
              \cup {[u EXCEPT !.ctype = "json", !.json = j] : j \in Sent1(rt, "json", Json)}
              \cup {[u EXCEPT !.ctype = "urlencoded", !.form = f] : f \in forms}
              \cup {[u EXCEPT !.ctype = "multipart", !.form = f, !.files = up] :
                       f \in forms, up \in Sent1(rt, "form", Uploads)} : u \in urls}

MCValues(p) == CASE p.kind = "string" -> {"x", "e@x", ""}
                 [] p.kind = "struct" -> {<<>>}
                 [] OTHER -> {0, 5}
MCOptions == {[N |-> n, D |-> {d}, H |-> {""}] : n \in {{}, {0}, {5}}, d \in BOOLEAN}
MCArgsOf(m) == FoldLeft(LAMBDA acc, p : {Append(a, v) : a \in acc, v \in IF p.kind = "options" THEN MCOptions ELSE MCValues(p)},
                        {<<>>}, m.params)
=============================================================================
