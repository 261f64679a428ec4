----------------------------- MODULE Documents ------------------------------
(***************************************************************************)
(* The description of a route with the schemas of its answers: Exchange    *)
(* over the walk of Schemas, which a configuration gives it as WalkOf.     *)
(***************************************************************************)
EXTENDS Exchange, Schemas

\* A reference of a document names a schema of it, and the schema is the one of
\* the type that the answer has. It is closed: it holds every member that Go
\* writes from a field with a json tag under exported fields, none that no field
\* states, and for a struct that is ReadAlike exactly the members that Go writes,
\* each required unless Go may leave it out. Of another struct Go writes members
\* that the closed schema refuses: an exported field without a tag, and a field
\* under an embedded struct that is not exported.
SchemaIsTheAnswer ==
    phase \notin {"sources", "generated", "refused"} =>
        /\ \A t \in {route.body} \cup {a[2] : a \in Range(route.answers)} : t \in DOMAIN GoTypes =>
              \A s \in {s \in Within(t, {}) : Kind(s) = "struct" /\ GoTypes[s].name # ""} :
                 LET schema == doc.schemas[GoTypes[s].name] IN
                 /\ doc.holders[GoTypes[s].name] = s /\ schema.closed
                 /\ {m.member : m \in {m \in Written(s) : m.shown}} \subseteq DOMAIN schema.props
                 /\ DOMAIN schema.props \subseteq {m.member : m \in Promoted(s)}
                 /\ ReadAlike(s) => /\ DOMAIN schema.props = {m.member : m \in Written(s)}
                                    /\ schema.required = {m.member : m \in {m \in Written(s) : ~m.omit}}
        /\ \A n \in DOMAIN doc.schemas : \A p \in DOMAIN doc.schemas[n].props :
              LET s == doc.schemas[n].props[p] IN s.of = "ref" => s.ref \in DOMAIN doc.schemas
=============================================================================
