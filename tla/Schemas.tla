------------------------------ MODULE Schemas -------------------------------
(***************************************************************************)
(* The walk of src/openapi/reflect.go over the Go types that the answers   *)
(* of an application name: the schema of each struct, the name that holds  *)
(* it, and the pairs of types that state one name. What encoding/json      *)
(* writes for a struct is external (Written).                              *)
(*                                                                         *)
(* A type is a record [kind, name, elem, fields]: kind is "struct",        *)
(* "slice", "map", "interface", "scalar" or "known" (a type that writes    *)
(* itself as one value), elem the type of an item. A field is a record     *)
(* [go, json, omit, type, anon, exported]: json is the name in its tag,    *)
(* "" without one, or "-". A pointer stands for the type behind it.        *)
(***************************************************************************)
EXTENDS Naturals, Sequences, SequencesExt, FiniteSets

CONSTANTS GoTypes  \* a function from the names of the types to their records

Kind(t) == GoTypes[t].kind
Fields(t) == GoTypes[t].fields

\* The name that a tag states, without its options; "" for none.
TagName(f) == IF f.json = "-" THEN "" ELSE f.json

Embedded(f) == f.anon /\ f.json = "" /\ Kind(f.type) = "struct"

NewWalk == [schemas |-> <<>>, holders |-> <<>>, collisions |-> {}]
Object == [props |-> <<>>, required |-> {}, closed |-> FALSE]

RECURSIVE TypeSchema(_, _), CollectInto(_, _), FieldsInto(_, _, _)

\* The schema of a type, and the walk that met it: <<walk, schema>>.
TypeSchema(w, t) ==
    CASE Kind(t) \in {"slice", "map"} ->
            LET item == TypeSchema(w, GoTypes[t].elem) IN <<item[1], [of |-> Kind(t), item |-> item[2]]>>
      [] Kind(t) = "struct" /\ GoTypes[t].name = "" -> <<w, [of |-> "object"]>>
      [] Kind(t) = "struct" /\ GoTypes[t].name # "" ->
            <<CollectInto(w, t), [of |-> "ref", ref |-> GoTypes[t].name]>>
      [] OTHER -> <<w, [of |-> Kind(t)]>>

\* Mutant: the first type of a name stands for every other one.
CollectFirst(w, t) ==
    LET key == GoTypes[t].name IN
    IF key \in DOMAIN w.holders THEN w
    ELSE LET held == [w EXCEPT !.holders = (key :> t) @@ @, !.schemas = (key :> Object) @@ @]
             out == FieldsInto(held, t, [Object EXCEPT !.closed = TRUE])
         IN [out[1] EXCEPT !.schemas = (key :> out[2]) @@ @]

\* The entry stands before the walk of the fields, so a type that names itself ends.
CollectInto(w, t) ==
    LET key == GoTypes[t].name IN
    IF key \in DOMAIN w.holders
      THEN IF w.holders[key] = t THEN w
           ELSE [w EXCEPT !.collisions = @ \cup {<<key, w.holders[key], t>>}]
    ELSE LET held == [w EXCEPT !.holders = (key :> t) @@ @, !.schemas = (key :> Object) @@ @]
             out == FieldsInto(held, t, [Object EXCEPT !.closed = TRUE])
         IN [out[1] EXCEPT !.schemas = (key :> out[2]) @@ @]

\* The direct fields stand first: a field of the outer struct hides the field of
\* an embedded struct that carries the same name.
FieldsInto(w, t, out) ==
    LET shown == SelectSeq(Fields(t), LAMBDA f : f.exported)
        Member(acc, f) ==
            IF TagName(f) = "" \/ TagName(f) \in DOMAIN acc[2].props THEN acc
            ELSE LET s == TypeSchema(acc[1], f.type) IN
                 <<s[1], [acc[2] EXCEPT !.props = (TagName(f) :> s[2]) @@ @,
                                        !.required = IF f.omit THEN @ ELSE @ \cup {TagName(f)}]>>
        direct == FoldLeft(Member, <<w, out>>, SelectSeq(shown, LAMBDA f : ~Embedded(f)))
    IN FoldLeft(LAMBDA acc, f : FieldsInto(acc[1], f.type, acc[2]), direct, SelectSeq(shown, Embedded))

\* The walk over the types of the answers of a route.
WalkTypes(types) == FoldLeft(LAMBDA w, t : TypeSchema(w, t)[1], NewWalk, types)

-----------------------------------------------------------------------------
(* encoding/json: the fields that Go promotes to a struct, with the embedded *)
(* fields on the way to each (at), and the members that it writes. It        *)
(* promotes the exported fields of an embedded struct that is not exported   *)
(* too and names a field without a tag by its Go name. Of the fields of one  *)
(* member those at the least depth count, of these the ones with a tag, and  *)
(* if several are left none is written.                                      *)

RECURSIVE PromotedAt(_, _, _)
PromotedAt(t, at, shown) ==
    UNION {LET f == Fields(t)[i] IN
           IF Embedded(f) THEN PromotedAt(f.type, Append(at, f.go), shown /\ f.exported)
           ELSE IF ~f.exported \/ f.json = "-" THEN {}
           ELSE {[member |-> IF f.json = "" THEN f.go ELSE f.json, type |-> f.type, omit |-> f.omit,
                  at |-> at, tagged |-> f.json # "", shown |-> shown /\ f.json # ""]} :
           i \in DOMAIN Fields(t)}
Promoted(t) == PromotedAt(t, <<>>, TRUE)

Beats(m, o) == Len(m.at) < Len(o.at) \/ (Len(m.at) = Len(o.at) /\ m.tagged /\ ~o.tagged)
Written(t) == {m \in Promoted(t) : \A o \in Promoted(t) \ {m} : o.member = m.member => Beats(m, o)}

\* A struct that the walk reads as Go does: each promoted field has a tag and
\* stands under exported fields only, and of two of one member one stands in a
\* struct that embeds the other's.
ReadAlike(t) ==
    \A m, o \in Promoted(t) :
        m.shown /\ (m # o /\ m.member = o.member => m.at # o.at /\ (IsPrefix(m.at, o.at) \/ IsPrefix(o.at, m.at)))

\* The structs that a value of a type can hold.
RECURSIVE Within(_, _)
Within(t, seen) ==
    IF t \in seen THEN seen
    ELSE CASE Kind(t) \in {"slice", "map"} -> Within(GoTypes[t].elem, seen \cup {t})
           [] Kind(t) = "struct" ->
                FoldLeft(LAMBDA acc, m : Within(m.type, acc), seen \cup {t}, SetToSeq(Written(t)))
           [] OTHER -> seen
=============================================================================
