--------------------------- MODULE MCSchemaRules ---------------------------
(* An index whose object p, plain or nested, holds one field of each kind, and
   another that calls p nested and p.h a number; p.x is the time field.        *)
EXTENDS SchemaRules, TLC

MCNames == {"p", "x", "h", "k"}
MCTypes == {"", "object", "nested", "geo_point", "text", "match_only_text", "keyword",
            "constant_keyword", "wildcard", "boolean", "ip", "date", "date_nanos"} \cup numericTypes

Attrs(t) == [type |-> t, index |-> TRUE, docValues |-> TRUE, fielddata |-> FALSE]
Leaf(t) == [properties |-> FALSE, fields |-> <<>>] @@ Attrs(t)
Holder(t) == [Leaf(t) EXCEPT !.properties = TRUE]
Holding(t, name, leaf) == (<<"p">> :> Holder(t)) @@ (<<"p", name>> :> leaf)

Leaves == {Leaf(t) : t \in {"", "geo_point", "match_only_text", "constant_keyword", "wildcard",
                            "boolean", "ip", "date", "date_nanos", "long", "unsigned_long", "object"}}
          \cup {[Leaf("keyword") EXCEPT !.index = FALSE], [Leaf("long") EXCEPT !.docValues = FALSE],
                [Leaf("text") EXCEPT !.fields = "k" :> Attrs("keyword")],
                [Leaf("text") EXCEPT !.fielddata = TRUE, !.fields = "k" :> Attrs("")]}

Plain == Holding("", "x", Leaf("keyword"))
Nested == Holding("nested", "x", Leaf("keyword"))
EmptyMapping == <<>>
Varied == {Holding(t, "x", leaf) : t \in {"", "nested"}, leaf \in Leaves}
Other == Holding("nested", "h", Leaf("long"))
Flat == Holding("object", "h", Leaf("keyword"))

MCMappings == Varied \cup {Plain, Nested, EmptyMapping, Other, Flat}
MCFirst == [i \in {"docs", "logs"} |-> IF i = "docs" THEN Varied ELSE {Other}]
MCLater == [i \in {"docs", "logs"} |-> IF i = "docs" THEN {Nested, Several} ELSE {}]
MCBodies == {Flat, EmptyMapping}
MCHandKnown == {<<"h">>, <<"p", "h">>}
MCHandNumeric == {<<"h">>}
MCTimeField == <<"p", "x">>
=============================================================================
