-------------------------- MODULE MCSearchPipeline --------------------------
(* Requests that differ in one respect at a time from a plain one, and every
   pair of clauses over five fields.                                          *)
EXTENDS SearchPipeline

CONSTANTS Default, Granted, Foreign, Absent, Unsized

MCFields == {"last", "tag", "tags", "ts", "published_at"}
MCIndices == {Default, Granted, Foreign}
MCIntMax == 127   \* an 8-bit int

Word(f) == [field |-> f, op |-> "eq", duration |-> FALSE]
Range(f) == [field |-> f, op |-> "range", duration |-> FALSE]
Since == [field |-> "last", op |-> "eq", duration |-> TRUE]

MCClauses == {Word("tag"), Range("tag"), Word("ts"), Range("ts"), Word("tags"),
              Range("published_at"), Word("last"), Since}
Queries == {<<c>> : c \in MCClauses} \cup {<<c, d>> : c, d \in MCClauses}
           \cup {<<Word("tag"), Since, Range("ts")>>}

Key(f, d) == [field |-> f, dir |-> d]
Sorts == {<<>>, <<Key("tag", "desc")>>, <<Key("_score", "asc"), Key("ts", "asc")>>,
          <<Key("", "asc")>>, <<Key("tag", "bad")>>, <<Key("last", "asc")>>}

Plain == [endpoint |-> "search", index |-> Absent, size |-> Unsized, from |-> 0,
          sort |-> <<>>, parse |-> "ok", clauses |-> <<Word("tag")>>]

Pages == {[Plain EXCEPT !.size = s, !.from = f] :
            s \in {Unsized, -1, 0, 4, 5}, f \in {-1, 0, 6, 8, 9, MCIntMax - 1}}

MCRequests ==
  Pages
  \cup {[Plain EXCEPT !.endpoint = e, !.clauses = q] : e \in {"search", "translate"}, q \in Queries}
  \cup {[Plain EXCEPT !.sort = s, !.clauses = <<Word("ts")>>] : s \in Sorts}
  \cup {[Plain EXCEPT !.index = x, !.parse = p] :
          x \in MCIndices \cup {Absent}, p \in {"ok", "empty_query", "invalid_query"}}

(* bootstrap.pl; the same without its aliases' targets; a schema whose time field
   is no range field and where a raw name is known but its target is not; and two
   with an alias that leads to the pseudo-field, unknown or itself a known field
   in a schema without the time field.                                        *)
Bootstrap ==
  [alias  |-> [f \in MCFields |-> CASE f = "tag" -> "tags"
                                    [] f = "ts"  -> "published_at"
                                    [] OTHER     -> f],
   known  |-> {"tags", "published_at"}, ranged |-> {"published_at"}, nested |-> {}]
Shadowed == [Bootstrap EXCEPT !.known = {"tag", "ts", "published_at"}]
Untimed == [Bootstrap EXCEPT !.ranged = {"tags"}]

ToLast == [Bootstrap EXCEPT !.alias["tag"] = "last", !.known = {"ts", "published_at"},
                            !.ranged = {"ts", "published_at"}]

ToKnownLast == [Bootstrap EXCEPT !.alias["tag"] = "last", !.known = {"ts", "last"},
                                 !.ranged = {"last"}]

MCBases == {Bootstrap, Shadowed, Untimed, ToLast, ToKnownLast}
=============================================================================
