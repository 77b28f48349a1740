--------------------------- MODULE MCQueryLanguage ---------------------------
(* Three clauses, joined and nested in every way; and the same texts with one
   token left out.                                                            *)
EXTENDS QueryLanguage

MCNames == {"a", "b", "c", "A", "B", "C"}
MCCanonical == [f \in MCNames |-> CASE f = "a" -> "A" [] f = "b" -> "B" [] f = "c" -> "C" [] OTHER -> f]
MCWords == {"w", "w*", "2", "1.5"}

(* A phrase, and phrases that are operators without their quotes. *)
OneString == {"'w w'"}
MCStrings == OneString \cup {"'['", "'>='", "'OR'"}
MCUnquoted ==
  [s \in Strings |-> CASE s = "'w w'" -> "w w" [] s = "'['" -> "[" [] s = "'>='" -> ">="
                       [] s = "'OR'" -> "OR"]

Values == {<<"w">>, <<"w*">>, <<"[", "w", "TO", "w*", "]">>, <<">=", "2">>} \cup {<<s>> : s \in Strings}
Plain(f) == [field |-> f, value |-> <<"w">>, fuzzy |-> NoFuzzy, boost |-> NoBoost]
OneClause(op, not, c) == [op |-> op, not |-> not, kind |-> "clause", of |-> c]
Group(op, not, e) == [op |-> op, not |-> not, kind |-> "group", of |-> e]

(* Every value with every modifier. *)
Forms ==
  {[field |-> "a", value |-> v, fuzzy |-> z, boost |-> b] :
     v \in Values, z \in {NoFuzzy, "", "2"}, b \in {NoBoost, "1.5"}}

(* x joined with y by the connective j. *)
Joints == {"AND", "", "OR"}
Join(x, j, y) ==
  IF j = "OR" THEN x \o <<<<y>>>>
  ELSE [x EXCEPT ![Len(x)] = Append(@, [y EXCEPT !.op = (j = "AND")])]

Single(x) == <<<<x>>>>

(* x y z without groups, and with one around either pair. *)
Shapes(x, y, z) ==
  {Join(Join(Single(x), j, y), k, z) : j, k \in Joints}
  \cup {Join(Single(Group(FALSE, n, Join(Single(x), j, y))), k, z) : n \in BOOLEAN, j, k \in Joints}
  \cup {Join(Single(x), j, Group(FALSE, n, Join(Single(y), k, z))) : n \in BOOLEAN, j, k \in Joints}

Fuzzy(f) == [Plain(f) EXCEPT !.fuzzy = ""]

(* Each recursive operator is what its definition makes of it.  The LETs keep TLC, when
   it counts coverage, from following the definitions round and round.          *)
MCWrite(e) == LET written == WriteDef(e) IN written
MCWalkClauses(e) == LET walked == WalkClausesDef(e) IN walked
MCBuildExpression(e) == LET built == BuildExpressionDef(e) IN built
MCMatches(q, hits) == LET matches == MatchesDef(q, hits) IN matches
MCClauses(e) == LET clauses == ClausesDef(e) IN clauses
MCLeaves(q) == LET leaves == LeavesDef(q) IN leaves
MCHolds(e, hits) == LET holds == HoldsDef(e, hits) IN holds

(* The groups in an expression; a group of these queries has none. *)
GroupsIn(e) == {n.of : n \in {m \in UNION {ToSet(a) : a \in ToSet(e)} : m.kind = "group"}}
WithGroups(S) == S \cup UNION {GroupsIn(e) : e \in S}

MCQueries ==
  WithGroups(
    UNION {Shapes(OneClause(FALSE, m, x), OneClause(FALSE, n, y), OneClause(FALSE, o, Plain("c"))) :
             m, n, o \in BOOLEAN, x \in {Plain("a"), Fuzzy("a")}, y \in {Plain("b"), Fuzzy("b")}}
    \cup UNION {Shapes(OneClause(FALSE, FALSE, x), OneClause(FALSE, TRUE, Plain("b")),
                       OneClause(FALSE, FALSE, Plain("c"))) : x \in Forms})

(* Texts with a token missing: of a range, a comparison, a phrase and a word. *)
MangledForms ==
  {f \in Forms : <<f.value[1], f.fuzzy, f.boost>> \in
     {<<"[", NoFuzzy, "1.5">>, <<">=", "", NoBoost>>, <<"'w w'", "2", "1.5">>, <<"w", "", "1.5">>}}
Mangled ==
  UNION {LET w == Write(q) IN {RemoveAt(w, i) : i \in 1 .. Len(w)} :
           q \in UNION {Shapes(OneClause(FALSE, FALSE, x), OneClause(FALSE, TRUE, Plain("b")),
                               OneClause(FALSE, FALSE, Fuzzy("c"))) : x \in MangledForms}}

(* Texts in which what joins two clauses stands in quotes. *)
Quoted ==
  LET quote(w) == [i \in DOMAIN w |-> IF w[i] = "OR" THEN "'OR'" ELSE w[i]] IN
  {quote(Write(q)) : q \in Shapes(OneClause(FALSE, FALSE, Plain("a")), OneClause(FALSE, TRUE, Plain("b")),
                                 OneClause(FALSE, FALSE, Fuzzy("c")))}
MCOthers == Mangled \cup Quoted

(* What is meant, what is read at some place of some text, and both in canonical
   names.                                                                     *)
Read ==
  UNION {LET at == {i \in 1 .. Len(ts) : ParseExpression(ts, i).ok} IN
         {ParseExpression(ts, i).node : i \in at} : ts \in Texts}
MCExprs == LET E == MCQueries \cup Read IN E \cup {WalkClauses(e) : e \in E}

RECURSIVE MCHeight(_)
MCHeight(e) ==
  LET groups == GroupsIn(e)
  IN IF groups = {} THEN 0 ELSE 1 + Max({MCHeight(g) : g \in groups})
=============================================================================
