---------------------------- MODULE QueryLanguage ----------------------------
(* internal/parser and the Boolean part of internal/dslbuilder: from the text of
   a query to the DSL it becomes.

     text --Parse--> ast --Walk--> ast, canonical names --Build--> dsl

   A text is a sequence of tokens.  The lexer has one class of words, Ident: the
   keywords AND, OR, NOT and TO are words too, and only their place in the
   grammar makes them keywords.  A quoted string may stand for one as well: the
   parser takes its quotes off first, and a literal of the grammar matches a token
   of any class by its value.  participle, the external parser, tries the
   alternatives of a node in order, gives up on all of them if one fails after more
   than one token, repeats and takes options greedily.  Left out: letters in another
   case, the escapes in a string, last:<window>, and the bounds a range query carries.

   An expression is a sequence of conjunctions (what OR separates), a conjunction
   a sequence of operands.  An operand is [op, not, kind, of]: op when AND stands
   before it, not when NOT does, and of is its clause or, in a group, its
   expression.                                                                *)
EXTENDS LeafQueries, Integers, FiniteSets, SequencesExt

CONSTANTS
  Queries,    \* the queries that users mean, and the groups in them
  Others,     \* further texts, written by nobody who means a query
  Exprs,      \* the expressions that occur: meant, read, and in canonical names
  Height(_)   \* how deep the groups of an expression go

(* The operators that go into groups, repetitions and subqueries by themselves.  Each
   is what the definition of its name and Def makes of it (RecursionAssumption).  *)
CONSTANTS
  Write(_), ParseExpression(_, _), ParseAndOps(_, _), ParseOrOps(_, _),
  WalkClauses(_), BuildExpression(_), Matches(_, _),
  Clauses(_), Leaves(_), Holds(_, _)

VARIABLES query,  \* what the user means, NoQuery for one of Others
          text,   \* what the user wrote
          pc, ast, dsl

languageVars == <<query, text, pc, ast, dsl>>

NoQuery == <<>>
Operand(groups, clauses) ==
  [op : BOOLEAN, not : BOOLEAN, kind : {"group"}, of : groups]
  \cup [op : BOOLEAN, not : BOOLEAN, kind : {"clause"}, of : clauses]
NonEmpty(S) == Seq(S) \ {<<>>}

Tokens == Idents \cup Strings \cup CompareOps \cup Punctuation
-----------------------------------------------------------------------------
(* How a query is written: the grammar read from left to right. *)
WriteClause(c) ==
  <<c.field, ":">> \o c.value
  \o (CASE c.fuzzy = NoFuzzy -> <<>> [] c.fuzzy = "" -> <<"~">> [] OTHER -> <<"~", c.fuzzy>>)
  \o (IF c.boost = NoBoost THEN <<>> ELSE <<"^", c.boost>>)

Optional(b, token) == IF b THEN <<token>> ELSE <<>>

WriteOperand(n) ==
  Optional(n.op, "AND") \o Optional(n.not, "NOT")
  \o (IF n.kind = "group" THEN <<"(">> \o Write(n.of) \o <<")">> ELSE WriteClause(n.of))
WriteAnd(a) == FlattenSeq([j \in DOMAIN a |-> WriteOperand(a[j])])
WriteDef(e) == FlattenSeq([k \in DOMAIN e |-> Optional(k > 1, "OR") \o WriteAnd(e[k])])

Texts == {Write(q) : q \in Queries} \cup Others
-----------------------------------------------------------------------------
(* The grammar.  A parser takes the tokens ts from position i and returns the
   node and the position after it, or fails.                                  *)
Fail == [ok |-> FALSE]
Node(n, i) == [ok |-> TRUE, node |-> n, next |-> i]
Tok(ts, i) == IF i <= Len(ts) THEN ts[i] ELSE EndOfText

(* The token at i for a literal of the grammar: @Ident and @String go by its class,
   literals by its value.                                                      *)
Lit(ts, i) == Value(Tok(ts, i))

Bound(ts, i) == Tok(ts, i) \in Idents \cup Strings

(* Value, up to its modifiers: Range, Compare, Phrase or Word.  A range that fails has
   read two tokens, too many to try the rest, or none but a phrase that is spelled [. *)
ParseValue(ts, i) ==
  LET opened == Lit(ts, i) = "[" /\ Bound(ts, i + 1)
      closed == Lit(ts, i + 2) = "TO" /\ Bound(ts, i + 3) /\ Lit(ts, i + 4) = "]"
      compared == Lit(ts, i) \in CompareOps /\ Bound(ts, i + 1)
  IN CASE opened /\ closed -> Node(SubSeq(ts, i, i + 4), i + 5)
       [] compared -> Node(SubSeq(ts, i, i + 1), i + 2)
       [] Bound(ts, i) /\ ~opened /\ ~compared -> Node(<<ts[i]>>, i + 1)
       [] OTHER -> Fail

(* Mutant: a distance is read and lost. *)
ParseFuzzyLost(ts, i) ==
  CASE Lit(ts, i) # "~" -> Node(NoFuzzy, i)
    [] Lit(ts, i) = "~" /\ Tok(ts, i + 1) \in Idents -> Node("", i + 2)
    [] OTHER -> Node("", i + 1)

(* ( "~" @@ )? with Fuzzy's @Ident?: the distance is any word that follows. *)
ParseFuzzy(ts, i) ==
  CASE Lit(ts, i) # "~" -> Node(NoFuzzy, i)
    [] Lit(ts, i) = "~" /\ Tok(ts, i + 1) \in Idents -> Node(ts[i + 1], i + 2)
    [] OTHER -> Node("", i + 1)

(* Mutant: a boost without a factor is accepted. *)
ParseBareBoost(ts, i) ==
  CASE Lit(ts, i) # "^" -> Node(NoBoost, i)
    [] Lit(ts, i) = "^" /\ Tok(ts, i + 1) \in Idents -> Node(ts[i + 1], i + 2)
    [] OTHER -> Node("", i + 1)

(* ( "^" @@ )? with Boost's @Ident *)
ParseBoost(ts, i) ==
  IF Lit(ts, i) = "^" /\ Tok(ts, i + 1) \in Idents THEN Node(ts[i + 1], i + 2)
  ELSE Node(NoBoost, i)

ParseClause(ts, i) ==
  LET value == ParseValue(ts, i + 2)
      fuzzy == ParseFuzzy(ts, value.next)
      boost == ParseBoost(ts, fuzzy.next)
  IN IF Tok(ts, i) \in Idents /\ Lit(ts, i + 1) = ":" /\ value.ok
     THEN Node([field |-> ts[i], value |-> value.node, fuzzy |-> fuzzy.node,
                boost |-> boost.node], boost.next)
     ELSE Fail

(* Primary, for an operand that op and not describe. *)
ParsePrimary(ts, i, op, not) ==
  LET operand(k, n) == [op |-> op, not |-> not, kind |-> k, of |-> n]
      group == ParseExpression(ts, i + 1)
      clause == ParseClause(ts, i)
  IN CASE Lit(ts, i) = "(" /\ group.ok /\ Lit(ts, group.next) = ")" ->
            Node(operand("group", group.node), group.next + 1)
       [] Lit(ts, i) # "(" /\ clause.ok -> Node(operand("clause", clause.node), clause.next)
       [] OTHER -> Fail

(* NotExpr, after AndOp's AND if op. *)
ParseOperand(ts, i, op) ==
  LET not == Lit(ts, i) = "NOT" IN ParsePrimary(ts, IF not THEN i + 1 ELSE i, op, not)

(* AndExpr: operands, as many as there are. *)
ParseAndOpsDef(ts, i) ==
  LET op == Lit(ts, i) = "AND"
      first == ParseOperand(ts, IF op THEN i + 1 ELSE i, op)
      more == ParseAndOps(ts, first.next)
  IN IF first.ok THEN Node(<<first.node>> \o more.node, more.next) ELSE Node(<<>>, i)

ParseAnd(ts, i) ==
  LET first == ParseOperand(ts, i, FALSE)
      more == ParseAndOps(ts, first.next)
  IN IF first.ok THEN Node(<<first.node>> \o more.node, more.next) ELSE Fail

(* Expression: conjunctions, as many as OR introduces. *)
ParseOrOpsDef(ts, i) ==
  LET first == ParseAnd(ts, i + 1)
      more == ParseOrOps(ts, first.next)
  IN IF Lit(ts, i) = "OR" /\ first.ok THEN Node(<<first.node>> \o more.node, more.next)
     ELSE Node(<<>>, i)

ParseExpressionDef(ts, i) ==
  LET first == ParseAnd(ts, i)
      more == ParseOrOps(ts, first.next)
  IN IF first.ok THEN Node(<<first.node>> \o more.node, more.next) ELSE Fail

(* Mutant: what follows the expression is ignored. *)
ParsePrefix(ts) == ParseExpression(ts, 1)

(* Parser.Parse: the expression must be the whole text. *)
ParseText(ts) ==
  LET e == ParseExpression(ts, 1) IN IF e.ok /\ e.next = Len(ts) + 1 THEN e ELSE Fail
-----------------------------------------------------------------------------
(* Query.WalkClauses with what checkClause does to each clause it visits. *)
(* Mutant: the walk does not enter groups. *)
WalkTopLevel(e) ==
  [k \in DOMAIN e |-> [j \in DOMAIN e[k] |->
     IF e[k][j].kind = "group" THEN e[k][j]
     ELSE [e[k][j] EXCEPT !.of = Canonized(e[k][j].of)]]]

WalkClausesDef(e) ==
  [k \in DOMAIN e |-> [j \in DOMAIN e[k] |->
     [e[k][j] EXCEPT !.of = IF e[k][j].kind = "group" THEN WalkClauses(e[k][j].of)
                            ELSE Canonized(e[k][j].of)]]]
-----------------------------------------------------------------------------
LeafQuery(c) == [kind |-> "leaf", leaf |-> Leaf(c)]
BoolQuery(must, mustNot, should, minimum) ==
  [kind |-> "bool", must |-> must, must_not |-> mustNot, should |-> should,
   minimum_should_match |-> minimum]

(* Builder.expression, Builder.and and Builder.primary *)
BuildPrimary(n) == IF n.kind = "group" THEN BuildExpression(n.of) ELSE LeafQuery(n.of)
BuildOperands(a, not) ==
  FlattenSeq([j \in DOMAIN a |-> IF a[j].not = not THEN <<BuildPrimary(a[j])>> ELSE <<>>])

(* Mutant: one operand is returned unwrapped, also a negated one. *)
BuildAndUnwrapped(a) ==
  IF Len(a) = 1 THEN BuildPrimary(a[1])
  ELSE BoolQuery(BuildOperands(a, FALSE), BuildOperands(a, TRUE), <<>>, 0)

BuildAnd(a) ==
  LET must == BuildOperands(a, FALSE)
      mustNot == BuildOperands(a, TRUE) IN
  IF Len(must) = 1 /\ mustNot = <<>> THEN must[1] ELSE BoolQuery(must, mustNot, <<>>, 0)

BuildExpressionDef(e) ==
  IF Len(e) = 1 THEN BuildAnd(e[1])
  ELSE BoolQuery(<<>>, <<>>, [k \in DOMAIN e |-> BuildAnd(e[k])], 1)

(* What the builder makes of the expressions and their parts. *)
DSLs ==
  UNION {{BuildExpression(e)} \cup {BuildAnd(a) : a \in ToSet(e)}
         \cup UNION {{BuildPrimary(n) : n \in ToSet(a)} : a \in ToSet(e)} : e \in Exprs}

(* What OpenSearch makes of a query, for a document that matches the leaves on
   the fields in hits.                                                        *)
MatchesDef(q, hits) ==
  IF q.kind = "leaf" THEN q.leaf.field \in hits
  ELSE /\ \A k \in DOMAIN q.must : Matches(q.must[k], hits)
       /\ \A k \in DOMAIN q.must_not : ~Matches(q.must_not[k], hits)
       /\ Cardinality({k \in DOMAIN q.should : Matches(q.should[k], hits)}) >= q.minimum_should_match
-----------------------------------------------------------------------------
(* The clauses of an expression. *)
ClausesDef(e) ==
  UNION {UNION {IF n.kind = "group" THEN Clauses(n.of) ELSE {n.of} : n \in ToSet(a)} : a \in ToSet(e)}

(* The leaves of a DSL. *)
LeavesDef(q) ==
  IF q.kind = "leaf" THEN {q.leaf}
  ELSE UNION {Leaves(s) : s \in ToSet(q.must) \cup ToSet(q.must_not) \cup ToSet(q.should)}

(* What the precedence table means by a query. *)
HoldsOperand(n, hits) ==
  n.not # (IF n.kind = "group" THEN Holds(n.of, hits) ELSE Canonical[n.of.field] \in hits)
HoldsDef(e, hits) == \E k \in DOMAIN e : \A j \in DOMAIN e[k] : HoldsOperand(e[k][j], hits)
-----------------------------------------------------------------------------
Fields == {Canonical[f] : f \in Names}

(* What an expression is made of, and what a user may mean by one. *)
Fragments == Tokens \cup {"", NoFuzzy, NoBoost}
AnyClauses == [field : Fragments, value : Seq(Fragments), fuzzy : Fragments, boost : Fragments]

ASSUME ExprsAssumption ==
  LET E == Exprs IN
  /\ \A e \in E :
       /\ e \in NonEmpty(NonEmpty(Operand(E, AnyClauses)))
       /\ Height(e) \in Nat
       /\ \A a \in ToSet(e) : \A n \in ToSet(a) : n.kind = "group" => Height(n.of) < Height(e)
       /\ WalkClauses(e) \in E
  /\ \A ts \in Texts : \A i \in 1 .. Len(ts) :
       ParseExpression(ts, i).ok => ParseExpression(ts, i).node \in E

ASSUME QueriesAssumption ==
  LET Q == Queries IN
  /\ Q \subseteq Exprs
  /\ \A q \in Q :
       /\ q \in NonEmpty(NonEmpty(Operand(Q, DocumentedClauses)))
       /\ \A a \in ToSet(q) : ~a[1].op
  /\ \A ts \in Others : ts \in Seq(Tokens)

ASSUME RecursionAssumption ==
  /\ \A ts \in Texts : \A i \in 1 .. Len(ts) + 1 :
       /\ ParseExpression(ts, i) = ParseExpressionDef(ts, i)
       /\ ParseAndOps(ts, i) = ParseAndOpsDef(ts, i)
       /\ ParseOrOps(ts, i) = ParseOrOpsDef(ts, i)
  /\ \A e \in Exprs :
       /\ Write(e) = WriteDef(e)
       /\ WalkClauses(e) = WalkClausesDef(e)
       /\ BuildExpression(e) = BuildExpressionDef(e)
       /\ Clauses(e) = ClausesDef(e)
  /\ \A q \in Queries : \A hits \in SUBSET Fields : Holds(q, hits) = HoldsDef(q, hits)
  /\ \A q \in DSLs :
       /\ Leaves(q) = LeavesDef(q)
       /\ \A hits \in SUBSET Fields : Matches(q, hits) = MatchesDef(q, hits)
-----------------------------------------------------------------------------
NoDSL == [kind |-> "none"]

Init ==
  /\ \/ query \in Queries /\ text = Write(query)
     \/ query = NoQuery /\ text \in Others
  /\ pc = "parse" /\ ast = NoQuery /\ dsl = NoDSL

Parse ==
  /\ pc = "parse"
  /\ \E r \in {ParseText(text)} :
     \/ r.ok /\ ast' = r.node /\ pc' = "walk"
     \/ ~r.ok /\ pc' = "refused" /\ UNCHANGED ast
  /\ UNCHANGED <<query, text, dsl>>

Walk ==
  /\ pc = "walk"
  /\ ast' = WalkClauses(ast)
  /\ pc' = "build"
  /\ UNCHANGED <<query, text, dsl>>

Build ==
  /\ pc = "build"
  /\ dsl' = BuildExpression(ast)
  /\ pc' = "built"
  /\ UNCHANGED <<query, text, ast>>

Next == Parse \/ Walk \/ Build

Spec == Init /\ [][Next]_languageVars
-----------------------------------------------------------------------------
(* No bare ~ stands before a word, and no phrase is spelled like what a range or a
   comparison begins with.                                                     *)
Separate(ts) ==
  \A i \in 1 .. Len(ts) - 1 :
    /\ ts[i] = "~" => ts[i + 1] \notin Idents \ Whole
    /\ ts[i] = ":" /\ ts[i + 1] \in Strings => Value(ts[i + 1]) \notin {"["} \cup CompareOps
Separated == Separate(text)

(* Type invariant. *)
ClauseOK(c) ==
  /\ c.field \in Idents /\ c.value \in Seq(Idents \cup Strings \cup CompareOps \cup {"[", "]"})
  /\ c.fuzzy \in Idents \cup {"", NoFuzzy} /\ c.boost \in Idents \cup {NoBoost}
TypeOK ==
  /\ pc \in {"parse", "refused", "walk", "build", "built"}
  /\ ast = NoQuery <=> pc \in {"parse", "refused"}
  /\ dsl = NoDSL <=> pc # "built"
  /\ ast # NoQuery => \A c \in Clauses(ast) : ClauseOK(c)

(* A text that is accepted is accepted whole: written back, its tree gives every
   token of it, in order, quotes apart.  Nothing the user typed is skipped.    *)
Unquote(ts) == [i \in DOMAIN ts |-> Value(ts[i])]
NothingIgnored == pc = "walk" => Unquote(Write(ast)) = Unquote(text)

(* A query is read as it was meant: precedence, groups, negation, implicit AND
   and modifiers, unless a bare ~ stands before a word, which it takes for its
   distance (ast.go:86), or a phrase is an operator once its quotes are off
   (grammar.go:29; ast.go:99, 105), which makes it a range of what follows.    *)
ReadAsMeant == query # NoQuery /\ Separated /\ pc # "parse" => pc # "refused"
               /\ (pc = "walk" => ast = query)

(* The DSL selects the documents the query describes, whatever the nesting. *)
SelectsAsMeant ==
  query # NoQuery /\ Separated /\ pc = "built" =>
    \A hits \in SUBSET Fields : Matches(dsl, hits) <=> Holds(query, hits)

(* The same, of every query. *)
EveryQuerySelectsAsMeant ==
  query # NoQuery /\ pc = "built" =>
    \A hits \in SUBSET Fields : Matches(dsl, hits) <=> Holds(query, hits)

(* No clause escapes the rule engine: the walk reaches every clause that the
   builder emits, however deep.                                               *)
WalkReachesAll == pc = "built" => \A leaf \in Leaves(dsl) : leaf.field \notin Names \ Fields

(* Each clause becomes the query that table names, with its modifiers. *)
LeavesDocumented ==
  query # NoQuery /\ Separated /\ pc = "built" =>
    Leaves(dsl) = {Documented(c) : c \in Clauses(query)}
=============================================================================
