-------------------------------- MODULE Dcg --------------------------------
(* internal/dcg: from the text of a grammar (a .dcg file) to the Prolog clauses that
   rules.New loads.

     text --NextToken--> tokens --ParseRules--> rules --Generate--> clauses --Load--

   A text is a sequence of characters.  A clause's body is a flat sequence of goals,
   commas, semicolons and parentheses, as it stands in the generated text: what it
   means is decided by how Prolog reads it.  The messages of errors are left out,
   their positions are not.                                                    *)
EXTENDS Integers, FiniteSets, Sequences, SequencesExt, TLC

CONSTANTS
  Lower, Upper, Digits,  \* the letters, Upper those a Prolog variable starts with
  Sources,               \* [rules, spelling, gap]: what an author means (NoRules if
                         \* nothing), its tokens as spelled, and what stands between them
  Inputs                 \* sequences of terminals that clauses are asked about

NoRules == <<>>
Spaces == {" ", "\n"}
Punctuation == {".", ",", "|", "(", ")"}

VARIABLES source, pc, rules, clauses,
          errorAt   \* Pos of the ParseError, 0 if there is none

dcgVars == <<source, pc, rules, clauses, errorAt>>

Joined(parts, sep) == sep \o FlattenSeq([k \in DOMAIN parts |-> parts[k] \o sep])
TextOf(src) == Joined(src.spelling, src.gap)
-----------------------------------------------------------------------------
(* lexer.go.  Positions count from 1. *)
At(s, i) == IF i <= Len(s) THEN s[i] ELSE "EOF"
UpTo(s, i, stops) == Min({j \in i .. Len(s) + 1 : At(s, j) \in stops \cup {"EOF"}})

RECURSIVE skipSpaces(_, _)
skipSpaces(s, i) ==
  CASE At(s, i) \in Spaces -> skipSpaces(s, i + 1)
    [] At(s, i) = "%"      -> skipSpaces(s, UpTo(s, i, {"\n"}))
    [] OTHER               -> i

Token(type, value, start, end) == [type |-> type, value |-> value, pos |-> start, next |-> end]

(* The rest of a string, whose characters so far are value. *)
RECURSIVE StringToken(_, _, _, _)
StringToken(s, start, i, value) ==
  CASE At(s, i) = "EOF" -> Token("illegal", value, start, i)
    [] At(s, i) = "\""  -> Token("string", value, start, i + 1)
    [] At(s, i) = "\\" /\ i < Len(s) -> StringToken(s, start, i + 2, Append(value, s[i + 1]))
    [] OTHER -> StringToken(s, start, i + 1, Append(value, At(s, i)))

IdentEnd(s, i) ==
  Min({j \in i .. Len(s) + 1 : At(s, j) \notin Lower \cup Upper \cup Digits \cup {"_"}})

(* Mutant: an unknown character ends the input, silently. *)
NextTokenSilent(s, i) ==
  CASE At(s, i) = "EOF"        -> Token("EOF", <<>>, i, i)
    [] At(s, i) \in Punctuation -> Token(s[i], <<s[i]>>, i, i + 1)
    [] At(s, i) = "\""         -> StringToken(s, i, i + 1, <<>>)
    [] i + 2 <= Len(s) /\ SubSeq(s, i, i + 2) = <<"-", "-", ">">> ->
         Token("-->", <<"-", "-", ">">>, i, i + 3)
    [] At(s, i) \in Lower \cup Upper \cup {"_"} ->
         Token("ident", SubSeq(s, i, IdentEnd(s, i) - 1), i, IdentEnd(s, i))
    [] OTHER -> Token("EOF", <<>>, i, i)

(* NextToken, from a position that skipSpaces has found. *)
NextToken(s, i) ==
  CASE At(s, i) = "EOF"        -> Token("EOF", <<>>, i, i)
    [] At(s, i) \in Punctuation -> Token(s[i], <<s[i]>>, i, i + 1)
    [] At(s, i) = "\""         -> StringToken(s, i, i + 1, <<>>)
    [] i + 2 <= Len(s) /\ SubSeq(s, i, i + 2) = <<"-", "-", ">">> ->
         Token("-->", <<"-", "-", ">">>, i, i + 3)
    [] At(s, i) \in Lower \cup Upper \cup {"_"} ->
         Token("ident", SubSeq(s, i, IdentEnd(s, i) - 1), i, IdentEnd(s, i))
    [] OTHER -> Token("illegal", <<At(s, i)>>, i, i + 1)

(* All tokens, the last of them EOF. *)
RECURSIVE TokensFrom(_, _, _)
TokensFrom(s, i, before) ==
  LET t == NextToken(s, skipSpaces(s, i)) IN
  IF t.type = "EOF" THEN Append(before, t) ELSE TokensFrom(s, t.next, Append(before, t))

Tokens(s) == TokensFrom(s, 1, <<>>)
-----------------------------------------------------------------------------
(* parser.go.  A function takes the tokens ts from the i-th on, and returns a node and
   the place after it, or the position of the token it cannot take.             *)
Node(n, i) == [ok |-> TRUE, node |-> n, next |-> i]
ParseError(ts, i) == [ok |-> FALSE, pos |-> ts[i].pos]
Then(r, K(_, _)) == IF r.ok THEN K(r.node, r.next) ELSE r

Symbol(name) == [kind |-> "symbol", name |-> name]
Terminal(value) == [kind |-> "terminal", value |-> value]
Seq_(items) == [kind |-> "seq", items |-> items]
Alt(options) == [kind |-> "alt", options |-> options]
Empty == [kind |-> "empty"]

RECURSIVE parseExpr(_, _)
parseItem(ts, i) ==
  CASE ts[i].type = "ident"  -> Node(Symbol(ts[i].value), i + 1)
    [] ts[i].type = "string" -> Node(Terminal(ts[i].value), i + 1)
    [] ts[i].type = "("      ->
         Then(parseExpr(ts, i + 1), LAMBDA e, j :
              IF ts[j].type = ")" THEN Node(e, j + 1) ELSE ParseError(ts, j))
    [] OTHER -> ParseError(ts, i)

(* Commas are skipped, wherever and however many. *)
RECURSIVE parseSeq(_, _, _)
parseSeq(ts, i, items) ==
  CASE ts[i].type \in {"EOF", ".", "|", ")"} ->
         Node(CASE Len(items) = 0 -> Empty [] Len(items) = 1 -> items[1] [] OTHER -> Seq_(items), i)
    [] ts[i].type = "," -> parseSeq(ts, i + 1, items)
    [] OTHER -> Then(parseItem(ts, i), LAMBDA e, j : parseSeq(ts, j, Append(items, e)))

RECURSIVE parseOptions(_, _, _)
parseOptions(ts, i, options) ==
  IF ts[i].type = "|"
  THEN Then(parseSeq(ts, i + 1, <<>>), LAMBDA e, j : parseOptions(ts, j, Append(options, e)))
  ELSE Node(IF Len(options) = 1 THEN options[1] ELSE Alt(options), i)

parseExpr(ts, i) == Then(parseSeq(ts, i, <<>>), LAMBDA e, j : parseOptions(ts, j, <<e>>))

parseRule(ts, i) ==
  CASE ts[i].type # "ident"   -> ParseError(ts, i)
    [] ts[i].type = "ident" /\ ts[i + 1].type # "-->" -> ParseError(ts, i + 1)
    [] OTHER -> Then(parseExpr(ts, i + 2), LAMBDA e, j :
                     IF ts[j].type = "." THEN Node([head |-> ts[i].value, body |-> e], j + 1)
                     ELSE ParseError(ts, j))

RECURSIVE parseRules(_, _, _)
parseRules(ts, i, before) ==
  IF ts[i].type = "EOF" THEN Node(before, i)
  ELSE Then(parseRule(ts, i), LAMBDA r, j : parseRules(ts, j, Append(before, r)))

ParseRules(s) == parseRules(Tokens(s), 1, <<>>)
-----------------------------------------------------------------------------
(* generator.go.  A function takes the counter of fresh variables, and returns the
   goals and the counter.                                                      *)
Goal(kind, name, in, out) == [kind |-> kind, name |-> name, in |-> in, out |-> out]
Mark(kind) == Goal(kind, <<>>, "", "")

quoteAtom(value) ==
  FlattenSeq([i \in DOMAIN value |->
     IF value[i] \in {"\\", "'"} THEN <<"\\", value[i]>> ELSE <<value[i]>>])

Generated(goals, counter) == [goals |-> goals, counter |-> counter]
With(g, K(_, _)) == K(g.goals, g.counter)

fresh(counter) == "S" \o ToString(counter + 1)

RECURSIVE genExpr(_, _, _, _), genSeq(_, _, _, _), genOptions(_, _, _, _)

(* Mutant: alternatives without parentheses. *)
genAltBare(options, in, out, counter) == genOptions(options, in, out, counter)

genAlt(options, in, out, counter) ==
  With(genOptions(options, in, out, counter), LAMBDA goals, n :
       Generated(<<Mark("(")>> \o goals \o <<Mark(")")>>, n))

genExpr(e, in, out, counter) ==
  CASE e.kind = "symbol"   -> Generated(<<Goal("call", e.name, in, out)>>, counter)
    [] e.kind = "terminal" -> Generated(<<Goal("token", quoteAtom(e.value), in, out)>>, counter)
    [] e.kind = "seq"      -> genSeq(e.items, in, out, counter)
    [] e.kind = "alt"      -> genAlt(e.options, in, out, counter)
    [] e.kind = "empty"    -> Generated(<<Goal("same", <<>>, in, out)>>, counter)

genSeq(items, in, out, counter) ==
  IF Len(items) = 1 THEN genExpr(items[1], in, out, counter)
  ELSE With(genExpr(items[1], in, fresh(counter), counter + 1), LAMBDA first, n :
       With(genSeq(Tail(items), fresh(counter), out, n), LAMBDA rest, m :
            Generated(first \o <<Mark(",")>> \o rest, m)))

genOptions(options, in, out, counter) ==
  IF Len(options) = 1 THEN genExpr(options[1], in, out, counter)
  ELSE With(genExpr(options[1], in, out, counter), LAMBDA first, n :
       With(genOptions(Tail(options), in, out, n), LAMBDA rest, m :
            Generated(first \o <<Mark(";")>> \o rest, m)))

(* One counter for all rules. *)
RECURSIVE genRules(_, _)
genRules(rs, counter) ==
  IF rs = <<>> THEN <<>>
  ELSE With(genExpr(rs[1].body, "S0", "S", counter), LAMBDA goals, n :
            <<[head |-> rs[1].head, body |-> goals]>> \o genRules(Tail(rs), n))
-----------------------------------------------------------------------------
(* The actions *)
Init ==
  /\ source \in Sources
  /\ pc = "text" /\ rules = NoRules /\ clauses = <<>> /\ errorAt = 0

Parse ==
  /\ pc = "text"
  /\ \E r \in {ParseRules(TextOf(source))} :
       IF r.ok THEN pc' = "parsed" /\ rules' = r.node /\ UNCHANGED errorAt
       ELSE pc' = "refused" /\ errorAt' = r.pos /\ UNCHANGED rules
  /\ UNCHANGED <<source, clauses>>

Generate ==
  /\ pc = "parsed"
  /\ clauses' = genRules(rules, 0)
  /\ pc' = "compiled"
  /\ UNCHANGED <<source, rules, errorAt>>

(* Prolog takes a predicate's name for a variable if it starts like one, and refuses
   a line break in a quoted atom ... *)
Named(name) == name[1] \in Lower
OneLine(value) == "\n" \notin ToSet(value)
Readable(c) ==
  /\ Named(c.head)
  /\ \A i \in DOMAIN c.body :
       /\ c.body[i].kind = "call" => Named(c.body[i].name)
       /\ c.body[i].kind = "token" => OneLine(c.body[i].name)

(* ... and a clause that others stand between, it and the last one of its predicate. *)
Together(rs) ==
  \A i, k \in DOMAIN rs : rs[i].head = rs[k].head => \A j \in i .. k : rs[j].head = rs[i].head

(* Engine.Load: the interpreter takes all clauses, or New fails. *)
Load ==
  /\ pc = "compiled"
  /\ pc' = IF Together(clauses) /\ \A i \in DOMAIN clauses : Readable(clauses[i])
           THEN "loaded" ELSE "refused"
  /\ UNCHANGED <<source, rules, clauses, errorAt>>

Next == Parse \/ Generate \/ Load
Spec == Init /\ [][Next]_dcgVars
-----------------------------------------------------------------------------
(* What clauses mean: relations between the positions of an input. *)
Positions(input) == 0 .. Len(input)
Related(rel, name) == IF name \in DOMAIN rel THEN rel[name] ELSE {}

(* How Prolog reads a body: ';' binds weaker than ',', parentheses most. *)
Depth(goals, i) ==
  Cardinality({j \in 1 .. i : goals[j].kind = "("}) - Cardinality({j \in 1 .. i : goals[j].kind = ")"})
Splits(goals, kind) == {i \in DOMAIN goals : goals[i].kind = kind /\ Depth(goals, i) = 0}

(* How it reads a quoted atom: to the first apostrophe that is not escaped. *)
RECURSIVE Unquoted(_)
Unquoted(quoted) ==
  CASE quoted = <<>> \/ quoted[1] = "'" -> <<>>
    [] quoted # <<>> /\ quoted[1] = "\\" -> <<quoted[2]>> \o Unquoted(SubSeq(quoted, 3, Len(quoted)))
    [] OTHER -> <<quoted[1]>> \o Unquoted(Tail(quoted))

RECURSIVE Holds(_, _, _, _)
Holds(goals, env, rel, input) ==
  LET either == Splits(goals, ";")
      both == Splits(goals, ",")
      g == goals[1]
      Part(i, j) == Holds(SubSeq(goals, i, j), env, rel, input)
  IN CASE either # {} -> LET i == Min(either) IN Part(1, i - 1) \/ Part(i + 1, Len(goals))
       [] either = {} /\ both # {} -> LET i == Min(both) IN Part(1, i - 1) /\ Part(i + 1, Len(goals))
       [] either = {} /\ both = {} /\ g.kind = "(" -> Part(2, Len(goals) - 1)
       [] either = {} /\ both = {} /\ g.kind = "same" -> env[g.in] = env[g.out]
       [] either = {} /\ both = {} /\ g.kind = "token" ->
            /\ env[g.in] < Len(input) /\ env[g.out] = env[g.in] + 1
            /\ input[env[g.out]] = Unquoted(g.name)
       [] OTHER -> <<env[g.in], env[g.out]>> \in Related(rel, g.name)

(* What a clause derives from rel. *)
Derived(c, rel, input) ==
  LET vars == {"S0", "S"} \cup {c.body[i].in : i \in DOMAIN c.body} \cup {c.body[i].out : i \in DOMAIN c.body}
  IN {<<env["S0"], env["S"]>> :
        env \in {f \in [vars \ {""} -> Positions(input)] : Holds(c.body, f, rel, input)}}

RECURSIVE ClausesMean(_, _, _)
ClausesMean(cs, rel, input) ==
  LET step == [h \in {cs[i].head : i \in DOMAIN cs} |->
                 UNION {Derived(cs[i], rel, input) : i \in {k \in DOMAIN cs : cs[k].head = h}}]
  IN IF step = rel THEN rel ELSE ClausesMean(cs, step, input)

(* What a grammar means: the least relations its rules are true of. *)
Compose(R, T) == UNION {{<<x[1], y[2]>> : y \in {z \in T : z[1] = x[2]}} : x \in R}

RECURSIVE Denoted(_, _, _)
Denoted(e, rel, input) ==
  CASE e.kind = "symbol"   -> Related(rel, e.name)
    [] e.kind = "terminal" -> {<<i - 1, i>> : i \in {j \in DOMAIN input : input[j] = e.value}}
    [] e.kind = "empty"    -> {<<i, i>> : i \in Positions(input)}
    [] e.kind = "alt"      -> UNION {Denoted(e.options[k], rel, input) : k \in DOMAIN e.options}
    [] e.kind = "seq"      ->
         FoldLeft(LAMBDA R, item : Compose(R, Denoted(item, rel, input)),
                  {<<i, i>> : i \in Positions(input)}, e.items)

RECURSIVE GrammarMeans(_, _, _)
GrammarMeans(rs, rel, input) ==
  LET step == [h \in {rs[i].head : i \in DOMAIN rs} |->
                 UNION {Denoted(rs[i].body, rel, input) : i \in {k \in DOMAIN rs : rs[k].head = h}}]
  IN IF step = rel THEN rel ELSE GrammarMeans(rs, step, input)

Nothing(rs) == [h \in {rs[i].head : i \in DOMAIN rs} |-> {}]

(* What tokens may stand where: each rule a name, an arrow, a body whose parentheses
   close, a dot.  p is a text so far, as types of tokens.                      *)
Viable(p) ==
  \A i \in DOMAIN p :
    LET before == Max({0} \cup {d \in 1 .. i - 1 : p[d] = "."})
        open == Cardinality({j \in before + 1 .. i : p[j] = "("})
                - Cardinality({j \in before + 1 .. i : p[j] = ")"})
    IN CASE i = before + 1 -> p[i] = "ident"
         [] i = before + 2 -> p[i] = "-->"
         [] OTHER -> /\ p[i] \in Punctuation \cup {"ident", "string"}
                     /\ open >= 0 /\ (p[i] = "." => open = 0)

Complete(p) == Viable(p) /\ (p = <<>> \/ Last(p) = ".")

(* The types of the tokens as the author spelled them, and where they stand. *)
TypeOf(token) ==
  CASE token[1] \in Punctuation -> token[1]
    [] token = <<"-", "-", ">">> -> "-->"
    [] token[1] = "\"" /\ Len(token) > 1 /\ Last(token) = "\"" -> "string"
    [] token[1] \in Lower \cup Upper \cup {"_"} -> "ident"
    [] OTHER -> "illegal"

Types(src) == [i \in DOMAIN src.spelling |-> TypeOf(src.spelling[i])]
PlaceOf(src, i) == Len(Joined(SubSeq(src.spelling, 1, i - 1), src.gap)) + 1

-----------------------------------------------------------------------------
(* A grammar that Prolog can hold, told by its rules: those of one name stand together,
   and no terminal goes over a line.                                           *)
RECURSIVE OnOneLine(_)
OnOneLine(e) ==
  CASE e.kind = "terminal" -> OneLine(e.value)
    [] e.kind = "seq"      -> \A k \in DOMAIN e.items : OnOneLine(e.items[k])
    [] e.kind = "alt"      -> \A k \in DOMAIN e.options : OnOneLine(e.options[k])
    [] OTHER               -> TRUE
Loadable(rs) == Together(rs) /\ \A i \in DOMAIN rs : OnOneLine(rs[i].body)

(* Of the grammars that are meant, those that Prolog can hold are loaded and no other,
   and the clauses, as Prolog reads them, relate exactly what the grammar relates, however
   it is spelled: generator.go:74 "Závorky jsou nutné", generator.go:80-82 on quoting.  *)
LanguageKept ==
  /\ source.rules # NoRules =>
       (pc = "refused" => ~Loadable(source.rules)) /\ (pc = "loaded" => Loadable(source.rules))
  /\ pc = "loaded" =>
       LET rs == IF source.rules = NoRules THEN rules ELSE source.rules IN
       \A input \in Inputs :
         ClausesMean(clauses, Nothing(clauses), input) = GrammarMeans(rs, Nothing(rs), input)

(* A text is compiled only if all of it is a grammar, and otherwise the error is at the
   first token that no grammar goes on with: lexer.go:20-21, an unknown character or an
   unterminated string is an error, never a silent end of the text.            *)
RefusedWhereWrong ==
  /\ pc \in {"parsed", "compiled", "loaded"} => Complete(Types(source))
  /\ errorAt > 0 =>
       \/ \E i \in DOMAIN source.spelling :
            /\ errorAt = PlaceOf(source, i)
            /\ Viable(SubSeq(Types(source), 1, i - 1))
            /\ ~Viable(SubSeq(Types(source), 1, i))
       \/ /\ errorAt = Len(TextOf(source)) + 1
          /\ Viable(Types(source)) /\ ~Complete(Types(source))
=============================================================================
