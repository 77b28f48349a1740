------------------------------- MODULE MCDcg -------------------------------
(* Grammars of two rules, q and r, each spelled in several ways; and every short
   sequence of tokens, a grammar or not.                                       *)
EXTENDS Dcg

a == Terminal(<<"a">>)
b == Terminal(<<"\\", "a", "'">>)
r == Symbol(<<"r">>)

MCInputs == [1 .. 2 -> {a.value, b.value}]

(* q's bodies: what two operators make of r, terminals and nothing. *)
Small == {a, b, r, Empty}
Pairs == {Seq_(<<x, y>>) : x, y \in Small} \cup {Alt(<<x, y>>) : x, y \in Small}
Bodies ==
  Small \cup Pairs
  \cup {Seq_(<<x, y>>) : x \in {a, r}, y \in Pairs} \cup {Seq_(<<x, y>>) : x \in Pairs, y \in {a, r}}
  \cup {Alt(<<x, y>>) : x \in {b, r}, y \in Pairs} \cup {Seq_(<<a, x, r>>) : x \in Pairs}

(* r is a list of a's closed by b, or it may be nothing. *)
Lists == {<<[head |-> <<"r">>, body |-> Alt(<<Seq_(<<a, r>>), b>>)]>>,
          <<[head |-> <<"r">>, body |-> a], [head |-> <<"r">>, body |-> Empty]>>}

(* How a grammar is spelled: what separates the tokens and the items, and whether
   parentheses stand where they need not.                                      *)
Escaped(value) == FlattenSeq([i \in DOMAIN value |->
                    IF value[i] \in {"\\", "\""} THEN <<"\\", value[i]>> ELSE <<value[i]>>])
Infix(parts, sep) ==
  FlattenSeq([k \in DOMAIN parts |-> IF k = 1 THEN parts[k] ELSE sep \o parts[k]])

RECURSIVE Spelled(_, _, _)
Spelled(e, commas, always) ==
  LET Inner(x, kinds) == IF always \/ x.kind \in kinds
                         THEN <<<<"(">>>> \o Spelled(x, commas, always) \o <<<<")">>>>
                         ELSE Spelled(x, commas, always)
  IN CASE e.kind = "symbol"   -> <<e.name>>
       [] e.kind = "terminal" -> <<<<"\"">> \o Escaped(e.value) \o <<"\"">>>>
       [] e.kind = "empty"    -> <<>>
       [] e.kind = "seq" -> Infix([k \in DOMAIN e.items |-> Inner(e.items[k], {"alt"})], commas)
       [] e.kind = "alt" -> Infix([k \in DOMAIN e.options |-> Inner(e.options[k], {})], <<<<"|">>>>)

SpelledRules(rs, commas, always) ==
  FlattenSeq([k \in DOMAIN rs |->
    <<rs[k].head, <<"-", "-", ">">>>> \o Spelled(rs[k].body, commas, always) \o <<<<".">>>>])

Comma == <<<<",">>>>
Comment == <<"%", "\"", "\n">>
Written(rs, commas, always, gap) ==
  [rules |-> rs, spelling |-> SpelledRules(rs, commas, always), gap |-> gap]

q(body) == <<[head |-> <<"q", "1">>, body |-> body]>>
LineBreak == Terminal(<<"a", "\n">>)

(* Grammars that are loaded, and some that are not: a rule of q after those of r, a
   terminal with a line break.                                                 *)
Grammars ==
  {q(x) \o l : x \in Bodies, l \in Lists}
  \cup {q(x) \o l \o q(a) : x \in Small, l \in Lists}
  \cup {q(x) \o q(r) \o l : x \in Small \cup {LineBreak, Seq_(<<r, LineBreak>>)}, l \in Lists}
Meant ==
  {Written(g, Comma, FALSE, <<>>) : g \in Grammars}
  \cup {Written(g, <<>>, TRUE, Comment) : g \in Grammars}
  \cup {Written(g, Comma \o Comma, FALSE, <<" ", "%", "\n">>) : g \in Grammars}

(* Token by token, from the start, in a body and after a rule. *)
Spellings == {<<"q">>, <<"Q">>, <<"-", "-", ">">>, <<"\"", "%", "\"">>} \cup {<<c>> : c \in Punctuation \cup {";"}}
Starts == {<<>>, <<<<"q">>, <<"-", "-", ">">>>>, <<<<"q">>, <<"-", "-", ">">>, <<"(">>>>}
Ends == {<<>>, <<<<".">>>>, <<<<"\"", "a">>>>}
Texts ==
  {[rules |-> NoRules, spelling |-> s \o t \o e, gap |-> <<"\n">>] :
     s \in Starts, t \in UNION {[1 .. n -> Spellings] : n \in 0 .. 3}, e \in Ends}

MCSources == Meant \cup Texts
=============================================================================
