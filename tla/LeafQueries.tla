----------------------------- MODULE LeafQueries -----------------------------
(* The words of a query, and the leaf query that Builder.clause makes of one
   clause: [field, value, fuzzy, boost], the value being its tokens.  The fuzzy and
   boost modifiers are the words after ~ and ^, "" for a bare ~.              *)
EXTENDS Integers, Sequences

CONSTANTS
  Names,      \* words that are field names
  Words,      \* words that are values
  Wildcards,  \* those among them with a * or a ?
  Numbers,    \* those among them that strconv.ParseFloat takes
  Whole,      \* those among the numbers that strconv.Atoi takes
  Strings,    \* quoted tokens
  Unquoted,   \* Unquoted[s]: the value of a quoted token, which may be that of any other
  Canonical   \* Canonical[f]: what the rule engine rewrites the name f to

Keywords == {"AND", "OR", "NOT", "TO"}
CompareOps == {">=", "<=", ">", "<"}
Idents == Names \cup Words \cup Keywords
NoFuzzy == "no ~"     \* Value.Fuzzy is nil
NoBoost == "no ^"     \* Value.Boost is nil
Punctuation == {":", "~", "^", "(", ")", "[", "]"}
EndOfText == "end of text"

ASSUME WordsAssumption ==
  /\ Wildcards \cup Numbers \subseteq Words /\ Wildcards \cap Numbers = {}
  /\ Whole \subseteq Numbers
  /\ Names \cap (Words \cup Keywords) = {} /\ Words \cap Keywords = {}
  /\ Canonical \in [Names -> Names]

(* The lexer tells words, strings in their quotes and punctuation apart. *)
ASSUME TokensAssumption ==
  /\ Idents \cap Strings = {}
  /\ (Idents \cup Strings) \cap (CompareOps \cup Punctuation \cup {EndOfText}) = {}
  /\ {"", NoFuzzy, NoBoost} \cap Idents = {}

(* Token.Value: participle.Unquote has taken the quotes off. *)
Value(t) == IF t \in Strings THEN Unquoted[t] ELSE t
-----------------------------------------------------------------------------
(* The clauses the syntax table of README.md speaks of: a range between two bounds, a
   comparison, a phrase or a word, each with or without a distance and a boost. *)
ClauseValues ==
  {<<w>> : w \in Words \cup Strings}
  \cup {<<"[", v, "TO", w, "]">> : v, w \in Words \cup Strings}
  \cup {<<o, w>> : o \in CompareOps, w \in Words \cup Strings}
DocumentedClauses ==
  [field : Names, value : ClauseValues, fuzzy : Whole \cup {"", NoFuzzy},
   boost : Numbers \cup {NoBoost}]

(* What checkClause does to a clause whose field is a name. *)
Canonized(c) ==
  [c EXCEPT !.field = IF c.field \in Names THEN Canonical[c.field] ELSE c.field]

(* Builder.fuzzinessValue and slopValue *)
Distance(fuzzy, default) == IF fuzzy \in Whole THEN fuzzy ELSE default

(* boostFactor: what is no number is a neutral boost. *)
Factor(boost) == IF boost \in Numbers \cup {NoBoost} THEN boost ELSE "1"

(* Mutant: a wildcard with a ~ becomes a fuzzy query. *)
LeafFuzzyFirst(c) ==
  LET leaf(type, slack) == [field |-> c.field, type |-> type, slack |-> slack, boost |-> Factor(c.boost)] IN
  CASE Len(c.value) > 1 -> leaf("range", "none")
    [] Len(c.value) = 1 /\ c.value[1] \in Strings ->
         leaf("match_phrase", IF c.fuzzy = NoFuzzy THEN "none" ELSE Distance(c.fuzzy, "2"))
    [] Len(c.value) = 1 /\ c.value[1] \in Idents /\ c.fuzzy # NoFuzzy -> leaf("fuzzy", Distance(c.fuzzy, "AUTO"))
    [] OTHER -> leaf(IF c.value[1] \in Wildcards THEN "wildcard" ELSE "match", "none")

(* Builder.clause: the leaf query, its slop or fuzziness, and its boost.  A Range or a
   Compare has a value of several tokens, a Phrase or a Word of one.           *)
Leaf(c) ==
  LET leaf(type, slack) == [field |-> c.field, type |-> type, slack |-> slack, boost |-> Factor(c.boost)] IN
  CASE Len(c.value) > 1 -> leaf("range", "none")
    [] Len(c.value) = 1 /\ c.value[1] \in Strings ->
         leaf("match_phrase", IF c.fuzzy = NoFuzzy THEN "none" ELSE Distance(c.fuzzy, "2"))
    [] Len(c.value) = 1 /\ c.value[1] \in Wildcards -> leaf("wildcard", "none")
    [] Len(c.value) = 1 /\ c.value[1] \in Idents \ Wildcards /\ c.fuzzy # NoFuzzy ->
         leaf("fuzzy", Distance(c.fuzzy, "AUTO"))
    [] OTHER -> leaf("match", "none")
-----------------------------------------------------------------------------
(* The syntax table again: what a clause asks of OpenSearch. *)
Documented(c) ==
  LET modified(default) == IF c.fuzzy = "" THEN default ELSE c.fuzzy
      plain == c.fuzzy = NoFuzzy
      first == c.value[1] IN
  [field |-> Canonical[c.field], boost |-> c.boost,
   type  |-> CASE first = "[" \/ first \in CompareOps -> "range"
               [] first \in Strings                   -> "match_phrase"
               [] first \in Wildcards                 -> "wildcard"
               [] first \in Words \ Wildcards         -> IF plain THEN "match" ELSE "fuzzy",
   slack |-> IF plain \/ first \in Wildcards \/ first = "[" \/ first \in CompareOps THEN "none"
             ELSE modified(IF first \in Strings THEN "2" ELSE "AUTO")]
=============================================================================
