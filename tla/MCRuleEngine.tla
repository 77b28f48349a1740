---------------------------- MODULE MCRuleEngine ----------------------------
(* Two goroutines over three rule bases: a quick one, one with rules that
   never terminate and one with rules that raise.                             *)
EXTENDS RuleEngine

CONSTANTS c1, c2

MCCallers == {c1, c2}
MCFields == {"tag", "title"}
MCTimeout == 4
MCOvertakes == 1

MCCalls == {<<"normalize", "tag", "eq">>, <<"known", "title", "eq">>,
            <<"validate", "title", "range">>}

(* tag is an alias of title, which is known but no range field. *)
QuickBase ==
  [alias  |-> [f \in MCFields |-> "title"],
   known  |-> {"title"}, ranged |-> {}, nested |-> {},
   cost   |-> [g \in Goals |-> 1], raises |-> {}]

(* title is unknown; asking why a clause on it is refused never terminates,
   and neither does looking for an alias of tag.                              *)
Looping ==
  [QuickBase EXCEPT !.known = {},
                !.cost = [g \in Goals |->
                            IF g \in {<<"field_alias", "tag">>, <<"rejection_reason", "title">>}
                            THEN MCTimeout + 1 ELSE 1]]

(* The reason of a refusal raises (Validate catches it), and so does the alias. *)
Raising ==
  [QuickBase EXCEPT !.raises = {<<"field_alias", "tag">>, <<"rejection_reason", "title">>}]

MCBases == {QuickBase, Looping, Raising}
=============================================================================
