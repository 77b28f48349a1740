------------------------------ MODULE RuleBase ------------------------------
(* internal/rules/bootstrap.pl as sets.  A loaded rule base is a record
     alias   each name mapped to what field_alias/2 rewrites it to, or to itself
     known   the fields for which known_field/1 succeeds
     ranged  the fields for which range_field/1 succeeds
     nested  the fields that are nested or lie inside a nested field
   Values take no part: no rule of bootstrap.pl inspects its _Value argument.
   The operation of a clause is "eq" or "range" (parser.Clause.Op).           *)

Ops == {"eq", "range"}

RuleBases(Fields) ==
  [alias  : [Fields -> Fields],
   known  : SUBSET Fields,
   ranged : SUBSET Fields,
   nested : SUBSET Fields]

(* field_alias/2 succeeds.  One step: the canonical name is not looked up again. *)
Aliased(base, f) == base.alias[f] # f

(* valid_clause/3 *)
ValidClause(base, f, op) ==
  /\ f \in base.known
  /\ op = "range" => f \in base.ranged

(* rejection_reason/4: the clauses in the order of the file, each with a cut. *)
RejectionReason(base, f, op) ==
  CASE f \in base.nested                          -> "nested"
    [] f \notin base.nested \cup base.known       -> "unknown"
    [] /\ f \in base.known \ base.nested
       /\ op = "range" /\ f \notin base.ranged    -> "needs_range"
    [] OTHER                                      -> "none"
=============================================================================
