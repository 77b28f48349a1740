----------------------------- MODULE RuleOracle -----------------------------
(* What the rule engine promises the handlers, with no clock, lock or session:
   a call of NormalizeField, KnownField or Validate is answered once, by what
   the loaded rule base says or by an internal error, and the rule base never
   changes.  In particular trouble inside the engine (a timeout, a rule that
   raises) is never presented as a verdict about the clause.                   *)
EXTENDS RuleBase

CONSTANTS Callers, Calls, Bases

VARIABLES base,      \* the rule base loaded at startup
          asked,     \* asked[c]: <<method, field, op>>, or NoCall
          result     \* result[c]: the answer c got, or "none"

oracleVars == <<base, asked, result>>

NoCall == <<>>

(* What may be said truthfully of a clause valid_clause/3 refuses: the reason
   of rejection_reason/4, or the generic text that fits the field.             *)
HonestRejections(b, f, op) ==
  {RejectionReason(b, f, op)} \cup
  {IF f \in b.known THEN "operation" ELSE "unknown"}

Verdicts(b, call) ==
  LET f == call[2] IN
  CASE call[1] = "normalize" -> {IF Aliased(b, f) THEN "canonical" ELSE "raw"}
    [] call[1] = "known"     -> {IF f \in b.known THEN "yes" ELSE "no"}
    [] call[1] = "validate"  -> IF ValidClause(b, f, call[3]) THEN {"accept"}
                                ELSE HonestRejections(b, f, call[3])

Init ==
  /\ base \in Bases
  /\ asked = [c \in Callers |-> NoCall]
  /\ result = [c \in Callers |-> "none"]

Ask(c) ==
  /\ asked[c] = NoCall
  /\ \E call \in Calls : asked' = [asked EXCEPT ![c] = call]
  /\ UNCHANGED <<base, result>>

Reply(c) ==
  /\ asked[c] # NoCall /\ result[c] = "none"
  /\ \E v \in Verdicts(base, asked[c]) \cup {"error"} :
        result' = [result EXCEPT ![c] = v]
  /\ UNCHANGED <<base, asked>>

Leave(c) ==
  /\ result[c] # "none"
  /\ asked' = [asked EXCEPT ![c] = NoCall]
  /\ result' = [result EXCEPT ![c] = "none"]
  /\ UNCHANGED base

Next == \E c \in Callers : Ask(c) \/ Reply(c) \/ Leave(c)

Spec == Init /\ [][Next]_oracleVars
=============================================================================
