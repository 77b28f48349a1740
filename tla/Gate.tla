-------------------------------- MODULE Gate --------------------------------
(* What POST /v1/search and POST /v1/translate promise of one request, with no
   loops, no rewriting in place and no intermediate steps: one decision, by the
   loaded rule base, and a translation that is a function of the request.

     - a request that the rules or the limits object to is refused, with the code
       of its first fault in the order index, page, sort, query, clauses
     - one that nothing objects to is translated, clause by clause and key by key,
       under canonical names; what is sent to the cluster is that translation
     - the rule engine may fail instead, once it has something to decide       *)
EXTENDS RuleBase, Integers

CONSTANTS Last, Score, TimeField, DefaultIndex, NoIndex, AllowedIndices,
          DefaultSize, MaxSize, MaxFrom, NoSize, IntMax, Requests, Bases

VARIABLES base, req,
          translation,   \* [index, dsl], or Nothing
          sent,          \* what the cluster was asked, or Nothing
          response

gateVars == <<base, req, translation, sent, response>>

Nothing == [index |-> NoIndex,
            dsl |-> [leaves |-> <<>>, sort |-> <<>>, size |-> NoSize, from |-> 0]]
Answer(status, code) == [status |-> status, code |-> code]
NoResponse == Answer(0, "none")
-----------------------------------------------------------------------------
Target(r) == IF r.index = NoIndex THEN DefaultIndex ELSE r.index
Size(r) == IF r.size = NoSize THEN DefaultSize ELSE r.size

(* The last page ends at MaxFrom.  A sum beyond the Go ints wraps around and is
   not seen to exceed anything.                                               *)
InWindow(r) ==
  r.from >= 0 /\ (r.from + Size(r) <= MaxFrom \/ r.from + Size(r) > IntMax)

SortRefused(b, key) ==
  \/ key.dir = "bad"
  \/ key.field # Score /\ (key.field \in DOMAIN b.alias => b.alias[key.field] \notin b.known)

Canonical(b, c) ==
  [field |-> b.alias[c.field], op |-> IF b.alias[c.field] = Last THEN "range" ELSE c.op]

(* last:<duration> asks for a range over the time field.  So does, to the builder,
   any clause whose canonical name is Last; the rules are asked about Last.   *)
TimeWindow == [field |-> TimeField, op |-> "range"]
Judged(b, c) == IF c.field = Last THEN TimeWindow ELSE Canonical(b, c)
Meaning(b, c) == IF Last \in {c.field, b.alias[c.field]} THEN TimeWindow ELSE Canonical(b, c)

NoDuration(c) == c.field = Last /\ ~c.duration
ClauseRefused(b, c) ==
  NoDuration(c) \/ ~ValidClause(b, Judged(b, c).field, Judged(b, c).op)

FirstRefused(b, clauses) ==
  {k \in DOMAIN clauses : ClauseRefused(b, clauses[k])
                          /\ \A j \in 1 .. k - 1 : ~ClauseRefused(b, clauses[j])}

(* The code the request is refused with; none when it is to be translated. *)
Refusals(b, r) ==
  IF ~(Target(r) = DefaultIndex \/ Target(r) \in AllowedIndices) THEN {"index_not_allowed"}
  ELSE IF Size(r) \notin 0 .. MaxSize THEN {"invalid_size"}
  ELSE IF ~InWindow(r) THEN {"invalid_from"}
  ELSE IF \E k \in DOMAIN r.sort : SortRefused(b, r.sort[k]) THEN {"invalid_sort"}
  ELSE IF r.parse # "ok" THEN {r.parse}
  ELSE {IF NoDuration(r.clauses[k]) THEN "invalid_query" ELSE "clause_rejected" :
          k \in FirstRefused(b, r.clauses)}

BeforeRules == {"index_not_allowed", "invalid_size", "invalid_from"}

CanonicalKey(b, key) ==
  [field |-> IF key.field = Score THEN Score ELSE b.alias[key.field], dir |-> key.dir]

Translation(b, r) ==
  [index |-> Target(r),
   dsl |-> [leaves |-> [k \in DOMAIN r.clauses |-> Meaning(b, r.clauses[k])],
            sort |-> [k \in DOMAIN r.sort |-> CanonicalKey(b, r.sort[k])],
            size |-> Size(r), from |-> r.from]]

ClusterAnswers == {Answer(200, "ok"), Answer(404, "index_not_found"),
                   Answer(400, "opensearch_rejected"), Answer(502, "opensearch_error"),
                   Answer(504, "timeout"), Answer(502, "upstream_error")}
-----------------------------------------------------------------------------
Init ==
  /\ base \in Bases /\ req \in Requests
  /\ translation = Nothing /\ sent = Nothing
  /\ response = NoResponse

Undecided == translation = Nothing /\ response = NoResponse

Refuse ==
  /\ Undecided
  /\ \E code \in Refusals(base, req) :
        response' = Answer(IF code = "index_not_allowed" THEN 403 ELSE 400, code)
  /\ UNCHANGED <<base, req, translation, sent>>

Fail ==
  /\ Undecided /\ Refusals(base, req) \cap BeforeRules = {}
  /\ response' = Answer(500, "rule_error")
  /\ UNCHANGED <<base, req, translation, sent>>

Translate ==
  /\ Undecided /\ Refusals(base, req) = {}
  /\ translation' = Translation(base, req)
  /\ response' = IF req.endpoint = "translate" THEN Answer(200, "ok") ELSE response
  /\ UNCHANGED <<base, req, sent>>

Ask ==
  /\ translation # Nothing /\ sent = Nothing /\ response = NoResponse
  /\ sent' = translation
  /\ UNCHANGED <<base, req, translation, response>>

Reply ==
  /\ sent # Nothing /\ response = NoResponse
  /\ response' \in ClusterAnswers
  /\ UNCHANGED <<base, req, translation, sent>>

Next == Refuse \/ Fail \/ Translate \/ Ask \/ Reply

Spec == Init /\ [][Next]_gateVars

(* Whatever is translated had nothing against it, comes out as its translation, and
   nothing else is ever sent.                                                 *)
SentAsTranslated ==
  /\ translation # Nothing =>
       Refusals(base, req) = {} /\ translation = Translation(base, req)
  /\ sent \in {Nothing, translation}
=============================================================================
