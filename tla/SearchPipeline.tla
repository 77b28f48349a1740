--------------------------- MODULE SearchPipeline ---------------------------
(* internal/api/handler_search.go: one request to POST /v1/search or POST
   /v1/translate, from the decoded body to the written response:

     index -> page, sort -> parse -> clauses -> build -> backend -> response

   The rule engine answers as RuleOracle promises: by the loaded rule base, or
   with an internal error at any call.  A parsed query is the sequence of its
   clauses in the order of Query.WalkClauses; its Boolean structure, which the
   checks do not look at, is left out.  The DSL is likewise the sequence of the
   leaf queries the builder emits, with the page around it.                   *)
EXTENDS RuleBase, Integers, Sequences, FiniteSets

CONSTANTS
  Fields,        \* names a query, an alias or a sort key can mention
  Last,          \* the pseudo-field "last" (parser.RelativeTimeField)
  Score,         \* the sort key "_score"
  Empty,         \* an empty sort field
  TimeField,     \* opensearch.time_field
  Indices,       \* index names
  DefaultIndex,  \* opensearch.index
  NoIndex,       \* no index in the body
  AllowedIndices,\* opensearch.allowed_indices
  DefaultSize, MaxSize, MaxFrom, \* search.*
  NoSize,        \* no size in the body
  IntMax,        \* the largest Go int
  Requests,      \* request bodies
  Bases          \* rule bases the program may have loaded

GoInts == -IntMax - 1 .. IntMax

Clauses == [field : Fields, op : Ops, duration : BOOLEAN]
SortKeys == [field : Fields \cup {Score, Empty}, dir : {"asc", "desc", "bad"}]

(* A decoded searchRequest.  parse is what parser.Parse makes of its query: a
   list of clauses, or the error it reports.                                  *)
RequestBodies ==
  [endpoint : {"search", "translate"},
   index    : Indices \cup {NoIndex},
   size     : GoInts \cup {NoSize},
   from     : GoInts,
   sort     : Seq(SortKeys),
   parse    : {"ok", "empty_query", "invalid_query"},
   clauses  : Seq(Clauses)]

ASSUME LimitsAssumption ==
  /\ DefaultSize \in Nat \ {0} /\ MaxSize \in Nat \ {0} /\ MaxFrom \in Nat \ {0}
  /\ IntMax \in Nat /\ MaxSize < IntMax /\ MaxFrom < IntMax
  /\ NoSize \notin Int
ASSUME NamesAssumption ==
  /\ Last \in Fields /\ TimeField \in Fields /\ TimeField # Last
  /\ Score \notin Fields /\ Empty \notin Fields /\ Score # Empty
  /\ NoIndex \notin Indices /\ DefaultIndex \in Indices /\ AllowedIndices \subseteq Indices
ASSUME RequestsAssumption == Requests \subseteq RequestBodies

ASSUME BasesAssumption == Bases \subseteq RuleBases(Fields)

VARIABLES
  base,        \* the loaded rule base
  req,         \* the request body
  pc,          \* the next step of the handler
  index,       \* the index the request goes to
  page,        \* dslbuilder.Page
  i,           \* how many sort keys, then how many clauses, are done
  ast,         \* the clauses, whose field names checkClause rewrites in place
  normalized,  \* Translation.Normalized
  dsl,         \* Translation.DSL, or NoDSL
  sent,        \* the body the backend was given, or NoDSL
  cluster,     \* what the backend call came to, "none" before it
  response     \* [status, code], or NoResponse

pipelineVars == <<base, req, pc, index, page, i, ast, normalized, dsl, sent,
                  cluster, response>>

NoDSL == [leaves |-> <<>>, sort |-> <<>>, size |-> NoSize, from |-> 0]
NoResponse == [status |-> 0, code |-> "none"]
-----------------------------------------------------------------------------
(* Two's complement addition of non-negative Go ints. *)
AddInt(a, b) == IF a + b > IntMax THEN a + b - 2 * (IntMax + 1) ELSE a + b

IndexAllowed(x) == x = DefaultIndex \/ x \in AllowedIndices

RequestedSize(r) == IF r.size = NoSize THEN DefaultSize ELSE r.size

(* Mutant: a negative size passes. *)
SizeBelowMax(size) == size <= MaxSize

SizeOK(size) == size >= 0 /\ size <= MaxSize

(* Mutant: the last page is refused. *)
FromBelowMax(from, size) == from >= 0 /\ AddInt(from, size) < MaxFrom

FromOK(from, size) == from >= 0 /\ AddInt(from, size) <= MaxFrom

(* Clause.IsRelativeTime, and Clause.Op, which depends on it. *)
IsRelativeTime(c) == c.field = Last
OpOf(c) == IF IsRelativeTime(c) THEN "range" ELSE c.op

(* Builder.clause: the field and the kind of the leaf query a clause becomes. *)
Leaf(c) ==
  IF IsRelativeTime(c) THEN [field |-> TimeField, op |-> "range"]
                       ELSE [field |-> c.field, op |-> c.op]

(* Builder.BuildSearch *)
BuildSearch(clauses, p) ==
  [leaves |-> [k \in DOMAIN clauses |-> Leaf(clauses[k])],
   sort |-> p.sort, size |-> p.size, from |-> p.from]
-----------------------------------------------------------------------------
Init ==
  /\ base \in Bases
  /\ req \in Requests
  /\ pc = "index"
  /\ index = NoIndex
  /\ page = [size |-> 0, from |-> 0, sort |-> <<>>]
  /\ i = 0
  /\ ast = <<>> /\ normalized = <<>>
  /\ dsl = NoDSL /\ sent = NoDSL
  /\ cluster = "none"
  /\ response = NoResponse

(* writeErr and writeJSON: the response is written and the handler returns. *)
Respond(status, code) ==
  /\ response' = [status |-> status, code |-> code]
  /\ pc' = "done"

Refuse(status, code) ==
  /\ Respond(status, code)
  /\ UNCHANGED <<base, req, index, page, i, ast, normalized, dsl, sent, cluster>>

(* A call of the rule engine returned an error other than a rejection. *)
RuleError == Refuse(500, "rule_error")

(* Lines 40 to 46 of translate. *)
ChooseIndex ==
  /\ pc = "index"
  /\ LET x == IF req.index = NoIndex THEN DefaultIndex ELSE req.index IN
     \/ /\ ~IndexAllowed(x)
        /\ Refuse(403, "index_not_allowed")
     \/ /\ IndexAllowed(x)
        /\ index' = x
        /\ pc' = "page"
        /\ UNCHANGED <<base, req, page, i, ast, normalized, dsl, sent,
                       cluster, response>>

(* Lines 115 to 124 of page. *)
CheckPage ==
  /\ pc = "page"
  /\ LET size == RequestedSize(req) IN
     \/ ~SizeOK(size) /\ Refuse(400, "invalid_size")
     \/ SizeOK(size) /\ ~FromOK(req.from, size) /\ Refuse(400, "invalid_from")
     \/ /\ SizeOK(size) /\ FromOK(req.from, size)
        /\ page' = [size |-> size, from |-> req.from, sort |-> <<>>]
        /\ i' = 0
        /\ pc' = "sort"
        /\ UNCHANGED <<base, req, index, ast, normalized, dsl, sent,
                       cluster, response>>

AddSortKey(field, dir) ==
  /\ page' = [page EXCEPT !.sort = Append(@, [field |-> field, dir |-> dir])]
  /\ i' = i + 1
  /\ UNCHANGED <<base, req, pc, index, ast, normalized, dsl, sent,
                 cluster, response>>

(* One turn of the loop over req.Sort, lines 126 to 154 of page. *)
CheckSortKey ==
  /\ pc = "sort" /\ i < Len(req.sort)
  /\ LET key == req.sort[i + 1] IN
     \/ key.dir = "bad" /\ Refuse(400, "invalid_sort")
     \/ key.dir # "bad" /\ key.field = Empty /\ Refuse(400, "invalid_sort")
     \/ key.dir # "bad" /\ key.field = Score /\ AddSortKey(Score, key.dir)
     \/ /\ key.dir # "bad" /\ key.field \in Fields
        /\ \/ RuleError                \* NormalizeField or KnownField failed
           \/ /\ base.alias[key.field] \notin base.known
              /\ Refuse(400, "invalid_sort")
           \/ /\ base.alias[key.field] \in base.known
              /\ AddSortKey(base.alias[key.field], key.dir)

(* Lines 53 to 59 of translate. *)
Parse ==
  /\ pc = "sort" /\ i = Len(req.sort)
  /\ \/ req.parse # "ok" /\ Refuse(400, req.parse)
     \/ /\ req.parse = "ok"
        /\ ast' = req.clauses
        /\ i' = 0
        /\ pc' = "clauses"
        /\ UNCHANGED <<base, req, index, page, normalized, dsl, sent,
                       cluster, response>>

NextClause ==
  /\ i' = i + 1
  /\ UNCHANGED <<base, req, pc, index, page, dsl, sent, cluster, response>>

(* checkClause on last:duration, lines 83 to 88: validated as a range over the
   time field.                                                                *)
CheckRelativeTime ==
  /\ pc = "clauses" /\ i < Len(ast) /\ IsRelativeTime(ast[i + 1])
  /\ \/ ~ast[i + 1].duration /\ Refuse(400, "invalid_query")
     \/ /\ ast[i + 1].duration
        /\ \/ RuleError
           \/ /\ ~ValidClause(base, TimeField, "range")
              /\ Refuse(400, "clause_rejected")
           \/ /\ ValidClause(base, TimeField, "range")
              /\ NextClause
              /\ UNCHANGED <<ast, normalized>>

(* Lines 90 to 97: what NormalizeField makes of the clause, and what it records. *)
Rewrite(c) == [c EXCEPT !.field = base.alias[c.field]]

(* Mutant: recorded after the clause has been overwritten. *)
RecordLate(c) ==
  IF base.alias[c.field] = c.field THEN normalized
  ELSE Append(normalized, [from |-> base.alias[c.field], to |-> base.alias[c.field]])

Record(c) ==
  IF base.alias[c.field] = c.field THEN normalized
  ELSE Append(normalized, [from |-> c.field, to |-> base.alias[c.field]])

(* Mutant: the clause is validated before it is rewritten. *)
CheckRawClause ==
  /\ pc = "clauses" /\ i < Len(ast) /\ ~IsRelativeTime(ast[i + 1])
  /\ LET c == ast[i + 1] IN
     \/ RuleError
     \/ ~ValidClause(base, c.field, OpOf(c)) /\ Refuse(400, "clause_rejected")
     \/ /\ ValidClause(base, c.field, OpOf(c))
        /\ ast' = [ast EXCEPT ![i + 1] = Rewrite(c)]
        /\ normalized' = Record(c)
        /\ NextClause

(* checkClause on any other clause, lines 90 to 99: one rewriting step, then the
   verdict on the rewritten clause.                                           *)
CheckClause ==
  /\ pc = "clauses" /\ i < Len(ast) /\ ~IsRelativeTime(ast[i + 1])
  /\ LET c == Rewrite(ast[i + 1]) IN
     \/ RuleError                      \* NormalizeField or Validate failed
     \/ /\ ~ValidClause(base, c.field, OpOf(c))
        /\ Refuse(400, "clause_rejected")
     \/ /\ ValidClause(base, c.field, OpOf(c))
        /\ ast' = [ast EXCEPT ![i + 1] = c]
        /\ normalized' = Record(ast[i + 1])
        /\ NextClause

(* Line 76 of translate, and line 199: POST /v1/translate stops here. *)
Build ==
  /\ pc = "clauses" /\ i = Len(ast)
  /\ dsl' = BuildSearch(ast, page)
  /\ \/ req.endpoint = "translate" /\ Respond(200, "ok")
     \/ req.endpoint = "search" /\ pc' = "search" /\ UNCHANGED response
  /\ UNCHANGED <<base, req, index, page, i, ast, normalized, sent, cluster>>

ClusterOutcomes == {"ok", "not_found", "refused", "server_error", "deadline", "transport"}

(* executor.Client.Search: what the cluster and the network may make of it. *)
CallBackend ==
  /\ pc = "search"
  /\ sent' = dsl
  /\ \E o \in ClusterOutcomes : cluster' = o
  /\ pc' = "reply"
  /\ UNCHANGED <<base, req, index, page, i, ast, normalized, dsl, response>>

(* Lines 173 to 183 of Search, and writeErr. *)
Reply ==
  /\ pc = "reply"
  /\ \/ cluster = "ok"           /\ Respond(200, "ok")
     \/ cluster = "not_found"    /\ Respond(404, "index_not_found")
     \/ cluster = "refused"      /\ Respond(400, "opensearch_rejected")
     \/ cluster = "server_error" /\ Respond(502, "opensearch_error")
     \/ cluster = "deadline"     /\ Respond(504, "timeout")
     \/ cluster = "transport"    /\ Respond(502, "upstream_error")
  /\ UNCHANGED <<base, req, index, page, i, ast, normalized, dsl, sent, cluster>>

Next ==
  \/ ChooseIndex \/ CheckPage \/ CheckSortKey \/ Parse
  \/ CheckRelativeTime \/ CheckClause \/ Build
  \/ CallBackend \/ Reply

Spec == Init /\ [][Next]_pipelineVars
-----------------------------------------------------------------------------
(* Type invariant. *)
TypeOK ==
  /\ base \in Bases /\ req \in Requests
  /\ pc \in {"index", "page", "sort", "clauses", "search", "reply", "done"}
  /\ index \in Indices \cup {NoIndex}
  /\ page.size \in 0 .. MaxSize /\ page.from \in Nat
  /\ page.sort \in Seq([field : Fields \cup {Score}, dir : {"asc", "desc"}])
  /\ i \in Nat
  /\ pc = "sort" => i <= Len(req.sort)
  /\ pc = "clauses" => i <= Len(ast)
  /\ ast \in Seq(Clauses)
  /\ normalized \in Seq([from : Fields, to : Fields])
  /\ cluster \in ClusterOutcomes \cup {"none"}
  /\ response.status \in {0, 200, 400, 403, 404, 500, 502, 504}
  /\ response.status = 0 <=> pc # "done"

(* An alias turned the k-th clause into last:..., which the builder reads as a
   relative time, though the rules were asked about a range over Last.        *)
Misled(k) == ~IsRelativeTime(req.clauses[k]) /\ base.alias[req.clauses[k].field] = Last

(* The gateway lets nothing past the rule base: whatever aliases rewrite, every
   leaf of a DSL is on a known field, a range is on a range field (also the one
   last:... stands for) and sort keys are known.  The one exception is a clause
   that an alias leads to a known field Last: checked as a range over that, built
   as one over TimeField, which nobody has looked up.                         *)
VettedDSL ==
  /\ \A k \in DOMAIN dsl.leaves :
       IF Misled(k) THEN ValidClause(base, Last, "range")
       ELSE ValidClause(base, dsl.leaves[k].field, dsl.leaves[k].op)
  /\ \A k \in DOMAIN dsl.sort : dsl.sort[k].field \in base.known \cup {Score}

(* Among the first n clauses, those whose field an alias rewrites. *)
RewrittenUpTo(n) ==
  {k \in 1 .. n : ~IsRelativeTime(req.clauses[k]) /\ Aliased(base, req.clauses[k].field)}

Renaming(c) == [from |-> c.field, to |-> base.alias[c.field]]

(* normalized_fields of a translation lists exactly the rewritten clauses, in the
   order of the query, under the names the user wrote; and the DSL uses the right
   hand sides, except TimeField where that is Last.  (The k-th clause has as its
   place in the list the number of rewritten clauses up to k.)                *)
ExplanationFaithful ==
  dsl # NoDSL =>
    /\ Len(normalized) = Cardinality(RewrittenUpTo(Len(req.clauses)))
    /\ \A k \in RewrittenUpTo(Len(req.clauses)) :
          normalized[Cardinality(RewrittenUpTo(k))] = Renaming(req.clauses[k])
    /\ \A k \in DOMAIN req.clauses :
          ~IsRelativeTime(req.clauses[k]) =>
             dsl.leaves[k].field =
               IF Misled(k) THEN TimeField ELSE base.alias[req.clauses[k].field]

(* The handler implements Gate: its loops, its rewriting in place and the order of
   its checks come to one decision by the rule base, its code is that of the first
   fault, and the cluster is asked the one translation of the request.         *)
Promise == INSTANCE Gate WITH
  translation <- [index |-> IF dsl = NoDSL THEN NoIndex ELSE index, dsl |-> dsl],
  sent <- [index |-> IF sent = NoDSL THEN NoIndex ELSE index, dsl |-> sent]
ImplementsGate == Promise!Spec

(* size and from are bounded by search.max_size and search.max_from. *)
PageBounded == dsl # NoDSL => dsl.size <= MaxSize /\ dsl.from + dsl.size <= MaxFrom
=============================================================================
