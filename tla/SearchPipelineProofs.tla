------------------------ MODULE SearchPipelineProofs ------------------------
(* Proofs about SearchPipeline, for every rule base, configuration and request.  *)
EXTENDS SearchPipeline, FiniteSetTheorems, TLAPS

Stages == {"index", "page", "sort", "clauses", "search", "reply", "done"}

(* A clause whose leaf query the rule base allows. *)
LeafVetted(c) == ValidClause(base, Leaf(c).field, Leaf(c).op)

Typed ==
  /\ base \in Bases /\ req \in Requests /\ pc \in Stages
  /\ i \in Nat
  /\ page \in [size : Int, from : Int,
               sort : Seq([field : Fields \cup {Score}, dir : {"asc", "desc", "bad"}])]
  /\ ast \in Seq(Clauses)

(* What the check of the k-th clause has established of it. *)
Passed(k) == IF Misled(k) THEN ValidClause(base, Last, "range") ELSE LeafVetted(ast[k])

(* The first n clauses have passed; the others are as the client wrote them. *)
PassedUpTo(n) ==
  /\ n <= Len(ast) /\ Len(ast) = Len(req.clauses)
  /\ \A k \in 1 .. n : Passed(k)
  /\ \A k \in n + 1 .. Len(ast) : ast[k] = req.clauses[k]

(* Whatever has been through a check is vetted: the sort keys collected so far,
   the clauses before i, and the DSL once it is built.                        *)
Vetted ==
  /\ \A k \in DOMAIN page.sort : page.sort[k].field \in base.known \cup {Score}
  /\ pc = "clauses" => PassedUpTo(i)
  /\ VettedDSL

VettedInv == Typed /\ Vetted

-----------------------------------------------------------------------------
LEMMA RequestType ==
  ASSUME NEW r \in Requests
  PROVE  /\ r.clauses \in Seq(Clauses) /\ r.sort \in Seq(SortKeys)
         /\ r.from \in Int /\ r.size \in Int \cup {NoSize}
         /\ r.parse \in {"ok", "empty_query", "invalid_query"}
         /\ r.index \in Indices \cup {NoIndex}
         /\ RequestedSize(r) \in Int
BY RequestsAssumption, LimitsAssumption DEF RequestBodies, GoInts, RequestedSize

LEMMA BaseType ==
  ASSUME NEW b \in Bases
  PROVE  b.alias \in [Fields -> Fields]
BY BasesAssumption DEF RuleBases

(* A rewritten clause is a clause, and a relative time if its new name is Last. *)
LEMMA RewriteGivesClause ==
  ASSUME base \in Bases, NEW c \in Clauses
  PROVE  /\ Rewrite(c) \in Clauses
         /\ Rewrite(c).field = base.alias[c.field]
         /\ Rewrite(c).op = c.op
         /\ OpOf(Rewrite(c)) = IF base.alias[c.field] = Last THEN "range" ELSE c.op
         /\ Leaf(Rewrite(c)) = IF base.alias[c.field] = Last
                                 THEN [field |-> TimeField, op |-> "range"]
                                 ELSE [field |-> base.alias[c.field], op |-> c.op]
<1>1. Rewrite(c) \in Clauses /\ Rewrite(c).field = base.alias[c.field] /\ Rewrite(c).op = c.op
  BY BaseType DEF Clauses, Rewrite
<1> QED BY <1>1 DEF IsRelativeTime, OpOf, Leaf

(* The kept data of VettedInv. *)
LEMMA PassedKept ==
  ASSUME NEW n, PassedUpTo(n), UNCHANGED <<base, req, ast>>
  PROVE  PassedUpTo(n)'
BY DEF PassedUpTo, Passed, Misled, LeafVetted, Leaf, IsRelativeTime, ValidClause

LEMMA DSLKept ==
  ASSUME VettedDSL, UNCHANGED <<base, req, dsl>>
  PROVE  VettedDSL'
BY DEF VettedDSL, Misled, IsRelativeTime, ValidClause

LEMMA VettedInit == Init => VettedInv
<1> SUFFICES ASSUME Init PROVE VettedInv
  OBVIOUS
<1>1. Typed
  BY DEF Init, Typed, Stages
<1>2. Vetted
  BY DEF Init, Vetted, VettedDSL, NoDSL
<1> QED BY <1>1, <1>2 DEF VettedInv

(* Steps that leave the vetted data alone. *)
LEMMA VettedKept ==
  ASSUME VettedInv, UNCHANGED <<base, req, page, i, ast, dsl>>,
         pc' \in Stages, pc' = "clauses" => pc = "clauses"
  PROVE  VettedInv'
BY PassedKept, DSLKept DEF VettedInv, Typed, Vetted

LEMMA RefuseKeeps ==
  ASSUME VettedInv, NEW status, NEW code, Refuse(status, code)
  PROVE  VettedInv'
BY VettedKept DEF Refuse, Respond, Stages

LEMMA RuleErrorKeeps ==
  ASSUME VettedInv, RuleError
  PROVE  VettedInv'
BY VettedKept DEF RuleError, Refuse, Respond, Stages

(* A sort key that the loop appends is vetted. *)
LEMMA AddSortKeyKeeps ==
  ASSUME VettedInv, pc = "sort",
         NEW field \in Fields \cup {Score}, field \in base.known \cup {Score},
         NEW dir \in {"asc", "desc", "bad"}, AddSortKey(field, dir)
  PROVE  VettedInv'
<1> DEFINE SK == [field : Fields \cup {Score}, dir : {"asc", "desc", "bad"}]
           new == [field |-> field, dir |-> dir]
<1>a. page.sort \in Seq(SK) /\ new \in SK
  BY DEF VettedInv, Typed
<1>b. Append(page.sort, new) \in Seq(SK)
  BY <1>a
<1>c. page' = [page EXCEPT !.sort = Append(page.sort, new)]
  BY DEF AddSortKey
<1>d. page' \in [size : Int, from : Int, sort : Seq(SK)]
  BY <1>b, <1>c DEF VettedInv, Typed
<1>1. Typed'
  BY <1>d DEF VettedInv, Typed, AddSortKey
<1>2. \A k \in DOMAIN page'.sort : page'.sort[k].field \in base.known \cup {Score}
  BY DEF VettedInv, Typed, Vetted, AddSortKey
<1>3. pc' # "clauses" /\ VettedDSL'
  BY DSLKept DEF VettedInv, Vetted, AddSortKey
<1> QED BY <1>1, <1>2, <1>3 DEF VettedInv, Vetted, AddSortKey

LEMMA VettedNext == VettedInv /\ [Next]_pipelineVars => VettedInv'
<1> SUFFICES ASSUME VettedInv, [Next]_pipelineVars PROVE VettedInv'
  OBVIOUS
<1>1. CASE ChooseIndex
  BY <1>1, RefuseKeeps, VettedKept DEF ChooseIndex, Stages
<1>2. CASE CheckPage
  <2> DEFINE size == RequestedSize(req)
  <2>1. CASE \E code : Refuse(400, code)
    BY <2>1, RefuseKeeps
  <2>2. CASE /\ page' = [size |-> size, from |-> req.from, sort |-> <<>>]
             /\ i' = 0 /\ pc' = "sort"
             /\ UNCHANGED <<base, req, index, ast, normalized, dsl, sent, cluster, response>>
    <3>1. size \in Int /\ req.from \in Int
      BY RequestType DEF VettedInv, Typed
    <3>2. Typed'
      BY <2>2, <3>1 DEF VettedInv, Typed, Stages
    <3>3. Vetted'
      BY <2>2, DSLKept DEF VettedInv, Vetted
    <3> QED BY <3>2, <3>3 DEF VettedInv
  <2> QED BY <1>2, <2>1, <2>2 DEF CheckPage
<1>3. CASE CheckSortKey
  <2> DEFINE key == req.sort[i + 1]
  <2>1. key \in SortKeys
    BY <1>3, RequestType DEF CheckSortKey, VettedInv, Typed
  <2>2. key.field \in Fields => base.alias[key.field] \in Fields
    BY BaseType DEF VettedInv, Typed
  <2>3. CASE \E code : Refuse(400, code)
    BY <2>3, RefuseKeeps
  <2>4. CASE RuleError
    BY <2>4, RuleErrorKeeps
  <2>5. CASE key.field = Score /\ AddSortKey(Score, key.dir)
    BY <1>3, <2>1, <2>5, AddSortKeyKeeps DEF CheckSortKey, SortKeys
  <2>6. CASE /\ key.field \in Fields
             /\ base.alias[key.field] \in base.known
             /\ AddSortKey(base.alias[key.field], key.dir)
    BY <1>3, <2>1, <2>2, <2>6, AddSortKeyKeeps DEF CheckSortKey, SortKeys
  <2> QED BY <1>3, <2>3, <2>4, <2>5, <2>6 DEF CheckSortKey
<1>4. CASE Parse
  <2>1. CASE Refuse(400, req.parse)
    BY <2>1, RefuseKeeps
  <2>2. CASE /\ ast' = req.clauses /\ i' = 0 /\ pc' = "clauses"
             /\ UNCHANGED <<base, req, index, page, normalized, dsl, sent, cluster, response>>
    <3>1. Typed'
      BY <2>2, RequestType DEF VettedInv, Typed, Stages
    <3>2. PassedUpTo(i)'
      BY <2>2, <3>1 DEF Typed, PassedUpTo
    <3>3. Vetted'
      BY <2>2, <3>2, DSLKept DEF VettedInv, Vetted
    <3> QED BY <3>1, <3>3 DEF VettedInv
  <2> QED BY <1>4, <2>1, <2>2 DEF Parse
<1>5. CASE CheckRelativeTime
  <2>1. CASE \E code : Refuse(400, code)
    BY <2>1, RefuseKeeps
  <2>2. CASE RuleError
    BY <2>2, RuleErrorKeeps
  <2>3. CASE /\ ValidClause(base, TimeField, "range")
             /\ NextClause /\ UNCHANGED <<ast, normalized>>
    <3>1. PassedUpTo(i) /\ i \in Nat /\ i < Len(ast) /\ Len(ast) \in Nat
      BY <1>5 DEF CheckRelativeTime, VettedInv, Typed, Vetted
    <3>2. ast[i + 1] = req.clauses[i + 1] /\ Passed(i + 1)
      BY <1>5, <2>3, <3>1 DEF CheckRelativeTime, PassedUpTo, Passed, Misled, LeafVetted, Leaf
    <3>3. Typed'
      BY <2>3 DEF VettedInv, Typed, NextClause
    <3>a. PassedUpTo(i + 1)
      BY <3>1, <3>2 DEF PassedUpTo
    <3>4. Vetted'
      BY <2>3, <3>a, PassedKept, DSLKept DEF VettedInv, Vetted, NextClause
    <3> QED BY <3>3, <3>4 DEF VettedInv
  <2> QED BY <1>5, <2>1, <2>2, <2>3 DEF CheckRelativeTime
<1>6. CASE CheckClause
  <2> DEFINE c == Rewrite(ast[i + 1])
  <2>1. CASE Refuse(400, "clause_rejected")
    BY <2>1, RefuseKeeps
  <2>2. CASE RuleError
    BY <2>2, RuleErrorKeeps
  <2>3. CASE /\ ValidClause(base, c.field, OpOf(c))
             /\ ast' = [ast EXCEPT ![i + 1] = c]
             /\ normalized' = Record(ast[i + 1])
             /\ NextClause
    <3>1. /\ ast \in Seq(Clauses) /\ i \in Nat /\ i < Len(ast) /\ base \in Bases
          /\ PassedUpTo(i) /\ ~IsRelativeTime(ast[i + 1])
      BY <1>6 DEF CheckClause, VettedInv, Typed, Vetted
    <3>2. ast[i + 1] \in Clauses /\ ast[i + 1] = req.clauses[i + 1] /\ Len(ast) \in Nat
      BY <3>1 DEF PassedUpTo
    <3>3. c \in Clauses
      BY <3>1, <3>2, RewriteGivesClause
    <3>4. /\ ast' \in Seq(Clauses) /\ Len(ast') = Len(ast) /\ ast'[i + 1] = c
          /\ \A k \in 1 .. Len(ast) : k # i + 1 => ast'[k] = ast[k]
      BY <2>3, <3>1, <3>3
    <3>5. Typed'
      BY <2>3, <3>4 DEF VettedInv, Typed, NextClause
    <3>6. IF base.alias[req.clauses[i + 1].field] = Last THEN ValidClause(base, Last, "range")
                                                         ELSE LeafVetted(c)
      BY <2>3, <3>1, <3>2, RewriteGivesClause DEF LeafVetted
    <3>7. i' = i + 1 /\ UNCHANGED <<base, req, pc, page, dsl>>
      BY <2>3 DEF NextClause
    <3>8. \A k \in 1 .. i + 1 :
            IF Misled(k) THEN ValidClause(base, Last, "range") ELSE LeafVetted(ast'[k])
      BY <3>1, <3>2, <3>4, <3>6 DEF PassedUpTo, Passed, Misled
    <3>9. \A k \in 1 .. i + 1 : Passed(k)'
      BY <3>7, <3>8 DEF Passed, Misled, LeafVetted, Leaf, IsRelativeTime, ValidClause
    <3>10. \A k \in (i + 1) + 1 .. Len(ast) : ast'[k] = req.clauses[k]
      BY <3>1, <3>2, <3>4 DEF PassedUpTo
    <3>a. i + 1 <= Len(ast') /\ Len(ast') = Len(req'.clauses)
      BY <3>1, <3>2, <3>4, <3>7 DEF PassedUpTo
    <3>11. PassedUpTo(i)'
      BY <3>4, <3>7, <3>9, <3>10, <3>a DEF PassedUpTo
    <3>12. Vetted'
      BY <3>7, <3>11, DSLKept DEF VettedInv, Vetted
    <3> QED BY <3>5, <3>12 DEF VettedInv
  <2> QED BY <1>6, <2>1, <2>2, <2>3 DEF CheckClause
<1>7. CASE Build
  <2>1. Typed'
    BY <1>7 DEF Build, Respond, VettedInv, Typed, Stages
  <2>2. \A k \in DOMAIN ast : Passed(k)
    BY <1>7 DEF Build, VettedInv, Typed, Vetted, PassedUpTo
  <2>a. /\ dsl' = BuildSearch(ast, page) /\ UNCHANGED <<base, req, page>>
        /\ \A k \in DOMAIN page.sort : page.sort[k].field \in base.known \cup {Score}
    BY <1>7 DEF Build, VettedInv, Vetted
  <2>3. VettedDSL'
    BY <2>2, <2>a DEF BuildSearch, VettedDSL, Passed, Misled, LeafVetted, IsRelativeTime, ValidClause
  <2> QED BY <1>7, <2>1, <2>3 DEF Build, Respond, VettedInv, Vetted
<1>8. CASE CallBackend
  BY <1>8, VettedKept DEF CallBackend, Stages
<1>9. CASE Reply
  BY <1>9, VettedKept DEF Reply, Respond, Stages
<1>10. CASE UNCHANGED pipelineVars
  BY <1>10, VettedKept DEF pipelineVars, VettedInv, Typed
<1> QED BY <1>1, <1>2, <1>3, <1>4, <1>5, <1>6, <1>7, <1>8, <1>9, <1>10 DEF Next

(* No query reaches the cluster with a field, a range or a sort key that the rule
   base does not allow, whatever the rule base, its aliases and the request are,
   but for a clause that an alias leads to a known field Last.                *)
THEOREM OnlyVettedQueries == Spec => []VettedDSL
<1>1. VettedInv => VettedDSL
  BY DEF VettedInv, Vetted
<1> QED BY <1>1, VettedInit, VettedNext, PTL DEF Spec
-----------------------------------------------------------------------------
(* The second invariant: what the steps so far have established of the request,
   toward a verdict that knows no order of checks and no loops.               *)
ClauseAcceptable(c) ==
  IF IsRelativeTime(c) THEN c.duration /\ ValidClause(base, TimeField, "range")
  ELSE ValidClause(base, base.alias[c.field],
                   IF base.alias[c.field] = Last THEN "range" ELSE c.op)

KeyAcceptable(key) ==
  /\ key.dir # "bad"
  /\ \/ key.field = Score
     \/ key.field \in Fields /\ base.alias[key.field] \in base.known

Overflows(r) == r.from + RequestedSize(r) > IntMax

(* What the limits and the rule base ask of a request, with no order
   of checks and no loops.                                                    *)
Acceptable ==
  /\ req.index = NoIndex \/ IndexAllowed(req.index)
  /\ SizeOK(RequestedSize(req))
  /\ req.from >= 0 /\ req.from + RequestedSize(req) <= MaxFrom
  /\ \A k \in DOMAIN req.sort : KeyAcceptable(req.sort[k])
  /\ req.parse = "ok"
  /\ \A k \in DOMAIN req.clauses : ClauseAcceptable(req.clauses[k])

(* A request is translated exactly when it is acceptable, and an acceptable one
   gets a client error only from the cluster: the checks refuse for the
   client's faults alone.  (Only rule engine faults stand between.)           *)
TranslatedIffAcceptable ==
  ~Overflows(req) =>
    /\ dsl # NoDSL => Acceptable
    /\ pc = "done" /\ dsl = NoDSL => ~Acceptable \/ response.code = "rule_error"

Before == {"index", "page", "sort", "clauses"}

IndexPart == req.index = NoIndex \/ IndexAllowed(req.index)
PagePart == SizeOK(RequestedSize(req)) /\ FromOK(req.from, RequestedSize(req))
SortPart(n) == n <= Len(req.sort) /\ \A k \in 1 .. n : KeyAcceptable(req.sort[k])

(* The first n clauses are acceptable, the others still as the client wrote them. *)
ClausePart(n) ==
  /\ n <= Len(ast) /\ Len(ast) = Len(req.clauses)
  /\ \A k \in 1 .. n : ClauseAcceptable(req.clauses[k])
  /\ \A k \in n + 1 .. Len(ast) : ast[k] = req.clauses[k]

Verdict == Overflows(req) \/ Acceptable

Checked ==
  /\ pc \in {"page", "sort", "clauses"} => IndexPart
  /\ pc \in {"sort", "clauses"} => PagePart
  /\ pc = "sort" => SortPart(i)
  /\ pc = "clauses" => SortPart(Len(req.sort)) /\ req.parse = "ok" /\ ClausePart(i)
  /\ pc \in Before => dsl = NoDSL
  /\ pc \in {"search", "reply"} => dsl # NoDSL
  /\ dsl # NoDSL => Verdict
  /\ pc = "done" /\ dsl = NoDSL =>
       Overflows(req) \/ ~Acceptable \/ response.code = "rule_error"

CheckedInv == VettedInv /\ Checked

(* The verdict on the rewritten clause is the one on the canonical name, with the
   operation the client wrote unless that name is Last.                       *)
LEMMA RewriteKeepsVerdict ==
  ASSUME base \in Bases, NEW c \in Clauses, ~IsRelativeTime(c)
  PROVE  ClauseAcceptable(c) <=> ValidClause(base, Rewrite(c).field, OpOf(Rewrite(c)))
BY RewriteGivesClause DEF ClauseAcceptable

(* FromOK bounds the mathematical sum unless the sum overflows. *)
LEMMA FromWithinInt ==
  ASSUME NEW r \in Requests, SizeOK(RequestedSize(r)), ~Overflows(r)
  PROVE  FromOK(r.from, RequestedSize(r))
           <=> r.from >= 0 /\ r.from + RequestedSize(r) <= MaxFrom
BY RequestType DEF Overflows, FromOK, AddInt

LEMMA CheckedInit == Init => CheckedInv
BY VettedInit DEF Init, CheckedInv, Checked, Before

(* Steps that leave the request, the rule base and the progress alone. *)
LEMMA CheckedKept ==
  ASSUME CheckedInv, VettedInv', UNCHANGED <<base, req, i, ast, dsl>>,
         \/ pc' = pc /\ response' = response
         \/ pc' = "reply" /\ pc = "search"
         \/ pc' = "done" /\ pc \in {"search", "reply"}
         \/ /\ pc' = "done" /\ pc \in Before
            /\ response'.code = "rule_error" \/ Overflows(req) \/ ~Acceptable
  PROVE  CheckedInv'
<1>1. Checked'
  BY DEF CheckedInv, Checked, Before, IndexPart, PagePart, SortPart, ClausePart, Verdict,
         Acceptable, KeyAcceptable, ClauseAcceptable, IsRelativeTime, ValidClause, Overflows
<1> QED BY <1>1 DEF CheckedInv

(* A refusal is justified when the request is not acceptable. *)
LEMMA RefuseJustified ==
  ASSUME CheckedInv, VettedInv', pc \in Before, NEW status, NEW code, Refuse(status, code),
         Overflows(req) \/ ~Acceptable
  PROVE  CheckedInv'
BY CheckedKept DEF Refuse, Respond

LEMMA RuleErrorExcused ==
  ASSUME CheckedInv, VettedInv', pc \in Before, RuleError
  PROVE  CheckedInv'
BY CheckedKept DEF RuleError, Refuse, Respond

(* The verdict on the clause the loop looks at is the verdict on the one the
   client wrote.                                                              *)
LEMMA NextClauseCounts ==
  ASSUME CheckedInv, VettedInv', pc = "clauses", i < Len(ast),
         ClauseAcceptable(req.clauses[i + 1]), NextClause,
         Len(ast') = Len(ast), \A k \in i + 2 .. Len(ast) : ast'[k] = ast[k]
  PROVE  CheckedInv'
<1>1. i \in Nat /\ i' = i + 1
  BY DEF CheckedInv, VettedInv, Typed, NextClause
<1>2. ClausePart(i)
  BY DEF CheckedInv, Checked
<1>3. /\ i' <= Len(ast') /\ Len(ast') = Len(req.clauses)
      /\ \A k \in 1 .. i' : ClauseAcceptable(req.clauses[k])
      /\ \A k \in i' + 1 .. Len(ast') : ast'[k] = req.clauses[k]
  <2>1. Len(ast) \in Nat
    BY DEF CheckedInv, VettedInv, Typed
  <2> QED BY <1>1, <1>2, <2>1 DEF ClausePart
<1>4. UNCHANGED <<base, req, pc, dsl, response>>
  BY DEF NextClause
<1>5. ClausePart(i)'
  BY <1>3, <1>4 DEF ClausePart, ClauseAcceptable, IsRelativeTime, ValidClause
<1>6. Checked'
  BY <1>4, <1>5 DEF CheckedInv, Checked, Before, IndexPart, PagePart, SortPart, Verdict,
         Acceptable, KeyAcceptable, ClauseAcceptable, IsRelativeTime, ValidClause, Overflows
<1> QED BY <1>6 DEF CheckedInv

(* Likewise for sort keys. *)
LEMMA SortKeyCounts ==
  ASSUME CheckedInv, VettedInv', pc = "sort", i < Len(req.sort),
         KeyAcceptable(req.sort[i + 1]),
         i' = i + 1, UNCHANGED <<base, req, pc, dsl, response>>
  PROVE  CheckedInv'
<1>1. i \in Nat /\ SortPart(i) /\ Len(req.sort) \in Nat
  BY RequestType DEF CheckedInv, VettedInv, Typed, Checked
<1>2. SortPart(i + 1)
  BY <1>1 DEF SortPart
<1>3. SortPart(i)'
  BY <1>2 DEF SortPart, KeyAcceptable
<1>4. Checked'
  BY <1>3 DEF CheckedInv, Checked, Before, IndexPart, PagePart, Verdict,
         Acceptable, KeyAcceptable, ClauseAcceptable, IsRelativeTime, ValidClause, Overflows
<1> QED BY <1>4 DEF CheckedInv

LEMMA CheckedNext == CheckedInv /\ [Next]_pipelineVars => CheckedInv'
<1> SUFFICES ASSUME CheckedInv, [Next]_pipelineVars PROVE CheckedInv'
  OBVIOUS
<1>v. VettedInv'
  BY VettedNext DEF CheckedInv
<1>t. Typed
  BY DEF CheckedInv, VettedInv
<1>1. CASE ChooseIndex
  <2> DEFINE x == IF req.index = NoIndex THEN DefaultIndex ELSE req.index
  <2>1. IndexAllowed(x) <=> IndexPart
    BY DEF IndexAllowed, IndexPart
  <2>2. CASE ~IndexAllowed(x) /\ Refuse(403, "index_not_allowed")
    BY <1>1, <1>v, <2>1, <2>2, RefuseJustified DEF ChooseIndex, Before, Acceptable, IndexPart
  <2>3. CASE /\ IndexAllowed(x) /\ pc' = "page"
             /\ UNCHANGED <<base, req, page, i, ast, normalized, dsl, sent, cluster, response>>
    <3>1. Checked'
      BY <1>1, <2>1, <2>3 DEF ChooseIndex, CheckedInv, Checked, Before, IndexPart, Verdict,
         Acceptable, KeyAcceptable, ClauseAcceptable, IsRelativeTime, ValidClause, Overflows
    <3> QED BY <1>v, <3>1 DEF CheckedInv
  <2> QED BY <1>1, <2>2, <2>3 DEF ChooseIndex
<1>2. CASE CheckPage
  <2> DEFINE size == RequestedSize(req)
  <2>1. CASE ~SizeOK(size) /\ Refuse(400, "invalid_size")
    BY <1>2, <1>v, <2>1, RefuseJustified DEF CheckPage, Before, Acceptable
  <2>2. CASE SizeOK(size) /\ ~FromOK(req.from, size) /\ Refuse(400, "invalid_from")
    <3>1. Overflows(req) \/ ~Acceptable
      BY <1>t, <2>2, FromWithinInt DEF Typed, Acceptable
    <3> QED BY <1>2, <1>v, <2>2, <3>1, RefuseJustified DEF CheckPage, Before
  <2>3. CASE /\ SizeOK(size) /\ FromOK(req.from, size)
             /\ i' = 0 /\ pc' = "sort"
             /\ UNCHANGED <<base, req, index, ast, normalized, dsl, sent, cluster, response>>
    <3>1. Len(req.sort) \in Nat
      BY <1>t, RequestType DEF Typed
    <3>2. Checked'
      BY <1>2, <2>3, <3>1 DEF CheckPage, CheckedInv, Checked, Before, IndexPart, PagePart, SortPart, Verdict,
         Acceptable, KeyAcceptable, ClauseAcceptable, IsRelativeTime, ValidClause, Overflows
    <3> QED BY <1>v, <3>2 DEF CheckedInv
  <2> QED BY <1>2, <2>1, <2>2, <2>3 DEF CheckPage
<1>3. CASE CheckSortKey
  <2> DEFINE key == req.sort[i + 1]
  <2>1. key \in SortKeys /\ i + 1 \in DOMAIN req.sort /\ pc \in Before
    BY <1>3, <1>t, RequestType DEF CheckSortKey, Typed, Before
  <2>2. ~KeyAcceptable(key) => ~Acceptable
    BY <2>1 DEF Acceptable
  <2>3. CASE (\E code : Refuse(400, code)) /\ ~KeyAcceptable(key)
    BY <1>v, <2>1, <2>2, <2>3, RefuseJustified
  <2>4. CASE RuleError
    BY <1>v, <2>1, <2>4, RuleErrorExcused
  <2>5. CASE KeyAcceptable(key) /\ \E f, d : AddSortKey(f, d)
    BY <1>3, <1>v, <2>5, SortKeyCounts DEF CheckSortKey, AddSortKey
  <2>6. ASSUME key.dir = "bad" \/ key.field = Empty
        PROVE  ~KeyAcceptable(key)
    BY <2>6, NamesAssumption DEF KeyAcceptable
  <2> QED BY <1>3, <2>3, <2>4, <2>5, <2>6, NamesAssumption DEF CheckSortKey, KeyAcceptable
<1>4. CASE Parse
  <2>1. CASE req.parse # "ok" /\ Refuse(400, req.parse)
    BY <1>4, <1>v, <2>1, RefuseJustified DEF Parse, Before, Acceptable
  <2>2. CASE /\ req.parse = "ok"
             /\ ast' = req.clauses /\ i' = 0 /\ pc' = "clauses"
             /\ UNCHANGED <<base, req, index, page, normalized, dsl, sent, cluster, response>>
    <3>1. Len(req.clauses) \in Nat
      BY <1>t, RequestType DEF Typed
    <3>2. SortPart(Len(req.sort))
      BY <1>4 DEF Parse, CheckedInv, Checked
    <3>3. Checked'
      BY <1>4, <2>2, <3>1, <3>2 DEF Parse, CheckedInv, Checked, Before, IndexPart, PagePart, SortPart, ClausePart,
         Verdict, Acceptable, KeyAcceptable, ClauseAcceptable, IsRelativeTime, ValidClause, Overflows
    <3> QED BY <1>v, <3>3 DEF CheckedInv
  <2> QED BY <1>4, <2>1, <2>2 DEF Parse
<1>c. ASSUME pc = "clauses", i < Len(ast)
      PROVE  /\ ast[i + 1] = req.clauses[i + 1] /\ i + 1 \in DOMAIN req.clauses
             /\ ~ClauseAcceptable(ast[i + 1]) => ~Acceptable
  <2>1. i \in Nat /\ Len(ast) \in Nat /\ ClausePart(i)
    BY <1>c, <1>t DEF Typed, CheckedInv, Checked
  <2>2. req.clauses \in Seq(Clauses)
    BY <1>t, RequestType DEF Typed
  <2>3. ast[i + 1] = req.clauses[i + 1] /\ i + 1 \in DOMAIN req.clauses
    BY <1>c, <2>1, <2>2 DEF ClausePart
  <2> QED BY <2>3 DEF Acceptable
<1>5. CASE CheckRelativeTime
  <2>1. pc \in Before /\ pc = "clauses" /\ i < Len(ast) /\ IsRelativeTime(ast[i + 1])
    BY <1>5 DEF CheckRelativeTime, Before
  <2>2. CASE (\E code : Refuse(400, code)) /\ ~ClauseAcceptable(ast[i + 1])
    BY <1>v, <1>c, <2>1, <2>2, RefuseJustified
  <2>3. CASE RuleError
    BY <1>v, <2>1, <2>3, RuleErrorExcused
  <2>4. CASE ClauseAcceptable(ast[i + 1]) /\ NextClause /\ UNCHANGED <<ast, normalized>>
    BY <1>v, <1>c, <2>1, <2>4, NextClauseCounts
  <2> QED BY <1>5, <2>1, <2>2, <2>3, <2>4 DEF CheckRelativeTime, ClauseAcceptable
<1>6. CASE CheckClause
  <2> DEFINE c == Rewrite(ast[i + 1])
  <2>1. pc \in Before /\ pc = "clauses" /\ i < Len(ast) /\ ~IsRelativeTime(ast[i + 1])
    BY <1>6 DEF CheckClause, Before
  <2>2. ast[i + 1] \in Clauses /\ base \in Bases /\ i \in Nat /\ ast \in Seq(Clauses)
    BY <1>t, <2>1 DEF Typed
  <2>3. ClauseAcceptable(ast[i + 1]) <=> ValidClause(base, c.field, OpOf(c))
    BY <2>1, <2>2, RewriteKeepsVerdict
  <2>4. CASE Refuse(400, "clause_rejected") /\ ~ValidClause(base, c.field, OpOf(c))
    BY <1>v, <1>c, <2>1, <2>3, <2>4, RefuseJustified
  <2>5. CASE RuleError
    BY <1>v, <2>1, <2>5, RuleErrorExcused
  <2>6. CASE /\ ValidClause(base, c.field, OpOf(c))
             /\ ast' = [ast EXCEPT ![i + 1] = c] /\ NextClause
    <3>1. Len(ast') = Len(ast) /\ \A k \in i + 2 .. Len(ast) : ast'[k] = ast[k]
      BY <2>1, <2>2, <2>6
    <3> QED BY <1>v, <1>c, <2>1, <2>3, <2>6, <3>1, NextClauseCounts
  <2> QED BY <1>6, <2>4, <2>5, <2>6 DEF CheckClause
<1>7. CASE Build
  <2>1. i = Len(ast) /\ pc = "clauses" /\ Len(ast) \in Nat /\ ClausePart(i)
    BY <1>7, <1>t DEF Build, Typed, CheckedInv, Checked
  <2>2. IndexPart /\ PagePart /\ SortPart(Len(req.sort)) /\ req.parse = "ok"
    BY <2>1 DEF CheckedInv, Checked
  <2>3. req.sort \in Seq(SortKeys) /\ req.clauses \in Seq(Clauses) /\ req \in Requests
    BY <1>t, RequestType DEF Typed
  <2>4. Verdict
    <3>1. \A k \in DOMAIN req.sort : KeyAcceptable(req.sort[k])
      BY <2>2, <2>3 DEF SortPart
    <3>2. \A k \in DOMAIN req.clauses : ClauseAcceptable(req.clauses[k])
      BY <2>1, <2>3 DEF ClausePart
    <3> QED BY <2>2, <2>3, <3>1, <3>2, FromWithinInt DEF Verdict, Acceptable, IndexPart, PagePart
  <2>5. dsl' # NoDSL
    <3>1. page.size \in Int
      BY <1>t DEF Typed
    <3>2. dsl'.size = page.size
      BY <1>7 DEF Build, BuildSearch
    <3> QED BY <3>1, <3>2, LimitsAssumption DEF NoDSL
  <2>6. pc' \in {"done", "search"} /\ UNCHANGED <<base, req>>
    BY <1>7 DEF Build, Respond
  <2>7. Verdict'
    BY <2>4, <2>6 DEF Verdict, Acceptable, KeyAcceptable, ClauseAcceptable, IsRelativeTime, ValidClause, Overflows
  <2>8. Checked'
    BY <2>5, <2>6, <2>7 DEF Checked, Before
  <2> QED BY <1>v, <2>8 DEF CheckedInv
<1>8. CASE CallBackend
  BY <1>8, <1>v, CheckedKept DEF CallBackend
<1>9. CASE Reply
  BY <1>9, <1>v, CheckedKept DEF Reply, Respond
<1>10. CASE UNCHANGED pipelineVars
  BY <1>10, <1>v, CheckedKept DEF pipelineVars
<1> QED BY <1>1, <1>2, <1>3, <1>4, <1>5, <1>6, <1>7, <1>8, <1>9, <1>10 DEF Next

(* A request is translated exactly when the conditions of the documentation hold,
   unless the rule engine fails or the sum of from and size overflows.         *)
THEOREM TranslationDecision == Spec => []TranslatedIffAcceptable
<1>1. CheckedInv => TranslatedIffAcceptable
  BY DEF CheckedInv, Checked, Verdict, TranslatedIffAcceptable
<1> QED BY <1>1, CheckedInit, CheckedNext, PTL DEF Spec
-----------------------------------------------------------------------------
(* The rest of the type invariant. *)
SortedBy == [field : Fields \cup {Score}, dir : {"asc", "desc"}]
Renamings == [from : Fields, to : Fields]
Statuses == {200, 400, 403, 404, 500, 502, 504}

PageTyped ==
  /\ page.size \in 0 .. MaxSize /\ page.from \in Nat /\ page.sort \in Seq(SortedBy)
  /\ pc = "sort" => i <= Len(req.sort)
OutputTyped ==
  /\ index \in Indices \cup {NoIndex}
  /\ normalized \in Seq(Renamings)
  /\ cluster \in ClusterOutcomes \cup {"none"}
  /\ response.status \in Statuses \cup {0} /\ (response.status = 0 <=> pc # "done")

TypeInv == VettedInv /\ PageTyped /\ OutputTyped

LEMMA TypeInvSuffices == TypeInv => TypeOK
BY DEF TypeInv, VettedInv, Typed, Vetted, PassedUpTo, PageTyped, OutputTyped, TypeOK, SortedBy, Renamings,
       Statuses, Stages

LEMMA TypeInit == Init => TypeInv
<1> SUFFICES ASSUME Init PROVE TypeInv OBVIOUS
<1>1. PageTyped
  BY LimitsAssumption DEF Init, PageTyped
<1>2. OutputTyped
  <2>1. response.status = 0 /\ pc = "index" BY DEF Init, NoResponse
  <2>2. normalized \in Seq(Renamings) /\ index = NoIndex /\ cluster = "none"
    BY DEF Init
  <2> QED BY <2>1, <2>2 DEF OutputTyped
<1> QED BY <1>1, <1>2, VettedInit DEF TypeInv

LEMMA RefuseTyped ==
  ASSUME PageTyped, OutputTyped, NEW status \in Statuses, NEW code, Refuse(status, code)
  PROVE  PageTyped' /\ OutputTyped'
BY DEF PageTyped, OutputTyped, Refuse, Respond, Statuses

LEMMA RuleErrorTyped ==
  ASSUME PageTyped, OutputTyped, RuleError
  PROVE  PageTyped' /\ OutputTyped'
BY DEF PageTyped, OutputTyped, RuleError, Refuse, Respond, Statuses

LEMMA TypeNext ==
  ASSUME VettedInv, PageTyped, OutputTyped, [Next]_pipelineVars
  PROVE  PageTyped' /\ OutputTyped'
<1>0. /\ 200 \in Statuses /\ 400 \in Statuses /\ 403 \in Statuses /\ 404 \in Statuses
      /\ 500 \in Statuses /\ 502 \in Statuses /\ 504 \in Statuses /\ 0 \notin Statuses
  BY DEF Statuses
<1>1. CASE ChooseIndex
  <2>1. req.index \in Indices \cup {NoIndex} /\ DefaultIndex \in Indices
    BY RequestType, NamesAssumption DEF VettedInv, Typed
  <2>2. CASE Refuse(403, "index_not_allowed")
    BY <1>0, <2>2, RefuseTyped
  <2>3. CASE /\ index' \in Indices \cup {NoIndex} /\ pc' = "page" /\ pc = "index"
             /\ UNCHANGED <<base, req, page, i, ast, normalized, dsl, sent, cluster, response>>
    BY <2>3 DEF PageTyped, OutputTyped
  <2> QED BY <1>1, <2>1, <2>2, <2>3 DEF ChooseIndex
<1>2. CASE CheckPage
  <2>1. CASE \E code : Refuse(400, code)
    BY <1>0, <2>1, RefuseTyped
  <2>2. CASE /\ pc = "page" /\ SizeOK(RequestedSize(req)) /\ FromOK(req.from, RequestedSize(req))
             /\ page' = [size |-> RequestedSize(req), from |-> req.from, sort |-> <<>>]
             /\ i' = 0 /\ pc' = "sort"
             /\ UNCHANGED <<base, req, index, ast, normalized, dsl, sent, cluster, response>>
    <3>1. RequestedSize(req) \in 0 .. MaxSize /\ req.from \in Nat /\ req.sort \in Seq(SortKeys)
      BY <2>2, RequestType, LimitsAssumption DEF VettedInv, Typed, SizeOK, FromOK
    <3>2. PageTyped' BY <2>2, <3>1 DEF PageTyped
    <3>3. OutputTyped' BY <2>2 DEF OutputTyped
    <3> QED BY <3>2, <3>3
  <2> QED BY <1>2, <2>1, <2>2 DEF CheckPage
<1>3. CASE CheckSortKey
  <2> DEFINE key == req.sort[i + 1]
  <2>0. req.sort \in Seq(SortKeys) /\ i \in Nat /\ pc = "sort" /\ i + 1 <= Len(req.sort)
    BY <1>3, RequestType DEF CheckSortKey, VettedInv, Typed
  <2>1. key \in SortKeys
    BY <2>0
  <2>2. key.field \in Fields => base.alias[key.field] \in Fields
    BY BaseType DEF VettedInv, Typed
  <2>3. CASE \E code : Refuse(400, code)
    BY <1>0, <2>3, RefuseTyped
  <2>4. CASE RuleError
    BY <2>4, RuleErrorTyped
  <2>5. ASSUME NEW field \in Fields \cup {Score}, key.dir # "bad", AddSortKey(field, key.dir)
        PROVE  PageTyped' /\ OutputTyped'
    <3>1. [field |-> field, dir |-> key.dir] \in SortedBy
      BY <2>1, <2>5 DEF SortKeys, SortedBy
    <3>2. page' = [page EXCEPT !.sort = Append(page.sort, [field |-> field, dir |-> key.dir])]
      BY <2>5 DEF AddSortKey
    <3>3. Append(page.sort, [field |-> field, dir |-> key.dir]) \in Seq(SortedBy)
      BY <3>1 DEF PageTyped
    <3>4. page \in [size : Int, from : Int,
                    sort : Seq([field : Fields \cup {Score}, dir : {"asc", "desc", "bad"}])]
      BY DEF VettedInv, Typed
    <3>5. /\ page'.size = page.size /\ page'.from = page.from
          /\ page'.sort = Append(page.sort, [field |-> field, dir |-> key.dir])
      BY <3>2, <3>4
    <3>6. PageTyped' BY <2>0, <2>5, <3>3, <3>5 DEF PageTyped, AddSortKey
    <3>7. OutputTyped' BY <2>5 DEF OutputTyped, AddSortKey
    <3> QED BY <3>6, <3>7
  <2> QED BY <1>3, <2>1, <2>2, <2>3, <2>4, <2>5 DEF CheckSortKey
<1>4. CASE Parse
  <2>1. CASE Refuse(400, req.parse)
    BY <1>0, <2>1, RefuseTyped
  <2>2. CASE ~Refuse(400, req.parse)
    BY <1>4, <2>2 DEF Parse, PageTyped, OutputTyped
  <2> QED BY <2>1, <2>2
<1>5. CASE CheckRelativeTime
  <2>1. CASE \E code : Refuse(400, code)
    BY <1>0, <2>1, RefuseTyped
  <2>2. CASE RuleError
    BY <2>2, RuleErrorTyped
  <2>3. CASE pc = "clauses" /\ NextClause /\ UNCHANGED <<ast, normalized>>
    BY <2>3 DEF NextClause, PageTyped, OutputTyped
  <2> QED BY <1>5, <2>1, <2>2, <2>3 DEF CheckRelativeTime
<1>6. CASE CheckClause
  <2>1. CASE Refuse(400, "clause_rejected")
    BY <1>0, <2>1, RefuseTyped
  <2>2. CASE RuleError
    BY <2>2, RuleErrorTyped
  <2>3. CASE pc = "clauses" /\ normalized' = Record(ast[i + 1]) /\ NextClause
    <3>1. ast[i + 1] \in Clauses /\ base.alias \in [Fields -> Fields]
      BY <1>6, BaseType DEF CheckClause, VettedInv, Typed
    <3>2. [from |-> ast[i + 1].field, to |-> base.alias[ast[i + 1].field]] \in Renamings
      BY <3>1 DEF Clauses, Renamings
    <3>3. normalized' \in Seq(Renamings)
      BY <2>3, <3>2 DEF Record, OutputTyped
    <3> QED BY <2>3, <3>3 DEF NextClause, PageTyped, OutputTyped
  <2> QED BY <1>6, <2>1, <2>2, <2>3 DEF CheckClause
<1>7. CASE Build
  BY <1>0, <1>7 DEF Build, Respond, PageTyped, OutputTyped
<1>8. CASE CallBackend
  BY <1>8 DEF CallBackend, PageTyped, OutputTyped
<1>9. CASE Reply
  BY <1>0, <1>9 DEF Reply, Respond, PageTyped, OutputTyped
<1>10. CASE UNCHANGED pipelineVars
  BY <1>10 DEF pipelineVars, PageTyped, OutputTyped
<1> QED BY <1>1, <1>2, <1>3, <1>4, <1>5, <1>6, <1>7, <1>8, <1>9, <1>10 DEF Next

(* A request is answered exactly when its handler has returned, with a status the
   handler knows, and its page keeps to the limits of search.max_size.          *)
THEOREM PipelineTyped == Spec => []TypeOK
<1>1. TypeInv /\ [Next]_pipelineVars => TypeInv'
  BY VettedNext, TypeNext DEF TypeInv
<1> QED BY <1>1, TypeInit, TypeInvSuffices, PTL DEF Spec
-----------------------------------------------------------------------------
(* The page that is built is the one that was asked for and checked. *)
PageInv ==
  /\ pc \in {"sort", "clauses"} =>
       page.size = RequestedSize(req) /\ page.from = req.from /\ PagePart
  /\ pc \in Before => dsl = NoDSL
  /\ dsl # NoDSL => dsl.size = RequestedSize(req) /\ dsl.from = req.from /\ PagePart

LEMMA PageInit == Init => PageInv
BY DEF Init, PageInv, Before

LEMMA PageNext == VettedInv /\ PageInv /\ [Next]_pipelineVars => PageInv'
<1> SUFFICES ASSUME VettedInv, PageInv, [Next]_pipelineVars PROVE PageInv' OBVIOUS
<1>k. ASSUME UNCHANGED <<req, dsl>>, UNCHANGED page \/ pc' \notin {"sort", "clauses"},
             pc' \in {"sort", "clauses"} => pc \in {"sort", "clauses"},
             pc' \in Before => pc \in Before
      PROVE  PageInv'
  BY <1>k DEF PageInv, PagePart, RequestedSize
<1>r. \A status, code : Refuse(status, code) => PageInv'
  BY <1>k DEF Refuse, Respond, Before
<1>f. RuleError => PageInv'
  BY <1>k DEF RuleError, Refuse, Respond, Before
<1>1. CASE ChooseIndex
  BY <1>1, <1>r, <1>k DEF ChooseIndex, Before
<1>2. CASE CheckPage
  <2>1. CASE /\ pc = "page" /\ SizeOK(RequestedSize(req)) /\ FromOK(req.from, RequestedSize(req))
             /\ page' = [size |-> RequestedSize(req), from |-> req.from, sort |-> <<>>]
             /\ UNCHANGED <<req, dsl>>
    <3>1. PagePart' /\ RequestedSize(req)' = RequestedSize(req)
      BY <2>1 DEF PagePart, RequestedSize
    <3> QED BY <2>1, <3>1 DEF PageInv, Before
  <2> QED BY <1>2, <1>r, <2>1 DEF CheckPage
<1>3. CASE CheckSortKey
  <2>1. ASSUME NEW field, NEW dir, AddSortKey(field, dir) PROVE PageInv'
    <3>1. page'.size = page.size /\ page'.from = page.from
      BY <2>1 DEF AddSortKey, VettedInv, Typed
    <3> QED BY <2>1, <3>1 DEF AddSortKey, PageInv, PagePart, RequestedSize
  <2> QED BY <1>3, <1>r, <1>f, <2>1 DEF CheckSortKey
<1>4. CASE Parse
  BY <1>4, <1>r, <1>k DEF Parse, Before
<1>5. CASE CheckRelativeTime
  BY <1>5, <1>r, <1>f, <1>k DEF CheckRelativeTime, NextClause, Before
<1>6. CASE CheckClause
  BY <1>6, <1>r, <1>f, <1>k DEF CheckClause, NextClause, Before
<1>7. CASE Build
  <2>1. dsl'.size = page.size /\ dsl'.from = page.from /\ pc = "clauses" /\ pc' \notin Before
        /\ UNCHANGED req
    BY <1>7 DEF Build, BuildSearch, Respond, Before
  <2> QED BY <2>1 DEF PageInv, PagePart, RequestedSize, Before
<1>8. CASE CallBackend
  BY <1>8, <1>k DEF CallBackend, Before
<1>9. CASE Reply
  BY <1>9, <1>k DEF Reply, Respond, Before
<1>10. CASE UNCHANGED pipelineVars
  BY <1>10, <1>k DEF pipelineVars
<1> QED BY <1>1, <1>2, <1>3, <1>4, <1>5, <1>6, <1>7, <1>8, <1>9, <1>10 DEF Next

(* A sum of from and size beyond the Go ints is the only way past search.max_from:
   the page of every other request keeps to both limits.                      *)
THEOREM PageBoundedUnlessOverflow == Spec => [](~Overflows(req) => PageBounded)
<1>1. VettedInv /\ PageInv => (~Overflows(req) => PageBounded)
  <2> SUFFICES ASSUME VettedInv, PageInv, ~Overflows(req), dsl # NoDSL
               PROVE  dsl.size <= MaxSize /\ dsl.from + dsl.size <= MaxFrom
    BY DEF PageBounded
  <2>1. req \in Requests
    BY DEF VettedInv, Typed
  <2> QED BY <2>1, FromWithinInt DEF PageInv, PagePart, SizeOK
<1> QED BY <1>1, VettedInit, VettedNext, PageInit, PageNext, PTL DEF Spec
-----------------------------------------------------------------------------
(* The explanation.  Of the first n clauses it lists those that were rewritten,
   and they are built under their canonical names.                            *)
Listed(n) ==
  /\ Len(normalized) = Cardinality(RewrittenUpTo(n))
  /\ \A k \in RewrittenUpTo(n) :
        normalized[Cardinality(RewrittenUpTo(k))] = Renaming(req.clauses[k])

BuiltField(k) == IF Misled(k) THEN TimeField ELSE base.alias[req.clauses[k].field]

Renamed(n) ==
  \A k \in 1 .. n :
    ~IsRelativeTime(req.clauses[k]) => Leaf(ast[k]).field = BuiltField(k)

(* The list is empty until the loop over the clauses, and grows with it. *)
Explained ==
  /\ pc \in Before \ {"clauses"} => normalized = <<>>
  /\ pc = "clauses" => Listed(i) /\ Renamed(i)
  /\ ExplanationFaithful

ExplainedInv == CheckedInv /\ normalized \in Seq(Renamings) /\ Explained

(* The number of rewritten clauses counts up by one at each of them. *)
LEMMA RewrittenCount ==
  ASSUME NEW n \in Nat
  PROVE  /\ IsFiniteSet(RewrittenUpTo(n))
         /\ Cardinality(RewrittenUpTo(n)) \in Nat
         /\ n = 0 => Cardinality(RewrittenUpTo(n)) = 0
<1>1. IsFiniteSet(1 .. n) /\ RewrittenUpTo(n) \subseteq 1 .. n
  BY FS_Interval DEF RewrittenUpTo
<1>2. IsFiniteSet(RewrittenUpTo(n))
  BY <1>1, FS_Subset
<1>3. n = 0 => RewrittenUpTo(n) = {}
  BY <1>1
<1> QED BY <1>2, <1>3, FS_CardinalityType, FS_EmptySet

LEMMA RewrittenSkips ==
  ASSUME NEW n \in Nat, n + 1 \notin RewrittenUpTo(n + 1)
  PROVE  RewrittenUpTo(n + 1) = RewrittenUpTo(n)
BY DEF RewrittenUpTo

LEMMA RewrittenAdds ==
  ASSUME NEW n \in Nat, n + 1 \in RewrittenUpTo(n + 1)
  PROVE  /\ RewrittenUpTo(n + 1) = RewrittenUpTo(n) \cup {n + 1}
         /\ Cardinality(RewrittenUpTo(n + 1)) = Cardinality(RewrittenUpTo(n)) + 1
<1>1. RewrittenUpTo(n + 1) = RewrittenUpTo(n) \cup {n + 1} /\ n + 1 \notin RewrittenUpTo(n)
  BY DEF RewrittenUpTo
<1> QED BY <1>1, RewrittenCount, FS_AddElement

LEMMA RewrittenPlace ==
  ASSUME NEW n \in Nat, NEW k \in RewrittenUpTo(n)
  PROVE  Cardinality(RewrittenUpTo(k)) \in 1 .. Cardinality(RewrittenUpTo(n))
<1>1. k \in 1 .. n /\ k \in RewrittenUpTo(k) /\ RewrittenUpTo(k) \subseteq RewrittenUpTo(n)
  BY DEF RewrittenUpTo
<1>2. Cardinality(RewrittenUpTo(k)) <= Cardinality(RewrittenUpTo(n))
  BY <1>1, RewrittenCount, FS_Subset
<1>3. Cardinality(RewrittenUpTo(k)) # 0
  BY <1>1, RewrittenCount, FS_EmptySet
<1> QED BY <1>1, <1>2, <1>3, RewrittenCount

(* Steps of the loop that list nothing, and steps that list one renaming. *)
LEMMA ListSkips ==
  ASSUME NEW n \in Nat, Listed(n), n + 1 \notin RewrittenUpTo(n + 1)
  PROVE  Listed(n + 1)
BY RewrittenSkips DEF Listed

LEMMA ListGrows ==
  ASSUME NEW n \in Nat, normalized \in Seq(Renamings), Listed(n),
         n + 1 \in RewrittenUpTo(n + 1), UNCHANGED <<base, req>>,
         Renaming(req.clauses[n + 1]) \in Renamings,
         normalized' = Append(normalized, Renaming(req.clauses[n + 1]))
  PROVE  Listed(n + 1)'
<1> DEFINE Up(m) == Cardinality(RewrittenUpTo(m))
           new == Renaming(req.clauses[n + 1])
<1>1. /\ RewrittenUpTo(n + 1) = RewrittenUpTo(n) \cup {n + 1}
      /\ Up(n + 1) = Up(n) + 1 /\ Up(n) = Len(normalized) /\ Up(n) \in Nat
  BY RewrittenAdds, RewrittenCount DEF Listed
<1>2. /\ Len(normalized') = Up(n + 1)
      /\ normalized'[Up(n + 1)] = new
      /\ \A j \in 1 .. Len(normalized) : normalized'[j] = normalized[j]
  BY <1>1
<1>3. \A k \in RewrittenUpTo(n) : Up(k) \in 1 .. Len(normalized)
  BY <1>1, RewrittenPlace
<1>4. \A k \in RewrittenUpTo(n) : normalized'[Up(k)] = Renaming(req.clauses[k])
  BY <1>2, <1>3 DEF Listed
<1>5. \A k \in RewrittenUpTo(n + 1) : normalized'[Up(k)] = Renaming(req.clauses[k])
  BY <1>1, <1>2, <1>4
<1>6. \A m : RewrittenUpTo(m)' = RewrittenUpTo(m)
  BY DEF RewrittenUpTo, IsRelativeTime, Aliased
<1>7. \A k : Renaming(req.clauses[k])' = Renaming(req.clauses[k])
  BY DEF Renaming
<1> QED BY <1>2, <1>5, <1>6, <1>7 DEF Listed

(* Steps that leave the list, the rule base and the request alone keep what it
   says of the first n clauses.                                               *)
LEMMA ListKept ==
  ASSUME NEW n, Listed(n), UNCHANGED <<base, req, normalized>>
  PROVE  Listed(n)'
BY DEF Listed, RewrittenUpTo, Renaming, IsRelativeTime, Aliased

LEMMA FaithfulKept ==
  ASSUME ExplanationFaithful, UNCHANGED <<base, req, normalized, dsl>>
  PROVE  ExplanationFaithful'
BY DEF ExplanationFaithful, Misled, RewrittenUpTo, Renaming, IsRelativeTime, Aliased

LEMMA ExplainedInit == Init => ExplainedInv
BY CheckedInit DEF Init, ExplainedInv, Explained, ExplanationFaithful, Before

(* Steps outside the loop over the clauses that build nothing. *)
LEMMA ExplainedKept ==
  ASSUME Explained, UNCHANGED <<base, req, normalized, dsl>>, pc' # "clauses",
         pc' \in Before => pc \in Before \ {"clauses"}
  PROVE  Explained'
BY FaithfulKept DEF Explained, Before

(* One turn of the loop. *)
LEMMA ExplainedTurn ==
  ASSUME ExplainedInv, pc = "clauses", i < Len(ast), NextClause, ast' \in Seq(Clauses),
         Len(ast') = Len(ast), \A k \in 1 .. i : ast'[k] = ast[k],
         ~IsRelativeTime(req.clauses[i + 1]) => Leaf(ast'[i + 1]).field = BuiltField(i + 1),
         IF i + 1 \in RewrittenUpTo(i + 1)
           THEN normalized' = Append(normalized, Renaming(req.clauses[i + 1]))
           ELSE normalized' = normalized
  PROVE  Explained'
<1> PICK n \in Nat : n = i
  BY DEF ExplainedInv, CheckedInv, VettedInv, Typed
<1>1. UNCHANGED <<base, req, pc, dsl>> /\ i' = n + 1 /\ dsl = NoDSL
  BY DEF NextClause, ExplainedInv, CheckedInv, Checked, Before
<1>2. Listed(n) /\ Renamed(n)
  BY DEF ExplainedInv, Explained
<1>3. Listed(n + 1)'
  <2>1. CASE n + 1 \in RewrittenUpTo(n + 1)
    <3>1. n + 1 \in 1 .. Len(req.clauses) /\ req.clauses \in Seq(Clauses)
      BY RequestType DEF ExplainedInv, CheckedInv, VettedInv, Typed, Checked, ClausePart
    <3>a. req.clauses[n + 1] \in Clauses
      BY <3>1
    <3>b. base.alias \in [Fields -> Fields]
      BY BaseType DEF ExplainedInv, CheckedInv, VettedInv, Typed
    <3>2. req.clauses[n + 1].field \in Fields /\ base.alias \in [Fields -> Fields]
      BY <3>a, <3>b DEF Clauses
    <3>3. Renaming(req.clauses[n + 1]) \in Renamings
      BY <3>2 DEF Renaming, Renamings
    <3> QED BY <1>1, <1>2, <2>1, <3>3, ListGrows DEF ExplainedInv
  <2>2. CASE n + 1 \notin RewrittenUpTo(n + 1)
    BY <1>1, <1>2, <2>2, ListSkips, ListKept
  <2> QED BY <2>1, <2>2
<1>4. Renamed(n + 1)'
  <2>1. \A k : BuiltField(k)' = BuiltField(k)
    BY <1>1 DEF BuiltField, Misled, IsRelativeTime
  <2>2. \A k \in 1 .. n + 1 :
          ~IsRelativeTime(req.clauses[k]) => Leaf(ast'[k]).field = BuiltField(k)
    BY <1>2 DEF Renamed
  <2> QED BY <1>1, <2>1, <2>2 DEF Renamed, Leaf, IsRelativeTime
<1>5. ExplanationFaithful'
  BY <1>1 DEF ExplanationFaithful
<1> QED BY <1>1, <1>3, <1>4, <1>5 DEF Explained, Before

LEMMA ExplainedNext ==
  ASSUME ExplainedInv, [Next]_pipelineVars
  PROVE  Explained'
<1>e. Explained
  BY DEF ExplainedInv
<1>t. Typed /\ Checked
  BY DEF ExplainedInv, CheckedInv, VettedInv
<1>r. \A status, code : Refuse(status, code) => Explained'
  BY <1>e, ExplainedKept DEF Refuse, Respond, Before
<1>f. RuleError => Explained'
  BY <1>e, ExplainedKept DEF RuleError, Refuse, Respond, Before
<1>c. ASSUME pc = "clauses", i < Len(ast)
      PROVE  ast[i + 1] = req.clauses[i + 1] /\ ast[i + 1] \in Clauses
  <2>1. ClausePart(i) /\ i \in Nat /\ ast \in Seq(Clauses)
    BY <1>c, <1>t DEF Typed, Checked
  <2>2. i + 1 \in i + 1 .. Len(ast) /\ i + 1 \in 1 .. Len(ast)
    BY <1>c, <2>1
  <2> QED BY <2>1, <2>2 DEF ClausePart
<1>1. CASE ChooseIndex
  BY <1>1, <1>e, <1>r, ExplainedKept DEF ChooseIndex, Before
<1>2. CASE CheckPage
  BY <1>2, <1>e, <1>r, ExplainedKept DEF CheckPage, Before
<1>3. CASE CheckSortKey
  <2>1. (\E field, dir : AddSortKey(field, dir)) => Explained'
    BY <1>3, <1>e, ExplainedKept DEF CheckSortKey, AddSortKey, Before
  <2> QED BY <1>3, <1>r, <1>f, <2>1 DEF CheckSortKey
<1>4. CASE Parse
  <2>1. CASE Refuse(400, req.parse)
    BY <2>1, <1>r
  <2>2. CASE /\ pc = "sort" /\ i' = 0 /\ pc' = "clauses"
             /\ UNCHANGED <<base, req, normalized, dsl>>
    <3>1. normalized = <<>> /\ dsl = NoDSL
      BY <1>e, <1>t, <2>2 DEF Explained, Checked, Before
    <3>2. Listed(0)
      BY <3>1, RewrittenCount DEF Listed, RewrittenUpTo
    <3>3. Listed(0)' /\ Renamed(0)'
      BY <2>2, <3>2, ListKept DEF Renamed
    <3> QED BY <1>e, <2>2, <3>3, FaithfulKept DEF Explained, Before
  <2> QED BY <1>4, <2>1, <2>2 DEF Parse
<1>5. CASE CheckRelativeTime
  <2>1. CASE pc = "clauses" /\ i < Len(ast) /\ IsRelativeTime(ast[i + 1])
             /\ NextClause /\ UNCHANGED <<ast, normalized>>
    <3>1. i + 1 \notin RewrittenUpTo(i + 1) /\ IsRelativeTime(req.clauses[i + 1])
      BY <1>c, <2>1 DEF RewrittenUpTo
    <3> QED BY <1>t, <2>1, <3>1, ExplainedTurn DEF Typed
  <2> QED BY <1>5, <1>r, <1>f, <2>1 DEF CheckRelativeTime
<1>6. CASE CheckClause
  <2> DEFINE c == Rewrite(ast[i + 1])
  <2>1. CASE /\ pc = "clauses" /\ i < Len(ast) /\ ~IsRelativeTime(ast[i + 1])
             /\ ValidClause(base, c.field, OpOf(c))
             /\ ast' = [ast EXCEPT ![i + 1] = c]
             /\ normalized' = Record(ast[i + 1])
             /\ NextClause
    <3>1. ast[i + 1] = req.clauses[i + 1] /\ ast[i + 1] \in Clauses /\ base \in Bases
      BY <1>c, <1>t, <2>1 DEF Typed
    <3>2. c \in Clauses /\ Leaf(c).field = BuiltField(i + 1)
      BY <2>1, <3>1, RewriteGivesClause DEF BuiltField, Misled
    <3>3. i \in Nat /\ ast \in Seq(Clauses) /\ i + 1 \in 1 .. Len(ast)
      BY <1>t, <2>1 DEF Typed
    <3>4. /\ ast' \in Seq(Clauses) /\ Len(ast') = Len(ast) /\ ast'[i + 1] = c
          /\ \A k \in 1 .. i : ast'[k] = ast[k]
      BY <2>1, <3>2, <3>3
    <3>5. i + 1 \in RewrittenUpTo(i + 1) <=> base.alias[ast[i + 1].field] # ast[i + 1].field
      BY <2>1, <3>1, <3>3 DEF RewrittenUpTo, Aliased
    <3>6. normalized' = IF i + 1 \in RewrittenUpTo(i + 1)
                          THEN Append(normalized, Renaming(req.clauses[i + 1]))
                          ELSE normalized
      BY <2>1, <3>1, <3>5 DEF Record, Renaming
    <3> QED BY <2>1, <3>2, <3>4, <3>6, ExplainedTurn
  <2> QED BY <1>6, <1>r, <1>f, <2>1 DEF CheckClause
<1>7. CASE Build
  <2>1. /\ pc = "clauses" /\ i = Len(ast) /\ Len(ast) = Len(req.clauses)
        /\ DOMAIN req.clauses = 1 .. Len(req.clauses) /\ DOMAIN ast = 1 .. Len(ast)
    BY <1>7, <1>t, RequestType DEF Build, Typed, Checked, ClausePart
  <2>2. Listed(Len(req.clauses)) /\ Renamed(Len(req.clauses))
    BY <1>e, <2>1 DEF Explained
  <2>3. /\ UNCHANGED <<base, req, ast, normalized>> /\ pc' \notin Before
        /\ \A k \in DOMAIN ast : dsl'.leaves[k] = Leaf(ast[k])
    BY <1>7 DEF Build, BuildSearch, Respond, Before
  <2>4. ExplanationFaithful'
    <3>1. \A m : RewrittenUpTo(m)' = RewrittenUpTo(m)
      BY <2>3 DEF RewrittenUpTo, IsRelativeTime, Aliased
    <3>2. \A k : Renaming(req.clauses[k])' = Renaming(req.clauses[k])
      BY <2>3 DEF Renaming
    <3>3. \A k \in DOMAIN req.clauses :
            ~IsRelativeTime(req.clauses[k]) =>
              dsl'.leaves[k].field = BuiltField(k)
      BY <2>1, <2>2, <2>3 DEF Renamed
    <3> QED BY <2>2, <2>3, <3>1, <3>2, <3>3 
       DEF ExplanationFaithful, Listed, BuiltField, Misled, IsRelativeTime
  <2> QED BY <2>3, <2>4 DEF Explained, Before
<1>8. CASE CallBackend
  BY <1>8, <1>e, ExplainedKept DEF CallBackend, Before
<1>9. CASE Reply
  BY <1>9, <1>e, ExplainedKept DEF Reply, Respond, Before
<1>10. CASE UNCHANGED pipelineVars
  <2>1. UNCHANGED <<base, req, ast, normalized, dsl, pc, i>>
    BY <1>10 DEF pipelineVars
  <2>2. pc = "clauses" => Listed(i)' /\ Renamed(i)'
    BY <1>e, <2>1 DEF Explained, Listed, RewrittenUpTo, Renaming, IsRelativeTime, Aliased,
                      Renamed, BuiltField, Misled, Leaf
  <2> QED BY <1>e, <2>1, <2>2, FaithfulKept DEF Explained
<1> QED BY <1>1, <1>2, <1>3, <1>4, <1>5, <1>6, <1>7, <1>8, <1>9, <1>10 DEF Next

(* The list of renamings a client is shown is exactly that of the clauses which
   aliases rewrite, in the order of the query, and the DSL next to it uses the new
   names, for any query, rule base and aliases; a new name Last stands for the
   time field there.                                                          *)
THEOREM ExplanationIsFaithful == Spec => []ExplanationFaithful
<1> DEFINE Inv == ExplainedInv /\ TypeInv
<1>1. Init => Inv
  BY ExplainedInit, TypeInit
<1>2. Inv /\ [Next]_pipelineVars => Inv'
  BY ExplainedNext, CheckedNext, VettedNext, TypeNext DEF ExplainedInv, TypeInv, OutputTyped
<1>3. Inv => ExplanationFaithful
  BY DEF ExplainedInv, Explained
<1> QED BY <1>1, <1>2, <1>3, PTL DEF Spec
=============================================================================
