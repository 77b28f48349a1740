----------------------------- MODULE GateProofs -----------------------------
(* SearchPipeline implements Gate, for every rule base, configuration and request. *)
EXTENDS SearchPipelineProofs

(* What the steps so far have made of the request is what Gate's translation has in
   that place; no answer is given before the last step.                        *)
KeysDone(n) ==
  /\ Len(page.sort) = n
  /\ \A k \in 1 .. n : page.sort[k] = Promise!CanonicalKey(base, req.sort[k])
LeavesDone(n) ==
  \A k \in 1 .. n : Leaf(ast[k]) = Promise!Meaning(base, req.clauses[k])
PageDone == page.size = RequestedSize(req) /\ page.from = req.from

Progress ==
  /\ pc \in {"page", "sort", "clauses"} => index = Promise!Target(req)
  /\ pc \in {"sort", "clauses"} => PageDone
  /\ pc = "sort" => KeysDone(i)
  /\ pc = "clauses" => KeysDone(Len(req.sort)) /\ LeavesDone(i)
  /\ pc # "done" => response = NoResponse
  /\ pc \in Before \cup {"search"} => sent = NoDSL
  /\ pc = "reply" => sent = dsl

GateInv == CheckedInv /\ Progress
-----------------------------------------------------------------------------
(* The checks of the handler are those of Gate. *)
LEMMA SameIndexCheck ==
  ASSUME NEW r \in Requests
  PROVE  LET x == IF r.index = NoIndex THEN DefaultIndex ELSE r.index IN
         /\ x = Promise!Target(r)
         /\ IndexAllowed(x) <=> Promise!Target(r) = DefaultIndex \/ Promise!Target(r) \in AllowedIndices
         /\ IndexAllowed(x) <=> r.index = NoIndex \/ IndexAllowed(r.index)
BY DEF Promise!Target, IndexAllowed

LEMMA SameSizeCheck ==
  ASSUME NEW r \in Requests
  PROVE  /\ RequestedSize(r) = Promise!Size(r)
         /\ SizeOK(RequestedSize(r)) <=> Promise!Size(r) \in 0 .. MaxSize
BY RequestType, LimitsAssumption DEF RequestedSize, Promise!Size, SizeOK

(* Only a sum of two ints that wraps around differs from the mathematical one. *)
LEMMA SameWindowCheck ==
  ASSUME NEW r \in Requests, SizeOK(RequestedSize(r))
  PROVE  FromOK(r.from, RequestedSize(r)) <=> Promise!InWindow(r)
<1> DEFINE s == RequestedSize(r)
<1>1. /\ r.from \in Int /\ r.from <= IntMax
      /\ s \in Nat /\ s <= MaxSize
      /\ IntMax \in Nat /\ MaxFrom \in Nat /\ MaxSize \in Nat
      /\ MaxSize < IntMax
  BY RequestType, RequestsAssumption, LimitsAssumption DEF RequestBodies, GoInts, SizeOK
<1> HIDE DEF s
<1>2. r.from + s > IntMax => r.from + s - 2 * (IntMax + 1) <= MaxFrom
  BY <1>1
<1>3. FromOK(r.from, s) <=> r.from >= 0 /\ (r.from + s <= MaxFrom \/ r.from + s > IntMax)
  BY <1>1, <1>2, LimitsAssumption DEF FromOK, AddInt
<1> QED BY <1>3, SameSizeCheck DEF Promise!InWindow, s

LEMMA SameKeyCheck ==
  ASSUME base \in Bases, NEW key \in SortKeys
  PROVE  KeyAcceptable(key) <=> ~Promise!SortRefused(base, key)
<1>1. DOMAIN base.alias = Fields
  BY BaseType
<1> QED BY <1>1, NamesAssumption DEF SortKeys, KeyAcceptable, Promise!SortRefused

LEMMA SameClauseCheck ==
  ASSUME NEW c \in Clauses
  PROVE  ClauseAcceptable(c) <=> ~Promise!ClauseRefused(base, c)
BY DEF ClauseAcceptable, IsRelativeTime, Promise!ClauseRefused, Promise!NoDuration,
       Promise!Judged, Promise!TimeWindow, Promise!Canonical, ValidClause,
       Promise!ValidClause, Clauses

(* What Gate says of a request whose first fault the handler has found. *)
LEMMA GateRefusals ==
  ASSUME Typed
  PROVE  /\ ~IndexPart => Promise!Refusals(base, req) = {"index_not_allowed"}
         /\ IndexPart /\ ~SizeOK(RequestedSize(req))
              => Promise!Refusals(base, req) = {"invalid_size"}
         /\ IndexPart /\ SizeOK(RequestedSize(req)) /\ ~FromOK(req.from, RequestedSize(req))
              => Promise!Refusals(base, req) = {"invalid_from"}
         /\ IndexPart /\ PagePart =>
              /\ (\E k \in DOMAIN req.sort : ~KeyAcceptable(req.sort[k]))
                   => Promise!Refusals(base, req) = {"invalid_sort"}
              /\ (\A k \in DOMAIN req.sort : KeyAcceptable(req.sort[k])) =>
                   IF req.parse # "ok" THEN Promise!Refusals(base, req) = {req.parse}
                   ELSE Promise!Refusals(base, req) =
                          {IF Promise!NoDuration(req.clauses[k]) THEN "invalid_query"
                             ELSE "clause_rejected" :
                             k \in Promise!FirstRefused(base, req.clauses)}
<1>1. req \in Requests /\ base \in Bases /\ req.sort \in Seq(SortKeys)
  BY RequestType DEF Typed
<1>2. IndexPart <=> Promise!Target(req) = DefaultIndex \/ Promise!Target(req) \in AllowedIndices
  BY <1>1, SameIndexCheck DEF IndexPart
<1>3. /\ SizeOK(RequestedSize(req)) <=> Promise!Size(req) \in 0 .. MaxSize
      /\ PagePart <=> Promise!Size(req) \in 0 .. MaxSize /\ Promise!InWindow(req)
      /\ SizeOK(RequestedSize(req)) =>
           (FromOK(req.from, RequestedSize(req)) <=> Promise!InWindow(req))
  BY <1>1, SameSizeCheck, SameWindowCheck DEF PagePart
<1>4. \A k \in DOMAIN req.sort :
        KeyAcceptable(req.sort[k]) <=> ~Promise!SortRefused(base, req.sort[k])
  BY <1>1, SameKeyCheck
<1>5. (\E k \in DOMAIN req.sort : Promise!SortRefused(base, req.sort[k]))
        <=> ~ \A k \in DOMAIN req.sort : KeyAcceptable(req.sort[k])
  BY <1>4
<1> QED BY <1>2, <1>3, <1>5 DEF Promise!Refusals

LEMMA FirstRefusal ==
  ASSUME Typed, NEW k \in DOMAIN req.clauses,
         \A j \in 1 .. k - 1 : ClauseAcceptable(req.clauses[j]),
         ~ClauseAcceptable(req.clauses[k])
  PROVE  k \in Promise!FirstRefused(base, req.clauses)
<1>1. req.clauses \in Seq(Clauses)
  BY RequestType DEF Typed
<1>2. \A j \in DOMAIN req.clauses : req.clauses[j] \in Clauses
  BY <1>1
<1>3. \A j \in 1 .. k - 1 : j \in DOMAIN req.clauses
  BY <1>1
<1> QED BY <1>2, <1>3, SameClauseCheck DEF Promise!FirstRefused

LEMMA NoRefusal ==
  ASSUME Typed, \A k \in DOMAIN req.clauses : ClauseAcceptable(req.clauses[k])
  PROVE  Promise!FirstRefused(base, req.clauses) = {}
<1>1. req.clauses \in Seq(Clauses)
  BY RequestType DEF Typed
<1>2. \A j \in DOMAIN req.clauses : req.clauses[j] \in Clauses
  BY <1>1
<1> QED BY <1>2, SameClauseCheck DEF Promise!FirstRefused

(* The rule engine is asked only past the checks that do not need it. *)
LEMMA PastTheLimits ==
  ASSUME Typed, IndexPart, PagePart
  PROVE  Promise!Refusals(base, req) \cap Promise!BeforeRules = {}
<1>1. req.parse \notin Promise!BeforeRules
  BY RequestType DEF Typed, Promise!BeforeRules
<1>2. "invalid_sort" \notin Promise!BeforeRules
  BY DEF Promise!BeforeRules
<1>3. \A k : (IF Promise!NoDuration(req.clauses[k]) THEN "invalid_query" ELSE "clause_rejected")
               \notin Promise!BeforeRules
  BY DEF Promise!BeforeRules
<1> QED BY <1>1, <1>2, <1>3, GateRefusals
-----------------------------------------------------------------------------
(* Steps, as Gate sees them. *)
LEMMA Unseen ==
  ASSUME UNCHANGED <<base, req, dsl, sent, response>>,
         UNCHANGED index \/ (dsl = NoDSL /\ sent = NoDSL)
  PROVE  UNCHANGED Promise!gateVars
BY DEF Promise!gateVars

LEMMA StillUndecided ==
  ASSUME GateInv, pc \in Before
  PROVE  Promise!Undecided
BY DEF GateInv, CheckedInv, Checked, Progress, Promise!Undecided, Promise!Nothing, NoDSL,
       NoResponse, Promise!NoResponse, Promise!Answer, Before

LEMMA RefuseRefines ==
  ASSUME GateInv, pc \in Before, NEW code \in Promise!Refusals(base, req),
         Refuse(IF code = "index_not_allowed" THEN 403 ELSE 400, code)
  PROVE  Promise!Next
<1>1. Promise!Undecided
  BY StillUndecided
<1>2. Promise!Refuse
  BY <1>1 DEF Promise!Refuse, Promise!Answer, Refuse, Respond
<1> QED BY <1>2 DEF Promise!Next

LEMMA RuleErrorRefines ==
  ASSUME GateInv, pc \in Before, IndexPart, PagePart, RuleError
  PROVE  Promise!Next
<1>1. Promise!Undecided /\ Promise!Refusals(base, req) \cap Promise!BeforeRules = {}
  BY StillUndecided, PastTheLimits DEF GateInv, CheckedInv, VettedInv
<1>2. Promise!Fail
  BY <1>1 DEF Promise!Fail, Promise!Answer, RuleError, Refuse, Respond
<1> QED BY <1>2 DEF Promise!Next

(* The sort keys and the clauses done so far are sequences Gate's translation has. *)
LEMMA TranslationBuilt ==
  ASSUME GateInv, pc = "clauses", i = Len(ast)
  PROVE  [index |-> index, dsl |-> BuildSearch(ast, page)] = Promise!Translation(base, req)
<1>t. Typed
  BY DEF GateInv, CheckedInv, VettedInv
<1>1. req.sort \in Seq(SortKeys) /\ req.clauses \in Seq(Clauses) /\ req \in Requests
  BY <1>t, RequestType DEF Typed
<1>2. /\ KeysDone(Len(req.sort)) /\ LeavesDone(i) /\ PageDone
      /\ index = Promise!Target(req) /\ Len(ast) = Len(req.clauses)
  BY DEF GateInv, CheckedInv, Checked, ClausePart, Progress
<1>3. page.sort = [k \in DOMAIN req.sort |-> Promise!CanonicalKey(base, req.sort[k])]
  <2> DEFINE S == [field : Fields \cup {Score}, dir : {"asc", "desc", "bad"}]
  <2>1. page.sort \in Seq(S)
    BY <1>t DEF Typed
  <2> HIDE DEF S
  <2>2. page.sort = [k \in 1 .. Len(page.sort) |-> page.sort[k]]
    BY <2>1
  <2> QED BY <1>1, <1>2, <2>2 DEF KeysDone
<1>4. [k \in DOMAIN ast |-> Leaf(ast[k])]
        = [k \in DOMAIN req.clauses |-> Promise!Meaning(base, req.clauses[k])]
  <2>1. DOMAIN ast = 1 .. Len(ast) /\ DOMAIN req.clauses = 1 .. Len(ast)
    BY <1>t, <1>1, <1>2 DEF Typed
  <2> QED BY <1>2, <2>1 DEF LeavesDone
<1>5. page.size = Promise!Size(req) /\ page.from = req.from
  BY <1>1, <1>2, SameSizeCheck DEF PageDone
<1> QED BY <1>2, <1>3, <1>4, <1>5 DEF BuildSearch, Promise!Translation

(* The clause or the key the loop looks at is done after its turn. *)
LEMMA KeyAdded ==
  ASSUME GateInv, pc = "sort", NEW field, NEW dir, AddSortKey(field, dir),
         [field |-> field, dir |-> dir] = Promise!CanonicalKey(base, req.sort[i + 1]),
         field \in Fields \cup {Score}, dir \in {"asc", "desc", "bad"}
  PROVE  KeysDone(i)' /\ PageDone'
<1> DEFINE S == [field : Fields \cup {Score}, dir : {"asc", "desc", "bad"}]
           new == [field |-> field, dir |-> dir]
<1>1. page \in [size : Int, from : Int, sort : Seq(S)] /\ i \in Nat /\ new \in S
  BY DEF GateInv, CheckedInv, VettedInv, Typed
<1>2. page' = [page EXCEPT !.sort = Append(page.sort, new)] /\ i' = i + 1 /\ UNCHANGED <<base, req>>
  BY DEF AddSortKey
<1>3. KeysDone(i) /\ PageDone
  BY DEF GateInv, Progress
<1> HIDE DEF S, new
<1>4. /\ page'.sort = Append(page.sort, new)
      /\ page'.size = page.size /\ page'.from = page.from
  BY <1>1, <1>2
<1>5. page.sort \in Seq(S) /\ Len(page.sort) = i
  BY <1>1, <1>3 DEF KeysDone
<1>6. /\ Len(page'.sort) = i + 1 /\ page'.sort[i + 1] = new
      /\ \A k \in 1 .. i : page'.sort[k] = page.sort[k]
  BY <1>1, <1>4, <1>5
<1>7. \A k \in 1 .. i + 1 : page'.sort[k] = Promise!CanonicalKey(base, req.sort[k])
  BY <1>1, <1>3, <1>6 DEF KeysDone, new
<1>8. KeysDone(i)'
  BY <1>2, <1>6, <1>7 DEF KeysDone, Promise!CanonicalKey
<1>9. PageDone'
  BY <1>2, <1>3, <1>4 DEF PageDone, RequestedSize
<1> QED BY <1>8, <1>9

LEMMA ClauseDone ==
  ASSUME GateInv, pc = "clauses", NextClause, i < Len(ast), i \in Nat,
         \A k \in 1 .. i : ast'[k] = ast[k],
         Leaf(ast'[i + 1]) = Promise!Meaning(base, req.clauses[i + 1])
  PROVE  LeavesDone(i)'
<1>1. LeavesDone(i) /\ i' = i + 1 /\ UNCHANGED <<base, req>>
  BY DEF GateInv, Progress, NextClause
<1>2. \A k \in 1 .. i + 1 : Leaf(ast'[k]) = Promise!Meaning(base, req.clauses[k])
  BY <1>1 DEF LeavesDone
<1> QED BY <1>1, <1>2 DEF LeavesDone, Leaf, IsRelativeTime, Promise!Meaning, Promise!TimeWindow, Promise!Canonical

LEMMA GateInit == Init => GateInv /\ Promise!Init
<1> SUFFICES ASSUME Init PROVE GateInv /\ Promise!Init
  OBVIOUS
<1>1. Progress
  BY DEF Init, Progress, Before
<1>2. Promise!Init
  BY DEF Init, Promise!Init, Promise!Nothing, NoDSL, NoResponse, Promise!NoResponse, Promise!Answer
<1> QED BY <1>1, <1>2, CheckedInit DEF GateInv

(* Steps after which the handler waits for nothing more of the checks. *)
LEMMA ProgressEnds ==
  ASSUME pc' = "done"
  PROVE  Progress'
BY DEF Progress, Before

(* One step of the handler is a step of Gate or none. *)
LEMMA GateStep ==
  ASSUME GateInv, CheckedInv', [Next]_pipelineVars
  PROVE  Progress' /\ [Promise!Next]_Promise!gateVars
<1>t. Typed /\ Checked /\ Progress
  BY DEF GateInv, CheckedInv, VettedInv
<1>q. /\ req \in Requests /\ base \in Bases /\ req.sort \in Seq(SortKeys)
      /\ req.clauses \in Seq(Clauses) /\ i \in Nat
  BY <1>t, RequestType DEF Typed
<1>r. ASSUME NEW code, code \in Promise!Refusals(base, req), pc \in Before,
             Refuse(IF code = "index_not_allowed" THEN 403 ELSE 400, code)
      PROVE  Progress' /\ Promise!Next
  BY <1>r, RefuseRefines, ProgressEnds DEF Refuse, Respond
<1>e. ASSUME RuleError, pc \in Before, IndexPart, PagePart
      PROVE  Progress' /\ Promise!Next
  BY <1>e, RuleErrorRefines, ProgressEnds DEF RuleError, Refuse, Respond
<1>1. CASE ChooseIndex
  <2> DEFINE x == IF req.index = NoIndex THEN DefaultIndex ELSE req.index
  <2>1. CASE ~IndexAllowed(x) /\ Refuse(403, "index_not_allowed")
    <3>1. Promise!Refusals(base, req) = {"index_not_allowed"}
      BY <1>t, <1>q, <2>1, SameIndexCheck, GateRefusals DEF IndexPart
    <3> QED BY <1>1, <1>r, <2>1, <3>1 DEF ChooseIndex, Before
  <2>2. CASE /\ pc = "index" /\ index' = x /\ pc' = "page"
             /\ UNCHANGED <<base, req, page, i, ast, normalized, dsl, sent, cluster, response>>
    <3>1. index' = Promise!Target(req)' /\ dsl = NoDSL /\ sent = NoDSL
      BY <1>t, <2>2 DEF Promise!Target, Checked, Progress, Before
    <3> QED BY <1>t, <2>2, <3>1, Unseen DEF Progress, Before
  <2> QED BY <1>1, <2>1, <2>2 DEF ChooseIndex
<1>2. CASE CheckPage
  <2> DEFINE size == RequestedSize(req)
  <2>0. pc = "page" /\ pc \in Before /\ IndexPart
    BY <1>2, <1>t DEF CheckPage, Before, Checked
  <2>1. CASE ~SizeOK(size) /\ Refuse(400, "invalid_size")
    BY <1>r, <1>t, <2>0, <2>1, GateRefusals
  <2>2. CASE SizeOK(size) /\ ~FromOK(req.from, size) /\ Refuse(400, "invalid_from")
    BY <1>r, <1>t, <2>0, <2>2, GateRefusals
  <2>3. CASE /\ page' = [size |-> size, from |-> req.from, sort |-> <<>>]
             /\ i' = 0 /\ pc' = "sort"
             /\ UNCHANGED <<base, req, index, ast, normalized, dsl, sent, cluster, response>>
    <3>1. PageDone' /\ KeysDone(i)'
      BY <2>3 DEF PageDone, KeysDone, RequestedSize
    <3>2. index' = Promise!Target(req)'
      BY <1>t, <2>0, <2>3 DEF Progress, Promise!Target
    <3> QED BY <1>t, <2>0, <2>3, <3>1, <3>2, Unseen DEF Progress, Before
  <2> QED BY <1>2, <2>1, <2>2, <2>3 DEF CheckPage
<1>3. CASE CheckSortKey
  <2> DEFINE key == req.sort[i + 1]
  <2>0. pc = "sort" /\ pc \in Before /\ IndexPart /\ PagePart
    BY <1>3, <1>t DEF CheckSortKey, Before, Checked
  <2>1. key \in SortKeys /\ i + 1 \in DOMAIN req.sort
    BY <1>3, <1>q DEF CheckSortKey
  <2>2. CASE ~KeyAcceptable(key) /\ Refuse(400, "invalid_sort")
    BY <1>r, <1>t, <2>0, <2>1, <2>2, GateRefusals
  <2>3. CASE RuleError
    BY <1>e, <2>0, <2>3
  <2>4. ASSUME NEW field, AddSortKey(field, key.dir), field \in Fields \cup {Score},
               field = IF key.field = Score THEN Score ELSE base.alias[key.field]
        PROVE  Progress' /\ UNCHANGED Promise!gateVars
    <3>1. [field |-> field, dir |-> key.dir] = Promise!CanonicalKey(base, key)
      BY <2>4 DEF Promise!CanonicalKey
    <3>2. key.dir \in {"asc", "desc", "bad"}
      BY <2>1 DEF SortKeys
    <3>3. KeysDone(i)' /\ PageDone'
      BY <2>0, <2>4, <3>1, <3>2, KeyAdded
    <3>4. UNCHANGED <<base, req, pc, index, dsl, sent, response>>
      BY <2>4 DEF AddSortKey
    <3>5. index' = Promise!Target(req)' /\ response' = NoResponse /\ sent' = NoDSL
      BY <1>t, <2>0, <3>4 DEF Progress, Promise!Target, Before
    <3> QED BY <2>0, <3>3, <3>4, <3>5, Unseen DEF Progress, Before
  <2>5. key.field \in Fields => base.alias[key.field] \in Fields /\ key.field # Score
    BY <1>q, BaseType, NamesAssumption
  <2>6. key.dir = "bad" \/ key.field = Empty => ~KeyAcceptable(key)
    BY NamesAssumption DEF KeyAcceptable
  <2>7. key.field \in Fields /\ base.alias[key.field] \notin base.known => ~KeyAcceptable(key)
    BY <2>5 DEF KeyAcceptable
  <2> QED BY <1>3, <2>2, <2>3, <2>4, <2>5, <2>6, <2>7 DEF CheckSortKey
<1>4. CASE Parse
  <2>0. /\ pc = "sort" /\ pc \in Before /\ IndexPart /\ PagePart
        /\ \A k \in DOMAIN req.sort : KeyAcceptable(req.sort[k])
    BY <1>4, <1>t, <1>q DEF Parse, Before, Checked, SortPart
  <2>1. CASE req.parse # "ok" /\ Refuse(400, req.parse)
    <3>1. Promise!Refusals(base, req) = {req.parse} /\ req.parse # "index_not_allowed"
      BY <1>t, <1>q, <2>0, <2>1, GateRefusals, RequestType
    <3> QED BY <1>r, <2>0, <2>1, <3>1
  <2>2. CASE /\ i = Len(req.sort) /\ i' = 0 /\ pc' = "clauses"
             /\ UNCHANGED <<base, req, index, page, normalized, dsl, sent, cluster, response>>
    <3>1. KeysDone(Len(req.sort)) /\ PageDone /\ index = Promise!Target(req)
          /\ response = NoResponse /\ sent = NoDSL
      BY <1>t, <2>0, <2>2 DEF Progress, Before
    <3>2. KeysDone(Len(req.sort))' /\ PageDone' /\ index' = Promise!Target(req)'
      BY <2>2, <3>1 DEF KeysDone, PageDone, RequestedSize, Promise!CanonicalKey, Promise!Target
    <3>3. LeavesDone(i)'
      BY <2>2 DEF LeavesDone
    <3> QED BY <2>2, <3>1, <3>2, <3>3, Unseen DEF Progress, Before
  <2> QED BY <1>4, <2>1, <2>2 DEF Parse
<1>c. ASSUME pc = "clauses", i < Len(ast)
      PROVE  /\ pc \in Before /\ IndexPart /\ PagePart
             /\ ast[i + 1] = req.clauses[i + 1]
             /\ i + 1 \in DOMAIN req.clauses /\ ast[i + 1] \in Clauses
             /\ \A code : Refuse(400, code) /\ ~ClauseAcceptable(ast[i + 1])
                  /\ code = (IF Promise!NoDuration(ast[i + 1]) THEN "invalid_query"
                               ELSE "clause_rejected")
                  => Progress' /\ Promise!Next
  <2>1. /\ pc \in Before /\ IndexPart /\ PagePart /\ req.parse = "ok" /\ ClausePart(i)
        /\ \A k \in DOMAIN req.sort : KeyAcceptable(req.sort[k])
    BY <1>c, <1>t, <1>q DEF Before, Checked, SortPart
  <2>2. ast[i + 1] = req.clauses[i + 1] /\ i + 1 \in DOMAIN req.clauses /\ ast[i + 1] \in Clauses
    <3>1. i + 1 \in 1 .. Len(ast) /\ Len(ast) = Len(req.clauses) /\ ast \in Seq(Clauses)
      BY <1>c, <1>t, <1>q, <2>1 DEF Typed, ClausePart
    <3>2. ast[i + 1] = req.clauses[i + 1]
      BY <1>q, <2>1, <3>1 DEF ClausePart
    <3> QED BY <1>q, <3>1, <3>2
  <2>3. \A j \in 1 .. (i + 1) - 1 : ClauseAcceptable(req.clauses[j])
    BY <1>q, <2>1 DEF ClausePart
  <2>4. ASSUME NEW code, Refuse(400, code), ~ClauseAcceptable(ast[i + 1]),
               code = IF Promise!NoDuration(ast[i + 1]) THEN "invalid_query" ELSE "clause_rejected"
        PROVE  Progress' /\ Promise!Next
    <3>1. i + 1 \in Promise!FirstRefused(base, req.clauses)
      BY <1>t, <2>2, <2>3, <2>4, FirstRefusal
    <3>2. code \in Promise!Refusals(base, req) /\ code # "index_not_allowed"
      BY <1>t, <2>1, <2>2, <2>4, <3>1, GateRefusals
    <3> QED BY <1>r, <2>1, <2>4, <3>2
  <2> QED BY <2>1, <2>2, <2>4
<1>n. ASSUME pc = "clauses", NextClause, LeavesDone(i)'
      PROVE  Progress' /\ UNCHANGED Promise!gateVars
  <2>1. UNCHANGED <<base, req, pc, index, page, dsl, sent, response>>
    BY <1>n DEF NextClause
  <2>2. /\ KeysDone(Len(req.sort)) /\ PageDone /\ index = Promise!Target(req)
        /\ response = NoResponse /\ sent = NoDSL
    BY <1>n, <1>t DEF Progress, Before
  <2>3. KeysDone(Len(req.sort))' /\ PageDone' /\ index' = Promise!Target(req)'
    BY <2>1, <2>2 DEF KeysDone, PageDone, RequestedSize, Promise!CanonicalKey, Promise!Target
  <2> QED BY <1>n, <2>1, <2>2, <2>3, Unseen DEF Progress, Before
<1>5. CASE CheckRelativeTime
  <2>0. pc = "clauses" /\ i < Len(ast) /\ IsRelativeTime(ast[i + 1])
    BY <1>5 DEF CheckRelativeTime
  <2>1. CASE ~ast[i + 1].duration /\ Refuse(400, "invalid_query")
    BY <1>c, <2>0, <2>1 DEF ClauseAcceptable, Promise!NoDuration, IsRelativeTime
  <2>2. CASE RuleError
    BY <1>c, <1>e, <2>0, <2>2
  <2>3. CASE ast[i + 1].duration /\ ~ValidClause(base, TimeField, "range")
             /\ Refuse(400, "clause_rejected")
    BY <1>c, <2>0, <2>3 DEF ClauseAcceptable, Promise!NoDuration, IsRelativeTime
  <2>4. CASE NextClause /\ UNCHANGED <<ast, normalized>>
    <3>1. Leaf(ast[i + 1]) = Promise!Meaning(base, req.clauses[i + 1])
      BY <1>c, <2>0 DEF Leaf, Promise!Meaning, Promise!TimeWindow, IsRelativeTime
    <3> QED BY <1>q, <1>n, <2>0, <2>4, <3>1, ClauseDone
  <2> QED BY <1>5, <2>1, <2>2, <2>3, <2>4 DEF CheckRelativeTime
<1>6. CASE CheckClause
  <2> DEFINE c == Rewrite(ast[i + 1])
  <2>0. pc = "clauses" /\ i < Len(ast) /\ ~IsRelativeTime(ast[i + 1])
    BY <1>6 DEF CheckClause
  <2>1. CASE ~ValidClause(base, c.field, OpOf(c)) /\ Refuse(400, "clause_rejected")
    <3>1. ~ClauseAcceptable(ast[i + 1]) /\ ~Promise!NoDuration(ast[i + 1])
      BY <1>c, <1>q, <2>0, <2>1, RewriteKeepsVerdict DEF Promise!NoDuration, IsRelativeTime
    <3> QED BY <1>c, <2>0, <2>1, <3>1
  <2>2. CASE RuleError
    BY <1>c, <1>e, <2>0, <2>2
  <2>3. CASE /\ ValidClause(base, c.field, OpOf(c))
             /\ ast' = [ast EXCEPT ![i + 1] = c] /\ NextClause
    <3>1. Leaf(c) = Promise!Meaning(base, req.clauses[i + 1])
      BY <1>c, <1>q, <2>0, RewriteGivesClause
         DEF Promise!Meaning, Promise!TimeWindow, Promise!Canonical, IsRelativeTime
    <3>2. ast \in Seq(Clauses)
      BY <1>t DEF Typed
    <3>3. ast'[i + 1] = c /\ \A k \in 1 .. i : ast'[k] = ast[k]
      BY <1>q, <2>0, <2>3, <3>2
    <3> QED BY <1>q, <1>n, <2>0, <2>3, <3>1, <3>3, ClauseDone
  <2> QED BY <1>6, <2>1, <2>2, <2>3 DEF CheckClause
<1>7. CASE Build
  <2>0. /\ pc = "clauses" /\ pc \in Before /\ i = Len(ast) /\ dsl' = BuildSearch(ast, page)
        /\ UNCHANGED <<base, req, index, sent>>
    BY <1>7 DEF Build, Before
  <2>1. Promise!Refusals(base, req) = {}
    <3>1. /\ IndexPart /\ PagePart /\ req.parse = "ok" /\ ClausePart(i)
          /\ \A k \in DOMAIN req.sort : KeyAcceptable(req.sort[k])
      BY <1>t, <1>q, <2>0 DEF Checked, SortPart
    <3>2. Promise!FirstRefused(base, req.clauses) = {}
      BY <1>t, <1>q, <2>0, <3>1, NoRefusal DEF ClausePart
    <3> QED BY <1>t, <3>1, <3>2, GateRefusals
  <2>2. Promise!Undecided /\ response = NoResponse /\ sent = NoDSL
    BY <1>t, <2>0, StillUndecided DEF Progress
  <2>3. dsl' # NoDSL /\ pc' \notin Before \cup {"reply"}
    BY <1>7, <1>t, LimitsAssumption DEF Build, Respond, BuildSearch, NoDSL, Typed, Before
  <2>4. [index |-> IF dsl = NoDSL THEN NoIndex ELSE index, dsl |-> dsl]'
          = Promise!Translation(base, req)
    BY <2>0, <2>3, TranslationBuilt
  <2>5. response' = IF req.endpoint = "translate" THEN Promise!Answer(200, "ok") ELSE response
    BY <1>7, <1>q, RequestsAssumption DEF Build, Respond, Promise!Answer, RequestBodies
  <2>6. [index |-> IF sent = NoDSL THEN NoIndex ELSE index, dsl |-> sent]'
          = [index |-> IF sent = NoDSL THEN NoIndex ELSE index, dsl |-> sent]
    BY <2>0
  <2>7. Promise!Next
    BY <2>0, <2>1, <2>2, <2>4, <2>5, <2>6 DEF Promise!Translate, Promise!Next
  <2>8. Progress'
    BY <1>7, <2>0, <2>2, <2>3 DEF Build, Respond, Progress, Before
  <2> QED BY <2>7, <2>8
<1>8. CASE CallBackend
  <2>1. /\ pc = "search" /\ dsl # NoDSL /\ sent = NoDSL /\ response = NoResponse
        /\ sent' = dsl /\ pc' = "reply"
        /\ UNCHANGED <<base, req, index, dsl, response>>
    BY <1>8, <1>t DEF CallBackend, Checked, Progress
  <2>2. Promise!Ask
    BY <2>1 DEF Promise!Ask, Promise!Nothing, NoDSL, NoResponse, Promise!NoResponse, Promise!Answer
  <2> QED BY <2>1, <2>2 DEF Promise!Next, Progress, Before
<1>9. CASE Reply
  <2>1. /\ pc = "reply" /\ dsl # NoDSL /\ sent = dsl /\ response = NoResponse /\ pc' = "done"
        /\ UNCHANGED <<base, req, index, dsl, sent>>
    BY <1>9, <1>t DEF Reply, Respond, Checked, Progress
  <2>2. response' \in Promise!ClusterAnswers
    BY <1>9 DEF Reply, Respond, Promise!ClusterAnswers, Promise!Answer
  <2>3. Promise!Reply
    BY <2>1, <2>2 DEF Promise!Reply, Promise!Nothing, NoDSL, NoResponse, Promise!NoResponse,
                      Promise!Answer
  <2> QED BY <2>1, <2>3, ProgressEnds DEF Promise!Next
<1>10. CASE UNCHANGED pipelineVars
  <2>1. UNCHANGED <<base, req, pc, index, page, i, ast, dsl, sent, response>>
    BY <1>10 DEF pipelineVars
  <2>2. Progress'
    BY <1>t, <2>1 DEF Progress, KeysDone, LeavesDone, PageDone, RequestedSize, Leaf, IsRelativeTime,
                      Promise!Target, Promise!CanonicalKey,
                      Promise!Meaning, Promise!TimeWindow, Promise!Canonical
  <2> QED BY <2>1, <2>2, Unseen
<1> QED BY <1>1, <1>2, <1>3, <1>4, <1>5, <1>6, <1>7, <1>8, <1>9, <1>10 DEF Next

(* Whatever the request, the rule base and the limits, a request comes to one
   decision: the code of its first fault, a fault of the rule engine, or the
   translation that is a function of the request alone; and the cluster is asked
   nothing but that.                                                          *)
THEOREM PipelineImplementsGate == Spec => ImplementsGate
<1>1. GateInv /\ [Next]_pipelineVars => GateInv' /\ [Promise!Next]_Promise!gateVars
  BY CheckedNext, GateStep DEF GateInv
<1> QED BY <1>1, GateInit, PTL DEF Spec, ImplementsGate, Promise!Spec

(* What Gate guarantees of every request holds of the handler, read through the
   mapping: the cluster is asked the translation of an unobjectionable request, at an
   index the configuration allows, or nothing.                                *)
THEOREM OnlyTranslationsAreSent == Spec => []Promise!SentAsTranslated
<1>1. Promise!Init => Promise!SentAsTranslated
  BY DEF Promise!Init, Promise!SentAsTranslated
<1>2. ASSUME Promise!SentAsTranslated, [Promise!Next]_Promise!gateVars
      PROVE  Promise!SentAsTranslated'
  <2> DEFINE T == [index |-> IF dsl = NoDSL THEN NoIndex ELSE index, dsl |-> dsl]
             S == [index |-> IF sent = NoDSL THEN NoIndex ELSE index, dsl |-> sent]
             Sound(t, s) == /\ t # Promise!Nothing =>
                                  /\ Promise!Refusals(base, req) = {}
                                  /\ t = Promise!Translation(base, req)
                            /\ s \in {Promise!Nothing, t}
  <2>1. Sound(T, S) /\ UNCHANGED <<base, req>>
    BY <1>2 DEF Promise!SentAsTranslated, Promise!Next, Promise!Refuse, Promise!Fail,
                Promise!Translate, Promise!Ask, Promise!Reply, Promise!gateVars
  <2>2. \/ T' = T /\ S' \in {S, T}
        \/ /\ Promise!Refusals(base, req) = {} /\ T = Promise!Nothing
           /\ T' = Promise!Translation(base, req) /\ S' = S
    BY <1>2 DEF Promise!Next, Promise!Refuse, Promise!Fail, Promise!Translate, Promise!Ask,
                Promise!Reply, Promise!gateVars, Promise!Undecided
  <2> HIDE DEF T, S
  <2>3. Sound(T', S')
    BY <2>1, <2>2
  <2>4. /\ Promise!Refusals(base, req)' = Promise!Refusals(base, req)
        /\ Promise!Translation(base, req)' = Promise!Translation(base, req)
        /\ Promise!Nothing' = Promise!Nothing
    BY <2>1 DEF Promise!Refusals, Promise!Translation, Promise!Nothing
  <2> QED BY <2>3, <2>4 DEF Promise!SentAsTranslated, T, S
<1> QED BY <1>1, <1>2, PipelineImplementsGate, PTL DEF ImplementsGate, Promise!Spec
=============================================================================
