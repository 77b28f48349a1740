---------------------------- MODULE SchemaRules ----------------------------
(* A mapping on its way from the cluster to the rule base and to the reader:

     cluster -- GetMapping --> Mapper -+-> PrologWriter -> file -> rules.New
                                       +-> Analyze -> /v1/schema/introspect

   internal/schema, api/handler_schema.go, cmd/schema-export, the loading loop of
   rules.New and the part of bootstrap.pl that reads generated facts.  The cluster
   remaps its indices, an export may be cut short, and the gateway restarts, in
   any order; the rule base knows what was on disk when it was loaded, advice what
   is in the cluster when it is asked.  Each schema file is an Exec of its own, and
   no predicate is multifile: one that a file defines is replaced, with all its
   clauses, and one that it does not define stays as an earlier file left it.

   The properties tree of a mapping is a function: its domain are the paths of the
   tree, a path being the sequence of names that the code joins with dots, and the
   value at a path is what is declared there.                                  *)
EXTENDS RuleBase, Integers, Sequences, FiniteSets

CONSTANTS
  Names,          \* names of properties and of multi-fields
  Types,          \* mapping types, and Untyped for a declaration without one
  Untyped,
  Indices,        \* what a client or an operator can name: indices and aliases
  DefaultIndex,   \* opensearch.index
  AllowedIndices, \* opensearch.allowed_indices
  TimeField,      \* opensearch.time_field
  Mappings,       \* mappings an index can have
  First, Later,   \* First[i], Later[i]: those i has at first, and after a change
  Bodies,         \* mappings that clients send in a body
  Several,        \* the reply for an alias of more than one index
  HandKnown, HandNumeric, HandDate, \* facts written in bootstrap.pl
  Cuts,           \* after how many groups of facts an export can be cut short
  Missing, Torn   \* no such file; a file that ends inside a clause

Paths == Seq(Names) \ {<<>>}
Attributes == [type : Types, index : BOOLEAN, docValues : BOOLEAN, fielddata : BOOLEAN]

(* What one key of a properties object declares.  An index or doc_values that is
   absent counts as TRUE.                                                      *)
IsDeclaration(d) ==
  /\ [type |-> d.type, index |-> d.index, docValues |-> d.docValues,
      fielddata |-> d.fielddata] \in Attributes
  /\ d.properties \in BOOLEAN /\ d.properties => d.type \in {Untyped, "object", "nested"}
  /\ DOMAIN d.fields \subseteq Names
  /\ \A n \in DOMAIN d.fields : d.fields[n] \in Attributes /\ d.fields[n].type \notin {"object", "nested"}

(* q is a proper ancestor of p: p starts with q and a dot. *)
Above(q, p) == Len(q) < Len(p) /\ SubSeq(p, 1, Len(q)) = q

IsMapping(m) ==
  /\ DOMAIN m \subseteq Paths
  /\ \A p \in DOMAIN m : IsDeclaration(m[p])
  /\ \A p \in DOMAIN m : \A n \in 1 .. Len(p) - 1 :
       SubSeq(p, 1, n) \in DOMAIN m /\ m[SubSeq(p, 1, n)].properties

ASSUME MappingsAssumption ==
  /\ \A m \in Mappings : IsMapping(m)
  /\ Bodies \subseteq Mappings
  /\ Several \notin Mappings /\ Missing # Torn
  /\ First \in [Indices -> SUBSET (Mappings \cup {Several})]
  /\ Later \in [Indices -> SUBSET (Mappings \cup {Several})]
ASSUME NamesAssumption ==
  /\ HandKnown \subseteq Paths /\ HandNumeric \subseteq Paths /\ HandDate \subseteq Paths
  /\ DefaultIndex \in Indices /\ AllowedIndices \subseteq Indices /\ Cuts \subseteq 0 .. 3
  /\ {"object", "nested"} \subseteq Types /\ Untyped \in Types \ {"object", "nested"}

-----------------------------------------------------------------------------
(* mapper.go *)

FieldFromMapping(path, d, parent) ==
  [path |-> path, type |-> d.type, index |-> d.index, docValues |-> d.docValues,
   fielddata |-> d.fielddata, isObject |-> d.type = "object",
   isNested |-> d.type = "nested", parent |-> parent]

(* A key with properties and no type is an object. *)
ObjectField(path) ==
  [path |-> path, type |-> "object", index |-> TRUE, docValues |-> TRUE,
   fielddata |-> FALSE, isObject |-> TRUE, isNested |-> FALSE, parent |-> <<>>]

Typed(m) == {p \in DOMAIN m : m[p].type # Untyped}
TypedMulti(d) == {n \in DOMAIN d.fields : d.fields[n].type # Untyped}

OwnFields(m) == {FieldFromMapping(p, m[p], <<>>) : p \in Typed(m)}
MultiFields(m) ==
  UNION {{FieldFromMapping(Append(p, n), m[p].fields[n], p) : n \in TypedMulti(m[p])} : p \in Typed(m)}
ObjectFields(m) == {ObjectField(p) : p \in {q \in DOMAIN m \ Typed(m) : m[q].properties}}

WalkProps(m) == OwnFields(m) \cup MultiFields(m) \cup ObjectFields(m)

(* Three shapes are read: bare properties, the body that creates an index, and the
   reply to GET _mapping if it is about one index.  An index without any field has
   no properties in its reply.                                                 *)
Shapes == {"properties", "create", "reply"}
ExtractProperties(shape, doc) ==
  /\ doc # Several
  /\ shape \in {"properties", "create"} \/ DOMAIN doc # {}

-----------------------------------------------------------------------------
(* analyzer.go *)

numericTypes == {"long", "integer", "short", "byte", "double", "float", "half_float",
                 "scaled_float", "unsigned_long"}
dateTypes == {"date", "date_nanos"}

Searchable(f) ==
  /\ ~f.isObject /\ ~f.isNested /\ f.index
  /\ f.type \in {"text", "match_only_text", "keyword", "constant_keyword", "wildcard",
                 "boolean", "ip"} \cup numericTypes \cup dateTypes

Aggregatable(f) ==
  /\ ~f.isObject /\ ~f.isNested
  /\ IF f.type = "text" THEN f.fielddata
     ELSE /\ f.docValues
          /\ f.type \in {"keyword", "constant_keyword", "boolean", "ip"}
                          \cup numericTypes \cup dateTypes

Operators(f) ==
  IF ~Searchable(f) THEN {}
  ELSE CASE f.type \in {"text", "match_only_text"} -> {"match", "phrase", "fuzzy"}
         [] f.type \in {"keyword", "wildcard", "constant_keyword"} -> {"match", "wildcard", "fuzzy"}
         [] f.type \in numericTypes \cup {"ip"} -> {"match", "range", "compare"}
         [] f.type \in dateTypes -> {"match", "range", "compare", "relative"}
         [] f.type = "boolean" -> {"match"}
         [] OTHER -> {}

FieldSummary(f) ==
  [path |-> f.path, type |-> f.type, searchable |-> Searchable(f),
   aggregatable |-> Aggregatable(f), operators |-> Operators(f)]

Analyze(fields) ==
  [fields |-> {FieldSummary(f) : f \in fields},
   summary |-> [total      |-> Cardinality(fields),
                searchable |-> Cardinality({f \in fields : Searchable(f)}),
                object     |-> Cardinality({f \in fields : f.isObject}),
                nested     |-> Cardinality({f \in fields : f.isNested})],
   dates    |-> {f.path : f \in {g \in fields : g.type \in dateTypes /\ Searchable(g)}},
   fullText |-> {f.path : f \in {g \in fields : g.type = "text" /\ Searchable(g)}},
   filters  |-> {f.path : f \in {g \in fields : /\ g.type = "keyword" /\ Aggregatable(g)
                                                /\ g.parent = <<>>}},
   nested   |-> {f.path : f \in {g \in fields : g.isNested}}]

-----------------------------------------------------------------------------
(* prolog_writer.go.  The facts are written predicate by predicate: field/2,
   field_type/3, object/2, nested/2, then those that no rule reads.  A file is known
   by the mapping it was generated from and the number of groups that are in it. *)
Groups == 4
Write(m) == [of |-> m, groups |-> Groups]

field(r) == IF r.groups >= 1 THEN {f.path : f \in WalkProps(r.of)} ELSE {}
field_type(r) == IF r.groups >= 2 THEN {<<f.path, f.type>> : f \in WalkProps(r.of)} ELSE {}
object(r) == IF r.groups >= 3 THEN {f.path : f \in {g \in WalkProps(r.of) : g.isObject}} ELSE {}
nested(r) == IF r.groups >= 4 THEN {f.path : f \in {g \in WalkProps(r.of) : g.isNested}} ELSE {}

Files == [of : Mappings, groups : 0 .. Groups]
NoFile == [of |-> <<>>, groups |-> 0]

Predicates == {"field", "field_type", "object", "nested"}
Defines(r, q) == CASE q = "field" -> field(r) # {}   [] q = "field_type" -> field_type(r) # {}
                   [] q = "object" -> object(r) # {} [] q = "nested" -> nested(r) # {}

(* Interpreter.Exec of a schema file.  The loaded rules r name for every predicate
   the file that its clauses are from.                                         *)
Exec(r, new) == [q \in Predicates |-> IF Defines(new, q) THEN new ELSE r[q]]

-----------------------------------------------------------------------------
(* bootstrap.pl over the facts in force.  The index, the first argument of every
   fact, is `_` in every rule.                                                 *)
(* Mutant: a type that the analyzer calls numeric is missing here. *)
OlderTypes == {"long", "integer", "short", "byte", "double", "float", "half_float", "scaled_float"}

numeric_type == {"long", "integer", "short", "byte", "double", "float", "half_float",
                 "scaled_float", "unsigned_long"}

inside_nested(r, p) == \E q \in nested(r.nested) : Above(q, p)

(* Mutant: only the nested field itself is excluded, not what is inside. *)
KnownUnderNested(r) ==
  HandKnown \cup (field(r.field) \ (object(r.object) \cup nested(r.nested)))

known_field(r) ==
  HandKnown \cup {p \in field(r.field) \ (object(r.object) \cup nested(r.nested)) :
                    ~inside_nested(r, p)}

OfType(r, types) == {pt[1] : pt \in {x \in field_type(r.field_type) : x[2] \in types}}
numeric_field(r) == HandNumeric \cup OfType(r, numeric_type)
date_field(r) == HandDate \cup OfType(r, {"date", "date_nanos"})

(* Mutant: the clause for ip is missing. *)
RangeWithoutIP(r) == numeric_field(r) \cup date_field(r) \cup OfType(r, {"keyword"})

range_field(r) == numeric_field(r) \cup date_field(r) \cup OfType(r, {"ip", "keyword"})

Mentioned(r) == HandKnown \cup HandNumeric \cup HandDate \cup field(r.field)

(* The loaded rules, as the rule base that the other modules ask. *)
Base(r) ==
  [alias  |-> [p \in Mentioned(r) |-> p],
   known  |-> known_field(r),
   ranged |-> range_field(r),
   nested |-> {p \in Mentioned(r) : p \in nested(r.nested) \/ inside_nested(r, p)}]

-----------------------------------------------------------------------------
VARIABLES
  mapping, \* mapping[i]: what GET i/_mapping is about
  file,    \* file[i]: the schema file that exports of i are written to
  gateway, \* "down", "loading" or "up"
  todo,    \* the schema files that rules.New has not loaded yet
  rules,   \* for each predicate, the file that defines it in the interpreter
  answer   \* the last response of a schema endpoint

vars == <<mapping, file, gateway, todo, rules, answer>>

NoRules == [q \in Predicates |-> NoFile]
Silent == [kind |-> "none"]
Refused(code) == [kind |-> "refused", code |-> code]

Init ==
  /\ mapping \in {m \in [Indices -> Mappings \cup {Several}] : \A i \in Indices : m[i] \in First[i]}
  /\ file = [i \in Indices |-> Missing]
  /\ gateway = "down" /\ todo = {} /\ rules = NoRules
  /\ answer = Silent

(* Somebody changes the mapping of an index, recreates it or moves an alias. *)
Remap(i) ==
  /\ mapping' \in {[mapping EXCEPT ![i] = m] : m \in Later[i] \ {mapping[i]}}
  /\ answer' = Silent
  /\ UNCHANGED <<file, gateway, todo, rules>>

(* schema-export, to the end or, if os.WriteFile fails on the way, to some point of
   the file: between two groups or inside a clause.  A reply that the mapper does
   not read writes nothing.                                                    *)
Export(i) ==
  /\ ExtractProperties("reply", mapping[i])
  /\ file' = [file EXCEPT ![i] = Write(mapping[i])]
  /\ answer' = Silent
  /\ UNCHANGED <<mapping, gateway, todo, rules>>

ExportCut(i) ==
  /\ ExtractProperties("reply", mapping[i])
  /\ \E left \in {[of |-> mapping[i], groups |-> n] : n \in Cuts} \cup {Torn} :
       file' = [file EXCEPT ![i] = left]
  /\ answer' = Silent
  /\ UNCHANGED <<mapping, gateway, todo, rules>>

(* Mutant: the error of a schema file is logged and the loop goes on, with what the
   interpreter has made of it.                                                 *)
LoadOrSkip(i) ==
  /\ gateway = "loading" /\ i \in todo
  /\ todo' = todo \ {i}
  /\ rules' = IF file[i] \in {Missing, Torn} THEN [rules EXCEPT !["field"] = file[i]]
                                           ELSE Exec(rules, file[i])
  /\ answer' = Silent
  /\ UNCHANGED <<mapping, file, gateway>>

(* rules.New: bootstrap.pl, then the files of rules.schema_files one after another.
   A file that cannot be read or parsed ends the process.                      *)
Start ==
  /\ gateway = "down"
  /\ gateway' = "loading" /\ rules' = NoRules
  /\ \E listed \in SUBSET Indices : todo' = listed
  /\ answer' = Silent
  /\ UNCHANGED <<mapping, file>>

Load(i) ==
  /\ gateway = "loading" /\ i \in todo
  /\ IF file[i] \in {Missing, Torn}
     THEN gateway' = "down" /\ todo' = {} /\ rules' = NoRules
     ELSE todo' = todo \ {i} /\ rules' = Exec(rules, file[i]) /\ UNCHANGED gateway
  /\ answer' = Silent
  /\ UNCHANGED <<mapping, file>>

Serve ==
  /\ gateway = "loading" /\ todo = {}
  /\ gateway' = "up"
  /\ UNCHANGED <<mapping, file, todo, rules, answer>>

Stop ==
  /\ gateway = "up"
  /\ gateway' = "down" /\ rules' = NoRules
  /\ answer' = Silent
  /\ UNCHANGED <<mapping, file, todo>>

(* schemaFor and the handler that calls it. *)
Answer(endpoint, index, shape, doc) ==
  IF ~ExtractProperties(shape, doc) THEN Refused("invalid_mapping")
  ELSE CASE endpoint = "introspect" ->
              [kind |-> "introspection", index |-> index, of |-> doc, advice |-> Analyze(WalkProps(doc))]
         [] endpoint = "prolog" ->
              [kind |-> "facts", index |-> index, of |-> doc, facts |-> Write(doc)]

(* GET: the mapping comes from the cluster, which may fail. *)
GetSchema(endpoint, index) ==
  /\ gateway = "up"
  /\ IF index # DefaultIndex /\ index \notin AllowedIndices
     THEN answer' = Refused("index_not_allowed")
     ELSE \/ answer' = Refused("backend_error")
          \/ answer' = Answer(endpoint, index, "reply", mapping[index])
  /\ UNCHANGED <<mapping, file, gateway, todo, rules>>

(* POST: the mapping is in the body, in any shape; the cluster is not asked and the
   index is but a name.                                                        *)
PostSchema(endpoint, index) ==
  /\ gateway = "up"
  /\ \/ answer' = Refused("body_too_large")
     \/ \E shape \in Shapes, doc \in Bodies : answer' = Answer(endpoint, index, shape, doc)
  /\ UNCHANGED <<mapping, file, gateway, todo, rules>>

Next ==
  \/ \E i \in Indices : Remap(i)
  \/ \E i \in Indices : Export(i)
  \/ \E i \in Indices : ExportCut(i)
  \/ Start
  \/ \E i \in Indices : Load(i)
  \/ Serve
  \/ Stop
  \/ \E e \in {"introspect", "prolog"}, i \in Indices : GetSchema(e, i)
  \/ \E e \in {"introspect", "prolog"}, i \in Indices : PostSchema(e, i)

Spec == Init /\ [][Next]_vars

-----------------------------------------------------------------------------
(* Besides the types: rules are those of a gateway that runs or starts, and nothing
   of an earlier process is left in the interpreter of the next (engine.go:76-92). *)
TypeOK ==
  /\ mapping \in [Indices -> Mappings \cup {Several}]
  /\ file \in [Indices -> Files \cup {Missing, Torn}]
  /\ gateway \in {"down", "loading", "up"} /\ todo \subseteq Indices
  /\ rules \in [Predicates -> Files \cup {NoFile}] /\ (gateway = "down" => rules = NoRules)
  /\ answer.kind \in {"none", "refused", "introspection", "facts"}
  /\ answer.kind \in {"introspection", "facts"} => answer.of \in Mappings

(* What a mapping says of a path, read off the tree and not off its fields. *)
NestedIn(m, p) == \E q \in DOMAIN m : m[q].type = "nested" /\ (q = p \/ Above(q, p))
ObjectIn(m, p) == p \in DOMAIN m /\ (m[p].type = "object" \/ m[p].properties)

(* The files that define something, and the one whose fields the rules know. *)
InForce == {rules[q] : q \in Predicates}
Latest == rules.field

(* The rules know no object, no nested field and nothing inside one, in the mapping
   of the last schema file, unless bootstrap.pl names the field by hand (README:
   "object fields are not directly queryable"; bootstrap.pl:33-36).  Whatever was
   loaded before it, no predicate of an earlier file stands where the last one has
   something to say.  A file cut short by a failed export is out: without its last
   groups the rules know too much.                                             *)
OnlyLeavesQueryable ==
  Latest.groups = Groups => \A p \in known_field(rules) \ HandKnown :
                              ~NestedIn(Latest.of, p) /\ ~ObjectIn(Latest.of, p)

(* No file in force makes p an object, or nested, or puts it inside a nested field. *)
Undisputed(p) == \A r \in InForce : ~NestedIn(r.of, p) /\ ~ObjectIn(r.of, p)

RuleOp(operator) == IF operator \in {"range", "compare", "relative"} THEN "range" ELSE "eq"

(* What introspection says can be asked of a field, the rules accept, if the last
   schema file has the mapping it speaks of and what is left of earlier files does
   not dispute the field (fields of an earlier file the rules do not know at all):
   each operator as a clause, a searchable field with one operator at least, an
   aggregatable field as a sort key.  "relative" is last:<duration>, which is about
   the time field whatever the field.                                          *)
AdvertisedAccepted ==
  (answer.kind = "introspection" /\ Latest = Write(answer.of)) =>
    \A f \in answer.advice.fields : Undisputed(f.path) =>
      /\ \A o \in f.operators : (o = "relative" => f.path = TimeField)
                                => ValidClause(Base(rules), f.path, RuleOp(o))
      /\ f.searchable => f.operators # {}
      /\ f.aggregatable => f.path \in known_field(rules)

(* A clause about a field of the last schema file is refused for a true reason:
   nested only if a mapping in force says so, unknown only if one calls the field an
   object, not for ranges only if its type has none; and no refusal comes without one
   of them.                                                                    *)
ReasonsTrue ==
  Latest.groups = Groups => \A p \in field(Latest), op \in Ops :
    ~ValidClause(Base(rules), p, op) =>
      \E reason \in {RejectionReason(Base(rules), p, op)} :
        /\ reason = "nested" => \E r \in InForce : NestedIn(r.of, p)
        /\ reason = "unknown" => \E r \in InForce : ObjectIn(r.of, p)
        /\ reason = "needs_range" =>
             \A f \in WalkProps(Latest.of) :
               f.path = p => {"range", "compare"} \cap Operators(f) = {}
        /\ reason # "none"

(* analyzer.go:82 and README.md:196-198 present the operators as those that make
   sense for the field and are supported: the rules loaded with the very mapping
   and no other accept them.                                                   *)
AdviceAccepted ==
  (answer.kind = "introspection" /\ InForce \subseteq {Write(answer.of), NoFile}) =>
    \A f \in answer.advice.fields : \A o \in f.operators \ {"relative"} :
      ValidClause(Base(rules), f.path, RuleOp(o))
=============================================================================
