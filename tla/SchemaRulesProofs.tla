------------------------- MODULE SchemaRulesProofs -------------------------
(* What SchemaRules promises, for all mappings and all histories of exports,
   restarts and changes.  TypeOK is inductive; advice needs to be known as the
   analysis of the mapping it names; and every predicate that the last file with
   fields defines is in force as that file has it (Coherent), because it replaced
   what stood there and no file without fields defines anything.  The rest follows
   from how the facts of a file relate to its mapping: NestedFacts, ObjectFacts and
   Queryable.                                                                  *)
EXTENDS SchemaRules, TLAPS

AdviceInv == answer.kind = "introspection" => answer.advice = Analyze(WalkProps(answer.of))
Coherent == \A q \in Predicates : Defines(Latest, q) => rules[q] = Latest
IInv == TypeOK /\ AdviceInv /\ Coherent

(* The file that a predicate is from is a schema file or none. *)
LEMMA RulesType ==
  ASSUME TypeOK
  PROVE  /\ Latest \in InForce /\ rules.nested \in InForce /\ rules.object \in InForce
         /\ InForce \subseteq Files \cup {NoFile}
BY DEF TypeOK, InForce, Latest, Predicates

LEMMA MappingDecl ==
  ASSUME NEW m \in Mappings, NEW p \in DOMAIN m
  PROVE  IsDeclaration(m[p])
BY MappingsAssumption DEF IsMapping

(* Where a field comes from: only paths of the tree are nested or objects. *)
LEMMA FieldOrigin ==
  ASSUME NEW m \in Mappings, NEW f \in WalkProps(m)
  PROVE  /\ f.isNested => f.path \in DOMAIN m /\ m[f.path].type = "nested"
         /\ f.isObject => ObjectIn(m, f.path)
<1>1. PICK p \in DOMAIN m :
        \/ f = FieldFromMapping(p, m[p], <<>>)
        \/ \E n \in DOMAIN m[p].fields : f = FieldFromMapping(Append(p, n), m[p].fields[n], p)
        \/ m[p].properties /\ f = ObjectField(p)
  <2>1. CASE f \in OwnFields(m)
    BY <2>1 DEF OwnFields, Typed
  <2>2. CASE f \in MultiFields(m)
    <3>1. PICK p \in Typed(m) :
            f \in {FieldFromMapping(Append(p, n), m[p].fields[n], p) : n \in TypedMulti(m[p])}
      BY <2>2 DEF MultiFields
    <3> QED BY <3>1 DEF Typed, TypedMulti
  <2>3. CASE f \in ObjectFields(m)
    BY <2>3 DEF ObjectFields
  <2> QED BY <2>1, <2>2, <2>3 DEF WalkProps
<1>2. CASE f = FieldFromMapping(p, m[p], <<>>)
  <2>1. /\ f.path = p /\ f.isNested = (m[p].type = "nested") /\ f.isObject = (m[p].type = "object")
    BY <1>2 DEF FieldFromMapping
  <2> QED BY <2>1 DEF ObjectIn
<1>3. CASE \E n \in DOMAIN m[p].fields : f = FieldFromMapping(Append(p, n), m[p].fields[n], p)
  <2>1. PICK n \in DOMAIN m[p].fields : f = FieldFromMapping(Append(p, n), m[p].fields[n], p)
    BY <1>3
  <2>2. f.isNested = (m[p].fields[n].type = "nested") /\ f.isObject = (m[p].fields[n].type = "object")
    BY <2>1 DEF FieldFromMapping
  <2>3. m[p].fields[n].type \notin {"object", "nested"}
    BY MappingDecl DEF IsDeclaration
  <2> QED BY <2>2, <2>3
<1>4. CASE m[p].properties /\ f = ObjectField(p)
  <2>1. f.path = p /\ ~f.isNested
    BY <1>4 DEF ObjectField
  <2> QED BY <1>4, <2>1 DEF ObjectIn
<1> QED BY <1>1, <1>2, <1>3, <1>4

(* nested/2 of a file: the nested paths of its mapping, if it got that far. *)
LEMMA NestedFacts ==
  ASSUME NEW r \in Files \cup {NoFile}, NEW q
  PROVE  /\ q \in nested(r) => q \in DOMAIN r.of /\ r.of[q].type = "nested"
         /\ r.groups = Groups /\ q \in DOMAIN r.of /\ r.of[q].type = "nested" => q \in nested(r)
<1>0. r.groups > 0 => r.of \in Mappings BY DEF Files, NoFile
<1>1. q \in nested(r) => q \in DOMAIN r.of /\ r.of[q].type = "nested"
  <2> SUFFICES ASSUME q \in nested(r) PROVE q \in DOMAIN r.of /\ r.of[q].type = "nested"
    OBVIOUS
  <2>1. PICK f \in WalkProps(r.of) : r.groups >= 4 /\ f.path = q /\ f.isNested
    BY DEF nested
  <2>2. r.of \in Mappings
    BY <1>0, <2>1 DEF Files, NoFile, Groups
  <2> QED BY <2>1, <2>2, FieldOrigin
<1>2. ASSUME r.groups = Groups, q \in DOMAIN r.of, r.of[q].type = "nested" PROVE q \in nested(r)
  <2>1. FieldFromMapping(q, r.of[q], <<>>) \in WalkProps(r.of)
    BY <1>2, NamesAssumption DEF WalkProps, OwnFields, Typed
  <2>2. FieldFromMapping(q, r.of[q], <<>>).isNested /\ FieldFromMapping(q, r.of[q], <<>>).path = q
    BY <1>2 DEF FieldFromMapping
  <2> QED BY <1>2, <2>1, <2>2 DEF nested, Groups
<1> QED BY <1>1, <1>2

(* object/2 and nested/2 together: the objects of the mapping. *)
LEMMA ObjectFacts ==
  ASSUME NEW r \in Files \cup {NoFile}, NEW q
  PROVE  /\ q \in object(r) => ObjectIn(r.of, q)
         /\ r.groups = Groups /\ ObjectIn(r.of, q) => q \in object(r) \cup nested(r)
<1>0. r.groups > 0 => r.of \in Mappings BY DEF Files, NoFile
<1>1. q \in object(r) => ObjectIn(r.of, q)
  <2> SUFFICES ASSUME q \in object(r) PROVE ObjectIn(r.of, q)
    OBVIOUS
  <2>1. PICK f \in WalkProps(r.of) : r.groups >= 3 /\ f.path = q /\ f.isObject
    BY DEF object
  <2>2. r.of \in Mappings
    BY <1>0, <2>1 DEF Files, NoFile, Groups
  <2> QED BY <2>1, <2>2, FieldOrigin
<1>2. ASSUME r.groups = Groups, ObjectIn(r.of, q) PROVE q \in object(r) \cup nested(r)
  <2>1. q \in DOMAIN r.of /\ r.of[q].type \in {Untyped, "object", "nested"}
    <3>1. r.of \in Mappings /\ q \in DOMAIN r.of
      BY <1>0, <1>2 DEF ObjectIn, Groups
    <3> QED BY <1>2, <3>1, MappingDecl, NamesAssumption DEF ObjectIn, IsDeclaration
  <2>2. CASE r.of[q].type = "nested"
    BY <1>2, <2>1, <2>2, NestedFacts
  <2>3. CASE r.of[q].type = "object"
    <3>1. FieldFromMapping(q, r.of[q], <<>>) \in WalkProps(r.of)
      BY <2>1, <2>3, NamesAssumption DEF WalkProps, OwnFields, Typed
    <3>2. FieldFromMapping(q, r.of[q], <<>>).isObject /\ FieldFromMapping(q, r.of[q], <<>>).path = q
      BY <2>3 DEF FieldFromMapping
    <3> QED BY <1>2, <3>1, <3>2 DEF object, Groups
  <2>4. CASE r.of[q].type = Untyped
    <3>1. r.of[q].properties
      BY <1>2, <2>4, NamesAssumption DEF ObjectIn
    <3>2. ObjectField(q) \in ObjectFields(r.of)
      BY <2>1, <2>4, <3>1 DEF ObjectFields, Typed
    <3>4. ObjectField(q) \in WalkProps(r.of)
      BY <3>2 DEF WalkProps
    <3>3. ObjectField(q).isObject /\ ObjectField(q).path = q
      BY DEF ObjectField
    <3> QED BY <1>2, <3>3, <3>4 DEF object, Groups
  <2> QED BY <2>1, <2>2, <2>3, <2>4
<1> QED BY <1>1, <1>2

(* A field of the last file that no file in force disputes is known. *)
LEMMA Queryable ==
  ASSUME TypeOK, NEW p \in field(Latest), Undisputed(p)
  PROVE  p \in known_field(rules)
<1>1. p \notin object(rules.object) /\ p \notin nested(rules.nested)
  BY RulesType, NestedFacts, ObjectFacts DEF Undisputed, NestedIn
<1>2. ~inside_nested(rules, p)
  BY RulesType, NestedFacts DEF inside_nested, Undisputed, NestedIn
<1> QED BY <1>1, <1>2 DEF known_field, Latest

LEMMA Leaves == ASSUME IInv PROVE OnlyLeavesQueryable
<1> SUFFICES ASSUME Latest.groups = Groups, NEW p \in known_field(rules) \ HandKnown
             PROVE  ~NestedIn(Latest.of, p) /\ ~ObjectIn(Latest.of, p)
  BY DEF OnlyLeavesQueryable
<1>0. Latest \in Files \cup {NoFile}
  BY RulesType DEF IInv
<1>1. /\ p \notin object(rules.object) \cup nested(rules.nested)
      /\ \A q \in nested(rules.nested) : ~Above(q, p)
  BY DEF known_field, inside_nested
<1>2. nested(Latest) # {} => rules.nested = Latest
  BY DEF IInv, Coherent, Defines, Predicates
<1>3. object(Latest) # {} => rules.object = Latest
  BY DEF IInv, Coherent, Defines, Predicates
<1>4. p \notin object(Latest) \cup nested(Latest) /\ \A q \in nested(Latest) : ~Above(q, p)
  BY <1>1, <1>2, <1>3
<1>5. ~ObjectIn(Latest.of, p)
  BY <1>0, <1>4, ObjectFacts
<1>6. ~NestedIn(Latest.of, p)
  BY <1>0, <1>4, NestedFacts DEF NestedIn
<1> QED BY <1>5, <1>6

(* The types that introspection offers ranges for have ranges in the rules. *)
LEMMA RangedTypes ==
  ASSUME Coherent, Latest.groups = Groups, NEW f \in WalkProps(Latest.of),
         f.type \in numericTypes \cup dateTypes \cup {"ip"}
  PROVE  f.path \in range_field(rules)
<1>1. <<f.path, f.type>> \in field_type(rules.field_type)
  <2>1. <<f.path, f.type>> \in field_type(Latest) BY DEF field_type, Groups
  <2>2. rules.field_type = Latest BY <2>1 DEF Coherent, Defines, Predicates
  <2> QED BY <2>1, <2>2
<1>2. CASE f.type \in numericTypes
  <2>1. f.type \in numeric_type BY <1>2 DEF numericTypes, numeric_type
  <2>2. f.path \in numeric_field(rules) BY <1>1, <2>1 DEF numeric_field, OfType
  <2> QED BY <2>2 DEF range_field
<1>3. CASE f.type \in dateTypes
  <2>1. f.path \in date_field(rules) BY <1>1, <1>3 DEF date_field, OfType, dateTypes
  <2> QED BY <2>1 DEF range_field
<1>4. CASE f.type = "ip"
  BY <1>1, <1>4 DEF range_field, OfType
<1> QED BY <1>2, <1>3, <1>4

LEMMA RangeOperators ==
  ASSUME NEW f, NEW o \in Operators(f)
  PROVE  /\ Searchable(f)
         /\ RuleOp(o) \in Ops
         /\ RuleOp(o) = "range" => f.type \in numericTypes \cup dateTypes \cup {"ip"}
BY DEF Operators, RuleOp, Ops

LEMMA SearchableOperators ==
  ASSUME NEW f, Searchable(f) PROVE Operators(f) # {}
BY DEF Searchable, Operators

LEMMA Advertised == ASSUME IInv PROVE AdvertisedAccepted
<1> SUFFICES ASSUME answer.kind = "introspection", Latest = Write(answer.of),
                    NEW f \in answer.advice.fields, Undisputed(f.path)
             PROVE  /\ \A o \in f.operators : (o = "relative" => f.path = TimeField)
                                           => ValidClause(Base(rules), f.path, RuleOp(o))
                    /\ f.searchable => f.operators # {}
                    /\ f.aggregatable => f.path \in known_field(rules)
  BY DEF AdvertisedAccepted
<1>1. PICK g \in WalkProps(answer.of) : f = FieldSummary(g)
  BY DEF IInv, AdviceInv, Analyze
<1>2. /\ f.path = g.path /\ f.operators = Operators(g) /\ f.searchable = Searchable(g)
  BY <1>1 DEF FieldSummary
<1>3. Write(answer.of).of = answer.of /\ Write(answer.of).groups = Groups
  BY DEF Write
<1>4. g.path \in field(Latest)
  BY <1>3 DEF field, Groups
<1>5. f.path \in known_field(rules)
  BY <1>2, <1>4, Queryable DEF IInv
<1>6. ASSUME NEW o \in f.operators PROVE ValidClause(Base(rules), f.path, RuleOp(o))
  <2>1. RuleOp(o) = "range" => f.path \in range_field(rules)
    BY <1>1, <1>2, <1>3, <1>6, RangeOperators, RangedTypes DEF IInv
  <2> QED BY <1>5, <2>1 DEF ValidClause, Base
<1>7. f.searchable => f.operators # {}
  BY <1>2, SearchableOperators
<1> QED BY <1>5, <1>6, <1>7

LEMMA Reasons == ASSUME IInv PROVE ReasonsTrue
<1> DEFINE base == Base(rules)
<1> SUFFICES ASSUME Latest.groups = Groups, NEW p \in field(Latest), NEW op \in Ops,
                    ~ValidClause(base, p, op)
             PROVE  LET reason == RejectionReason(base, p, op) IN
                    /\ reason = "nested" => \E r \in InForce : NestedIn(r.of, p)
                    /\ reason = "unknown" => \E r \in InForce : ObjectIn(r.of, p)
                    /\ reason = "needs_range" =>
                         \A f \in WalkProps(Latest.of) :
                           f.path = p => {"range", "compare"} \cap Operators(f) = {}
                    /\ reason # "none"
  BY DEF ReasonsTrue
<1> DEFINE inside == p \in nested(rules.nested) \/ inside_nested(rules, p)
<1>0. /\ base.known = known_field(rules) /\ base.ranged = range_field(rules)
      /\ p \in base.nested <=> inside
  BY DEF Base, Mentioned, Latest
<1>t. TypeOK /\ Coherent
  BY DEF IInv
<1>1. inside => \E r \in InForce : NestedIn(r.of, p)
  BY <1>t, RulesType, NestedFacts DEF NestedIn, inside_nested
<1>2. ~inside /\ p \notin known_field(rules) => \E r \in InForce : ObjectIn(r.of, p)
  BY <1>t, RulesType, ObjectFacts DEF known_field, Latest
<1>3. p \notin range_field(rules) =>
        \A f \in WalkProps(Latest.of) : f.path = p => {"range", "compare"} \cap Operators(f) = {}
  <2> SUFFICES ASSUME p \notin range_field(rules), NEW f \in WalkProps(Latest.of), f.path = p,
                      NEW o \in {"range", "compare"}, o \in Operators(f)
               PROVE  FALSE
    OBVIOUS
  <2>1. f.type \in numericTypes \cup dateTypes \cup {"ip"}
    BY RangeOperators DEF RuleOp
  <2> QED BY <1>t, <2>1, RangedTypes
<1>4. CASE p \in base.nested
  BY <1>0, <1>1, <1>4 DEF RejectionReason
<1>5. CASE p \notin base.nested /\ p \notin base.known
  BY <1>0, <1>2, <1>5 DEF RejectionReason
<1>6. CASE p \notin base.nested /\ p \in base.known
  <2>1. op = "range" /\ p \notin base.ranged
    BY <1>6 DEF ValidClause
  <2>2. RejectionReason(base, p, op) = "needs_range"
    BY <1>6, <2>1 DEF RejectionReason
  <2> QED BY <1>0, <1>3, <2>1, <2>2
<1> QED BY <1>4, <1>5, <1>6

-----------------------------------------------------------------------------
(* Typing, and the advice is that of its mapping. *)
LEMMA WritesFiles ==
  ASSUME NEW m \in Mappings PROVE Write(m) \in Files
BY DEF Write, Files, Groups

LEMMA AnswerTyped ==
  ASSUME NEW e \in {"introspect", "prolog"}, NEW i, NEW shape, NEW doc \in Mappings \cup {Several},
         NEW a, a = Answer(e, i, shape, doc)
  PROVE  /\ a.kind \in {"none", "refused", "introspection", "facts"}
         /\ a.kind \in {"introspection", "facts"} => a.of \in Mappings
         /\ a.kind = "introspection" => a.advice = Analyze(WalkProps(a.of))
<1>1. CASE ~ExtractProperties(shape, doc)
  BY <1>1 DEF Answer, Refused
<1>2. CASE ExtractProperties(shape, doc) /\ e = "introspect"
  BY <1>2 DEF Answer, ExtractProperties
<1>3. CASE ExtractProperties(shape, doc) /\ e = "prolog"
  BY <1>3 DEF Answer, ExtractProperties
<1> QED BY <1>1, <1>2, <1>3

(* A file that defines anything has fields. *)
LEMMA FieldsFirst ==
  ASSUME NEW r \in Files \cup {NoFile}, NEW q \in Predicates, Defines(r, q)
  PROVE  Defines(r, "field")
<1>1. r.groups \in Nat
  BY DEF Files, NoFile, Groups
<1>2. \E f \in WalkProps(r.of) : r.groups >= 1
  <2>1. CASE q = "field"
    BY <2>1 DEF Defines, field
  <2>2. CASE q = "field_type"
    BY <1>1, <2>2 DEF Defines, field_type
  <2>3. CASE q = "object"
    BY <1>1, <2>3 DEF Defines, object
  <2>4. CASE q = "nested"
    BY <1>1, <2>4 DEF Defines, nested
  <2> QED BY <2>1, <2>2, <2>3, <2>4 DEF Predicates
<1> QED BY <1>2 DEF Defines, field

(* The rules after one more schema file. *)
LEMMA ExecKeeps ==
  ASSUME TypeOK, Coherent, NEW new \in Files, rules' = Exec(rules, new)
  PROVE  rules' \in [Predicates -> Files \cup {NoFile}] /\ Coherent'
<1>1. rules' \in [Predicates -> Files \cup {NoFile}]
  BY DEF TypeOK, Exec
<1>2. \A q \in Predicates : rules'[q] = IF Defines(new, q) THEN new ELSE rules[q]
  BY DEF Exec
<1>3. CASE Defines(new, "field")
  <2>1. Latest' = new
    BY <1>2, <1>3 DEF Latest, Predicates
  <2>2. \A q \in Predicates : Defines(Latest, q)' <=> Defines(new, q)
    BY <2>1 DEF Defines, field, field_type, object, nested
  <2> QED BY <1>1, <1>2, <2>1, <2>2 DEF Coherent
<1>4. CASE ~Defines(new, "field")
  <2>1. \A q \in Predicates : ~Defines(new, q)
    BY <1>4, FieldsFirst
  <2>2. Latest' = Latest /\ \A q \in Predicates : rules'[q] = rules[q]
    BY <1>2, <2>1 DEF Latest, Predicates
  <2>3. \A q \in Predicates : Defines(Latest, q)' <=> Defines(Latest, q)
    BY <2>2 DEF Defines, field, field_type, object, nested
  <2> QED BY <1>1, <2>2, <2>3 DEF Coherent
<1> QED BY <1>1, <1>3, <1>4

LEMMA NothingLoaded ==
  /\ NoRules \in [Predicates -> Files \cup {NoFile}]
  /\ rules = NoRules => Coherent
  /\ rules' = NoRules => Coherent'
BY DEF NoRules, Coherent, Latest, Predicates

LEMMA InitIInv == Init => IInv
<1> SUFFICES ASSUME Init PROVE IInv OBVIOUS
<1>1. rules = NoRules /\ rules \in [Predicates -> Files \cup {NoFile}] /\ Coherent
  BY NothingLoaded DEF Init
<1> QED BY <1>1, MappingsAssumption DEF Init, IInv, TypeOK, AdviceInv, Silent

LEMMA CoherentKept == ASSUME Coherent, UNCHANGED rules PROVE Coherent'
BY DEF Coherent, Latest

LEMMA NextIInv == IInv /\ [Next]_vars => IInv'
<1> SUFFICES ASSUME IInv, [Next]_vars PROVE IInv'
  OBVIOUS
<1> USE DEF IInv, TypeOK, AdviceInv
<1>1. ASSUME NEW i \in Indices, Remap(i) PROVE IInv'
  <2>1. mapping' \in [Indices -> Mappings \cup {Several}]
    BY <1>1, MappingsAssumption DEF Remap
  <2> QED BY <1>1, <2>1, CoherentKept DEF Remap, Silent
<1>2. ASSUME NEW i \in Indices, Export(i) PROVE IInv'
  <2>1. Write(mapping[i]) \in Files
    BY <1>2, WritesFiles DEF Export, ExtractProperties
  <2> QED BY <1>2, <2>1, CoherentKept DEF Export, Silent
<1>3. ASSUME NEW i \in Indices, ExportCut(i) PROVE IInv'
  <2>1. \A n \in Cuts : [of |-> mapping[i], groups |-> n] \in Files
    BY <1>3, NamesAssumption DEF ExportCut, ExtractProperties, Files, Groups
  <2> QED BY <1>3, <2>1, CoherentKept DEF ExportCut, Silent
<1>4. CASE Start
  BY <1>4, NothingLoaded DEF Start, Silent
<1>5. ASSUME NEW i \in Indices, Load(i) PROVE IInv'
  <2>1. CASE file[i] \in {Missing, Torn}
    BY <1>5, <2>1, NothingLoaded DEF Load, Silent
  <2>2. CASE file[i] \notin {Missing, Torn}
    <3>1. file[i] \in Files BY <2>2
    <3>2. rules' \in [Predicates -> Files \cup {NoFile}] /\ Coherent'
      BY <1>5, <2>2, <3>1, ExecKeeps DEF Load
    <3> QED BY <1>5, <2>2, <3>2 DEF Load, Silent
  <2> QED BY <2>1, <2>2
<1>6. CASE Serve
  BY <1>6, CoherentKept DEF Serve
<1>7. CASE Stop
  BY <1>7, NothingLoaded DEF Stop, Silent
<1>8. ASSUME NEW e \in {"introspect", "prolog"}, NEW i \in Indices, GetSchema(e, i) PROVE IInv'
  <2>1. CASE answer' = Refused("index_not_allowed") \/ answer' = Refused("backend_error")
    BY <1>8, <2>1, CoherentKept DEF GetSchema, Refused
  <2>2. CASE answer' = Answer(e, i, "reply", mapping[i])
    <3>1. mapping[i] \in Mappings \cup {Several} OBVIOUS
    <3> HIDE DEF IInv, TypeOK, AdviceInv
    <3>2. /\ answer'.kind \in {"none", "refused", "introspection", "facts"}
          /\ answer'.kind \in {"introspection", "facts"} => answer'.of \in Mappings
          /\ answer'.kind = "introspection" => answer'.advice = Analyze(WalkProps(answer'.of))
      BY <2>2, <3>1, AnswerTyped
    <3> QED BY <1>8, <3>2, CoherentKept DEF GetSchema, IInv, TypeOK, AdviceInv
  <2> QED BY <1>8, <2>1, <2>2 DEF GetSchema
<1>9. ASSUME NEW e \in {"introspect", "prolog"}, NEW i \in Indices, PostSchema(e, i) PROVE IInv'
  <2>1. CASE answer' = Refused("body_too_large")
    BY <1>9, <2>1, CoherentKept DEF PostSchema, Refused
  <2>2. CASE \E shape \in Shapes, doc \in Bodies : answer' = Answer(e, i, shape, doc)
    <3> HIDE DEF IInv, TypeOK, AdviceInv
    <3>1. PICK shape \in Shapes, doc \in Bodies : answer' = Answer(e, i, shape, doc)
      BY <2>2
    <3>2. /\ answer'.kind \in {"none", "refused", "introspection", "facts"}
          /\ answer'.kind \in {"introspection", "facts"} => answer'.of \in Mappings
          /\ answer'.kind = "introspection" => answer'.advice = Analyze(WalkProps(answer'.of))
      BY <3>1, AnswerTyped, MappingsAssumption
    <3> QED BY <1>9, <3>2, CoherentKept DEF PostSchema, IInv, TypeOK, AdviceInv
  <2> QED BY <1>9, <2>1, <2>2 DEF PostSchema
<1>10. CASE UNCHANGED vars
  BY <1>10, CoherentKept DEF vars
<1> QED BY <1>1, <1>2, <1>3, <1>4, <1>5, <1>6, <1>7, <1>8, <1>9, <1>10 DEF Next

(* IInv holds throughout: the shape of the state, and advice that is the analysis
   of the mapping it names.                                                    *)
THEOREM SchemaTyped == Spec => []TypeOK
<1>1. IInv => TypeOK BY DEF IInv
<1> QED BY <1>1, InitIInv, NextIInv, PTL DEF Spec

(* Objects, nested fields and what is inside them, as the last schema file has them,
   stay unknown, whatever the mappings, the files before it, exports and restarts. *)
THEOREM LeavesOnly == Spec => []OnlyLeavesQueryable
<1>1. IInv => OnlyLeavesQueryable BY Leaves
<1> QED BY <1>1, InitIInv, NextIInv, PTL DEF Spec

(* What introspection offers, rules whose last schema file has the same mapping
   accept.                                                                     *)
THEOREM AdviceHolds == Spec => []AdvertisedAccepted
<1>1. IInv => AdvertisedAccepted BY Advertised
<1> QED BY <1>1, InitIInv, NextIInv, PTL DEF Spec

(* A refusal of a field of the last schema file names a true reason. *)
THEOREM ReasonsHold == Spec => []ReasonsTrue
<1>1. IInv => ReasonsTrue BY Reasons
<1> QED BY <1>1, InitIInv, NextIInv, PTL DEF Spec
=============================================================================
