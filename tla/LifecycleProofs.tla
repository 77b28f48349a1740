-------------------------- MODULE LifecycleProofs --------------------------
(* The shutdown, for any number of requests and any configuration.  The invariant
   accounts for the time of a request: its age is what its client took, what the
   earlier stages may take and the time in this one; and while main drains, a
   connection is at least as old as the shutdown.                              *)
EXTENDS Lifecycle, TLAPS

Early == main \in {"config", "rules", "client"}

CallMax == IF cfg.limits.requestTimeout > PingTimeout THEN cfg.limits.requestTimeout ELSE PingTimeout

Positive(c) == \A l \in LimitNames : c.limits[l] > 0

Open == InFlight \cup {"header"}
Waiting == Active \cup Fresh

(* How main, the listener and the clock of the shutdown go together. *)
MainInv ==
  /\ Early => listener = "none" /\ ~signalled /\ \A r \in Requests : req[r] = Absent
  /\ main = "client" => cfg.limits.rulesTimeout > 0
  /\ main = "notify" => ~signalled
  /\ ~Early /\ Alive => listener # "none" /\ Positive(cfg)
  /\ listener = "spawned" => \A r \in Requests : req[r] = Absent
  /\ main = "draining" => listener = "closed"
  /\ main \notin {"draining", "exited"} => drained = 0
  /\ main = "exited" => listener = "closed"

(* The time account of a request q. *)
StageOK(q) ==
  /\ q.at \in {"header", "entry"} => q.age = 0 /\ q.client = 0
  /\ q.at = "reading" => q.age <= q.client
  /\ q.at = "rules" => q.age <= q.client + q.spent /\ q.spent <= RulesTime
  /\ q.at = "backend" => q.age <= q.client + RulesTime + q.spent /\ q.spent <= CallTime(q.kind)
  /\ q.at = "writing" => q.age <= q.client + Budget
  /\ q.at = "lost" => WriteTimeout <= q.age /\ q.age <= q.client + Budget
  /\ q.at \in Open => Alive /\ (main = "draining" => drained <= q.header + q.age)
  /\ q.at = "cut" => /\ main = "exited" /\ q.age <= q.client + Budget
                     /\ \/ ending = "killed" /\ ~signalled
                        \/ ending = "deadline" /\ Grace <= q.header + q.age

IInv == TypeOK /\ MainInv /\ \A r \in Requests : StageOK(req[r])

-----------------------------------------------------------------------------
(* The limits of a running server are naturals, and no call exceeds the budget. *)
LEMMA Limits ==
  ASSUME TypeOK, Positive(cfg)
  PROVE  /\ RulesTime \in Nat /\ CallMax \in Nat /\ Budget = RulesTime + CallMax
         /\ \A k : CallTime(k) \in Nat /\ CallTime(k) <= CallMax
<1>1. cfg.limits.rulesTimeout \in Nat /\ cfg.limits.requestTimeout \in Nat
  BY DEF TypeOK, ConfigSpace, Positive, LimitNames
<1>2. RulesTime \in Nat
  <2>1. \A x, y \in Nat : x * y \in Nat OBVIOUS
  <2>2. 1 + Overtakes \in Nat BY TimesAssumption
  <2> QED BY <1>1, <2>1, <2>2, TimesAssumption DEF RulesTime
<1>3. CallMax \in Nat
  BY <1>1, TimesAssumption DEF CallMax
<1>4. Budget = RulesTime + CallMax
  BY DEF Budget, CallMax
<1>5. ASSUME NEW k PROVE CallTime(k) \in Nat /\ CallTime(k) <= CallMax
  BY <1>1, TimesAssumption DEF CallTime, CallMax
<1> QED BY <1>2, <1>3, <1>4, <1>5

(* The constructors leave no limit that is not positive. *)
LEMMA Repairs ==
  ASSUME NEW c \in ConfigSpace
  PROVE  /\ applyDefaults(applyEnv(c)) \in ConfigSpace
         /\ \A names : /\ Repaired(c, names) \in ConfigSpace
                       /\ \A l \in names \cap LimitNames : Repaired(c, names).limits[l] > 0
                       /\ \A l \in LimitNames \ names : Repaired(c, names).limits[l] = c.limits[l]
<1>1. \A l \in LimitNames : Default[l] \in Nat \ {0}
  BY TimesAssumption DEF Default, LimitNames
<1>2. applyEnv(c) \in ConfigSpace
  BY DEF applyEnv, ConfigSpace
<1>3. \A d \in ConfigSpace : applyDefaults(d) \in ConfigSpace
  BY <1>1 DEF applyDefaults, ConfigSpace
<1>4. ASSUME NEW names
      PROVE  /\ Repaired(c, names) \in ConfigSpace
             /\ \A l \in names \cap LimitNames : Repaired(c, names).limits[l] > 0
             /\ \A l \in LimitNames \ names : Repaired(c, names).limits[l] = c.limits[l]
  BY <1>1 DEF Repaired, ConfigSpace
<1> QED BY <1>2, <1>3, <1>4

(* A request that has not come in satisfies every account. *)
LEMMA AbsentOK == Absent \in RequestStates /\ StageOK(Absent)
<1>1. Absent \in RequestStates
  BY DEF Absent, RequestStates
<1>2. Absent.at = "absent"
  BY DEF Absent
<1> QED BY <1>1, <1>2 DEF StageOK, Open, InFlight

LEMMA InitIInv == Init => IInv
<1> SUFFICES ASSUME Init PROVE IInv OBVIOUS
<1>1. TypeOK
  <2>1. cfg \in ConfigSpace BY ConfigsAssumption DEF Init
  <2>2. req \in [Requests -> RequestStates] BY AbsentOK DEF Init
  <2>3. drained \in 0 .. Grace BY TimesAssumption DEF Init
  <2> QED BY <2>1, <2>2, <2>3 DEF Init, TypeOK
<1>2. MainInv
  BY DEF Init, MainInv, Early, Alive
<1>3. \A r \in Requests : StageOK(req[r])
  BY AbsentOK DEF Init
<1> QED BY <1>1, <1>2, <1>3 DEF IInv

(* The end of the process: what was in flight is cut, all else stays. *)
LEMMA Terminating ==
  ASSUME IInv, Alive, NEW how \in {"fatal", "killed", "drained", "deadline"}, Terminate(how),
         UNCHANGED <<cfg, stop, signalled, drained>>,
         how = "killed" => ~signalled,
         how \in {"fatal", "drained"} => Waiting = {},
         how = "deadline" => drained = Grace /\ main = "draining",
         ~Early \/ Waiting = {}
  PROVE  IInv'
<1>1. TypeOK'
  <2>1. \A r \in Requests : req'[r] \in RequestStates
    BY DEF IInv, TypeOK, Terminate, RequestStates
  <2> QED BY <2>1 DEF IInv, TypeOK, Terminate
<1>2. MainInv'
  BY DEF IInv, MainInv, Terminate, Early, Alive, Positive
<1>3. ASSUME NEW r \in Requests PROVE StageOK(req[r])'
  <2>0. StageOK(req[r]) /\ req[r] \in RequestStates /\ cfg \in ConfigSpace /\ drained \in Int
    BY TimesAssumption DEF IInv, TypeOK
  <2>1. CASE r \in Active
    <3>1. Alive /\ ~Early /\ Positive(cfg)
      BY <2>0, <2>1 DEF IInv, MainInv, Waiting
    <3>2. /\ req'[r].at = "cut" /\ req'[r].age = req[r].age /\ req'[r].header = req[r].header
          /\ req'[r].client = req[r].client /\ main' = "exited" /\ ending' = how
      BY <2>0, <2>1 DEF Terminate, RequestStates
    <3>3. /\ RulesTime \in Nat /\ CallMax \in Nat /\ Budget = RulesTime + CallMax
          /\ CallTime(req[r].kind) \in Nat /\ CallTime(req[r].kind) <= CallMax
      BY <3>1, Limits DEF IInv
    <3>4. req[r].age <= req[r].client + Budget
      BY <2>0, <2>1, <3>3 DEF StageOK, Active, InFlight, RequestStates
    <3>5. how = "deadline" => Grace <= req[r].header + req[r].age
      BY <2>0, <2>1 DEF StageOK, Active, Open
    <3>6. how \notin {"fatal", "drained"}
      BY <2>1 DEF Waiting
    <3>7. Budget' = Budget
      BY DEF Budget, RulesTime
    <3> QED BY <3>2, <3>4, <3>5, <3>6, <3>7 DEF StageOK, InFlight, Open
  <2>2. CASE r \in Fresh \ Active
    <3>1. req'[r] = [req[r] EXCEPT !.at = "dropped"]
      BY <2>2 DEF Terminate, Fresh
    <3>2. req'[r].at = "dropped"
      BY <2>0, <3>1 DEF RequestStates
    <3> QED BY <3>2 DEF StageOK, InFlight, Open
  <2>3. CASE r \notin Active \cup Fresh
    <3>1. req'[r] = req[r] /\ req[r].at \notin Open
      BY <2>3 DEF Terminate, Active, Fresh, Open
    <3>2. req[r].at # "cut"
      BY <2>0 DEF StageOK, Alive
    <3>3. req[r].at \notin {"header", "entry", "reading", "rules", "backend", "writing"}
      BY <3>1 DEF Open, InFlight
    <3>4. req'[r].at = "lost" => WriteTimeout <= req'[r].age /\ req'[r].age <= req'[r].client + Budget'
      BY <2>0, <3>1 DEF StageOK, Budget, RulesTime
    <3> QED BY <3>1, <3>2, <3>3, <3>4 DEF StageOK
  <2> QED BY <2>1, <2>2, <2>3
<1> QED BY <1>1, <1>2, <1>3 DEF IInv

(* A step that only moves request r keeps the invariant if r keeps its account. *)
LEMMA Moving ==
  ASSUME IInv, NEW r \in Requests, req[r] # Absent \/ listener = "listening",
         NEW q \in RequestStates, StageOK(q),
         req' = [req EXCEPT ![r] = q], UNCHANGED serverVars
  PROVE  IInv'
<1>1. TypeOK'
  BY DEF IInv, TypeOK, serverVars
<1>2. MainInv'
  BY DEF IInv, TypeOK, MainInv, serverVars, Early, Alive, Positive
<1>3. ASSUME NEW x \in Requests PROVE StageOK(req[x])'
  <2>2. req'[x] = q \/ req'[x] = req[x]
    BY DEF IInv, TypeOK
  <2>3. req[x] \in RequestStates /\ StageOK(req[x])
    BY DEF IInv, TypeOK
  <2>4. req'[x] \in RequestStates /\ StageOK(req'[x])
    BY <2>2, <2>3
  <2> QED BY <2>4 DEF StageOK, CallTime, Budget, RulesTime, Alive, serverVars
<1> QED BY <1>1, <1>2, <1>3 DEF IInv

(* What is known of an open connection. *)
LEMMA OpenFacts ==
  ASSUME IInv, NEW r \in Requests, req[r].at \in Open
  PROVE  /\ req[r] \in RequestStates /\ req[r] # Absent /\ StageOK(req[r]) /\ drained \in Nat
         /\ RulesTime \in Nat /\ CallMax \in Nat /\ Budget = RulesTime + CallMax
         /\ \A k : CallTime(k) \in Nat /\ CallTime(k) <= CallMax
         /\ Alive /\ (main = "draining" => drained <= req[r].header + req[r].age)
         /\ req[r].age <= req[r].client + Budget
<1>1. req[r] \in RequestStates /\ StageOK(req[r]) /\ drained \in Nat
  BY TimesAssumption DEF IInv, TypeOK
<1>2. req[r] # Absent
  BY DEF Absent, Open, InFlight
<1>3. Alive /\ (main = "draining" => drained <= req[r].header + req[r].age)
  BY <1>1 DEF StageOK
<1>4. Positive(cfg)
  BY <1>2, <1>3 DEF IInv, MainInv
<1>5. /\ RulesTime \in Nat /\ CallMax \in Nat /\ Budget = RulesTime + CallMax
      /\ \A k : CallTime(k) \in Nat /\ CallTime(k) <= CallMax
  BY <1>4, Limits DEF IInv
<1>6. req[r].age <= req[r].client + Budget
  <2>1. CallTime(req[r].kind) \in Nat /\ CallTime(req[r].kind) <= CallMax
    BY <1>5
  <2> QED BY <1>1, <1>5, <2>1 DEF StageOK, Open, InFlight, RequestStates
<1> QED BY <1>1, <1>2, <1>3, <1>5, <1>6

(* An answer may be given at any stage. *)
LEMMA Replying ==
  ASSUME IInv, NEW r \in Requests, req[r].at \in Open, Reply(r)
  PROVE  IInv'
<1> DEFINE q == [req[r] EXCEPT !.at = "writing", !.spent = 0, !.kind = "none"]
<1>1. /\ q \in RequestStates /\ q.at = "writing" /\ q.age = req[r].age
      /\ q.client = req[r].client /\ q.header = req[r].header
  BY OpenFacts DEF RequestStates, InFlight
<1>3. req' = [req EXCEPT ![r] = q] /\ UNCHANGED serverVars
  BY DEF Reply
<1> HIDE DEF q
<1>2. StageOK(q)
  BY <1>1, OpenFacts DEF StageOK
<1> QED BY <1>1, <1>2, <1>3, Moving, OpenFacts

(* A request moves on with its account intact. *)
LEMMA MovingOn ==
  ASSUME IInv, NEW r \in Requests, req[r].at \in Open, NEW place, Move(r, place),
         \/ place = "reading" /\ req[r].at = "entry"
         \/ place = "rules" /\ req[r].at = "reading"
         \/ place = "backend" /\ req[r].at \in {"entry", "rules"}
  PROVE  IInv'
<1> DEFINE q == [req[r] EXCEPT !.at = place, !.spent = 0]
<1>1. /\ q \in RequestStates /\ q.at = place /\ q.age = req[r].age /\ q.spent = 0
      /\ q.client = req[r].client /\ q.header = req[r].header
  BY OpenFacts DEF RequestStates, InFlight
<1>2. req' = [req EXCEPT ![r] = q] /\ UNCHANGED serverVars
  BY DEF Move
<1> HIDE DEF q
<1>3. /\ req[r].age \in Nat /\ req[r].client \in Nat /\ req[r].spent \in Nat
      /\ RulesTime \in Nat /\ CallTime(q.kind) \in Nat /\ StageOK(req[r])
  BY OpenFacts DEF RequestStates
<1>4. Alive /\ (main = "draining" => drained <= q.header + q.age)
  BY <1>1, OpenFacts
<1>5. place \in {"reading", "rules"} => q.age <= q.client
  BY <1>1, <1>3 DEF StageOK
<1>6. place = "backend" => q.age <= q.client + RulesTime
  BY <1>1, <1>3 DEF StageOK
<1>7. StageOK(q)
  BY <1>1, <1>3, <1>4, <1>5, <1>6 DEF StageOK
<1> QED BY <1>1, <1>2, <1>7, Moving, OpenFacts

LEMMA ConnectIInv ==
  ASSUME IInv, NEW r \in Requests, Connect(r) PROVE IInv'
<1> DEFINE q == [req[r] EXCEPT !.at = "header", !.spent = 0]
<1>1. q \in RequestStates /\ q.at = "header" /\ q.age = 0 /\ q.client = 0 /\ q.header = 0
  <2>1. req[r] = Absent /\ req[r] \in RequestStates
    BY AbsentOK DEF Connect
  <2>2. req[r].age = 0 /\ req[r].client = 0 /\ req[r].header = 0
    BY <2>1 DEF Absent
  <2> QED BY <2>1, <2>2 DEF RequestStates
<1>2. req' = [req EXCEPT ![r] = q] /\ listener = "listening" /\ UNCHANGED serverVars
  BY DEF Connect, Move
<1>3. Alive /\ main # "draining"
  BY <1>2 DEF IInv, MainInv, Alive
<1> HIDE DEF q
<1>4. StageOK(q)
  BY <1>1, <1>3 DEF StageOK
<1> QED BY <1>1, <1>2, <1>4, Moving

LEMMA ArriveIInv ==
  ASSUME IInv, NEW r \in Requests, Arrive(r) PROVE IInv'
<1>0. req[r].at = "header" /\ req[r].at \in Open
  BY DEF Arrive, Open
<1>1. PICK k \in Kinds : req' = [req EXCEPT ![r].at = "entry", ![r].kind = k]
  BY DEF Arrive
<1> DEFINE q == [req[r] EXCEPT !.at = "entry", !.kind = k]
<1>2. /\ q \in RequestStates /\ q.at = "entry" /\ q.age = req[r].age
      /\ q.client = req[r].client /\ q.header = req[r].header
  BY <1>0, OpenFacts DEF RequestStates, InFlight
<1>3. req' = [req EXCEPT ![r] = q] /\ UNCHANGED serverVars
  BY <1>1 DEF Arrive
<1> HIDE DEF q
<1>4. StageOK(q)
  BY <1>0, <1>2, OpenFacts DEF StageOK
<1> QED BY <1>0, <1>2, <1>3, <1>4, Moving, OpenFacts

LEMMA ServeIInv ==
  ASSUME IInv, NEW r \in Requests, Serve(r) PROVE IInv'
<1>1. CASE Drop(r)
  <2>1. req[r].at \in Open BY <1>1 DEF Drop, Open
  <2> DEFINE q == [Absent EXCEPT !.at = "dropped"]
  <2>2. q \in RequestStates /\ q.at = "dropped"
    BY DEF Absent, RequestStates
  <2>3. req' = [req EXCEPT ![r] = q] /\ UNCHANGED serverVars
    BY <1>1 DEF Drop
  <2> HIDE DEF q
  <2>4. StageOK(q)
    BY <2>2 DEF StageOK, Open, InFlight
  <2> QED BY <2>1, <2>2, <2>3, <2>4, Moving, OpenFacts
<1>2. CASE Route(r)
  <2>1. req[r].at = "entry" /\ req[r].at \in Open
    BY <1>2 DEF Route, Open, InFlight
  <2> QED BY <1>2, <2>1, Replying, MovingOn DEF Route
<1>3. CASE EndBody(r)
  <2>1. req[r].at = "reading" /\ req[r].at \in Open
    BY <1>3 DEF EndBody, Open, InFlight
  <2> QED BY <1>3, <2>1, Replying, MovingOn DEF EndBody
<1>4. CASE EndRules(r)
  <2>1. req[r].at = "rules" /\ req[r].at \in Open
    BY <1>4 DEF EndRules, Open, InFlight
  <2> QED BY <1>4, <2>1, Replying, MovingOn DEF EndRules
<1>5. CASE EndBackend(r)
  <2>1. req[r].at \in Open BY <1>5 DEF EndBackend, Open, InFlight
  <2> QED BY <1>5, <2>1, Replying DEF EndBackend
<1>6. CASE Write(r)
  <2>1. req[r].at = "writing" /\ req[r].at \in Open BY <1>6 DEF Write, Open, InFlight
  <2>2. CASE req[r].age < WriteTimeout
    <3> DEFINE q == [Absent EXCEPT !.at = "answered"]
    <3>1. q \in RequestStates /\ q.at = "answered"
      BY DEF Absent, RequestStates
    <3>2. req' = [req EXCEPT ![r] = q] /\ UNCHANGED serverVars
      BY <1>6, <2>2 DEF Write
    <3> HIDE DEF q
    <3>3. StageOK(q)
      BY <3>1 DEF StageOK, Open, InFlight
    <3> QED BY <2>1, <3>1, <3>2, <3>3, Moving, OpenFacts
  <2>3. CASE ~(req[r].age < WriteTimeout)
    <3> DEFINE q == [req[r] EXCEPT !.at = "lost"]
    <3>1. q \in RequestStates /\ q.at = "lost" /\ q.age = req[r].age /\ q.client = req[r].client
      BY <2>1, OpenFacts DEF RequestStates
    <3>2. req' = [req EXCEPT ![r] = q] /\ UNCHANGED serverVars
      BY <1>6, <2>3 DEF Write
    <3>3. WriteTimeout <= req[r].age /\ req[r].age <= req[r].client + Budget
      <4>1. req[r].age \in Nat
        BY <2>1, OpenFacts DEF RequestStates
      <4> QED BY <2>1, <2>3, <4>1, OpenFacts, TimesAssumption
    <3> HIDE DEF q
    <3>4. StageOK(q)
      BY <3>1, <3>3 DEF StageOK, Open, InFlight
    <3> QED BY <2>1, <3>1, <3>2, <3>4, Moving, OpenFacts
  <2> QED BY <2>2, <2>3
<1> QED BY <1>1, <1>2, <1>3, <1>4, <1>5, <1>6 DEF Serve

(* A step of main or of the listener that ends nothing and leaves requests alone. *)
LEMMA Stepping ==
  ASSUME IInv, Alive, TypeOK', MainInv', req' = req, Early \/ cfg' = cfg,
         main' # "exited", drained' = drained, main' = main \/ drained = 0
  PROVE  IInv'
<1> SUFFICES ASSUME NEW r \in Requests PROVE StageOK(req[r])'
  BY DEF IInv
<1>0. StageOK(req[r]) /\ req[r] \in RequestStates /\ Alive'
  BY DEF IInv, TypeOK, Alive
<1>1. CASE Early
  <2>1. req'[r].at = "absent"
    BY <1>1 DEF IInv, MainInv, Absent
  <2> QED BY <2>1 DEF StageOK, Open, InFlight
<1>2. CASE cfg' = cfg
  <2>1. req[r].at # "cut"
    BY <1>0 DEF StageOK, Alive
  <2>2. main' = "draining" => main = "draining" \/ drained' = 0
    OBVIOUS
  <2>3. req[r].header + req[r].age >= 0
    BY <1>0 DEF RequestStates
  <2>4. CallTime(req[r].kind)' = CallTime(req[r].kind) /\ RulesTime' = RulesTime /\ Budget' = Budget
    BY <1>2 DEF CallTime, RulesTime, Budget
  <2> QED BY <1>0, <2>1, <2>2, <2>3, <2>4 DEF StageOK
<1> QED BY <1>1, <1>2

LEMMA ProcessIInv == ASSUME IInv, Process PROVE IInv'
<1> USE DEF IInv
<1>0. Waiting = {} \/ ~Early
  BY DEF MainInv, Waiting, Active, Fresh, Absent, InFlight
<1>1. CASE LoadConfig
  <2>1. CASE Loads(cfg)
    <3>1. TypeOK' BY <1>1, <2>1, Repairs DEF LoadConfig, TypeOK, MainInv, Early
    <3>2. MainInv' BY <1>1, <2>1 DEF LoadConfig, MainInv, Early, Alive
    <3> QED BY <1>1, <2>1, <3>1, <3>2, Stepping DEF LoadConfig, Early, MainInv, Alive
  <2>2. CASE ~Loads(cfg)
    BY <1>0, <1>1, <2>2, Terminating DEF LoadConfig, Early, Alive
  <2> QED BY <2>1, <2>2
<1>2. CASE NewEngine
  <2>1. CASE cfg.rulesFiles = "ok"
    <3>1. TypeOK' BY <1>2, <2>1, Repairs DEF NewEngine, TypeOK, MainInv, Early
    <3>2. MainInv'
      <4>1. cfg'.limits.rulesTimeout > 0
        BY <1>2, <2>1, Repairs DEF NewEngine, TypeOK, LimitNames
      <4> QED BY <1>2, <2>1, <4>1 DEF NewEngine, MainInv, Early, Alive
    <3> QED BY <1>2, <2>1, <3>1, <3>2, Stepping DEF NewEngine, Early, MainInv, Alive
  <2>2. CASE cfg.rulesFiles # "ok"
    BY <1>0, <1>2, <2>2, Terminating DEF NewEngine, Early, Alive
  <2> QED BY <2>1, <2>2
<1>3. CASE NewServer
  <2>1. CASE main' = "notify"
    <3>1. cfg' = Repaired(cfg, LimitNames \ {"rulesTimeout"}) /\ listener' = "spawned" /\ req' = req
      BY <1>3, <2>1 DEF NewServer, Terminate
    <3>2. cfg' \in ConfigSpace /\ Positive(cfg')
      <4>1. \A l \in LimitNames \ {"rulesTimeout"} : cfg'.limits[l] > 0
        BY <3>1, Repairs DEF TypeOK
      <4>2. cfg'.limits["rulesTimeout"] > 0
        BY <1>3, <3>1, Repairs DEF NewServer, TypeOK, MainInv, LimitNames
      <4> QED BY <3>1, <4>1, <4>2, Repairs DEF TypeOK, Positive
    <3>3. TypeOK' BY <1>3, <2>1, <3>1, <3>2 DEF NewServer, Terminate, TypeOK, Positive
    <3>4. MainInv'
      BY <1>3, <2>1, <3>1, <3>2 DEF NewServer, Terminate, MainInv, Early, Alive, Positive
    <3> QED BY <1>3, <2>1, <3>1, <3>3, <3>4, Stepping DEF NewServer, Terminate, Early, MainInv, Alive
  <2>2. CASE main' # "notify"
    BY <1>0, <1>3, <2>2, Terminating DEF NewServer, Early, Alive
  <2> QED BY <2>1, <2>2
<1>4. CASE Listen
  <2>1. CASE listener' = "listening"
    <3>1. main' = main /\ req' = req /\ Positive(cfg) /\ ~Early
      BY <1>4, <2>1 DEF Listen, Terminate, MainInv
    <3>2. TypeOK' BY <1>4, <2>1, <3>1 DEF Listen, Terminate, TypeOK, Positive
    <3>3. MainInv' BY <1>4, <2>1, <3>1 DEF Listen, Terminate, MainInv, Early, Alive, Positive
    <3> QED BY <1>4, <2>1, <3>1, <3>2, <3>3, Stepping DEF Listen, Terminate, Early, Alive
  <2>2. CASE listener' # "listening"
    <3>1. Waiting = {}
      BY <1>4 DEF Listen, MainInv, Waiting, Active, Fresh, Absent, InFlight
    <3> QED BY <1>4, <2>2, <3>1, Terminating DEF Listen
  <2> QED BY <2>1, <2>2
<1>5. CASE Notify \/ Wait
  <2>1. TypeOK' BY <1>5 DEF Notify, Wait, TypeOK
  <2>2. MainInv' BY <1>5 DEF Notify, Wait, MainInv, Early, Alive, Positive
  <2> QED BY <1>5, <2>1, <2>2, Stepping DEF Notify, Wait, MainInv, Early, Alive
<1>6. CASE Shutdown
  <2>1. TypeOK' BY <1>6 DEF Shutdown, TypeOK
  <2>2. MainInv' BY <1>6 DEF Shutdown, MainInv, Early, Alive, Positive
  <2> QED BY <1>6, <2>1, <2>2, Stepping DEF Shutdown, MainInv, Early, Alive
<1>7. CASE Return
  <2>1. main = "draining" /\ Alive /\ ~Early
    BY <1>7 DEF Return, MayReturn, Alive, Early
  <2>2. Waiting # {} => drained = Grace
    BY <1>7, TimesAssumption DEF Return, MayReturn, TypeOK, Waiting
  <2> QED BY <1>7, <2>1, <2>2, Terminating DEF Return, Waiting
<1> QED BY <1>1, <1>2, <1>3, <1>4, <1>5, <1>6, <1>7 DEF Process

LEMMA SignalIInv == ASSUME IInv, Signal PROVE IInv'
<1> USE DEF IInv
<1>1. CASE main \in {"config", "rules", "client", "notify"}
  <2>1. ~signalled /\ (Waiting = {} \/ ~Early)
    BY <1>1 DEF MainInv, Early, Waiting, Active, Fresh, Absent, InFlight
  <2> QED BY <1>1, <2>1, Terminating DEF Signal
<1>2. CASE main \notin {"config", "rules", "client", "notify"}
  <2>1. TypeOK' BY <1>2 DEF Signal, TypeOK
  <2>2. MainInv' BY <1>2 DEF Signal, MainInv, Early, Alive, Positive
  <2> QED BY <1>2, <2>1, <2>2, Stepping DEF Signal, Alive
<1> QED BY <1>1, <1>2

LEMMA TickIInv == ASSUME IInv, Tick PROVE IInv'
<1> USE DEF IInv
<1>0. drained \in Nat /\ drained' \in 0 .. Grace
      /\ drained' = (IF main = "draining" THEN drained + 1 ELSE drained)
  <2>1. drained \in Int /\ 0 <= drained /\ drained <= Grace /\ Grace \in Nat
    BY TimesAssumption DEF TypeOK
  <2>2. main = "draining" => ~(drained >= Grace)
    BY DEF Tick, MayReturn
  <2>3. drained' = (IF main = "draining" THEN drained + 1 ELSE drained)
    BY DEF Tick
  <2> QED BY <2>1, <2>2, <2>3
<1>a. \A r \in Requests : r \notin Waiting => req'[r] = req[r]
  BY DEF Tick, TypeOK, Waiting
<1>b. ASSUME NEW r \in Waiting
      PROVE  /\ r \in Requests /\ req[r].at \in Open /\ ~Due(req[r])
             /\ req[r] \in RequestStates /\ req'[r] = Older(req[r])
  BY DEF Waiting, Active, Fresh, Open, TypeOK, Tick
<1>c. ASSUME NEW r \in Waiting, req[r].at = "header"
      PROVE  /\ req'[r] \in RequestStates
             /\ req'[r].at = req[r].at /\ req'[r].kind = req[r].kind
             /\ req'[r].header = req[r].header + 1 /\ req'[r].age = req[r].age
             /\ req'[r].client = req[r].client /\ req'[r].spent = req[r].spent
  <2>1. req[r] \in RequestStates /\ req'[r] = [req[r] EXCEPT !.header = @ + 1]
    BY <1>b, <1>c DEF Older
  <2>2. \A n \in Nat : n + 1 \in Nat
    OBVIOUS
  <2>3. req'[r] \in RequestStates
    BY <2>1, <2>2, Zenon DEF RequestStates
  <2> QED BY <2>1, <2>3 DEF RequestStates
<1>d. ASSUME NEW r \in Waiting, req[r].at # "header"
      PROVE  /\ req'[r] \in RequestStates
             /\ req'[r].at = req[r].at /\ req'[r].kind = req[r].kind
             /\ req'[r].header = req[r].header /\ req'[r].age = req[r].age + 1
             /\ req'[r].client = (IF req[r].at \in {"reading", "writing"} THEN req[r].client + 1
                                                                       ELSE req[r].client)
             /\ req'[r].spent = (IF req[r].at \in {"rules", "backend"} THEN req[r].spent + 1
                                                                     ELSE req[r].spent)
  <2> DEFINE c == IF req[r].at \in {"reading", "writing"} THEN req[r].client + 1 ELSE req[r].client
             t == IF req[r].at \in {"rules", "backend"} THEN req[r].spent + 1 ELSE req[r].spent
  <2>1. req[r] \in RequestStates /\ req'[r] = Older(req[r])
    BY <1>b
  <2>2. req'[r] = [req[r] EXCEPT !.age = req[r].age + 1, !.client = c, !.spent = t]
    BY <1>d, <2>1 DEF Older, RequestStates
  <2>3. c \in Nat /\ t \in Nat /\ req[r].age + 1 \in Nat
    BY <2>1 DEF RequestStates
  <2> HIDE DEF c, t
  <2>4. req'[r] \in RequestStates
    BY <2>1, <2>2, <2>3, Zenon DEF RequestStates
  <2>5. /\ req'[r].at = req[r].at /\ req'[r].kind = req[r].kind /\ req'[r].header = req[r].header
        /\ req'[r].age = req[r].age + 1 /\ req'[r].client = c /\ req'[r].spent = t
    BY <2>1, <2>2 DEF RequestStates
  <2> QED BY <2>4, <2>5 DEF c, t
<1>1. TypeOK'
  <2>1. ASSUME NEW r \in Requests PROVE req'[r] \in RequestStates
    BY <1>a, <1>c, <1>d DEF TypeOK
  <2>2. req' \in [Requests -> RequestStates]
    BY <2>1 DEF Tick
  <2> QED BY <1>0, <2>2 DEF Tick, TypeOK
<1>2. MainInv'
  <2>1. PICK a \in Waiting : TRUE BY DEF Tick, Waiting
  <2>2. ~Early /\ listener # "spawned"
    BY <2>1 DEF MainInv, Waiting, Active, Fresh, Absent, InFlight
  <2> QED BY <1>0, <2>2 DEF Tick, MainInv, Early, Alive, Positive
<1>3. ASSUME NEW r \in Requests PROVE StageOK(req[r])'
  <2>0. /\ RulesTime' = RulesTime /\ Budget' = Budget /\ Alive' = Alive /\ main' = main
        /\ \A k : CallTime(k)' = CallTime(k)
        /\ StageOK(req[r]) /\ req[r] \in RequestStates
    BY DEF Tick, RulesTime, Budget, Alive, CallTime, TypeOK
  <2>1. CASE r \in Waiting /\ req[r].at = "header"
    <3>1. /\ req'[r].at = "header" /\ req'[r].header = req[r].header + 1
          /\ req'[r].age = 0 /\ req'[r].client = 0 /\ req[r].age = 0 /\ req[r].header \in Nat
      BY <1>c, <2>0, <2>1 DEF StageOK, RequestStates
    <3>2. Alive /\ (main = "draining" => drained <= req[r].header)
      BY <1>b, <2>1, <3>1, OpenFacts DEF RequestStates
    <3>3. Alive' /\ (main' = "draining" => drained' <= req'[r].header + req'[r].age)
      BY <1>0, <2>0, <3>1, <3>2
    <3> QED BY <3>1, <3>3 DEF StageOK, InFlight
  <2>2. CASE r \in Waiting /\ req[r].at # "header"
    <3>0. /\ req[r].at \in InFlight /\ ~Due(req[r])
          /\ Alive /\ (main = "draining" => drained <= req[r].header + req[r].age)
          /\ RulesTime \in Nat /\ CallTime(req[r].kind) \in Nat /\ Budget \in Nat
      BY <1>b, <2>2, OpenFacts DEF Open
    <3>1. /\ req[r].header \in Nat /\ req[r].age \in Nat
          /\ req[r].client \in Nat /\ req[r].spent \in Nat
      BY <2>0 DEF RequestStates
    <3>2. /\ req'[r].at = req[r].at /\ req'[r].kind = req[r].kind
          /\ req'[r].header = req[r].header /\ req'[r].age = req[r].age + 1
      BY <1>d, <2>2
    <3>3. Alive' /\ (main' = "draining" => drained' <= req'[r].header + req'[r].age)
      BY <1>0, <2>0, <3>0, <3>1, <3>2
    <3>4. CASE req[r].at = "entry"
      BY <3>0, <3>4 DEF Due
    <3>5. CASE req[r].at = "reading"
      <4>1. req'[r].client = req[r].client + 1 /\ req[r].age <= req[r].client
        BY <1>d, <2>0, <2>2, <3>5 DEF StageOK
      <4>2. req'[r].age <= req'[r].client
        BY <3>1, <3>2, <4>1
      <4> QED BY <3>2, <3>3, <3>5, <4>2 DEF StageOK
    <3>6. CASE req[r].at = "rules"
      <4>1. /\ req'[r].client = req[r].client /\ req'[r].spent = req[r].spent + 1
            /\ req[r].age <= req[r].client + req[r].spent
        BY <1>d, <2>0, <2>2, <3>6 DEF StageOK
      <4>2. req[r].spent < RulesTime
        BY <3>0, <3>1, <3>6 DEF Due
      <4>3. req'[r].age <= req'[r].client + req'[r].spent /\ req'[r].spent <= RulesTime
        BY <3>0, <3>1, <3>2, <4>1, <4>2
      <4> QED BY <2>0, <3>2, <3>3, <3>6, <4>3 DEF StageOK
    <3>7. CASE req[r].at = "backend"
      <4>1. /\ req'[r].client = req[r].client /\ req'[r].spent = req[r].spent + 1
            /\ req[r].age <= req[r].client + RulesTime + req[r].spent
        BY <1>d, <2>0, <2>2, <3>7 DEF StageOK
      <4>2. req[r].spent < CallTime(req[r].kind)
        BY <3>0, <3>1, <3>7 DEF Due
      <4>3. /\ req'[r].age <= req'[r].client + RulesTime + req'[r].spent
            /\ req'[r].spent <= CallTime(req[r].kind)
        BY <3>0, <3>1, <3>2, <4>1, <4>2
      <4> QED BY <2>0, <3>2, <3>3, <3>7, <4>3 DEF StageOK
    <3>8. CASE req[r].at = "writing"
      <4>1. req'[r].client = req[r].client + 1 /\ req[r].age <= req[r].client + Budget
        BY <1>d, <2>0, <2>2, <3>8 DEF StageOK
      <4>2. req'[r].age <= req'[r].client + Budget
        BY <3>0, <3>1, <3>2, <4>1
      <4> QED BY <2>0, <3>2, <3>3, <3>8, <4>2 DEF StageOK
    <3> QED BY <3>0, <3>4, <3>5, <3>6, <3>7, <3>8 DEF InFlight
  <2>3. CASE r \notin Waiting
    <3>1. req'[r] = req[r] /\ req[r].at \notin Open
      BY <1>a, <2>3 DEF Waiting, Active, Fresh, Open
    <3>2. req[r].at # "cut"
      BY <2>0 DEF StageOK, Tick, Alive
    <3> QED BY <2>0, <3>1, <3>2 DEF StageOK, Open, InFlight
  <2> QED BY <2>1, <2>2, <2>3
<1> QED BY <1>1, <1>2, <1>3

LEMMA NextIInv == IInv /\ [Next]_vars => IInv'
<1> SUFFICES ASSUME IInv, [Next]_vars PROVE IInv'
  OBVIOUS
<1>1. CASE UNCHANGED vars
  BY <1>1 DEF IInv, TypeOK, MainInv, StageOK, vars, Early, Alive, Positive, CallTime, Budget, RulesTime
<1> QED BY <1>1, ProcessIInv, SignalIInv, TickIInv, ConnectIInv, ArriveIInv, ServeIInv DEF Next

LEMMA BudgetInt == ASSUME TypeOK PROVE Budget \in Int
<1>1. cfg.limits.rulesTimeout \in Int /\ cfg.limits.requestTimeout \in Int
  BY DEF TypeOK, ConfigSpace, LimitNames
<1>2. \A x \in Nat, y \in Int : x * y \in Int
  OBVIOUS
<1>3. (1 + Overtakes) * cfg.limits.rulesTimeout \in Int
  <2>1. 1 + Overtakes \in Nat BY TimesAssumption
  <2> QED BY <1>1, <1>2, <2>1
<1>4. RulesTime \in Int
  BY <1>2, <1>3, TimesAssumption DEF RulesTime
<1> QED BY <1>1, <1>4, TimesAssumption DEF Budget

(* What the account says of the requests that are cut off or lost. *)
LEMMA Accounts == IInv => CutOnlyAfterGrace /\ ShortRequestsFinish /\ LostOnlyIfSlow
<1> SUFFICES ASSUME IInv PROVE CutOnlyAfterGrace /\ ShortRequestsFinish /\ LostOnlyIfSlow
  OBVIOUS
<1>1. CutOnlyAfterGrace
  BY TimesAssumption DEF IInv, TypeOK, RequestStates, StageOK, CutOnlyAfterGrace
<1>2. ASSUME signalled, NEW r \in Requests, req[r].at = "cut",
             req[r].header + req[r].client + Budget < Grace
      PROVE  FALSE
  <2>1. Grace <= req[r].header + req[r].age /\ req[r].age <= req[r].client + Budget
    BY <1>2 DEF IInv, StageOK
  <2>2. /\ Grace \in Int /\ Budget \in Int
        /\ req[r].age \in Int /\ req[r].header \in Int /\ req[r].client \in Int
    BY BudgetInt, TimesAssumption DEF IInv, TypeOK, RequestStates
  <2> QED BY <1>2, <2>1, <2>2
<1>3. ASSUME NEW r \in Requests, req[r].client + Budget < WriteTimeout, req[r].at = "lost"
      PROVE  FALSE
  <2>1. WriteTimeout <= req[r].age /\ req[r].age <= req[r].client + Budget
    BY <1>3 DEF IInv, StageOK
  <2>2. WriteTimeout \in Int /\ Budget \in Int /\ req[r].age \in Int /\ req[r].client \in Int
    BY BudgetInt, TimesAssumption DEF IInv, TypeOK, RequestStates
  <2> QED BY <1>3, <2>1, <2>2
<1> QED BY <1>1, <1>2, <1>3 DEF ShortRequestsFinish, LostOnlyIfSlow

(* The state of the process is well-typed, the shutdown keeps its grace period, and
   a server that listens has positive limits whatever config file it was given.  *)
THEOREM LifecycleTyped == Spec => []TypeOK
<1>1. IInv => TypeOK BY DEF IInv
<1> QED BY InitIInv, NextIInv, <1>1, PTL DEF Spec

(* Only a kill before signal.Notify, or a whole grace period that passed on the
   request's own connection, cuts off a request (main.go:63-77).               *)
THEOREM CutsAreLate == Spec => []CutOnlyAfterGrace
<1>1. IInv => CutOnlyAfterGrace BY Accounts
<1> QED BY InitIInv, NextIInv, <1>1, PTL DEF Spec

(* A shutdown cuts off no request whose client's time and the longest work of the
   gateway and the cluster together are below the grace period.                *)
THEOREM ShortOnesFinish == Spec => []ShortRequestsFinish
<1>1. IInv => ShortRequestsFinish BY Accounts
<1> QED BY InitIInv, NextIInv, <1>1, PTL DEF Spec

(* No answer is lost on the write deadline when its client's time and that work are
   below it.                                                                   *)
THEOREM LostAreSlow == Spec => []LostOnlyIfSlow
<1>1. IInv => LostOnlyIfSlow BY Accounts
<1> QED BY InitIInv, NextIInv, <1>1, PTL DEF Spec
=============================================================================
