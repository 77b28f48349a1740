-------------------------- MODULE RuleEngineProofs --------------------------
(* Proofs about RuleEngine, for any number of callers, any calls, any rule bases
   (also with rules that loop or raise), any timeout, and a mutex that lets a
   waiter be overtaken any number of times.                                   *)
EXTENDS RuleEngine, Integers, FiniteSetTheorems, TLAPS

(* Who holds Engine.mu: one caller, from the lock to the deferred unlock. *)
Holders ==
  /\ \A c \in Callers : c \in lock <=> pc[c] \in {"evaluating", "closing", "unlocking"}
  /\ \A c, d \in lock : c = d

(* A session is open from QueryContext to the deferred Close. *)
Sessions == \A c \in Callers : c \in sessions <=> pc[c] \in {"evaluating", "closing"}

(* Nobody who waits has waited longer than the holder has been in the call, but
   for a timeout each time it was overtaken.  Nobody evaluates for longer than
   it is in the call.                                                         *)
Ordered ==
  /\ \A c \in lock, d \in Callers :
        pc[d] = "waiting" => age[d] <= overtaken[d] * Timeout + age[c]
  /\ \A c \in sessions : ran <= age[c]

(* A goal belongs to the call: Validate asks for reasons of refused clauses only. *)
GoalFits(c) ==
  \/ call[c][1] = "normalize" /\ goal[c] = "field_alias"
  \/ call[c][1] = "known" /\ goal[c] = "known_field"
  \/ call[c][1] = "validate" /\ goal[c] = "valid_clause"
  \/ /\ call[c][1] = "validate" /\ goal[c] \in {"rejection_reason", "known_field"}
     /\ ~ValidClause(base, Field(c), Op(c))

Asking == \A c \in Callers : InFirst(c) => GoalFits(c)

(* What first found is true of the rule base, unless it is an error or the
   failure catch/3 makes of one.                                              *)
AnswerTrue(c) ==
  /\ answer[c] = "yes" => Proves(c)
  /\ answer[c] = "no" /\ goal[c] # "rejection_reason" => ~Proves(c)

Truthful ==
  \A c \in Callers :
     /\ pc[c] \in {"closing", "unlocking"} => answer[c] \in {"yes", "no", "error"}
     /\ InFirst(c) => AnswerTrue(c)

Unanswered ==
  \A c \in Callers : pc[c] \notin {"closing", "unlocking"} => answer[c] = "none"

EngineInv ==
  /\ TypeOK /\ Holders /\ Sessions /\ Unanswered
  /\ Ordered /\ BoundedCall /\ Asking /\ Truthful

-----------------------------------------------------------------------------
LEMMA CallParts ==
  ASSUME NEW k \in Calls
  PROVE  k # NoCall /\ k[1] \in Methods /\ k[2] \in Fields /\ k[3] \in Ops
BY CallsAssumption DEF NoCall

LEMMA BaseParts ==
  ASSUME NEW b \in Bases
  PROVE  b \in EngineBases
BY BasesAssumption

(* Timeouts added up. *)
LEMMA AgeTypes ==
  /\ LongestCall \in Nat /\ Timeout <= LongestCall
  /\ \A k \in 0 .. Overtakes :
        /\ k * Timeout \in Nat /\ (1 + k) * Timeout = k * Timeout + Timeout
        /\ (1 + k) * Timeout <= LongestCall
<1>1. ASSUME NEW t \in Nat, NEW m \in Nat, NEW k \in 0 .. m
      PROVE  /\ k * t \in Nat /\ (1 + k) * t = k * t + t
             /\ (1 + k) * t <= (1 + m) * t
  <2>1. k * t \in Nat /\ m * t \in Nat /\ k * t <= m * t
    OBVIOUS
  <2>2. (1 + k) * t = k * t + t /\ (1 + m) * t = m * t + t
    OBVIOUS
  <2> QED BY <2>1, <2>2
<1>2. 0 \in 0 .. Overtakes /\ 0 * Timeout = 0 /\ Overtakes \in 0 .. Overtakes
  BY OvertakesAssumption, TimeoutAssumption
<1>3. \A k \in 0 .. Overtakes :
        /\ k * Timeout \in Nat /\ (1 + k) * Timeout = k * Timeout + Timeout
        /\ (1 + k) * Timeout <= LongestCall
  BY <1>1, OvertakesAssumption, TimeoutAssumption DEF LongestCall
<1>4. LongestCall = Overtakes * Timeout + Timeout /\ Overtakes * Timeout \in Nat
  BY <1>2, <1>3 DEF LongestCall
<1> QED BY <1>3, <1>4, TimeoutAssumption

(* The types of the clocks. *)
LEMMA Clocks ==
  ASSUME TypeOK, NEW c \in Callers
  PROVE  /\ age[c] \in Nat /\ ran \in Nat /\ overtaken[c] \in 0 .. Overtakes
         /\ overtaken[c] * Timeout \in Nat
         /\ (1 + overtaken[c]) * Timeout = overtaken[c] * Timeout + Timeout
         /\ (1 + overtaken[c]) * Timeout <= LongestCall
BY AgeTypes, TimeoutAssumption DEF TypeOK

LEMMA EngineInit == Init => EngineInv
<1> SUFFICES ASSUME Init PROVE EngineInv
  OBVIOUS
<1>1. TypeOK
  BY AgeTypes, OvertakesAssumption, TimeoutAssumption DEF Init, TypeOK, Stages, Results, NoGoal
<1> QED BY <1>1 DEF Init, EngineInv, Holders, Sessions, Unanswered, Ordered, BoundedCall,
     Asking, Truthful, InFirst

(* A call that stands in first is one of Calls. *)
LEMMA InCall ==
  ASSUME EngineInv, NEW c \in Callers, pc[c] # "idle"
  PROVE  call[c] \in Calls
BY DEF EngineInv, TypeOK

(* A caller whose call, goal and answer stay is as right as it was. *)
LEMMA SameGoal ==
  ASSUME NEW c \in Callers, call'[c] = call[c], goal'[c] = goal[c], base' = base
  PROVE  /\ GoalFits(c)' <=> GoalFits(c)
         /\ Proves(c)' <=> Proves(c)
         /\ answer'[c] = answer[c] => (AnswerTrue(c)' <=> AnswerTrue(c))
<1>1. Field(c)' = Field(c) /\ Op(c)' = Op(c)
  BY DEF Field, Op
<1>2. Proves(c)' <=> Proves(c)
  BY <1>1 DEF Proves
<1>3. GoalFits(c)' <=> GoalFits(c)
  BY <1>1 DEF GoalFits
<1> QED BY <1>2, <1>3 DEF AnswerTrue

(* The part of the invariant that is about each caller by itself. *)
LEMMA OthersStay ==
  ASSUME EngineInv, base' = base,
         \A d \in Callers :
            \/ ~InFirst(d)'
            \/ /\ InFirst(d) /\ call'[d] = call[d] /\ goal'[d] = goal[d]
               /\ answer'[d] = answer[d]
               /\ pc'[d] \in {"closing", "unlocking"} => pc[d] \in {"closing", "unlocking"}
            \/ /\ GoalFits(d)' /\ AnswerTrue(d)'
               /\ pc'[d] \in {"closing", "unlocking"} => answer'[d] \in {"yes", "no", "error"}
  PROVE  Asking' /\ Truthful'
<1> SUFFICES ASSUME NEW d \in Callers
             PROVE  /\ InFirst(d)' => GoalFits(d)' /\ AnswerTrue(d)'
                    /\ pc'[d] \in {"closing", "unlocking"} => answer'[d] \in {"yes", "no", "error"}
  BY DEF Asking, Truthful
<1>1. CASE ~InFirst(d)'
  BY <1>1 DEF InFirst
<1>2. CASE /\ InFirst(d) /\ call'[d] = call[d] /\ goal'[d] = goal[d]
           /\ answer'[d] = answer[d]
           /\ pc'[d] \in {"closing", "unlocking"} => pc[d] \in {"closing", "unlocking"}
  <2>1. /\ GoalFits(d) /\ AnswerTrue(d)
        /\ pc[d] \in {"closing", "unlocking"} => answer[d] \in {"yes", "no", "error"}
    BY <1>2 DEF EngineInv, Asking, Truthful
  <2>2. GoalFits(d)' /\ AnswerTrue(d)'
    BY <1>2, <2>1, SameGoal
  <2> QED BY <1>2, <2>1, <2>2
<1> QED BY <1>1, <1>2

(* A step that moves no clock, or starts one, keeps the order of the waiters. *)
LEMMA ClocksKept ==
  ASSUME EngineInv, Holders', Sessions',
         \A d \in Callers : InFirst(d)' =>
            \/ /\ InFirst(d) /\ age'[d] = age[d] /\ overtaken'[d] = overtaken[d]
               /\ pc'[d] = "waiting" => pc[d] = "waiting"
            \/ pc'[d] = "waiting" /\ age'[d] = 0 /\ overtaken'[d] = 0,
         lock' \subseteq lock, lock' \subseteq Callers, sessions' \subseteq sessions,
         sessions' = {} \/ ran' = ran
  PROVE  Ordered' /\ BoundedCall'
<1>1. 0 * Timeout = 0 /\ (1 + 0) * Timeout = Timeout /\ Timeout \in Nat
  BY TimeoutAssumption
<1>2. ASSUME NEW d \in Callers, InFirst(d)' PROVE age'[d] <= (1 + overtaken'[d]) * Timeout
  <2>1. CASE InFirst(d) /\ age'[d] = age[d] /\ overtaken'[d] = overtaken[d]
    BY <2>1 DEF EngineInv, BoundedCall
  <2>2. CASE age'[d] = 0 /\ overtaken'[d] = 0
    BY <1>1, <2>2
  <2> QED BY <1>2, <2>1, <2>2
<1>3. \A c \in lock' : c \in Callers /\ InFirst(c)' /\ pc'[c] # "waiting"
  BY DEF Holders, InFirst
<1>4. \A c \in lock' : age'[c] = age[c] /\ age[c] \in Nat
  BY <1>3, Clocks DEF EngineInv
<1>5. ASSUME NEW c \in lock', NEW d \in Callers, pc'[d] = "waiting"
      PROVE  age'[d] <= overtaken'[d] * Timeout + age'[c]
  <2>1. CASE pc[d] = "waiting" /\ age'[d] = age[d] /\ overtaken'[d] = overtaken[d]
    BY <1>4, <1>5, <2>1 DEF EngineInv, Ordered
  <2>2. CASE age'[d] = 0 /\ overtaken'[d] = 0
    BY <1>1, <1>4, <2>2
  <2> QED BY <1>5, <2>1, <2>2 DEF InFirst
<1>6. ASSUME NEW c \in sessions' PROVE ran' <= age'[c]
  <2>1. c \in sessions /\ c \in Callers /\ ran' = ran /\ pc'[c] \in {"evaluating", "closing"}
    BY <1>6 DEF EngineInv, TypeOK, Sessions
  <2>2. age'[c] = age[c]
    BY <2>1 DEF InFirst
  <2> QED BY <2>1, <2>2 DEF EngineInv, Ordered
<1> QED BY <1>2, <1>5, <1>6 DEF Ordered, BoundedCall

-----------------------------------------------------------------------------
LEMMA EnterKeeps ==
  ASSUME EngineInv, NEW c \in Callers, Enter(c)
  PROVE  EngineInv'
<1>1. PICK k \in Calls : /\ call' = [call EXCEPT ![c] = k]
                         /\ goal' = [goal EXCEPT ![c] = FirstGoal(k[1])]
                         /\ age' = [age EXCEPT ![c] = 0]
                         /\ overtaken' = [overtaken EXCEPT ![c] = 0]
                         /\ pc' = [pc EXCEPT ![c] = "waiting"]
                         /\ pc[c] = "idle"
                         /\ UNCHANGED <<base, gone, answer, result, lock, sessions, ran>>
  BY DEF Enter, First
<1>2. /\ k # NoCall /\ k[1] \in Methods
      /\ FirstGoal(k[1]) \in Predicates
      /\ \/ k[1] = "normalize" /\ FirstGoal(k[1]) = "field_alias"
         \/ k[1] = "known" /\ FirstGoal(k[1]) = "known_field"
         \/ k[1] = "validate" /\ FirstGoal(k[1]) = "valid_clause"
  BY CallParts DEF Methods, FirstGoal, Predicates
<1>3. TypeOK'
  BY <1>1, <1>2, AgeTypes, OvertakesAssumption DEF EngineInv, TypeOK, Stages, Predicates, NoGoal
<1>4. Holders' /\ Sessions' /\ Unanswered'
  BY <1>1 DEF EngineInv, TypeOK, Holders, Sessions, Unanswered
<1>5. Ordered' /\ BoundedCall'
  BY <1>1, <1>4, ClocksKept DEF EngineInv, TypeOK, InFirst
<1>6. Asking' /\ Truthful'
  <2>1. GoalFits(c)' /\ AnswerTrue(c)'
    BY <1>1, <1>2 DEF EngineInv, TypeOK, Unanswered, GoalFits, AnswerTrue
  <2>2. \A d \in Callers : d # c /\ InFirst(d)' =>
           /\ InFirst(d) /\ call'[d] = call[d] /\ goal'[d] = goal[d]
           /\ answer'[d] = answer[d] /\ pc'[d] = pc[d]
    BY <1>1 DEF EngineInv, TypeOK, InFirst
  <2>3. pc'[c] = "waiting"
    BY <1>1 DEF EngineInv, TypeOK
  <2> QED BY <1>1, <2>1, <2>2, <2>3, OthersStay
<1> QED BY <1>3, <1>4, <1>5, <1>6 DEF EngineInv

LEMMA AcquireKeeps ==
  ASSUME EngineInv, NEW c \in Callers, Acquire(c)
  PROVE  EngineInv'
<1>0. /\ \A d \in Elders(c) : overtaken[d] < Overtakes
      /\ \A d \in Callers : overtaken'[d] = IF d \in Elders(c) THEN overtaken[d] + 1
                                             ELSE overtaken[d]
      /\ DOMAIN overtaken' = Callers
      /\ lock' = {c} /\ sessions' = sessions \cup {c} /\ ran' = 0 /\ age' = age
      /\ pc' = [pc EXCEPT ![c] = "evaluating"] /\ pc[c] = "waiting" /\ lock = {}
  BY DEF Acquire
<1>1. TypeOK'
  <2>1. overtaken' \in [Callers -> 0 .. Overtakes]
    BY <1>0, OvertakesAssumption DEF EngineInv, TypeOK, Acquire, Elders
  <2> QED BY <2>1, TimeoutAssumption DEF EngineInv, TypeOK, Acquire, Stages
<1>2. Holders' /\ Sessions' /\ Unanswered'
  BY DEF EngineInv, TypeOK, Holders, Sessions, Unanswered, Acquire
<1>3. Ordered' /\ BoundedCall'
  <2>1. c \notin Elders(c) /\ age[c] \in Nat /\ overtaken'[c] = overtaken[c]
    BY <1>0, Clocks DEF EngineInv, Elders
  <2>2. ASSUME NEW d \in Callers, InFirst(d)
        PROVE  /\ age[d] <= (1 + overtaken'[d]) * Timeout
               /\ pc[d] = "waiting" => age[d] <= overtaken'[d] * Timeout + age[c]
    <3>1. /\ age[d] <= overtaken[d] * Timeout + Timeout
          /\ overtaken[d] * Timeout \in Nat /\ age[d] \in Nat /\ Timeout \in Nat
      BY <2>2, Clocks, TimeoutAssumption DEF EngineInv, BoundedCall
    <3>2. CASE d \in Elders(c)
      <4>1. overtaken'[d] = overtaken[d] + 1
        BY <1>0, <3>2
      <4>2. overtaken'[d] * Timeout = overtaken[d] * Timeout + Timeout
        BY <4>1, Clocks, TimeoutAssumption DEF EngineInv
      <4>3. (1 + overtaken'[d]) * Timeout = overtaken'[d] * Timeout + Timeout
        BY <4>1, Clocks, TimeoutAssumption DEF EngineInv
      <4> QED BY <2>1, <3>1, <4>2, <4>3
    <3>3. CASE d \notin Elders(c)
      <4>1. overtaken'[d] = overtaken[d] /\ (pc[d] = "waiting" => age[d] <= age[c])
        BY <1>0, <2>1, <3>1, <3>3 DEF Elders
      <4> QED BY <2>1, <3>1, <4>1, <2>2, Clocks DEF EngineInv
    <3> QED BY <3>2, <3>3
  <2>3. \A d \in Callers : /\ InFirst(d)' => InFirst(d)
                           /\ pc'[d] = "waiting" => pc[d] = "waiting" /\ InFirst(d)
    BY <1>0 DEF EngineInv, TypeOK, InFirst
  <2>4. BoundedCall'
    BY <1>0, <2>2, <2>3 DEF BoundedCall
  <2>5. sessions' = {c}
    BY <1>0 DEF EngineInv, TypeOK, Holders, Sessions
  <2>6. Ordered'
    BY <1>0, <2>1, <2>2, <2>3, <2>5 DEF Ordered
  <2> QED BY <2>4, <2>6
<1>4. Asking' /\ Truthful'
  <2>1. \A d \in Callers : InFirst(d)' =>
           /\ InFirst(d) /\ call'[d] = call[d] /\ goal'[d] = goal[d] /\ answer'[d] = answer[d]
           /\ pc'[d] \in {"closing", "unlocking"} => pc[d] \in {"closing", "unlocking"}
    BY DEF EngineInv, TypeOK, InFirst, Acquire
  <2> QED BY <2>1, OthersStay DEF Acquire
<1> QED BY <1>1, <1>2, <1>3, <1>4 DEF EngineInv

LEMMA EndKeeps ==
  ASSUME EngineInv, NEW c \in Callers, pc[c] = "evaluating",
         NEW a \in {"yes", "no", "error"}, EndEvaluation(c, a),
         a = "yes" => Proves(c),
         a = "no" /\ goal[c] # "rejection_reason" => ~Proves(c)
  PROVE  EngineInv'
<1>1. TypeOK'
  BY DEF EngineInv, TypeOK, EndEvaluation, Stages
<1>2. Holders' /\ Sessions' /\ Unanswered'
  BY DEF EngineInv, TypeOK, Holders, Sessions, Unanswered, EndEvaluation
<1>3. Ordered' /\ BoundedCall'
  BY <1>2, ClocksKept DEF EngineInv, TypeOK, InFirst, EndEvaluation
<1>4. Asking' /\ Truthful'
  <2>1. call' = call /\ goal' = goal /\ base' = base /\ answer'[c] = a
    BY DEF EngineInv, TypeOK, EndEvaluation
  <2>2. GoalFits(c)
    BY DEF EngineInv, Asking, InFirst
  <2>3. GoalFits(c)' /\ (Proves(c)' <=> Proves(c))
    BY <2>1, <2>2, SameGoal
  <2>4. AnswerTrue(c)'
    BY <2>1, <2>3 DEF AnswerTrue
  <2>5. \A d \in Callers : d # c /\ InFirst(d)' =>
           InFirst(d) /\ answer'[d] = answer[d] /\ pc'[d] = pc[d]
    BY DEF EngineInv, TypeOK, InFirst, EndEvaluation
  <2> QED BY <2>1, <2>3, <2>4, <2>5, OthersStay
<1> QED BY <1>1, <1>2, <1>3, <1>4 DEF EngineInv

LEMMA EvaluationKeeps ==
  ASSUME EngineInv, NEW c \in Callers, Solve(c) \/ Refute(c) \/ Raise(c) \/ CutOff(c)
  PROVE  EngineInv'
<1>1. CASE Solve(c)
  BY <1>1, EndKeeps DEF Solve
<1>2. CASE Refute(c)
  BY <1>2, EndKeeps DEF Refute, AfterNoSolution
<1>3. CASE Raise(c)
  BY <1>3, EndKeeps DEF Raise, AfterNoSolution
<1>4. CASE CutOff(c)
  BY <1>4, EndKeeps DEF CutOff, AfterNoSolution
<1> QED BY <1>1, <1>2, <1>3, <1>4

LEMMA CloseKeeps ==
  ASSUME EngineInv, NEW c \in Callers, CloseSolutions(c)
  PROVE  EngineInv'
<1>1. TypeOK'
  BY TimeoutAssumption DEF EngineInv, TypeOK, CloseSolutions, Stages
<1>2. Holders' /\ Sessions' /\ Unanswered'
  BY DEF EngineInv, TypeOK, Holders, Sessions, Unanswered, CloseSolutions
<1>3. Ordered' /\ BoundedCall'
  <2>1. sessions' = {}
    BY DEF EngineInv, TypeOK, Holders, Sessions, CloseSolutions
  <2> QED BY <1>2, <2>1, ClocksKept DEF EngineInv, TypeOK, InFirst, CloseSolutions
<1>4. Asking' /\ Truthful'
  <2>1. \A d \in Callers : InFirst(d)' =>
           /\ InFirst(d) /\ call'[d] = call[d] /\ goal'[d] = goal[d] /\ answer'[d] = answer[d]
           /\ pc'[d] \in {"closing", "unlocking"} => pc[d] \in {"closing", "unlocking"}
    BY DEF EngineInv, TypeOK, InFirst, CloseSolutions
  <2> QED BY <2>1, OthersStay DEF CloseSolutions
<1> QED BY <1>1, <1>2, <1>3, <1>4 DEF EngineInv

-----------------------------------------------------------------------------
(* What the API methods do with an answer: they return, or ask the next goal. *)

LEMMA ReturnKeeps ==
  ASSUME EngineInv, NEW c \in Callers, Unlock(c),
         NEW r \in Results \ {"none"}, Return(c, r)
  PROVE  EngineInv'
<1>1. TypeOK'
  BY AgeTypes DEF EngineInv, TypeOK, Unlock, Return, Stages
<1>2. Holders' /\ Sessions' /\ Unanswered'
  BY DEF EngineInv, TypeOK, Holders, Sessions, Unanswered, Unlock, Return
<1>3. Ordered' /\ BoundedCall'
  BY <1>2, ClocksKept DEF EngineInv, TypeOK, InFirst, Unlock, Return
<1>4. Asking' /\ Truthful'
  <2>1. \A d \in Callers : InFirst(d)' =>
           /\ InFirst(d) /\ call'[d] = call[d] /\ goal'[d] = goal[d] /\ answer'[d] = answer[d]
           /\ pc'[d] = pc[d]
    BY DEF EngineInv, TypeOK, InFirst, Unlock, Return
  <2> QED BY <2>1, OthersStay DEF Return
<1> QED BY <1>1, <1>2, <1>3, <1>4 DEF EngineInv

LEMMA AskNextKeeps ==
  ASSUME EngineInv, NEW c \in Callers, Unlock(c),
         NEW g \in {"rejection_reason", "known_field"}, AskNext(c, g),
         call[c][1] = "validate", ~ValidClause(base, Field(c), Op(c))
  PROVE  EngineInv'
<1>0. /\ pc[c] = "unlocking" /\ lock' = lock \ {c}
      /\ goal' = [goal EXCEPT ![c] = g] /\ age' = [age EXCEPT ![c] = 0]
      /\ overtaken' = [overtaken EXCEPT ![c] = 0]
      /\ pc' = [pc EXCEPT ![c] = "waiting"] /\ answer' = [answer EXCEPT ![c] = "none"]
      /\ UNCHANGED <<base, call, gone, result, sessions, ran>>
  BY DEF AskNext, First, Unlock
<1>1. TypeOK'
  BY <1>0, AgeTypes, OvertakesAssumption DEF EngineInv, TypeOK, Stages, Predicates, NoGoal
<1>2. Holders' /\ Sessions' /\ Unanswered'
  BY <1>0 DEF EngineInv, TypeOK, Holders, Sessions, Unanswered
<1>3. Ordered' /\ BoundedCall'
  BY <1>0, <1>2, ClocksKept DEF EngineInv, TypeOK, InFirst
<1>4. Asking' /\ Truthful'
  <2>1. Field(c)' = Field(c) /\ Op(c)' = Op(c) /\ goal'[c] = g /\ answer'[c] = "none"
    BY <1>0 DEF EngineInv, TypeOK, Field, Op
  <2>2. GoalFits(c)' /\ AnswerTrue(c)' /\ pc'[c] = "waiting"
    BY <1>0, <2>1 DEF EngineInv, TypeOK, GoalFits, AnswerTrue
  <2>3. \A d \in Callers : d # c /\ InFirst(d)' =>
           /\ InFirst(d) /\ call'[d] = call[d] /\ goal'[d] = goal[d] /\ answer'[d] = answer[d]
           /\ pc'[d] = pc[d]
    BY <1>0 DEF EngineInv, TypeOK, InFirst
  <2> QED BY <1>0, <2>2, <2>3, OthersStay
<1> QED BY <1>1, <1>2, <1>3, <1>4 DEF EngineInv

(* What a caller about to unlock knows. *)
LEMMA AtUnlock ==
  ASSUME EngineInv, NEW c \in Callers, Unlock(c)
  PROVE  /\ answer[c] \in {"yes", "no", "error"} /\ AnswerTrue(c) /\ GoalFits(c)
         /\ pc[c] = "unlocking" /\ call[c] \in Calls
BY InCall DEF Unlock, EngineInv, Truthful, Asking, InFirst

LEMMA ReasonIsResult ==
  ASSUME NEW b, NEW f, NEW op
  PROVE  RejectionReason(b, f, op) \in {"nested", "unknown", "needs_range", "none"}
BY DEF RejectionReason

LEMMA NormalizeKeeps ==
  ASSUME EngineInv, NEW c \in Callers, NormalizeField(c)
  PROVE  EngineInv'
<1>1. PICK r \in {"error", "raw", "canonical"} : Return(c, r)
  BY AtUnlock DEF NormalizeField
<1> QED BY <1>1, ReturnKeeps DEF NormalizeField, Results

LEMMA KnownKeeps ==
  ASSUME EngineInv, NEW c \in Callers, KnownField(c)
  PROVE  EngineInv'
BY AtUnlock, ReturnKeeps DEF KnownField, Results

LEMMA ValidateKeeps ==
  ASSUME EngineInv, NEW c \in Callers,
         ValidateClause(c) \/ ValidateReason(c) \/ ValidateKnown(c)
  PROVE  EngineInv'
<1>1. ASSUME NEW r \in Results \ {"none"}, Unlock(c), Return(c, r) PROVE EngineInv'
  BY <1>1, ReturnKeeps
<1>2. CASE ValidateClause(c)
  <2>1. CASE answer[c] = "no" /\ AskNext(c, "rejection_reason")
    <3>1. ~ValidClause(base, Field(c), Op(c))
      BY <1>2, <2>1, AtUnlock DEF ValidateClause, AnswerTrue, Proves
    <3> QED BY <1>2, <2>1, <3>1, AskNextKeeps DEF ValidateClause
  <2>2. CASE Return(c, "error") \/ Return(c, "accept")
    BY <1>1, <1>2, <2>2 DEF ValidateClause, Results
  <2> QED BY <1>2, <2>1, <2>2 DEF ValidateClause
<1>3. CASE ValidateReason(c)
  <2>1. CASE answer[c] # "yes" /\ AskNext(c, "known_field")
    <3>1. ~ValidClause(base, Field(c), Op(c))
      BY <1>3, AtUnlock DEF ValidateReason, GoalFits
    <3> QED BY <1>3, <2>1, <3>1, AskNextKeeps DEF ValidateReason
  <2>2. CASE answer[c] = "yes" /\ Return(c, RejectionReason(base, Field(c), Op(c)))
    <3>1. RejectionReason(base, Field(c), Op(c)) # "none"
      BY <1>3, <2>2, AtUnlock DEF ValidateReason, AnswerTrue, Proves
    <3> QED BY <1>1, <1>3, <2>2, <3>1, ReasonIsResult DEF ValidateReason, Results
  <2> QED BY <1>3, <2>1, <2>2 DEF ValidateReason
<1>4. CASE ValidateKnown(c)
  <2>1. PICK r \in {"error", "unknown", "operation"} : Return(c, r)
    BY <1>4, AtUnlock DEF ValidateKnown
  <2> QED BY <1>1, <1>4, <2>1 DEF ValidateKnown, Results
<1> QED BY <1>2, <1>3, <1>4

LEMMA LeaveKeeps ==
  ASSUME EngineInv, NEW c \in Callers, Leave(c) \/ Disconnect(c)
  PROVE  EngineInv'
<1>1. TypeOK'
  <2>1. CASE Leave(c)
    BY <2>1, InCall, OvertakesAssumption DEF EngineInv, TypeOK, Leave, Stages, Results
  <2>2. CASE Disconnect(c)
    BY <2>2, InCall DEF EngineInv, TypeOK, Disconnect, Stages, Results
  <2> QED BY <2>1, <2>2
<1>2. Holders' /\ Sessions' /\ Unanswered'
  BY DEF EngineInv, TypeOK, Holders, Sessions, Unanswered, Leave, Disconnect
<1>3. Ordered' /\ BoundedCall'
  BY <1>2, ClocksKept DEF EngineInv, TypeOK, InFirst, Leave, Disconnect
<1>4. Asking' /\ Truthful'
  <2>1. \A d \in Callers : InFirst(d)' =>
           /\ InFirst(d) /\ call'[d] = call[d] /\ goal'[d] = goal[d] /\ answer'[d] = answer[d]
           /\ pc'[d] = pc[d]
    BY DEF EngineInv, TypeOK, InFirst, Leave, Disconnect
  <2> QED BY <2>1, OthersStay DEF Leave, Disconnect
<1> QED BY <1>1, <1>2, <1>3, <1>4 DEF EngineInv

(* The clock moves only while the holder evaluates and has time left; those who
   wait have waited no longer.                                                *)
LEMMA HolderWorks ==
  ASSUME EngineInv, Tick
  PROVE  lock # {} /\ \A h \in lock : pc[h] = "evaluating"
<1>1. \A h \in lock : pc[h] = "evaluating"
  BY DEF EngineInv, TypeOK, Holders, Tick, Urgent
<1>2. PICK c \in Callers : InFirst(c)
  BY DEF Tick
<1>3. CASE pc[c] = "waiting"
  BY <1>1, <1>2, <1>3 DEF Tick, Urgent
<1>4. CASE pc[c] # "waiting"
  BY <1>1, <1>2, <1>4 DEF InFirst, EngineInv, Holders
<1> QED BY <1>1, <1>3, <1>4

LEMMA InTime ==
  ASSUME EngineInv, Tick, NEW c \in Callers, InFirst(c)
  PROVE  /\ age[c] < (1 + overtaken[c]) * Timeout
         /\ c \in lock => age[c] < Timeout
<1>1. ASSUME NEW h \in lock PROVE age[h] < Timeout /\ h \in Callers
  BY <1>1, HolderWorks, TimeoutAssumption, Clocks DEF EngineInv, TypeOK, Tick, Urgent, CtxDone
<1>2. PICK h \in lock : TRUE
  BY HolderWorks
<1>3. /\ age[c] \in Nat /\ age[h] \in Nat /\ overtaken[c] * Timeout \in Nat /\ Timeout \in Nat
      /\ (1 + overtaken[c]) * Timeout = overtaken[c] * Timeout + Timeout
  BY <1>1, Clocks, TimeoutAssumption DEF EngineInv
<1>4. CASE pc[c] = "waiting"
  <2>1. age[c] <= overtaken[c] * Timeout + age[h]
    BY <1>4 DEF EngineInv, Ordered
  <2>2. c \notin lock
    BY <1>4 DEF EngineInv, Holders
  <2> QED BY <1>1, <1>3, <2>1, <2>2
<1>5. CASE pc[c] # "waiting"
  <2>1. c \in lock
    BY <1>5 DEF InFirst, EngineInv, Holders
  <2> QED BY <1>1, <1>3, <2>1
<1> QED BY <1>4, <1>5

(* No clock is saturated: it counts on. *)
LEMMA TickAges ==
  ASSUME EngineInv, Tick, NEW c \in Callers, InFirst(c)
  PROVE  /\ age[c] \in Nat /\ age'[c] = age[c] + 1
         /\ age'[c] <= (1 + overtaken[c]) * Timeout
<1> DEFINE bound == (1 + overtaken[c]) * Timeout
<1>1. age[c] \in Nat /\ bound \in Nat /\ bound <= LongestCall /\ age[c] < bound
  BY Clocks, InTime, TimeoutAssumption DEF EngineInv
<1>2. age'[c] = Saturated(age[c], LongestCall)
  BY DEF Tick
<1> HIDE DEF bound
<1>3. age'[c] = age[c] + 1
  BY <1>1, <1>2, AgeTypes DEF Saturated
<1> QED BY <1>1, <1>3 DEF bound

LEMMA TickKeeps ==
  ASSUME EngineInv, Tick
  PROVE  EngineInv'
<1>1. \A c \in Callers : InFirst(c) =>
        /\ age[c] \in Nat /\ age'[c] = age[c] + 1
        /\ age'[c] <= (1 + overtaken[c]) * Timeout
  BY TickAges
<1>2. sessions # {} => ran < Timeout
  BY InTime, Clocks, TimeoutAssumption DEF EngineInv, TypeOK, Sessions, Ordered, InFirst, Holders
<1>3. TypeOK'
  <2>1. age' \in [Callers -> 0 .. LongestCall + 1]
    BY AgeTypes DEF EngineInv, TypeOK, Tick, Saturated
  <2> QED BY <2>1, TimeoutAssumption DEF EngineInv, TypeOK, Tick, Saturated
<1>4. Holders' /\ Sessions' /\ Unanswered'
  BY DEF EngineInv, TypeOK, Holders, Sessions, Unanswered, Tick
<1>5. BoundedCall'
  BY <1>1 DEF BoundedCall, InFirst, Tick
<1>6. Ordered'
  <2>1. ASSUME NEW c \in lock, NEW d \in Callers, pc[d] = "waiting"
        PROVE  age'[d] <= overtaken[d] * Timeout + age'[c]
    <3>1. InFirst(c) /\ InFirst(d) /\ c \in Callers /\ age[d] <= overtaken[d] * Timeout + age[c]
      BY <2>1 DEF EngineInv, TypeOK, Holders, Ordered, InFirst
    <3>2. overtaken[d] * Timeout \in Nat
      BY Clocks DEF EngineInv
    <3> QED BY <1>1, <3>1, <3>2
  <2>2. ASSUME NEW c \in sessions PROVE ran' <= age'[c]
    <3>1. InFirst(c) /\ c \in Callers /\ ran <= age[c] /\ ran \in Nat
      BY <2>2, Clocks DEF EngineInv, TypeOK, Sessions, Ordered, InFirst
    <3>2. ran' = ran + 1
      BY <1>2, <2>2, <3>1, TimeoutAssumption DEF Tick, Saturated
    <3> QED BY <1>1, <3>1, <3>2
  <2> QED BY <2>1, <2>2 DEF Ordered, Tick
<1>7. Asking' /\ Truthful'
  <2>1. \A d \in Callers : InFirst(d)' =>
           /\ InFirst(d) /\ call'[d] = call[d] /\ goal'[d] = goal[d] /\ answer'[d] = answer[d]
           /\ pc'[d] = pc[d]
    BY DEF InFirst, Tick
  <2> QED BY <2>1, OthersStay DEF Tick
<1> QED BY <1>3, <1>4, <1>5, <1>6, <1>7 DEF EngineInv

LEMMA EngineNext ==
  ASSUME EngineInv, [Next]_engineVars
  PROVE  EngineInv'
<1>1. CASE UNCHANGED engineVars
  <2>1. Asking' /\ Truthful'
    BY <1>1, OthersStay DEF engineVars, InFirst
  <2>2. TypeOK' /\ Holders' /\ Sessions' /\ Unanswered'
    BY <1>1 DEF engineVars, EngineInv, TypeOK, Holders, Sessions, Unanswered
  <2>3. Ordered' /\ BoundedCall'
    BY <1>1 DEF engineVars, EngineInv, Ordered, BoundedCall, InFirst
  <2> QED BY <2>1, <2>2, <2>3 DEF EngineInv
<1>2. ASSUME NEW c \in Callers, Enter(c) \/ Disconnect(c) \/ EngineStep(c) \/ Leave(c)
      PROVE  EngineInv'
  BY <1>2, EnterKeeps, AcquireKeeps, EvaluationKeeps, CloseKeeps, NormalizeKeeps, KnownKeeps,
     ValidateKeeps, LeaveKeeps DEF EngineStep
<1> QED BY <1>1, <1>2, TickKeeps DEF Next

(* The invariant from which the theorems below follow. *)
THEOREM EngineInvariant == Spec => []EngineInv
<1>1. EngineInv /\ [Next]_engineVars => EngineInv'
  BY EngineNext
<1> QED BY EngineInit, <1>1, PTL DEF Spec

(* Queries of the interpreter never overlap: Engine.first opens and closes its
   solutions inside the critical section.                                     *)
THEOREM QueriesAreSerial == Spec => []OneSession
<1>1. EngineInv => OneSession
  BY DEF EngineInv, TypeOK, Holders, Sessions, OneSession
<1> QED BY EngineInvariant, <1>1, PTL

(* A goal is answered within rules.timeout of the moment it was asked, and one
   more for each time it was overtaken at the mutex, with any number of callers
   and whatever the rules do.                                                 *)
THEOREM CallsAreBounded == Spec => []BoundedCall
<1>1. EngineInv => BoundedCall
  BY DEF EngineInv
<1> QED BY EngineInvariant, <1>1, PTL

(* The variables of the engine stay in their types. *)
THEOREM EngineTyped == Spec => []TypeOK
<1>1. EngineInv => TypeOK
  BY DEF EngineInv
<1> QED BY EngineInvariant, <1>1, PTL

-----------------------------------------------------------------------------
(* Load alone fails nobody.  Let no evaluation take longer than a share s.  A
   caller's patience is what it has waited, plus a share for each waiter it may
   still be served after (or as), plus what the running evaluation has left: a
   share for each caller, and one for each time it was overtaken.             *)
N == Cardinality(Callers)

Enough(s) == \A g \in Goals : base.cost[g] <= s

Ahead(c) == {d \in Callers : pc[d] = "waiting" /\ age[d] >= age[c]}

Left(s) == IF sessions = {} THEN 0 ELSE s - ran

Shares(s, c) == s * (N + overtaken[c])

Patience(s) ==
  /\ sessions # {} => ran <= s
  /\ \A c \in Callers :
        pc[c] = "waiting" => age[c] + s * Cardinality(Ahead(c)) + Left(s) <= Shares(s, c)
  /\ \A c \in lock : age[c] + Left(s) <= Shares(s, c)

(* So an error is the client's or the rule's doing. *)
Raises(c) == goal[c] # "rejection_reason" /\ TheGoal(c) \in base.raises

Fits(c) == Quick(N + overtaken[c])

Blamed(c) ==
  /\ answer[c] = "error" /\ Fits(c) => gone[c] \/ Raises(c)
  /\ result[c] = "error" /\ Fits(c) => gone[c] \/ Asks(call[c]) \cap base.raises # {}

LoadInv ==
  /\ \A s \in Nat : Enough(s) => Patience(s)
  /\ \A c \in Callers : Blamed(c)

LEMMA CostIsNat ==
  ASSUME TypeOK, NEW g \in Goals
  PROVE  base.cost[g] \in Nat
BY BaseParts DEF TypeOK, EngineBases

(* Shares are numbers; there is one for each caller at least. *)
LEMMA ShareTypes ==
  ASSUME TypeOK, NEW s \in Nat, NEW c \in Callers
  PROVE  /\ N \in Nat \ {0} /\ overtaken[c] \in Nat
         /\ s * N \in Nat /\ Shares(s, c) \in Nat /\ s * N <= Shares(s, c)
<1>1. N \in Nat /\ N # 0
  BY CallersAssumption, FS_CardinalityType, FS_EmptySet DEF N
<1>2. overtaken[c] \in Nat
  BY OvertakesAssumption DEF TypeOK
<1>3. \A n, k \in Nat : s * n \in Nat /\ s * (n + k) \in Nat /\ s * n <= s * (n + k)
  OBVIOUS
<1> QED BY <1>1, <1>2, <1>3 DEF Shares

(* When the evaluations fit in the timeout, there is a share that does too. *)
LEMMA FittingShare ==
  ASSUME TypeOK, NEW c \in Callers, Fits(c)
  PROVE  \E s \in Nat : Enough(s) /\ Shares(s, c) < Timeout
<1> DEFINE n == N + overtaken[c]
           s == (Timeout - 1) \div n
<1>1. n \in Nat \ {0}
  <2>1. 0 \in Nat
    OBVIOUS
  <2>2. N \in Nat \ {0} /\ overtaken[c] \in Nat
    BY <2>1, ShareTypes
  <2> HIDE DEF N
  <2> QED BY <2>2
<1>2. Timeout - 1 \in Nat
  BY TimeoutAssumption
<1>3. \A m \in Nat, k \in Nat \ {0} :
         /\ m \div k \in Nat /\ (m \div k) * k \in Nat /\ (m \div k) * k <= m
         /\ \A i \in Nat : i * k <= m => i <= m \div k
  OBVIOUS
<1>4. s \in Nat /\ s * n \in Nat /\ s * n <= Timeout - 1
  <2> HIDE DEF n
  <2> QED BY <1>1, <1>2, <1>3
<1>5. ASSUME NEW g \in Goals PROVE base.cost[g] <= s
  <2>1. base.cost[g] \in Nat /\ base.cost[g] * n < Timeout
    BY CostIsNat DEF Fits, Quick
  <2> HIDE DEF n
  <2>2. base.cost[g] * n <= Timeout - 1
    <3>1. base.cost[g] * n \in Nat
      BY <1>1, <2>1
    <3> QED BY <2>1, <3>1, TimeoutAssumption
  <2> QED BY <1>1, <1>2, <1>3, <2>1, <2>2
<1>6. Enough(s)
  BY <1>5 DEF Enough
<1>7. Shares(s, c) < Timeout
  <2>1. Shares(s, c) = s * n
    BY DEF Shares
  <2> HIDE DEF s, n
  <2> QED BY <1>4, <2>1, TimeoutAssumption
<1> QED BY <1>4, <1>6, <1>7

(* The sets of waiters are finite and no larger than the set of callers. *)
LEMMA AheadCounted ==
  ASSUME NEW c
  PROVE  /\ IsFiniteSet(Ahead(c)) /\ Cardinality(Ahead(c)) \in Nat
         /\ Cardinality(Ahead(c)) <= N
<1>1. Ahead(c) \in SUBSET Callers
  BY DEF Ahead
<1> QED BY <1>1, CallersAssumption, FS_Subset, FS_CardinalityType DEF N

(* Who is inside first asks a goal of the rule base. *)
LEMMA HasGoal ==
  ASSUME EngineInv, NEW c \in Callers, InFirst(c)
  PROVE  TheGoal(c) \in Goals
<1>1. call[c] \in Calls
  BY InCall DEF InFirst
<1>2. Field(c) \in Fields
  BY <1>1, CallParts DEF Field
<1>3. goal[c] \in Predicates
  BY DEF EngineInv, TypeOK, InFirst
<1> QED BY <1>2, <1>3 DEF TheGoal, Goals

(* A bound on a number of shares, one share at a time. *)
LEMMA Scaling ==
  ASSUME NEW s \in Nat, NEW k \in Nat, NEW m \in Nat
  PROVE  /\ s * k \in Nat /\ s * m \in Nat
         /\ k <= m => s * k <= s * m
         /\ k < m => s * k + s <= s * m
<1>1. s * k \in Nat /\ s * m \in Nat /\ (k <= m => s * k <= s * m)
  OBVIOUS
<1>2. s * (k + 1) = s * k + s
  OBVIOUS
<1>3. k + 1 <= m => s * (k + 1) <= s * m
  OBVIOUS
<1> QED BY <1>1, <1>2, <1>3

LEMMA LoadInit == Init => LoadInv
<1> SUFFICES ASSUME Init, NEW s \in Nat PROVE Patience(s) /\ \A c \in Callers : Blamed(c)
  BY DEF LoadInv
<1> QED BY DEF Init, Patience, Blamed

(* The types of what Patience adds up. *)
LEMMA PatienceTypes ==
  ASSUME EngineInv, NEW s \in Nat, Patience(s), NEW c \in Callers
  PROVE  /\ age[c] \in Nat /\ ran \in Nat /\ s * N \in Nat
         /\ Shares(s, c) \in Nat /\ s * N <= Shares(s, c)
         /\ Left(s) \in Nat /\ Left(s) <= s
<1>1. age[c] \in Nat /\ ran \in Nat
  BY Clocks DEF EngineInv
<1>2. s * N \in Nat /\ Shares(s, c) \in Nat /\ s * N <= Shares(s, c)
  BY ShareTypes DEF EngineInv
<1>3. sessions # {} => ran <= s
  BY DEF Patience
<1> QED BY <1>1, <1>2, <1>3 DEF Left

(* A step that moves no waiter and no clock keeps everyone's patience. *)
LEMMA NobodyMoves ==
  ASSUME EngineInv, NEW s \in Nat, Patience(s),
         \A d \in Callers : (pc'[d] = "waiting") <=> (pc[d] = "waiting"),
         \A d \in Callers : pc[d] = "waiting" \/ d \in lock' =>
            age'[d] = age[d] /\ overtaken'[d] = overtaken[d],
         lock' \subseteq lock,
         sessions' = {} \/ (sessions' = sessions /\ ran' = ran)
  PROVE  Patience(s)'
<1>1. \A d \in Callers : pc[d] = "waiting" => Ahead(d)' = Ahead(d)
  BY DEF Ahead
<1>2. \A d \in Callers : pc[d] = "waiting" \/ d \in lock' => Shares(s, d)' = Shares(s, d)
  BY DEF Shares, N
<1>3. \A d \in Callers : Left(s)' \in Nat /\ Left(s)' <= Left(s)
  BY PatienceTypes DEF Left
<1>4. ASSUME NEW d \in Callers, pc[d] = "waiting"
      PROVE  age'[d] + s * Cardinality(Ahead(d)') + Left(s)' <= Shares(s, d)
  <2>1. age[d] + s * Cardinality(Ahead(d)) + Left(s) <= Shares(s, d)
    BY <1>4 DEF Patience
  <2>2. Cardinality(Ahead(d)) \in Nat /\ s * Cardinality(Ahead(d)) \in Nat
    BY AheadCounted, Scaling
  <2>3. age'[d] = age[d] /\ Ahead(d)' = Ahead(d)
    BY <1>1, <1>4
  <2> HIDE DEF Left, Shares, Ahead, N
  <2> QED BY <1>3, <2>1, <2>2, <2>3, PatienceTypes
<1>5. ASSUME NEW d \in lock' PROVE age'[d] + Left(s)' <= Shares(s, d)'
  <2>1. d \in Callers /\ age[d] + Left(s) <= Shares(s, d)
    BY <1>5 DEF Patience, EngineInv, TypeOK
  <2>2. age'[d] = age[d] /\ Shares(s, d)' = Shares(s, d)
    BY <1>2, <1>5, <2>1
  <2> QED BY <1>3, <2>1, <2>2, PatienceTypes
<1>6. sessions' # {} => ran' <= s
  BY DEF Patience
<1> QED BY <1>2, <1>4, <1>5, <1>6 DEF Patience

(* Someone who begins to wait has waited nothing yet, and if the interpreter is
   in use its user is not among the waiters.                                  *)
LEMMA BeginsToWait ==
  ASSUME EngineInv, NEW s \in Nat, Patience(s), TypeOK',
         NEW c \in Callers, pc[c] \in {"idle", "unlocking"},
         pc' = [pc EXCEPT ![c] = "waiting"], age' = [age EXCEPT ![c] = 0],
         overtaken' = [overtaken EXCEPT ![c] = 0], lock' = lock \ {c},
         UNCHANGED <<sessions, ran>>
  PROVE  Patience(s)'
<1>1. Left(s)' = Left(s) /\ N' = N
  BY DEF N, Left
<1>2. ASSUME NEW d \in Callers, age'[d] = 0
      PROVE  age'[d] + s * Cardinality(Ahead(d)') + Left(s)' <= Shares(s, d)'
  <2>1. /\ Ahead(d)' \in SUBSET Callers
        /\ \A h \in sessions : h \in Callers /\ h \notin Ahead(d)'
    BY DEF Ahead, EngineInv, TypeOK, Sessions
  <2>2. /\ N \in Nat /\ Cardinality(Ahead(d)') \in Nat /\ Cardinality(Ahead(d)') <= N
        /\ sessions # {} => Cardinality(Ahead(d)') < N
    BY <2>1, CallersAssumption, FS_Subset, FS_CardinalityType DEF N
  <2>3. Shares(s, d)' \in Nat /\ s * N <= Shares(s, d)' /\ s * N \in Nat
    <3>1. overtaken'[d] \in Nat
      BY OvertakesAssumption DEF TypeOK
    <3>2. Shares(s, d)' = s * (N + overtaken'[d])
      BY <1>1 DEF Shares
    <3>3. \A n, k \in Nat : s * n \in Nat /\ s * (n + k) \in Nat /\ s * n <= s * (n + k)
      OBVIOUS
    <3> HIDE DEF N, Shares
    <3> QED BY <2>2, <3>1, <3>2, <3>3
  <2>4. CASE sessions = {}
    <3>1. Left(s) = 0
      BY <2>4 DEF Left
    <3>2. s * Cardinality(Ahead(d)') \in Nat /\ s * Cardinality(Ahead(d)') <= s * N
      BY <2>2, Scaling
    <3> HIDE DEF N, Shares, Left, Ahead
    <3> QED BY <1>1, <1>2, <2>3, <3>1, <3>2
  <2>5. CASE sessions # {}
    <3>1. s * Cardinality(Ahead(d)') \in Nat /\ s * Cardinality(Ahead(d)') + s <= s * N
      BY <2>2, <2>5, Scaling
    <3>2. Left(s) \in Nat /\ Left(s) <= s
      BY PatienceTypes
    <3> HIDE DEF N, Shares, Left, Ahead
    <3> QED BY <1>1, <1>2, <2>3, <3>1, <3>2
  <2> QED BY <2>4, <2>5
<1>3. ASSUME NEW d \in Callers, pc'[d] = "waiting", age'[d] # 0
      PROVE  age'[d] + s * Cardinality(Ahead(d)') + Left(s)' <= Shares(s, d)'
  <2>1. /\ d # c /\ pc[d] = "waiting" /\ age'[d] = age[d] /\ age[d] > 0
        /\ overtaken'[d] = overtaken[d]
    BY <1>3, Clocks DEF EngineInv, TypeOK
  <2>2. Ahead(d)' = Ahead(d)
    BY <2>1 DEF Ahead, EngineInv, TypeOK
  <2>3. Shares(s, d)' = Shares(s, d)
    BY <1>1, <2>1 DEF Shares
  <2> QED BY <1>1, <2>1, <2>2, <2>3 DEF Patience
<1>4. ASSUME NEW d \in lock' PROVE age'[d] + Left(s)' <= Shares(s, d)'
  <2>1. d # c /\ d \in lock /\ d \in Callers /\ age'[d] = age[d] /\ overtaken'[d] = overtaken[d]
    BY <1>4 DEF EngineInv, TypeOK
  <2>2. Shares(s, d)' = Shares(s, d)
    BY <1>1, <2>1 DEF Shares
  <2> QED BY <1>1, <2>1, <2>2 DEF Patience
<1>5. sessions' # {} => ran' <= s
  BY DEF Patience
<1> QED BY <1>2, <1>3, <1>4, <1>5 DEF Patience

(* A waiter is served.  Whoever goes on waiting has one fewer ahead, whose share
   is what the new evaluation may take, or is overtaken and has one more share. *)
LEMMA OneIsServed ==
  ASSUME EngineInv, NEW s \in Nat, Patience(s), NEW c \in Callers, Acquire(c)
  PROVE  Patience(s)'
<1>1. /\ pc[c] = "waiting" /\ lock = {} /\ lock' = {c} /\ ran' = 0 /\ age' = age
      /\ pc' = [pc EXCEPT ![c] = "evaluating"] /\ sessions' = sessions \cup {c}
      /\ \A d \in Callers : overtaken'[d] = IF d \in Elders(c) THEN overtaken[d] + 1
                                             ELSE overtaken[d]
  BY DEF Acquire
<1>2. N' = N
  BY DEF N
<1>3. sessions = {} /\ Left(s) = 0
  BY <1>1 DEF EngineInv, TypeOK, Holders, Sessions, Left
<1>4. Left(s)' = s
  BY <1>1 DEF Left
<1>5. ASSUME NEW d \in Callers, pc[d] = "waiting"
      PROVE  /\ Cardinality(Ahead(d)) \in Nat /\ s * Cardinality(Ahead(d)) \in Nat
             /\ age[d] \in Nat /\ Shares(s, d) \in Nat
             /\ age[d] + s * Cardinality(Ahead(d)) <= Shares(s, d)
  <2>1. age[d] + s * Cardinality(Ahead(d)) + Left(s) <= Shares(s, d)
    BY <1>5 DEF Patience
  <2>2. Cardinality(Ahead(d)) \in Nat /\ s * Cardinality(Ahead(d)) \in Nat
    BY AheadCounted, Scaling
  <2>3. age[d] \in Nat /\ Shares(s, d) \in Nat
    BY PatienceTypes
  <2> HIDE DEF Left, Shares, Ahead
  <2> QED BY <1>3, <2>1, <2>2, <2>3
<1>6. ASSUME NEW d \in Callers, pc[d] = "waiting", c \in Ahead(d)
      PROVE  /\ Cardinality(Ahead(d) \ {c}) \in Nat
             /\ s * Cardinality(Ahead(d)) = s * Cardinality(Ahead(d) \ {c}) + s
  <2> DEFINE k == Cardinality(Ahead(d))
  <2>1. k \in Nat /\ k # 0 /\ Cardinality(Ahead(d) \ {c}) = k - 1
    BY <1>6, AheadCounted, FS_RemoveElement, FS_EmptySet
  <2>2. \A n \in Nat : s * (n + 1) = s * n + s
    OBVIOUS
  <2> HIDE DEF k
  <2>3. k - 1 \in Nat /\ (k - 1) + 1 = k
    BY <2>1
  <2>4. s * k = s * (k - 1) + s
    BY <2>2, <2>3
  <2> QED BY <2>1, <2>3, <2>4 DEF k
<1>7. ASSUME NEW d \in Callers, pc'[d] = "waiting"
      PROVE  age'[d] + s * Cardinality(Ahead(d)') + Left(s)' <= Shares(s, d)'
  <2>1. d # c /\ pc[d] = "waiting" /\ Ahead(d)' = Ahead(d) \ {c}
    BY <1>1, <1>7 DEF Ahead, EngineInv, TypeOK
  <2>2. CASE c \in Ahead(d)
    <3>1. d \notin Elders(c)
      BY <2>2, Clocks DEF Ahead, Elders, EngineInv
    <3>2. Shares(s, d)' = Shares(s, d)
      BY <1>1, <1>2, <3>1 DEF Shares
    <3>3. s * Cardinality(Ahead(d)) = s * Cardinality(Ahead(d)') + s
      BY <1>6, <2>1, <2>2
    <3>4. s * Cardinality(Ahead(d)') \in Nat
      BY <1>6, <2>1, <2>2, Scaling
    <3> HIDE DEF Ahead, Shares, Left
    <3> QED BY <1>1, <1>4, <1>5, <2>1, <3>2, <3>3, <3>4
  <2>3. CASE c \notin Ahead(d)
    <3>1. d \in Elders(c)
      BY <1>1, <2>1, <2>3, Clocks DEF Ahead, Elders, EngineInv
    <3>2. Shares(s, d)' = Shares(s, d) + s
      <4>1. overtaken'[d] = overtaken[d] + 1 /\ overtaken[d] \in Nat /\ N \in Nat
        BY <1>1, <3>1, ShareTypes DEF EngineInv
      <4>2. \A n, k \in Nat : s * (n + (k + 1)) = s * (n + k) + s
        OBVIOUS
      <4>3. Shares(s, d)' = s * (N + overtaken'[d]) /\ Shares(s, d) = s * (N + overtaken[d])
        BY <1>2 DEF Shares
      <4> HIDE DEF N, Shares
      <4> QED BY <4>1, <4>2, <4>3
    <3>3. Cardinality(Ahead(d)') = Cardinality(Ahead(d))
      BY <2>1, <2>3
    <3> HIDE DEF Ahead, Shares, Left
    <3> QED BY <1>1, <1>4, <1>5, <2>1, <3>2, <3>3
  <2> QED BY <2>2, <2>3
<1>8. age'[c] + Left(s)' <= Shares(s, c)'
  <2>1. c \in Ahead(c) /\ c \notin Elders(c)
    BY <1>1, Clocks DEF Ahead, Elders, EngineInv
  <2>2. Shares(s, c)' = Shares(s, c)
    BY <1>1, <1>2, <2>1 DEF Shares
  <2>3. s * Cardinality(Ahead(c)) = s * Cardinality(Ahead(c) \ {c}) + s
    BY <1>1, <1>6, <2>1
  <2>4. s * Cardinality(Ahead(c) \ {c}) \in Nat
    BY <1>1, <1>6, <2>1, Scaling
  <2> HIDE DEF Ahead, Shares, Left
  <2> QED BY <1>1, <1>4, <1>5, <2>2, <2>3, <2>4
<1>9. ran' <= s
  BY <1>1
<1> QED BY <1>1, <1>7, <1>8, <1>9 DEF Patience

(* Time passes only while the holder evaluates: whatever the waiters wait, the
   evaluation has that much less left of its share.                           *)
LEMMA TimePasses ==
  ASSUME EngineInv, NEW s \in Nat, Enough(s), Patience(s), Tick
  PROVE  Patience(s)'
<1>1. PICK h \in Callers : /\ pc[h] = "evaluating" /\ h \in lock /\ h \in sessions
                           /\ lock = {h} /\ ran < base.cost[TheGoal(h)]
  <2>1. PICK h \in lock : TRUE
    BY HolderWorks
  <2>2. h \in Callers /\ pc[h] = "evaluating"
    BY <2>1 DEF EngineInv, TypeOK, Holders, Tick, Urgent
  <2>3. TheGoal(h) \in Goals
    BY <2>2, HasGoal DEF InFirst
  <2>4. ran < base.cost[TheGoal(h)]
    BY <2>2, <2>3, CostIsNat, Clocks DEF EngineInv, Tick, Urgent, Evaluated
  <2> QED BY <2>1, <2>2, <2>4 DEF EngineInv, Holders, Sessions
<1>2. ran' = ran + 1 /\ ran' <= s
  <2>1. TheGoal(h) \in Goals
    BY <1>1, HasGoal DEF InFirst
  <2>2. base.cost[TheGoal(h)] \in Nat /\ base.cost[TheGoal(h)] <= s /\ ran \in Nat
    BY <2>1, CostIsNat, PatienceTypes, <1>1 DEF EngineInv, Enough
  <2>3. ran <= age[h] /\ age[h] < Timeout /\ age[h] \in Nat
    BY <1>1, InTime, Clocks DEF EngineInv, Ordered, InFirst
  <2>4. ran' = ran + 1
    BY <1>1, <2>2, <2>3, TimeoutAssumption DEF Tick, Saturated
  <2> QED BY <1>1, <2>2, <2>4
<1>3. /\ sessions' = sessions /\ lock' = lock /\ pc' = pc
      /\ Left(s)' = Left(s) - 1 /\ Left(s) \in Nat
      /\ \A d \in Callers : Shares(s, d)' = Shares(s, d)
  BY <1>1, <1>2, PatienceTypes DEF Left, Shares, N, Tick
<1>4. \A d \in Callers : InFirst(d) => age'[d] = age[d] + 1 /\ age[d] \in Nat
  BY TickAges
<1>5. ASSUME NEW d \in Callers, pc[d] = "waiting"
      PROVE  age'[d] + s * Cardinality(Ahead(d)') + Left(s)' <= Shares(s, d)
  <2>1. Ahead(d)' = Ahead(d)
    BY <1>3, <1>4, <1>5 DEF Ahead, InFirst
  <2>2. age[d] + s * Cardinality(Ahead(d)) + Left(s) <= Shares(s, d)
    BY <1>5 DEF Patience
  <2>3. s * Cardinality(Ahead(d)) \in Nat
    BY AheadCounted, Scaling
  <2>4. age'[d] = age[d] + 1 /\ age[d] \in Nat
    BY <1>4, <1>5 DEF InFirst
  <2> HIDE DEF Left, Ahead, N, Shares
  <2> QED BY <1>3, <2>1, <2>2, <2>3, <2>4, PatienceTypes
<1>6. ASSUME NEW d \in lock PROVE age'[d] + Left(s)' <= Shares(s, d)
  <2>1. d \in Callers /\ InFirst(d) /\ age[d] + Left(s) <= Shares(s, d)
    BY <1>6 DEF EngineInv, TypeOK, Holders, InFirst, Patience
  <2> HIDE DEF Left, Shares
  <2> QED BY <1>3, <1>4, <2>1, PatienceTypes
<1>7. \A d \in lock : d \in Callers
  BY DEF EngineInv, TypeOK
<1> QED BY <1>2, <1>3, <1>5, <1>6, <1>7 DEF Patience

LEMMA PatienceNext ==
  ASSUME EngineInv, NEW s \in Nat, Enough(s), Patience(s), [Next]_engineVars
  PROVE  Patience(s)'
<1>0. TypeOK'
  BY EngineNext DEF EngineInv
<1>1. CASE UNCHANGED engineVars
  BY <1>1, NobodyMoves DEF engineVars
<1>2. ASSUME NEW c \in Callers, Enter(c) PROVE Patience(s)'
  <2>1. /\ pc[c] = "idle" /\ pc' = [pc EXCEPT ![c] = "waiting"] /\ age' = [age EXCEPT ![c] = 0]
        /\ overtaken' = [overtaken EXCEPT ![c] = 0]
        /\ UNCHANGED <<lock, sessions, ran>>
    BY <1>2 DEF Enter, First
  <2>2. lock' = lock \ {c}
    BY <2>1 DEF EngineInv, Holders
  <2> QED BY <1>0, <2>1, <2>2, BeginsToWait
<1>3. ASSUME NEW c \in Callers, NEW g, Unlock(c), AskNext(c, g) PROVE Patience(s)'
  <2>1. /\ pc[c] = "unlocking" /\ lock' = lock \ {c}
        /\ pc' = [pc EXCEPT ![c] = "waiting"] /\ age' = [age EXCEPT ![c] = 0]
        /\ overtaken' = [overtaken EXCEPT ![c] = 0]
        /\ UNCHANGED <<sessions, ran>>
    BY <1>3 DEF Unlock, AskNext, First
  <2> QED BY <1>0, <2>1, BeginsToWait
<1>4. ASSUME NEW c \in Callers, NEW r, Unlock(c), Return(c, r) PROVE Patience(s)'
  BY <1>4, NobodyMoves DEF Unlock, Return, EngineInv, TypeOK, Holders
<1>5. ASSUME NEW c \in Callers, NEW a, pc[c] = "evaluating", EndEvaluation(c, a) PROVE Patience(s)'
  BY <1>5, NobodyMoves DEF EndEvaluation, EngineInv, TypeOK
<1>6. ASSUME NEW c \in Callers, CloseSolutions(c) PROVE Patience(s)'
  <2>1. sessions' = {}
    BY <1>6 DEF CloseSolutions, EngineInv, TypeOK, Holders, Sessions
  <2>2. /\ \A d \in Callers : (pc'[d] = "waiting") <=> (pc[d] = "waiting")
        /\ age' = age /\ overtaken' = overtaken /\ lock' \subseteq lock
    BY <1>6 DEF CloseSolutions, EngineInv, TypeOK
  <2> QED BY <2>1, <2>2, NobodyMoves
<1>7. ASSUME NEW c \in Callers, Leave(c) PROVE Patience(s)'
  <2>1. c \notin lock /\ pc[c] = "done" /\ overtaken' = [overtaken EXCEPT ![c] = 0]
    BY <1>7 DEF Leave, EngineInv, Holders
  <2> QED BY <1>7, <2>1, NobodyMoves DEF Leave, EngineInv, TypeOK
<1>8. ASSUME NEW c \in Callers, Disconnect(c) PROVE Patience(s)'
  BY <1>8, NobodyMoves DEF Disconnect, EngineInv, TypeOK
<1>9. ASSUME NEW c \in Callers, EngineStep(c) PROVE Patience(s)'
  BY <1>3, <1>4, <1>5, <1>6, <1>9, OneIsServed
     DEF EngineStep, Solve, Refute, Raise, CutOff, NormalizeField, KnownField, ValidateClause,
         ValidateReason, ValidateKnown
<1> QED BY <1>1, <1>2, <1>7, <1>8, <1>9, TimePasses DEF Next

(* When the evaluations fit, no deadline passes: who evaluates has time left. *)
LEMMA NoDeadline ==
  ASSUME EngineInv, LoadInv, NEW c \in Callers, Fits(c), pc[c] = "evaluating"
  PROVE  CtxDone(c) => gone[c]
<1>1. c \in lock
  BY DEF EngineInv, Holders
<1>2. PICK s \in Nat : Enough(s) /\ Shares(s, c) < Timeout
  BY FittingShare DEF EngineInv
<1>3. Patience(s)
  BY <1>2 DEF LoadInv
<1>4. age[c] + Left(s) <= Shares(s, c)
  BY <1>1, <1>3 DEF Patience
<1>5. age[c] \in Nat /\ Left(s) \in Nat /\ Shares(s, c) \in Nat
  BY <1>3, PatienceTypes
<1>6. age[c] < Timeout
  <2> HIDE DEF Left, Shares
  <2> QED BY <1>2, <1>4, <1>5, TimeoutAssumption
<1> QED BY <1>5, <1>6, TimeoutAssumption DEF CtxDone

(* What a caller keeps of its request, its answer and its result, it is blamed
   for as before.                                                             *)
LEMMA SameBlame ==
  ASSUME NEW c \in Callers, Blamed(c), base' = base, call'[c] = call[c],
         gone[c] => gone'[c],
         \/ answer'[c] # "error"
         \/ answer'[c] = answer[c] /\ goal'[c] = goal[c] /\ overtaken'[c] = overtaken[c],
         \/ result'[c] # "error"
         \/ result'[c] = result[c] /\ overtaken'[c] = overtaken[c]
  PROVE  Blamed(c)'
<1>1. TheGoal(c)' = <<goal'[c], Field(c)>>
  BY DEF TheGoal, Field
<1>2. Asks(call[c])' = Asks(call[c])
  BY DEF Asks, FirstGoal
<1>3. overtaken'[c] = overtaken[c] => (Fits(c)' <=> Fits(c))
  BY DEF Fits, Quick, N
<1>4. answer'[c] = "error" /\ Fits(c)' => gone'[c] \/ Raises(c)'
  BY <1>1, <1>3 DEF Blamed, Raises, TheGoal
<1>5. result'[c] = "error" /\ Fits(c)' => gone'[c] \/ Asks(call'[c]) \cap base'.raises # {}
  BY <1>3 DEF Blamed
<1> QED BY <1>4, <1>5 DEF Blamed, Asks, FirstGoal

LEMMA EndBlamed ==
  ASSUME EngineInv, LoadInv, NEW c \in Callers,
         Solve(c) \/ Refute(c) \/ Raise(c) \/ CutOff(c)
  PROVE  Blamed(c)'
<1>1. PICK a : EndEvaluation(c, a) /\ (a = "error" /\ Fits(c) => gone[c] \/ Raises(c))
  <2>1. pc[c] = "evaluating"
    BY DEF Solve, Refute, Raise, CutOff
  <2>2. CtxDone(c) /\ Fits(c) => gone[c]
    BY <2>1, NoDeadline
  <2>3. CASE Solve(c)
    BY <2>3 DEF Solve
  <2>4. CASE Refute(c)
    BY <2>2, <2>4 DEF Refute, AfterNoSolution
  <2>5. CASE Raise(c)
    BY <2>2, <2>5 DEF Raise, AfterNoSolution, Raises
  <2>6. CASE CutOff(c)
    BY <2>2, <2>6 DEF CutOff
  <2> QED BY <2>3, <2>4, <2>5, <2>6
<1>2. /\ answer'[c] = a /\ UNCHANGED <<base, call, goal, overtaken, gone, result>>
  BY <1>1 DEF EndEvaluation, EngineInv, TypeOK
<1>3. Raises(c)' = Raises(c) /\ Fits(c)' = Fits(c)
  BY <1>2 DEF Raises, TheGoal, Field, Fits, Quick, N
<1>4. answer'[c] = "error" /\ Fits(c)' => gone'[c] \/ Raises(c)'
  BY <1>1, <1>2, <1>3
<1>5. result'[c] = "error" /\ Fits(c)' => gone'[c] \/ Asks(call'[c]) \cap base'.raises # {}
  BY <1>2, <1>3 DEF LoadInv, Blamed
<1> QED BY <1>4, <1>5 DEF Blamed

(* An error the API method returns is that of a goal the call asks: a reason
   that cannot be found is never the caller's error.                          *)
LEMMA ReturnBlamed ==
  ASSUME EngineInv, NEW c \in Callers, Blamed(c), Unlock(c), NEW r, Return(c, r),
         r = "error" => answer[c] = "error" /\ goal[c] # "rejection_reason"
  PROVE  Blamed(c)'
<1>1. GoalFits(c) /\ call[c] \in Calls
  BY AtUnlock
<1>2. goal[c] # "rejection_reason" => TheGoal(c) \in Asks(call[c])
  BY <1>1 DEF GoalFits, Asks, TheGoal, Field, FirstGoal
<1>3. r = "error" /\ Fits(c) => gone[c] \/ Asks(call[c]) \cap base.raises # {}
  BY <1>2 DEF Blamed, Raises
<1>4. /\ answer'[c] = "none" /\ result'[c] = r /\ gone'[c] = gone[c]
      /\ UNCHANGED <<base, call, overtaken>>
  BY DEF Return, EngineInv, TypeOK
<1>5. Fits(c)' = Fits(c)
  BY <1>4 DEF Fits, Quick, N
<1>6. result'[c] = "error" /\ Fits(c)' => gone'[c] \/ Asks(call'[c]) \cap base'.raises # {}
  BY <1>3, <1>4, <1>5
<1> QED BY <1>4, <1>6 DEF Blamed

LEMMA UnlockBlamed ==
  ASSUME EngineInv, NEW c \in Callers, Blamed(c),
         \/ NormalizeField(c) \/ KnownField(c)
         \/ ValidateClause(c) \/ ValidateReason(c) \/ ValidateKnown(c)
  PROVE  Blamed(c)'
<1>1. /\ Unlock(c) /\ answer[c] \in {"yes", "no", "error"} /\ GoalFits(c)
      /\ RejectionReason(base, Field(c), Op(c)) # "error"
  BY AtUnlock, ReasonIsResult DEF NormalizeField, KnownField, ValidateClause, ValidateReason, ValidateKnown
<1>2. ASSUME NEW g, AskNext(c, g) PROVE Blamed(c)'
  <2>1. /\ answer'[c] = "none" /\ answer'[c] # "error"
        /\ base' = base /\ call'[c] = call[c] /\ gone'[c] = gone[c] /\ result'[c] # "error"
    BY <1>1, <1>2 DEF AskNext, Unlock, EngineInv, TypeOK
  <2> QED BY <2>1, SameBlame
<1>3. ASSUME NEW r, Return(c, r), r = "error" => answer[c] = "error" /\ goal[c] # "rejection_reason"
      PROVE  Blamed(c)'
  BY <1>1, <1>3, ReturnBlamed
<1>4. CASE NormalizeField(c)
  <2>1. PICK r : Return(c, r) /\ (r = "error" => answer[c] = "error")
    BY <1>1, <1>4 DEF NormalizeField
  <2> QED BY <1>1, <1>3, <1>4, <2>1 DEF NormalizeField, GoalFits
<1>5. CASE KnownField(c)
  BY <1>1, <1>3, <1>5 DEF KnownField, GoalFits
<1>6. CASE ValidateClause(c)
  BY <1>1, <1>2, <1>3, <1>6 DEF ValidateClause
<1>7. CASE ValidateReason(c)
  BY <1>1, <1>2, <1>3, <1>7 DEF ValidateReason
<1>8. CASE ValidateKnown(c)
  <2>1. PICK r : Return(c, r) /\ (r = "error" => answer[c] = "error")
    BY <1>1, <1>8 DEF ValidateKnown
  <2> QED BY <1>3, <1>8, <2>1 DEF ValidateKnown
<1> QED BY <1>4, <1>5, <1>6, <1>7, <1>8

(* A step of one caller leaves the others' requests and answers alone. *)
LEMMA OthersBlamed ==
  ASSUME EngineInv, NEW c \in Callers, NEW d \in Callers, d # c, Blamed(d),
         Enter(c) \/ Disconnect(c) \/ EngineStep(c) \/ Leave(c)
  PROVE  Blamed(d)'
<1> DEFINE Kept == /\ base' = base /\ call'[d] = call[d] /\ gone'[d] = gone[d]
                   /\ goal'[d] = goal[d] /\ answer'[d] = answer[d] /\ result'[d] = result[d]
                   /\ \/ overtaken'[d] = overtaken[d]
                      \/ answer[d] # "error" /\ result[d] # "error"
<1> SUFFICES Kept
  BY SameBlame
<1>1. /\ DOMAIN overtaken = Callers /\ DOMAIN call = Callers /\ DOMAIN gone = Callers
      /\ DOMAIN goal = Callers /\ DOMAIN answer = Callers /\ DOMAIN result = Callers
  BY DEF EngineInv, TypeOK
<1>2. CASE Enter(c)
  <2>1. PICK k \in Calls : call' = [call EXCEPT ![c] = k] /\ First(c, FirstGoal(k[1]))
    BY <1>2 DEF Enter
  <2> QED BY <1>1, <1>2, <2>1 DEF Enter, First
<1>3. CASE Disconnect(c) \/ Leave(c) \/ CloseSolutions(c)
  BY <1>1, <1>3 DEF Disconnect, Leave, CloseSolutions
<1>6. CASE Acquire(c)
  <2>1. \/ overtaken'[d] = overtaken[d]
        \/ pc[d] = "waiting"
    BY <1>6 DEF Acquire, Elders
  <2>2. pc[d] = "waiting" => answer[d] # "error" /\ result[d] # "error"
    BY DEF EngineInv, TypeOK, Unanswered
  <2> QED BY <1>1, <1>6, <2>1, <2>2 DEF Acquire
<1>4. CASE Solve(c) \/ Refute(c) \/ Raise(c) \/ CutOff(c)
  <2>1. PICK a : EndEvaluation(c, a)
    BY <1>4 DEF Solve, Refute, Raise, CutOff
  <2> QED BY <1>1, <2>1 DEF EndEvaluation
<1>5. CASE NormalizeField(c) \/ KnownField(c) \/ ValidateClause(c) \/ ValidateReason(c)
             \/ ValidateKnown(c)
  <2>1. (\E r : Return(c, r)) \/ (\E g : AskNext(c, g))
    BY <1>5 DEF NormalizeField, KnownField, ValidateClause, ValidateReason, ValidateKnown
  <2>2. ASSUME NEW r, Return(c, r) PROVE Kept
    BY <1>1, <2>2 DEF Return
  <2>3. ASSUME NEW g, AskNext(c, g) PROVE Kept
    BY <1>1, <2>3 DEF AskNext, First
  <2> QED BY <2>1, <2>2, <2>3
<1> QED BY <1>2, <1>3, <1>4, <1>5, <1>6 DEF EngineStep

LEMMA LoadNext ==
  ASSUME EngineInv, LoadInv, [Next]_engineVars
  PROVE  LoadInv'
<1>1. base' = base
  BY DEF Next, engineVars, Enter, Disconnect, EngineStep, Leave, Tick, Acquire, Solve, Refute, Raise,
     CutOff, EndEvaluation, CloseSolutions, NormalizeField, KnownField, ValidateClause,
     ValidateReason, ValidateKnown, Return, AskNext
<1>2. \A c \in Callers : Blamed(c)
  BY DEF LoadInv
<1>3. ASSUME UNCHANGED engineVars \/ Tick PROVE \A c \in Callers : Blamed(c)'
  BY <1>2, <1>3, SameBlame DEF engineVars, Tick
<1>4. ASSUME NEW c \in Callers, Enter(c) \/ Disconnect(c) \/ EngineStep(c) \/ Leave(c)
      PROVE  Blamed(c)'
  <2>1. CASE Enter(c)
    <3>1. answer'[c] # "error" /\ result'[c] # "error"
      BY <2>1 DEF Enter, EngineInv, TypeOK, Unanswered
    <3> QED BY <3>1 DEF Blamed
  <2>2. CASE Leave(c)
    <3>1. answer'[c] # "error" /\ result'[c] # "error"
      BY <2>2 DEF Leave, EngineInv, TypeOK, Unanswered
    <3> QED BY <3>1 DEF Blamed
  <2>3. CASE Disconnect(c) \/ Acquire(c) \/ CloseSolutions(c)
    <3>1. /\ UNCHANGED <<base, call, goal, answer, result>>
          /\ gone[c] => gone'[c]
          /\ overtaken'[c] = overtaken[c]
      <4>1. c \notin Elders(c)
        BY Clocks DEF Elders, EngineInv
      <4> QED BY <2>3, <4>1 DEF Disconnect, Acquire, CloseSolutions, EngineInv, TypeOK
    <3>2. /\ base' = base /\ call'[c] = call[c] /\ goal'[c] = goal[c]
          /\ answer'[c] = answer[c] /\ result'[c] = result[c]
      BY <3>1
    <3> HIDE DEF Blamed
    <3> QED BY <1>2, <3>1, <3>2, SameBlame
  <2>4. CASE Solve(c) \/ Refute(c) \/ Raise(c) \/ CutOff(c)
    BY <1>2, <2>4, EndBlamed
  <2> QED BY <1>2, <1>4, <2>1, <2>2, <2>3, <2>4, UnlockBlamed DEF EngineStep
<1>5. ASSUME NEW c \in Callers, Enter(c) \/ Disconnect(c) \/ EngineStep(c) \/ Leave(c)
      PROVE  \A d \in Callers : Blamed(d)'
  BY <1>2, <1>4, <1>5, OthersBlamed
<1>6. ASSUME NEW s \in Nat, Enough(s)' PROVE Patience(s)'
  <2>1. Enough(s)
    BY <1>1, <1>6 DEF Enough
  <2> QED BY <2>1, PatienceNext DEF LoadInv
<1>7. \A c \in Callers : Blamed(c)'
  BY <1>3, <1>5 DEF Next
<1> QED BY <1>6, <1>7 DEF LoadInv

THEOREM LoadInvariant == Spec => []LoadInv
<1>1. EngineInv /\ LoadInv /\ [Next]_engineVars => LoadInv'
  BY LoadNext
<1> QED BY EngineInvariant, LoadInit, <1>1, PTL DEF Spec

(* When an evaluation for every caller and for each time it was overtaken fit in
   the timeout, a call fails only because a rule it asks raises or its own client
   has left: a queue at Engine.first by itself never becomes an error.         *)
THEOREM LoadIsNoError == Spec => []ErrorsHaveACause
<1>1. LoadInv => ErrorsHaveACause
  BY DEF LoadInv, Blamed, Fits, N, ErrorsHaveACause
<1> QED BY LoadInvariant, <1>1, PTL

-----------------------------------------------------------------------------
(* The engine implements RuleOracle. *)

LEMMA OracleInit == Init => Oracle!Init
BY DEF Init, Oracle!Init, NoCall, Oracle!NoCall

(* A truthful return is a reply of the oracle. *)
LEMMA ReturnReplies ==
  ASSUME EngineInv, NEW c \in Callers, Unlock(c), NEW r, Return(c, r),
         r \in Oracle!Verdicts(base, call[c]) \cup {"error"}
  PROVE  Oracle!Next
<1>1. call[c] # Oracle!NoCall /\ result[c] = "none"
  BY AtUnlock, CallParts DEF Oracle!NoCall, NoCall, EngineInv, TypeOK
<1>2. Oracle!Reply(c)
  BY <1>1 DEF Oracle!Reply, Return
<1> QED BY <1>2 DEF Oracle!Next

LEMMA OracleVerdicts ==
  ASSUME EngineInv, NEW c \in Callers, Unlock(c)
  PROVE  /\ call[c][1] = "normalize" =>
              Oracle!Verdicts(base, call[c]) =
                {IF Aliased(base, Field(c)) THEN "canonical" ELSE "raw"}
         /\ call[c][1] = "known" =>
              Oracle!Verdicts(base, call[c]) =
                {IF Field(c) \in base.known THEN "yes" ELSE "no"}
         /\ call[c][1] = "validate" =>
              Oracle!Verdicts(base, call[c]) =
                IF ValidClause(base, Field(c), Op(c)) THEN {"accept"}
                ELSE {RejectionReason(base, Field(c), Op(c))} \cup
                     {IF Field(c) \in base.known THEN "operation" ELSE "unknown"}
BY DEF Oracle!Verdicts, Oracle!HonestRejections, Oracle!Aliased, Aliased, Oracle!ValidClause,
   ValidClause, Oracle!RejectionReason, RejectionReason, Field, Op

LEMMA NormalizeReplies ==
  ASSUME EngineInv, NEW c \in Callers, NormalizeField(c)
  PROVE  Oracle!Next
<1>1. Unlock(c) /\ call[c][1] = "normalize"
  BY DEF NormalizeField
<1>2. /\ goal[c] = "field_alias" /\ answer[c] \in {"yes", "no", "error"} /\ AnswerTrue(c)
  BY <1>1, AtUnlock DEF GoalFits
<1>3. PICK r \in {"error", "raw", "canonical"} :
         /\ Return(c, r)
         /\ r = "canonical" => Aliased(base, Field(c))
         /\ r = "raw" => ~Aliased(base, Field(c))
  BY <1>2 DEF NormalizeField, AnswerTrue, Proves
<1> QED BY <1>1, <1>3, OracleVerdicts, ReturnReplies

LEMMA KnownReplies ==
  ASSUME EngineInv, NEW c \in Callers, KnownField(c)
  PROVE  Oracle!Next
<1>1. Unlock(c) /\ call[c][1] = "known" /\ Return(c, answer[c])
  BY DEF KnownField
<1>2. /\ goal[c] = "known_field" /\ answer[c] \in {"yes", "no", "error"} /\ AnswerTrue(c)
  BY <1>1, AtUnlock DEF GoalFits
<1>3. /\ answer[c] = "yes" => Field(c) \in base.known
      /\ answer[c] = "no" => Field(c) \notin base.known
  BY <1>2 DEF AnswerTrue, Proves
<1> QED BY <1>1, <1>2, <1>3, OracleVerdicts, ReturnReplies

LEMMA ValidateReplies ==
  ASSUME EngineInv, NEW c \in Callers,
         ValidateClause(c) \/ ValidateReason(c) \/ ValidateKnown(c)
  PROVE  Oracle!Next \/ UNCHANGED Oracle!oracleVars
<1>1. /\ Unlock(c) /\ call[c][1] = "validate" /\ GoalFits(c)
      /\ answer[c] \in {"yes", "no", "error"} /\ AnswerTrue(c)
  BY AtUnlock DEF ValidateClause, ValidateReason, ValidateKnown
<1>2. ASSUME NEW g, AskNext(c, g) PROVE UNCHANGED Oracle!oracleVars
  BY <1>2 DEF AskNext, Oracle!oracleVars
<1>3. CASE ValidateClause(c)
  <2>1. CASE answer[c] = "error" /\ Return(c, "error")
    BY <1>1, <2>1, ReturnReplies
  <2>2. CASE answer[c] = "yes" /\ Return(c, "accept")
    <3>1. ValidClause(base, Field(c), Op(c))
      BY <1>1, <1>3, <2>2 DEF ValidateClause, AnswerTrue, Proves
    <3> QED BY <1>1, <2>2, <3>1, OracleVerdicts, ReturnReplies
  <2> QED BY <1>2, <1>3, <2>1, <2>2 DEF ValidateClause
<1>4. CASE ValidateReason(c)
  <2>1. ~ValidClause(base, Field(c), Op(c))
    BY <1>1, <1>4 DEF ValidateReason, GoalFits
  <2>2. CASE Return(c, RejectionReason(base, Field(c), Op(c)))
    BY <1>1, <2>1, <2>2, OracleVerdicts, ReturnReplies
  <2> QED BY <1>2, <1>4, <2>2 DEF ValidateReason
<1>5. CASE ValidateKnown(c)
  <2>1. ~ValidClause(base, Field(c), Op(c)) /\ goal[c] = "known_field"
    BY <1>1, <1>5 DEF ValidateKnown, GoalFits
  <2>2. /\ answer[c] = "yes" => Field(c) \in base.known
        /\ answer[c] = "no" => Field(c) \notin base.known
    BY <1>1, <2>1 DEF AnswerTrue, Proves
  <2>3. PICK r \in {"error", "unknown", "operation"} :
           /\ Return(c, r)
           /\ r = "operation" => Field(c) \in base.known
           /\ r = "unknown" => Field(c) \notin base.known
    BY <1>1, <1>5, <2>2 DEF ValidateKnown
  <2> QED BY <1>1, <2>1, <2>3, OracleVerdicts, ReturnReplies
<1> QED BY <1>3, <1>4, <1>5

LEMMA OracleStep ==
  ASSUME EngineInv, [Next]_engineVars
  PROVE  [Oracle!Next]_Oracle!oracleVars
<1>1. CASE UNCHANGED engineVars
  BY <1>1 DEF engineVars, Oracle!oracleVars
<1>2. ASSUME NEW c \in Callers, Enter(c) PROVE Oracle!Next
  <2>1. call[c] = Oracle!NoCall
    BY <1>2 DEF Enter, EngineInv, TypeOK, NoCall, Oracle!NoCall
  <2>2. Oracle!Ask(c)
    BY <1>2, <2>1 DEF Enter, Oracle!Ask
  <2> QED BY <2>2 DEF Oracle!Next
<1>3. ASSUME NEW c \in Callers, Leave(c) PROVE Oracle!Next
  <2>1. result[c] # "none"
    BY <1>3 DEF Leave, EngineInv, TypeOK
  <2>2. Oracle!Leave(c)
    BY <1>3, <2>1 DEF Leave, Oracle!Leave, NoCall, Oracle!NoCall
  <2> QED BY <2>2 DEF Oracle!Next
<1>4. ASSUME NEW c \in Callers,
             \/ Disconnect(c) \/ Acquire(c) \/ CloseSolutions(c)
             \/ Solve(c) \/ Refute(c) \/ Raise(c) \/ CutOff(c)
      PROVE  UNCHANGED Oracle!oracleVars
  BY <1>4 DEF Disconnect, Acquire, CloseSolutions, Solve, Refute, Raise, CutOff, EndEvaluation,
     Oracle!oracleVars
<1>5. CASE Tick
  BY <1>5 DEF Tick, Oracle!oracleVars
<1> QED BY <1>1, <1>2, <1>3, <1>4, <1>5, NormalizeReplies, KnownReplies, ValidateReplies
     DEF Next, EngineStep

(* Answers of NormalizeField, KnownField and Validate are what the loaded rule
   base says, or errors: whatever is cut short, raised or interleaved.         *)
THEOREM EngineIsTruthful == Spec => ImplementsOracle
<1>1. EngineInv /\ [Next]_engineVars => [Oracle!Next]_Oracle!oracleVars
  BY OracleStep
<1> QED BY EngineInvariant, OracleInit, <1>1, PTL DEF Spec, ImplementsOracle, Oracle!Spec
=============================================================================
