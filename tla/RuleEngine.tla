----------------------------- MODULE RuleEngine -----------------------------
(* internal/rules/engine.go: the embedded Prolog interpreter behind one mutex.

   Request goroutines (Callers) call NormalizeField, KnownField and Validate.
   Each of them asks the interpreter one or more goals through Engine.first:
     context.WithTimeout        the clock of the call starts, BEFORE the lock
     mu.Lock                    wait for the interpreter
     QueryContext, Next, Scan   one solution, or none, or the context ends it
     sols.Close, mu.Unlock      the deferred calls, last one first
   Time is relative: age[c] is the number of ticks since c's context was made
   and ran the ticks the current evaluation has taken.  Only evaluation takes
   time: a tick happens only when nothing else can.                           *)
EXTENDS RuleBase, Naturals, FiniteSets

CONSTANTS
  Callers,   \* request goroutines
  Calls,     \* the calls they make: <<method, field, op>>
  Bases,     \* rule bases the program may have loaded at startup
  Fields,    \* field names
  Timeout,   \* rules.timeout, in ticks
  Overtakes  \* how often a waiter may be overtaken at the mutex: any bound will do

Methods == {"normalize", "known", "validate"}
Predicates == {"field_alias", "known_field", "valid_clause", "rejection_reason"}
Goals == Predicates \X Fields
NoCall == <<>>
NoGoal == "none"

(* A rule base also has a cost per goal, in ticks (above Timeout: the rule never
   terminates), and goals whose evaluation raises a Prolog error.             *)
EngineBases ==
  [alias  : [Fields -> Fields],
   known  : SUBSET Fields, ranged : SUBSET Fields, nested : SUBSET Fields,
   cost   : [Goals -> Nat], raises : SUBSET Goals]

ASSUME TimeoutAssumption == Timeout \in Nat \ {0}
ASSUME OvertakesAssumption == Overtakes \in Nat
ASSUME CallersAssumption == IsFiniteSet(Callers)
ASSUME CallsAssumption == Calls \subseteq Methods \X Fields \X Ops
ASSUME BasesAssumption == Bases \subseteq EngineBases

VARIABLES
  base,      \* the loaded rule base; Engine.Load is called by New only
  pc,        \* where each caller is inside Engine.first
  call,      \* the API call it is in, or NoCall
  goal,      \* the predicate it is asking, or NoGoal
  age,       \* ticks since its context.WithTimeout
  overtaken, \* how often the mutex went to a caller that came after it
  gone,      \* its client has left: the parent context is cancelled
  answer,    \* what Engine.first found: "yes", "no" or "error"
  result,    \* what the API call returned, or "none"
  lock,      \* the holders of Engine.mu: at most one
  sessions,  \* callers with an open *prolog.Solutions
  ran        \* ticks the open evaluation has taken

engineVars ==
  <<base, pc, call, goal, age, overtaken, gone, answer, result, lock, sessions, ran>>

Stages == {"idle", "waiting", "evaluating", "closing", "unlocking", "done"}
Results == {"none", "error", "canonical", "raw", "yes", "no", "accept",
            "nested", "unknown", "needs_range", "operation"}
-----------------------------------------------------------------------------
Field(c) == call[c][2]
Op(c) == call[c][3]
TheGoal(c) == <<goal[c], Field(c)>>

(* Whether the rule base proves c's goal: the interpreter's answer. *)
Proves(c) ==
  \/ goal[c] = "field_alias"      /\ Aliased(base, Field(c))
  \/ goal[c] = "known_field"      /\ Field(c) \in base.known
  \/ goal[c] = "valid_clause"     /\ ValidClause(base, Field(c), Op(c))
  \/ goal[c] = "rejection_reason" /\ RejectionReason(base, Field(c), Op(c)) # "none"

(* Mutant: the context is made after mu.Lock, so waiting is not on the clock. *)
CtxAfterLock(c) == ran >= Timeout \/ gone[c]

(* ctx.Err() # nil *)
CtxDone(c) == age[c] >= Timeout \/ gone[c]

(* The evaluation of c's goal has come to an end of its own. *)
Evaluated(c) == ran >= base.cost[TheGoal(c)]

(* Mutant: ctx.Err is not consulted, a cut evaluation reads as "no". *)
NoSolutionIsNo(c, err) == IF err THEN "error" ELSE "no"

(* Lines 140 to 146: Next said false; err is whether sols.Err reports an error. *)
AfterNoSolution(c, err) == IF err \/ CtxDone(c) THEN "error" ELSE "no"
-----------------------------------------------------------------------------
Init ==
  /\ base \in Bases
  /\ pc = [c \in Callers |-> "idle"]
  /\ call = [c \in Callers |-> NoCall]
  /\ goal = [c \in Callers |-> NoGoal]
  /\ age = [c \in Callers |-> 0]
  /\ overtaken = [c \in Callers |-> 0]
  /\ gone = [c \in Callers |-> FALSE]
  /\ answer = [c \in Callers |-> "none"]
  /\ result = [c \in Callers |-> "none"]
  /\ lock = {} /\ sessions = {} /\ ran = 0

(* Mutant: one context for all the goals of Validate. *)
FirstSharedClock(c, g) ==
  /\ goal' = [goal EXCEPT ![c] = g]
  /\ age' = age /\ overtaken' = overtaken
  /\ pc' = [pc EXCEPT ![c] = "waiting"]

(* Entry of Engine.first: a fresh context, then the wait for the mutex. *)
First(c, g) ==
  /\ goal' = [goal EXCEPT ![c] = g]
  /\ age' = [age EXCEPT ![c] = 0]
  /\ overtaken' = [overtaken EXCEPT ![c] = 0]
  /\ pc' = [pc EXCEPT ![c] = "waiting"]

FirstGoal(method) ==
  CASE method = "normalize" -> "field_alias"
    [] method = "known"     -> "known_field"
    [] method = "validate"  -> "valid_clause"

(* A handler calls NormalizeField, KnownField or Validate. *)
Enter(c) ==
  /\ pc[c] = "idle"
  /\ \E k \in Calls : /\ call' = [call EXCEPT ![c] = k]
                      /\ First(c, FirstGoal(k[1]))
  /\ UNCHANGED <<base, gone, answer, result, lock, sessions, ran>>

(* The client of c's request disconnects: r.Context() is cancelled.  (Later in
   the call it would make no difference until the next one.)                  *)
Disconnect(c) ==
  /\ pc[c] \in {"waiting", "evaluating"} /\ ~gone[c]
  /\ gone' = [gone EXCEPT ![c] = TRUE]
  /\ UNCHANGED <<base, pc, call, goal, age, overtaken, answer, result, lock, sessions, ran>>

(* Those who have waited longer than c. *)
Elders(c) == {d \in Callers : pc[d] = "waiting" /\ age[d] > age[c]}

(* mu.Lock returns, whatever has become of the context, and QueryContext opens
   the solutions.  sync.Mutex wakes its longest waiter, but a goroutine that is
   running may take the lock before that one gets to it: one that comes along,
   or the last holder asking the next goal of its Validate.  Only a waiter that
   has been passed over after a millisecond is handed the lock.               *)
Acquire(c) ==
  /\ pc[c] = "waiting" /\ lock = {}
  /\ \A d \in Elders(c) : overtaken[d] < Overtakes
  /\ overtaken' = [d \in Callers |-> IF d \in Elders(c) THEN overtaken[d] + 1 ELSE overtaken[d]]
  /\ lock' = {c}
  /\ sessions' = sessions \cup {c}
  /\ ran' = 0
  /\ pc' = [pc EXCEPT ![c] = "evaluating"]
  /\ UNCHANGED <<base, call, goal, age, gone, answer, result>>

EndEvaluation(c, a) ==
  /\ pc' = [pc EXCEPT ![c] = "closing"]
  /\ answer' = [answer EXCEPT ![c] = a]
  /\ UNCHANGED <<base, call, goal, age, overtaken, gone, result, lock, sessions, ran>>

(* Next finds a solution and Scan reads it. *)
Solve(c) ==
  /\ pc[c] = "evaluating" /\ Evaluated(c)
  /\ TheGoal(c) \notin base.raises /\ Proves(c)
  /\ EndEvaluation(c, "yes")

(* Next finds that there is none. *)
Refute(c) ==
  /\ pc[c] = "evaluating" /\ Evaluated(c)
  /\ TheGoal(c) \notin base.raises /\ ~Proves(c)
  /\ EndEvaluation(c, AfterNoSolution(c, FALSE))

(* A rule raises.  Validate asks rejection_reason inside catch/3, which turns
   the error into a failure.                                                  *)
Raise(c) ==
  /\ pc[c] = "evaluating" /\ Evaluated(c)
  /\ TheGoal(c) \in base.raises
  /\ EndEvaluation(c, AfterNoSolution(c, goal[c] # "rejection_reason"))

(* The interpreter notices that the context is done.  Whether it reports that
   through sols.Err or just stops is the library's business.                  *)
CutOff(c) ==
  /\ pc[c] = "evaluating" /\ CtxDone(c)
  /\ \E err \in BOOLEAN : EndEvaluation(c, AfterNoSolution(c, err))

(* Mutant: the deferred calls in the other order, Unlock before Close. *)
UnlockFirst(c) ==
  /\ pc[c] = "closing"
  /\ lock' = lock \ {c}
  /\ pc' = [pc EXCEPT ![c] = "unlocking"]
  /\ UNCHANGED <<base, call, goal, age, overtaken, gone, answer, result, sessions, ran>>

(* defer sols.Close() *)
CloseSolutions(c) ==
  /\ pc[c] = "closing"
  /\ sessions' = sessions \ {c}
  /\ ran' = 0
  /\ pc' = [pc EXCEPT ![c] = "unlocking"]
  /\ UNCHANGED <<base, call, goal, age, overtaken, gone, answer, result, lock>>

-----------------------------------------------------------------------------
(* Engine.first ends with defer e.mu.Unlock(), and the API method that called it
   uses the answer: it returns, or Validate asks its next goal.               *)

(* Mutant: no deferred Unlock, the error paths return with the mutex held. *)
UnlockOnSuccess(c) ==
  /\ pc[c] = "unlocking"
  /\ lock' = IF answer[c] = "error" THEN lock ELSE lock \ {c}

Unlock(c) ==
  /\ pc[c] = "unlocking"
  /\ lock' = lock \ {c}

Return(c, r) ==
  /\ pc' = [pc EXCEPT ![c] = "done"]
  /\ result' = [result EXCEPT ![c] = r]
  /\ goal' = [goal EXCEPT ![c] = NoGoal]
  /\ answer' = [answer EXCEPT ![c] = "none"]
  /\ age' = [age EXCEPT ![c] = 0]
  /\ UNCHANGED <<base, call, overtaken, gone, sessions, ran>>

AskNext(c, g) ==
  /\ First(c, g)
  /\ answer' = [answer EXCEPT ![c] = "none"]
  /\ UNCHANGED <<base, call, gone, result, sessions, ran>>

NormalizeField(c) ==
  /\ Unlock(c) /\ call[c][1] = "normalize"
  /\ Return(c, CASE answer[c] = "error" -> "error"
                 [] answer[c] = "no"    -> "raw"
                 [] answer[c] = "yes"   -> "canonical")

KnownField(c) ==
  /\ Unlock(c) /\ call[c][1] = "known"
  /\ Return(c, answer[c])

(* Lines 180 to 186 of Validate. *)
ValidateClause(c) ==
  /\ Unlock(c) /\ call[c][1] = "validate" /\ goal[c] = "valid_clause"
  /\ \/ answer[c] = "error" /\ Return(c, "error")
     \/ answer[c] = "yes"   /\ Return(c, "accept")
     \/ answer[c] = "no"    /\ AskNext(c, "rejection_reason")

(* Mutant: only the error of the query is looked at, not whether a reason was
   found; the reason may then be empty.                                       *)
ReasonUnlessError(c) ==
  /\ Unlock(c) /\ call[c][1] = "validate" /\ goal[c] = "rejection_reason"
  /\ \/ answer[c] # "error" /\ Return(c, IF answer[c] = "yes"
                                         THEN RejectionReason(base, Field(c), Op(c)) ELSE "none")
     \/ answer[c] = "error" /\ AskNext(c, "known_field")

(* Lines 192 to 196: any failure to find a reason falls through. *)
ValidateReason(c) ==
  /\ Unlock(c) /\ call[c][1] = "validate" /\ goal[c] = "rejection_reason"
  /\ \/ answer[c] = "yes" /\ Return(c, RejectionReason(base, Field(c), Op(c)))
     \/ answer[c] # "yes" /\ AskNext(c, "known_field")

(* Lines 197 to 206: the generic reason. *)
ValidateKnown(c) ==
  /\ Unlock(c) /\ call[c][1] = "validate" /\ goal[c] = "known_field"
  /\ Return(c, CASE answer[c] = "error" -> "error"
                 [] answer[c] = "no"    -> "unknown"
                 [] answer[c] = "yes"   -> "operation")

(* The handler has used the answer; the goroutine may call again. *)
Leave(c) ==
  /\ pc[c] = "done"
  /\ pc' = [pc EXCEPT ![c] = "idle"]
  /\ call' = [call EXCEPT ![c] = NoCall]
  /\ gone' = [gone EXCEPT ![c] = FALSE]
  /\ result' = [result EXCEPT ![c] = "none"]
  /\ overtaken' = [overtaken EXCEPT ![c] = 0]
  /\ UNCHANGED <<base, goal, age, answer, lock, sessions, ran>>
-----------------------------------------------------------------------------
InFirst(c) == pc[c] \in {"waiting", "evaluating", "closing", "unlocking"}

(* Something is due now, so the clock does not move. *)
Urgent ==
  \/ \E c \in Callers : pc[c] \in {"closing", "unlocking"}
  \/ \E c \in Callers : pc[c] = "evaluating" /\ (Evaluated(c) \/ CtxDone(c))
  \/ lock = {} /\ \E c \in Callers : pc[c] = "waiting"

(* What a call may last: a timeout, and one more each time it is overtaken. *)
LongestCall == (1 + Overtakes) * Timeout

(* Counters stop where no guard tells values apart any more. *)
Saturated(n, limit) == IF n > limit THEN n ELSE n + 1

Tick ==
  /\ ~Urgent
  /\ \E c \in Callers : InFirst(c)
  /\ age' = [c \in Callers |-> IF InFirst(c) THEN Saturated(age[c], LongestCall) ELSE age[c]]
  /\ ran' = IF sessions # {} THEN Saturated(ran, Timeout) ELSE ran
  /\ UNCHANGED <<base, pc, call, goal, overtaken, gone, answer, result, lock, sessions>>

EngineStep(c) ==
  \/ Acquire(c)
  \/ Solve(c) \/ Refute(c) \/ Raise(c) \/ CutOff(c)
  \/ CloseSolutions(c)
  \/ NormalizeField(c) \/ KnownField(c)
  \/ ValidateClause(c) \/ ValidateReason(c) \/ ValidateKnown(c)

Next ==
  \/ \E c \in Callers : Enter(c) \/ Disconnect(c) \/ EngineStep(c) \/ Leave(c)
  \/ Tick

Spec == Init /\ [][Next]_engineVars

(* The runtime keeps scheduling goroutines, time passes, and sync.Mutex starves
   nobody.                                                                    *)
FairSpec ==
  /\ Spec
  /\ WF_engineVars(Tick)
  /\ \A c \in Callers : WF_engineVars(EngineStep(c)) /\ SF_engineVars(Acquire(c))
-----------------------------------------------------------------------------
(* Type invariant. *)
TypeOK ==
  /\ base \in Bases
  /\ pc \in [Callers -> Stages]
  /\ call \in [Callers -> Calls \cup {NoCall}]
  /\ goal \in [Callers -> Predicates \cup {NoGoal}]
  /\ age \in [Callers -> 0 .. LongestCall + 1]
  /\ overtaken \in [Callers -> 0 .. Overtakes]
  /\ gone \in [Callers -> BOOLEAN]
  /\ answer \in [Callers -> {"none", "yes", "no", "error"}]
  /\ result \in [Callers -> Results]
  /\ lock \in SUBSET Callers /\ sessions \in SUBSET Callers
  /\ ran \in 0 .. Timeout + 1
  /\ \A c \in Callers : /\ call[c] = NoCall <=> pc[c] = "idle"
                        /\ goal[c] = NoGoal <=> pc[c] \in {"idle", "done"}
                        /\ result[c] = "none" <=> pc[c] # "done"

(* The interpreter, which is not safe for concurrent queries, never has two open
   sessions, and an open session belongs to the goroutine that holds Engine.mu.
   It rests on the order of the deferred calls: Close before Unlock.           *)
OneSession == \A c \in sessions : lock = {c}

(* A call of Engine.first lasts at most one timeout, and one more for every time
   it was overtaken at the mutex, however many callers queue and whatever rules
   the others are stuck in: the clock starts before the wait, so those it waits
   for in its turn have no longer to go than itself.                          *)
BoundedCall == \A c \in Callers : InFirst(c) => age[c] <= (1 + overtaken[c]) * Timeout

(* The goals a call may ask. *)
Asks(k) ==
  {<<FirstGoal(k[1]), k[2]>>} \cup
  (IF k[1] = "validate" THEN {<<"known_field", k[2]>>} ELSE {})

(* The rules are so quick that m evaluations fit in one timeout. *)
Quick(m) == \A g \in Goals : base.cost[g] * m < Timeout

(* Internal errors have a cause.  When an evaluation for every caller, and one
   more for each time the call was overtaken, fit in its timeout, it fails only
   because a rule it asks raises or its own client has left: a queue by itself
   never turns into rule_error.                                               *)
ErrorsHaveACause ==
  \A c \in Callers :
     result[c] = "error" /\ Quick(Cardinality(Callers) + overtaken[c]) =>
        gone[c] \/ Asks(call[c]) \cap base.raises # {}

(* The engine implements RuleOracle: answers are the rule base's, or an error. *)
Oracle == INSTANCE RuleOracle WITH asked <- call
ImplementsOracle == Oracle!Spec

(* Every call returns, also behind a rule that never terminates. *)
CallsReturn == \A c \in Callers : pc[c] = "waiting" ~> pc[c] = "done"
=============================================================================
