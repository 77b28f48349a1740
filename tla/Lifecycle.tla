----------------------------- MODULE Lifecycle -----------------------------
(* The gateway's process, cmd/gateway/main.go: it reads its configuration, builds
   the rule engine, the client of the cluster and the server, listens, and stops on
   a signal.  Each request comes in on a connection of its own, goes through the
   router and its middleware, and takes time four times over: its client sends the
   body and later takes the answer, inside the deadlines that net/http sets on the
   connection; the rule engine answers each goal within RuleEngine!LongestCall; the
   cluster has the client's timeout.

   Time is counted in ticks.  A request leaves a stage, and main returns, before the
   tick in which the time of the stage, or the grace period, would be exceeded.   *)
EXTENDS Integers, FiniteSets

CONSTANTS
  Configs,      \* configurations the program may be started with
  Requests,     \* requests that may come in
  Goals,        \* the most goals that one query asks the rule engine
  Overtakes,    \* how often one waiter for the engine is overtaken, see RuleEngine
  Grace,        \* the deadline of srv.Shutdown
  ReadHeaderTimeout, ReadTimeout, WriteTimeout, \* those of http.Server
  PingTimeout,  \* the timeout of Client.Ping
  DefaultRulesTimeout, DefaultRequestTimeout

(* What the routes ask for: "schema" is introspect or prolog with GET, of a mapping of
   the cluster, and "mapping" the same with POST, of the mapping in the body.  *)
Kinds == {"search", "translate", "schema", "mapping", "healthz", "readyz"}

LimitNames == {"rulesTimeout", "requestTimeout", "defaultSize", "maxSize", "maxFrom",
               "rps", "burst", "ttl"}

(* A config file and the environment.  Addresses and index are known by being empty
   or not; "bad" is what cannot be read or parsed.                             *)
ConfigSpace ==
  [file : {"ok", "bad"}, rulesFiles : {"ok", "bad"},
   addresses : {"none", "some"}, index : {"none", "some"}, limits : [LimitNames -> Int],
   envAddresses : {"none", "some", "unset"}, envIndex : {"none", "some", "unset"},
   envFlag : {"ok", "bad", "unset"}]

ASSUME ConfigsAssumption == Configs \subseteq ConfigSpace
ASSUME TimesAssumption ==
  /\ Goals \in Nat /\ Overtakes \in Nat /\ Grace \in Nat /\ PingTimeout \in Nat
  /\ ReadHeaderTimeout \in Nat /\ ReadTimeout \in Nat /\ WriteTimeout \in Nat
  /\ DefaultRulesTimeout \in Nat \ {0} /\ DefaultRequestTimeout \in Nat \ {0}

-----------------------------------------------------------------------------
(* config.go, and the defaults of the constructors behind it *)

Default ==
  [rulesTimeout |-> DefaultRulesTimeout, requestTimeout |-> DefaultRequestTimeout,
   defaultSize |-> 10, maxSize |-> 100, maxFrom |-> 10000, rps |-> 5, burst |-> 10, ttl |-> 600]

applyEnv(c) ==
  [c EXCEPT !.addresses = IF c.envAddresses = "unset" THEN @ ELSE c.envAddresses,
            !.index     = IF c.envIndex = "unset" THEN @ ELSE c.envIndex]

(* The sizes are replaced if they are not positive, the others only if zero. *)
applyDefaults(c) ==
  [c EXCEPT !.limits = [l \in LimitNames |->
     IF @[l] = 0 \/ (@[l] < 0 /\ l \in {"defaultSize", "maxSize", "maxFrom"}) THEN Default[l] ELSE @[l]]]

Validate(c) == c.addresses = "some" /\ c.index = "some" /\ c.limits.defaultSize <= c.limits.maxSize

Loads(c) == c.file = "ok" /\ c.envFlag # "bad" /\ Validate(applyDefaults(applyEnv(c)))

(* rules.New, executor.NewClient, NewServer and NewRateLimiter each replace the
   limits that are not positive, of those they are given.                      *)
Repaired(c, names) ==
  [c EXCEPT !.limits = [l \in LimitNames |-> IF l \in names /\ @[l] <= 0 THEN Default[l] ELSE @[l]]]

-----------------------------------------------------------------------------
VARIABLES
  cfg,      \* the configuration, as read and then as the components hold it
  main,     \* where main() is
  listener, \* srv.ListenAndServe: "none", "spawned", "listening" or "closed"
  stop,     \* signals in the channel, of capacity 1
  signalled,\* main has been told to stop since it asked for signals
  ending,   \* how the process ended, or "none"
  drained,  \* ticks since srv.Shutdown was called
  req       \* req[r]: the place of a request, its kind and the ticks it took: until its
            \* headers were there, since then, by its client since then, in its stage

vars == <<cfg, main, listener, stop, signalled, ending, drained, req>>
serverVars == <<cfg, main, listener, stop, signalled, ending, drained>>

Absent == [at |-> "absent", kind |-> "none", header |-> 0, age |-> 0, client |-> 0, spent |-> 0]
InFlight == {"entry", "reading", "rules", "backend", "writing"}
Active == {r \in Requests : req[r].at \in InFlight}
Fresh == {r \in Requests : req[r].at = "header"}

(* The longest that all the goals of a query take. *)
RulesTime == Goals * ((1 + Overtakes) * cfg.limits.rulesTimeout)

(* Mutant: a timed-out call of the cluster is repeated once, with a new timeout. *)
CallTimeWithRetry(kind) == IF kind = "readyz" THEN PingTimeout ELSE 2 * cfg.limits.requestTimeout

(* The timeout of a call of the cluster. *)
CallTime(kind) == IF kind = "readyz" THEN PingTimeout ELSE cfg.limits.requestTimeout

(* q cannot stay where it is for another tick.  The connection's read deadline runs
   from its first byte or its opening, its write deadline from the end of the
   headers; the rest of a body nobody read is discarded while the answer is written. *)
Due(q) ==
  CASE q.at = "header"  -> q.header >= ReadHeaderTimeout
    [] q.at = "entry"   -> TRUE
    [] q.at = "reading" -> q.header + q.age >= ReadTimeout
    [] q.at = "rules"   -> q.spent >= RulesTime
    [] q.at = "backend" -> q.spent >= CallTime(q.kind)
    [] q.at = "writing" -> q.age >= WriteTimeout /\ q.header + q.age >= ReadTimeout
    [] OTHER            -> FALSE

(* The longest a request takes, its client apart. *)
Budget ==
  RulesTime
  + (IF cfg.limits.requestTimeout > PingTimeout THEN cfg.limits.requestTimeout ELSE PingTimeout)

Init ==
  /\ cfg \in Configs
  /\ main = "config" /\ listener = "none"
  /\ stop = 0 /\ signalled = FALSE /\ ending = "none" /\ drained = 0
  /\ req = [r \in Requests |-> Absent]

Alive == main # "exited"

(* The process ends: requests in flight are cut off. *)
Terminate(how) ==
  /\ main' = "exited" /\ listener' = "closed" /\ ending' = how
  /\ req' = [r \in Requests |->
       IF r \in Active \cup Fresh
       THEN [req[r] EXCEPT !.at = IF r \in Active THEN "cut" ELSE "dropped"]
       ELSE req[r]]

LoadConfig ==
  /\ main = "config"
  /\ IF Loads(cfg)
     THEN /\ cfg' = applyDefaults(applyEnv(cfg))
          /\ main' = "rules"
          /\ UNCHANGED <<listener, ending, req>>
     ELSE Terminate("fatal") /\ UNCHANGED cfg
  /\ UNCHANGED <<stop, signalled, drained>>

NewEngine ==
  /\ main = "rules"
  /\ IF cfg.rulesFiles = "ok"
     THEN /\ cfg' = Repaired(cfg, {"rulesTimeout"})
          /\ main' = "client"
          /\ UNCHANGED <<listener, ending, req>>
     ELSE Terminate("fatal") /\ UNCHANGED cfg
  /\ UNCHANGED <<stop, signalled, drained>>

(* The client, which opensearch.NewClient may refuse to make; then the server, the
   limiter and the goroutine that listens.                                     *)
NewServer ==
  /\ main = "client"
  /\ \/ /\ cfg' = Repaired(cfg, LimitNames \ {"rulesTimeout"})
        /\ main' = "notify" /\ listener' = "spawned"
        /\ UNCHANGED <<ending, req>>
     \/ Terminate("fatal") /\ UNCHANGED cfg
  /\ UNCHANGED <<stop, signalled, drained>>

(* ListenAndServe binds the address, or ends the process with log.Fatalf.  After
   Shutdown it returns ErrServerClosed, which is no error.                     *)
Listen ==
  /\ Alive /\ listener = "spawned"
  /\ \/ listener' = "listening" /\ UNCHANGED <<main, ending, req>>
     \/ Terminate("fatal")
  /\ UNCHANGED <<cfg, stop, signalled, drained>>

Notify ==
  /\ main = "notify"
  /\ main' = "notified"
  /\ UNCHANGED <<cfg, listener, stop, signalled, ending, drained, req>>

Wait ==
  /\ main = "notified"
  /\ main' = "waiting"
  /\ UNCHANGED <<cfg, listener, stop, signalled, ending, drained, req>>

(* Mutant: signal.Notify on a channel without a buffer, read only by <-stop. *)
SignalUnbuffered ==
  /\ Alive
  /\ IF main \in {"config", "rules", "client", "notify"}
     THEN Terminate("killed") /\ UNCHANGED <<stop, signalled>>
     ELSE /\ stop' = (IF main = "waiting" THEN 1 ELSE stop)
          /\ signalled' = TRUE
          /\ UNCHANGED <<main, listener, ending, req>>
  /\ UNCHANGED <<cfg, drained>>

(* SIGINT or SIGTERM.  Before signal.Notify it kills the process; later it goes to
   the channel, and is dropped if one is there that nobody has received.       *)
Signal ==
  /\ Alive
  /\ IF main \in {"config", "rules", "client", "notify"}
     THEN Terminate("killed") /\ UNCHANGED <<stop, signalled>>
     ELSE /\ stop' = 1
          /\ signalled' = TRUE
          /\ UNCHANGED <<main, listener, ending, req>>
  /\ UNCHANGED <<cfg, drained>>

(* Mutant: the listener stays open while requests drain. *)
ShutdownListening ==
  /\ main = "waiting" /\ stop = 1
  /\ main' = "draining" /\ stop' = 0
  /\ UNCHANGED <<cfg, listener, signalled, ending, drained, req>>

(* <-stop, then srv.Shutdown closes the listener. *)
Shutdown ==
  /\ main = "waiting" /\ stop = 1
  /\ main' = "draining" /\ stop' = 0
  /\ listener' = "closed"
  /\ UNCHANGED <<cfg, signalled, ending, drained, req>>

(* Mutant: Shutdown with a context that has no deadline. *)
MayReturnWhenIdle == main = "draining" /\ Active \cup Fresh = {}

(* Mutant: srv.Close, which waits for nobody. *)
MayReturnAtOnce == main = "draining"

(* srv.Shutdown returns when no connection is active, or new and still waiting for its
   first headers, or when its context is done.                                 *)
MayReturn == main = "draining" /\ (Active \cup Fresh = {} \/ drained >= Grace)

(* main returns: cancel, limiter.Close, re.Close, and the process ends. *)
Return ==
  /\ MayReturn
  /\ Terminate(IF Active \cup Fresh = {} THEN "drained" ELSE "deadline")
  /\ UNCHANGED <<cfg, stop, signalled, drained>>

-----------------------------------------------------------------------------
(* Requests: router.go, middleware.go *)

Move(r, place) ==
  /\ req' = [req EXCEPT ![r].at = place, ![r].spent = 0]
  /\ UNCHANGED serverVars

(* Any answer: neither what it says nor what was asked makes a difference from here. *)
Reply(r) ==
  /\ req' = [req EXCEPT ![r].at = "writing", ![r].spent = 0, ![r].kind = "none"]
  /\ UNCHANGED serverVars

(* A connection is accepted.  Shutdown closes those that wait for a further request,
   so only a request on a new one can come in while the shutdown drains.       *)
Connect(r) ==
  /\ listener = "listening" /\ req[r] = Absent
  /\ Move(r, "header")

(* The headers are there: the request goes to the router. *)
Arrive(r) ==
  /\ Alive /\ req[r].at = "header"
  /\ \E k \in Kinds : req' = [req EXCEPT ![r].at = "entry", ![r].kind = k]
  /\ UNCHANGED serverVars

(* The client hangs up, ReadHeaderTimeout passes, or Shutdown finds the connection
   as old as that.                                                             *)
Drop(r) ==
  /\ Alive /\ req[r].at = "header"
  /\ req' = [req EXCEPT ![r] = [Absent EXCEPT !.at = "dropped"]]
  /\ UNCHANGED serverVars

(* Routing, the limiter, and the handler up to the first call that waits: the health
   checks are not limited, and the schema of an index may be refused before the
   cluster is asked for its mapping.                                           *)
Route(r) ==
  /\ Alive /\ req[r].at = "entry"
  /\ \/ req[r].kind # "readyz" /\ Reply(r)
     \/ req[r].kind \in {"readyz", "schema"} /\ Move(r, "backend")
     \/ req[r].kind \in {"search", "translate", "mapping"} /\ Move(r, "reading")

(* The body is there, or cannot be used, or the read deadline passes.  A mapping is
   analysed at once.                                                           *)
EndBody(r) ==
  /\ Alive /\ req[r].at = "reading"
  /\ \/ Reply(r)
     \/ req[r].kind # "mapping" /\ Move(r, "rules")

(* The request and its clauses are in order, or one is refused, or a goal fails. *)
EndRules(r) ==
  /\ Alive /\ req[r].at = "rules"
  /\ \/ Reply(r)
     \/ req[r].kind = "search" /\ Move(r, "backend")

(* The cluster answers, well or badly, or the timeout of the call passes.  Recover
   answers for a handler that panics, here as in the rules.                    *)
EndBackend(r) ==
  /\ Alive /\ req[r].at = "backend"
  /\ Reply(r)

(* The client has taken the answer, unless the connection's write deadline has passed. *)
Write(r) ==
  /\ Alive /\ req[r].at = "writing"
  /\ req' = [req EXCEPT ![r] = IF @.age < WriteTimeout
                               THEN [Absent EXCEPT !.at = "answered"]
                               ELSE [@ EXCEPT !.at = "lost"]]
  /\ UNCHANGED serverVars

(* One tick in the life of q. *)
Older(q) ==
  IF q.at = "header"
  THEN [q EXCEPT !.header = @ + 1]
  ELSE [q EXCEPT !.age = @ + 1,
                 !.client = IF q.at \in {"reading", "writing"} THEN @ + 1 ELSE @,
                 !.spent = IF q.at \in {"rules", "backend"} THEN @ + 1 ELSE @]

(* Time passes for everybody, when nothing is due in this tick. *)
Tick ==
  /\ Alive /\ ~MayReturn
  /\ Active \cup Fresh # {}
  /\ \A r \in Active \cup Fresh : ~Due(req[r])
  /\ req' = [r \in Requests |-> IF r \in Active \cup Fresh THEN Older(req[r]) ELSE req[r]]
  /\ drained' = IF main = "draining" THEN drained + 1 ELSE drained
  /\ UNCHANGED <<cfg, main, listener, stop, signalled, ending>>

Process == LoadConfig \/ NewEngine \/ NewServer \/ Listen \/ Notify \/ Wait \/ Shutdown \/ Return
Serve(r) == Drop(r) \/ Route(r) \/ EndBody(r) \/ EndRules(r) \/ EndBackend(r) \/ Write(r)

Next ==
  \/ Process
  \/ Signal
  \/ Tick
  \/ \E r \in Requests : Connect(r) \/ Arrive(r)
  \/ \E r \in Requests : Serve(r)

Spec == Init /\ [][Next]_vars

(* The runtime keeps scheduling runnable goroutines and timers fire.  Signals,
   clients and the cluster owe nothing: who never sends, reads or answers, times out. *)
FairSpec ==
  /\ Spec
  /\ WF_vars(Process) /\ WF_vars(Tick)
  /\ \A r \in Requests : WF_vars(Due(req[r]) /\ Serve(r))

-----------------------------------------------------------------------------
RequestStates ==
  [at : InFlight \cup {"absent", "header", "dropped", "answered", "lost", "cut"},
   kind : Kinds \cup {"none"}, header : Nat, age : Nat, client : Nat, spent : Nat]

(* Besides the types: once the parts are built every limit in force is positive,
   whatever the file says, and the shutdown never outlasts its grace period.   *)
TypeOK ==
  /\ cfg \in ConfigSpace
  /\ main \in {"config", "rules", "client", "notify", "notified", "waiting", "draining", "exited"}
  /\ listener \in {"none", "spawned", "listening", "closed"}
  /\ stop \in {0, 1} /\ signalled \in BOOLEAN
  /\ ending \in {"none", "fatal", "killed", "drained", "deadline"}
  /\ drained \in 0 .. Grace
  /\ req \in [Requests -> RequestStates]
  /\ listener \in {"spawned", "listening"} =>
       \A l \in LimitNames : cfg.limits[l] > 0

(* A request that was taken in is cut off only by a signal that came before main
   asked for signals, or when the whole grace period has passed on its connection:
   a shutdown never accepts a connection it then abandons (main.go:63-77).     *)
CutOnlyAfterGrace ==
  \A r \in Requests : req[r].at = "cut" =>
    \/ ending = "killed" /\ ~signalled
    \/ ending = "deadline" /\ req[r].header + req[r].age >= Grace

(* A shutdown cuts off a request only if its client's time, for headers, body and
   answer, and the longest the rules and the cluster take together fill the grace
   period.  The shipped request_timeout, 10 s, is the whole of it.             *)
ShortRequestsFinish ==
  signalled => \A r \in Requests :
    req[r].header + req[r].client + Budget < Grace => req[r].at # "cut"

(* An answer is lost on the write deadline only if body, rules, cluster and the
   taking of the answer can fill it: the deadline runs while the gateway works
   (main.go:57-60).                                                            *)
LostOnlyIfSlow ==
  \A r \in Requests : req[r].client + Budget < WriteTimeout => req[r].at # "lost"

(* A process that was told to stop, exits. *)
Stops == signalled ~> main = "exited"
=============================================================================
