# A verification project for opensearch-query-gateway

TLA+ specifications of the gateway, TLC runs that check them on small instances,
and TLAPS proofs for every instance. All paths below are relative to the
repository (`src/…` is its root). `PROJECT.json` maps each definition to the
lines it models.

## 1. Inventory

The gateway translates a small query language into OpenSearch DSL and lets a
Prolog rule base decide what may be asked.

| Component | State | Operations | What makes it correct |
|---|---|---|---|
| Rule engine `internal/rules/engine.go` | one Prolog interpreter, a mutex | `first`, `NormalizeField`, `KnownField`, `Validate`, `Load` at startup | one query at a time; every call returns, within its timeout if it is served in its turn; a fault is never reported as a verdict |
| Rule base `internal/rules/bootstrap.pl` | facts and rules, fixed after startup | `field_alias`, `known_field`, `valid_clause`, `rejection_reason` | verdicts and reasons agree |
| Handlers `internal/api/handler_search.go`, `server.go` | per request: page, AST rewritten in place, explanation | `translate`, `page`, `checkClause`, `Search`, `Translate`, `writeErr` | nothing unvetted reaches the cluster; faults fail closed; the explanation is true |
| Rate limiter `internal/api/middleware.go` | `limiters` and `seen` maps, mutex, cleanup goroutine | `getLimiter`, `Allow`, `cleanupLoop`, `Close` | one token bucket per client in spite of eviction; bounded memory |
| Playground page `internal/api/playground/playground.js` | `revision`, `activeRequest`, `currentDSL`, buttons | `invalidate`, `translate`, copy | late answers never show; the button always comes back |
| OpenSearch client `internal/executor/client.go` | none | `Search`, `GetMapping`, `Ping` with a timeout | errors are classified |
| Parser `internal/parser` | none | `Parse`, `WalkClauses`, `Op`, `Duration` | precedence; modifiers bind to their value |
| DSL builder `internal/dslbuilder` | none | `BuildSearch` | the DSL means what the query means |
| Schema `internal/schema`, `handler_schema.go`, `cmd/schema-export` | schema files on disk, read at the next start | `ExtractProperties`, `WalkProps`, `Analyze`, facts for Prolog, export | advice, facts and rules agree, whatever was remapped or exported since |
| DCG compiler `internal/dcg`, `rules.schema_files` | none | lex, parse, generate, load | the generated clauses accept the grammar's language; a text that is no grammar is refused where it goes wrong |
| Process `cmd/gateway`, `internal/config`, `router.go` | configuration, listener, signal channel, in-flight requests | load, serve, shut down | in-flight requests finish; limits in force are positive; the process ends when told to |

How they interact: an HTTP goroutine passes the rate limiter (shared maps under
a mutex, then a limiter object used without it), runs `translate` (which calls
the shared rule engine up to three goals per clause, each under the engine's
mutex and a deadline of its own), builds the DSL and calls the cluster. The
cleanup goroutine shares the limiter's maps. Mappings reach the rules by a file:
`schema-export` writes what the cluster says, and the gateway reads it when it
starts, while `/v1/schema/introspect` asks the cluster now. `main` shuts the server
down while requests are in the engine or in the cluster. The page calls `POST /v1/translate`
and must cope with whatever order the answers come back in.

What is hard: goroutines queueing for one interpreter while their deadlines run;
rules that loop or raise; a request that holds a limiter the sweep has just
removed; a cutoff read before the lock; AST nodes rewritten while they are
validated; rules loaded from a mapping that has changed since; a shutdown whose
grace period runs against the timeouts of what it waits for; late, aborted and timed-out answers in the browser; integer limits.
`PROJECT.json` lists these hazards one by one, each at its line.

## 2. Modules

| Module | Models | Main correspondence |
|---|---|---|
| `RuleBase` | `bootstrap.pl` | a rule base is four sets or functions of field names |
| `RuleOracle` | abstract: what the engine promises | a call is answered once, by the rule base or by an error |
| `RuleEngine` | `engine.go` | `pc[c]` is the place of goroutine `c` in `first`: waiting for `mu`, evaluating, closing, unlocking; one action per API method uses the answer |
| `Gate` | abstract: what a request to `/v1/search` or `/v1/translate` is promised | one decision with the code of the first fault; one translation, a function of the request |
| `SearchPipeline` | `handler_search.go`, `writeErr` | `pc` is the step of `translate`; one action per check, one turn of each loop per step |
| `TokenBucket` | abstract: what rate limiting promises | one permanent bucket per client |
| `RateLimiter` | `middleware.go` | `limiters`, `idle` (`seen`), limiter objects with their tokens, the sweeper's cycle |
| `QueryLanguage` | `parser`, Boolean part of `dslbuilder` | a text is a sequence of tokens; one parser per node of the grammar; `Parse`, `Walk`, `Build` as in `translate` |
| `LeafQueries` | `Builder.clause` and the functions it calls | the words of the language and the query that one clause becomes |
| `SchemaRules` | `internal/schema`, `handler_schema.go`, `schema-export`, the loading loop of `rules.New`, the schema part of `bootstrap.pl` | a mapping is a function from paths to declarations; `mapping` in the cluster, `file` on disk, `rules` in the interpreter; one action per handler, export and loaded file |
| `Lifecycle` | `main.go`, `config.go`, `router.go`, `RecoverMiddleware` | `main` is the place of `main()`, `req[r]` the place of a request with the time it took, in all, in its stage and by its client |
| `Dcg` | `internal/dcg` | `Tokens`, `parseRules`, `genRules` in turn; what clauses and grammars mean are relations between positions of an input |
| `Playground` | `playground.js` | one action per handler and per continuation after an `await`; a call is known by its `version` |
| `SearchPipelineProofs`, `RateLimiterProofs`, `RuleEngineProofs`, `PlaygroundProofs`, `SchemaRulesProofs`, `LifecycleProofs`, `GateProofs`, `QueryLanguageProofs` | theorems | see section 5 |
| `MC…` | instances for TLC | see section 3 |

Modelling decisions that a reader of the code should know:

* **Time is relative.** The engine counts ticks since each context was made; the
  limiter counts ticks since each client was seen. Ages saturate where no guard
  can tell them apart, so the state space is finite and time unbounded.
* **Urgency.** In `RuleEngine`, only evaluation takes time; everything else that
  can happen in a tick happens before the next. In `RateLimiter`, a runnable
  goroutine may be kept waiting up to `Stall` ticks, so the races between
  `getLimiter`, `Allow` and the sweep are there.
* **The mutex.** `sync.Mutex` wakes its longest waiter, but a goroutine that is running
  may take the lock before that one gets to it: one that comes along, or the last
  holder with the next goal of its `Validate`. Only when the woken waiter has failed
  after a millisecond is the lock handed over (starvation mode). So `Acquire` lets any
  waiter in ahead of its elders, and `overtaken[c]` counts how often that has happened
  to `c`. `mu.Lock` does not look at the context: a call that was overtaken may outlast
  its timeout, by one timeout for each time (`BoundedCall`). `Overtakes` bounds the
  count for TLC; the theorems hold for any bound.
* **Cutting an evaluation.** Whether the interpreter reports the end of its
  context through `Err` or just stops is left open: both outcomes are explored.
* **The rule engine in the pipeline** answers as `RuleOracle` promises, or fails,
  at each call. So the pipeline's results hold for whatever makes the engine fail.
* **A query is the sequence of its clauses** in the order of `WalkClauses`. None
  of the checks look at the Boolean structure.
* **What a query means** is defined twice in `QueryLanguage`: by the source's
  parser and builder under OpenSearch's Boolean semantics (`Matches`), and by the
  precedence table of `src/README.md` (`Holds`). participle is external: its
  alternatives, options and repetitions are greedy and in order, as the source's
  tests use them. A literal of the grammar matches a token by its value (`Lit`), after
  `Unquote` (`grammar.go:29`) has taken the quotes off (`Value`), whatever class the
  token is of.
* **Recursion in `QueryLanguage`.** Groups, repetitions and subqueries make parsers,
  walk, builder and meaning recursive, and the prover has no recursive operators. So
  `ParseExpression`, `WalkClauses`, `Write`, `Holds` and their like are constants, and
  the source is translated by `ParseExpressionDef`, `WalkClausesDef` and so on, which
  call them: `RecursionAssumption` says that each is what its definition makes of it.
  The instance ties the knot (`WalkClauses <- MCWalkClauses`, which is
  `WalkClausesDef`), and TLC evaluates the assumption. What makes the recursions end
  is assumed of the data alone: a text is finite, and a group is less high than the
  expression it is in (`ExprsAssumption`).
* **Ints have a width.** `AddInt` wraps at `IntMax` like Go's `int`.
* **A mapping is a tree of paths.** Names are not split at dots; `index: false`
  and `doc_values: false` are attributes of a declaration. A GET for an alias of
  several indices (`Several`) and for an index without fields is the 400 that
  `ExtractProperties` makes of it.
* **Schema files replace each other, predicate by predicate.** `rules.New` gives each
  file to an `Exec` of its own (`engine.go:76-92`), and the prelude declares the
  predicates dynamic but not multifile (`engine.go:97-113`). A predicate that a file
  defines loses the clauses of earlier files, one that it does not define keeps them.
  So `rules` names for each predicate the file its clauses are from (`Exec`), and the
  properties speak of the last file's mapping (`Latest`) and of what is left of earlier
  ones (`InForce`).
* **Files cut short.** `schema-export` writes in place, so a failed write can leave a
  file that ends between two groups of facts, still a legal program. Exports cut short
  are in the model, and the two properties that cannot hold of such a file say so
  (`Latest.groups = Groups`).
* **`relative` among the operators of a date field** is `last:<duration>`, which is
  about `opensearch.time_field` whatever field the summary speaks of.
* **A request's time** in `Lifecycle` is spent on headers, body, rules, cluster and
  answer. The client takes as long as it likes over the first two and the last, within
  `ReadHeaderTimeout`, `ReadTimeout` and `WriteTimeout` of `http.Server` (`main.go:57-61`);
  the rules have at most `Goals` goals of `(1 + Overtakes)` timeouts each (what
  `RuleEngine!BoundedCall` gives), the cluster one timeout. `ReadTimeout` runs from the
  first byte or the opening of the connection, `WriteTimeout` from the end of the
  headers. A request leaves a stage, and `main` returns, before the tick in which its
  limit would pass (`Due`). A connection that waits for its first headers when the
  shutdown begins may still bring a request. What an answer says is left out: no
  property tells one from another.
* **The meaning of generated clauses** in `Dcg` is what Prolog's reading of them
  says, as relations between positions (`Holds`, `ClausesMean`): how the
  interpreter searches, and so left recursion, is out.
* **What the interpreter refuses** in `Dcg` (external): a predicate whose clauses do not
  stand together, which is why `prolog_writer.go:15-18` groups its facts, and a line
  break in a quoted atom. `LanguageKept` says which grammars are loaded (`Loadable`),
  and what the clauses of those mean.
* **The browser**: an aborted request rejects unless its body was already
  received; a timer fires some time; clipboard writes end in order.

## 3. Runs

| Run | Instance | Shows |
|---|---|---|
| `rule_engine` | 2 goroutines, 3 methods, 3 rule bases (quick, looping, raising), timeout 4, a waiter overtaken once | `ImplementsOracle`: answers are the rule base's or an error, never a verdict made of a fault; `ErrorsHaveACause`; `OneSession`, `BoundedCall`; `CallsReturn` |
| `pipeline` | all pairs of 8 clauses, 30 pages, 6 sorts, all index and parse outcomes, 5 rule bases | `ImplementsGate`: decisions, codes and translations are `Gate`'s; `VettedDSL`, `ExplanationFaithful` |
| `page_overflow` | the same, 8-bit ints | finding 1 |
| `rate_limiter` | 2 clients, 2 goroutines, 4 limiter objects, rps 1, burst 2, ttl 3, stall 1, windows of 4 | `ImplementsTokenBucket`, `WindowBound`, `NoOrphans`, `IdleReclaimed` |
| `rate_limiter_refill` | 1 client, burst 6, ttl 3 | finding 2 |
| `playground` | 3 texts, 4 revisions, 2 clipboard writes | six safety properties and `ButtonReturns` |
| `query_language` | every nesting of three clauses, each operand and group negated or not, every joint; every value with every modifier, also phrases that are `[`, `>=` or `OR` without their quotes; of four of these values, the texts with one token missing; texts with every `OR` in quotes | `NothingIgnored`, `ReadAsMeant`, `SelectsAsMeant`, `WalkReachesAll`, `LeavesDocumented` |
| `bare_fuzzy` | the same | finding 3 |
| `schema_rules` | 2 indices; 32 mappings that put one field of each kind in a plain or a nested object; remaps, exports (whole, torn, cut before `nested/2`), restarts with any set of files | `OnlyLeavesQueryable`, `AdvertisedAccepted`, `ReasonsTrue` |
| `introspect_nested` | the same | finding 4 |
| `lifecycle` | 9 configurations, 2 requests of 6 kinds, one goal that may be overtaken once, grace 4, timeouts 1 for headers, 2 for reading, 5 for writing, request timeouts 1 and 4 | `CutOnlyAfterGrace`, `ShortRequestsFinish`, `LostOnlyIfSlow`, `Stops` |
| `dcg` | grammars of two rules in three spellings, also with rules of one name apart and with a line break in a terminal; all sequences of up to 3 tokens after 3 beginnings and before 3 ends; inputs of 2 terminals | `LanguageKept`, `RefusedWhereWrong` |

**Bounds, and why they are enough.** Two goroutines make every pairwise race
possible; a queue of any length is the theorems' (section 5).
Validate's goals take one tick each, so a timeout of 4 ticks can pass
before, during and after each of them, and still has room for both callers and for being
overtaken once, which is what `ErrorsHaveACause` is about. Four limiter objects are one for each
client and one for each goroutine that could hold an evicted one. The window of
4 ticks spans an eviction. Four revisions let a superseded call, its successor
and two edits overlap. `MaxRevision` and `MaxWrites` bound the user, and nothing
else: when they are used up, the browser's events still happen, which is why
`playground` does not check for deadlock. `pipeline` does not either: a request
ends with its response. `Window` bounds only the observer, who can open a new
window at any time. Three clauses are the least in which one connective can
capture an operand of the other, with or without a group. A missing token shifts
everything behind it, and the four values (a range, a comparison, a phrase, a word)
are one for each alternative of `Value`; `query_language` does
not check for deadlock, as a query ends when it is built or refused. In `schema_rules` one
index varies and the other disputes it: two files are the least in which one
contradicts the other, and a path of two names the least with an inside. `Cuts` leaves
out the groups before the third, as `nested/2` is the last that a rule reads and its
loss is the harmful one. `lifecycle` has a request timeout with which only a slow client
brings a request to the grace period or the write deadline, and one with which rules and
cluster do; the reading takes longer than the headers, and less than the grace period,
as in `main.go`; and it has two requests, one of which may end while the other holds up the
shutdown; it does not check for deadlock because a process that has exited does
nothing more. `dcg` does not either: a text is done when it is loaded or refused. Its
grammars nest two operators, the depth at which parentheses matter, around a rule that
calls itself or may be empty; three tokens reach every state of the parser from its
three beginnings. The 8-bit `IntMax` is the width of Go's `int` scaled to the
limits of the run.

**Fairness.** `RuleEngine!FairSpec`: time passes (weak fairness of `Tick`), the
Go runtime keeps scheduling runnable goroutines (weak fairness of each
goroutine's steps), and the mutex starves nobody (strong fairness of `Acquire`,
which starvation mode gives: a waiter that has been passed over is handed the lock). `Playground!FairSpec`: timers fire and the promise
of an aborted request rejects; of the network nothing is assumed.
`Lifecycle!FairSpec`: the runtime schedules `main`, the listener and each
request's handler, and timers fire (weak fairness of `Process`, of `Tick`, and of
`Serve(r)` when the time of its stage is up: clients that send, read or answer in time
are not assumed).
Signals, clients, users and the cluster owe nothing in any of them: `Stops` holds with
a cluster that never answers.

## 4. Findings

1. **`page` lets a page beyond `search.max_from` through** (`handler_search.go:122`,
   run `page_overflow`). `From+Size` wraps around for a `from` near the largest
   int. `README.md:173` promises that `size` and `from` are bounded.
   `PageBounded` says it of every request and is violated;
   `PageBoundedUnlessOverflow` proves that the wraparound is the only way. `Gate`
   counts such a page as inside the window (`InWindow`), as the code does.
2. **Eviction may forgive a client** (`middleware.go:190`, run
   `rate_limiter_refill`). An evicted client comes back to a full bucket. If
   `rps * ttl < burst`, that is earlier than its own bucket would have been full,
   and the client exceeds what `configs/config.yaml:36-37` says. The condition
   under which it cannot happen, `FullWhenEvicted`, holds for the shipped
   configuration (5 per second, burst 10, ttl ten minutes) and is the hypothesis
   of `WindowIsBounded` and `EvictionIsInvisible`. Without it the bound still holds
   of windows that are too short to span an eviction (`ShortWindowsAreBounded`).
3. **A bare `~` swallows the next word** (`ast.go:86`, run `bare_fuzzy`). The
   distance is `@Ident?`, and keywords are words: in `a:x~ NOT b:y` the `NOT`
   becomes the distance, in `a:x~ OR b:y` the `OR` does and the query becomes a
   conjunction, and `a:x~ b:y` is refused. The distance is then no number, so
   `fuzzinessValue` says `AUTO`, and nothing shows. The properties of
   `query_language` about what a query means leave such texts out (`Separated`).
4. **Introspection offers operators that the rules refuse** (`analyzer.go:83`, run
   `introspect_nested`). `Operators` looks at the type of a field alone. A field
   inside a nested object gets `match`, `range` and so on, while `bootstrap.pl:33-36`
   refuses every clause on it, although `README.md:196` promises "supported
   operators". `AdvertisedAccepted` therefore speaks of fields that no mapping in
   force disputes.

Met while modelling, and not the subject of a run:

* `Config.Validate` does not compare `search.default_size` with `search.max_from`. With
  `max_from` below `default_size`, a request that has only `query` gets
  `invalid_from`, though `README.md:172` says that only `query` is required.
* With two files in `rules.schema_files`, the facts of the second take the place of the
  first's (`engine.go:76-92`): fields of the first index become unknown, although
  `bootstrap.pl:15-17`, `README.md:239` and `config.go:29-31` say of the option, a list,
  that fields from those facts become known. A predicate the second file does not
  define keeps the first's clauses: a mapping without any nested field leaves the
  `nested/2` of another index in force, and a field of its own may be refused for it.
  The properties of `schema_rules` are about the last file, and about what earlier ones
  leave behind.
* A rule of a grammar that is named like a schema fact (`field`, `object`, `nested`,
  `field_alias`) takes the place of that predicate in the same way; no name is reserved.
* Quotes come off before the literals of the grammar are matched (`grammar.go:29`,
  `ast.go:22-105`): in `title:">" OR b:y` the phrase is read as a comparison and the `OR`
  as its bound, `title:"[" b:y` is refused as an unfinished range, and `a:x "OR" b:y` is
  a disjunction. The properties of `query_language` about what a query means leave out
  values that are `[` or a comparison without their quotes (`Separated`);
  `NothingIgnored` holds of them too, quotes apart.
* A call of the rule engine may outlast `rules.timeout`: `mu.Lock` (`engine.go:127`) does
  not look at the context, and a goroutine that is running may overtake one that sleeps.
  Nor is it excluded that load alone makes a `rule_error` of a call that was overtaken,
  when its timeout has no room for one more evaluation (`ErrorsHaveACause`).
* `schema-export` overwrites its file in place. Cut before the `nested/2` facts it
  still loads, and fields inside nested objects become known.
* An alias that leads to `last`, in a schema where `last` is a known field, turns a
  clause into one about the time field (`handler_search.go:97-99`): the rules are asked
  about a range over `last`, and the builder makes a window of `opensearch.time_field`,
  which nobody has looked up. No rule base shipped has both. The run has one that does,
  and the theorems cover all: `VettedDSL` and `ExplanationFaithful` name the case as
  their exception (`Misled`), and `Gate` translates such a clause as the builder does
  (`Judged` is what the rules are asked, `Meaning` what is built). Where `last` is no
  known field such a clause is refused.

## 5. Proofs

For all values of the constants that satisfy the named assumptions:

* **`SearchPipelineProofs`.** `OnlyVettedQueries` (`VettedDSL`) and
  `TranslationDecision`: a DSL is built exactly for the acceptable requests, unless a
  fault comes between. Neither is inductive: the argument needs what is true of the
  half-checked request. `VettedInv` says that the clauses before `i` have been
  rewritten and vetted, those after `i` are still the request's, and sort keys so far
  are known. `CheckedInv` adds which conjuncts of `Acceptable` each value of `pc` has
  established. `ExplanationIsFaithful` needs both, and that after `n` clauses the list
  has one entry for each rewritten one of them, at the place its count gives
  (`Listed`). `PipelineTyped` (`TypeOK`) and `PageBoundedUnlessOverflow` have invariants
  of their own: what the types of the page and of the output are (`TypeInv`), and that
  the page in the DSL is the one that was checked (`PageInv`). Assumptions: positive
  limits below `IntMax`; distinct names; rule bases are of their type, and nothing else
  is asked of them.
* **`GateProofs`.** The refinement `PipelineImplementsGate` (`ImplementsGate`), for every
  request, rule base and limit. `Progress` ties what the loops have done so far to
  the translation that `Gate` makes in one step: `n` sort keys in their canonical form,
  `n` clauses with their final meaning. With `CheckedInv` each early return maps to
  `Refuse` with the code of the first fault (all checks before it have passed), a fault
  of the engine to `Fail`, the build to `Translate`, the call and its answer to `Ask`
  and `Reply`, and every turn of a loop to a stutter. `OnlyTranslationsAreSent`
  follows: the cluster is asked nothing but the translation of an acceptable request.
* **`RateLimiterProofs`** comes in three layers, each with the hypothesis it needs.
  *In every configuration* (`ObjectInv`): `LimiterTyped`, and `ClientsApart`, no two
  clients share a limiter. *When nobody is kept waiting for longer than `ttl`*
  (`Stall <= Ttl`, `TableInv`): a goroutine holding a limiter saw its client at most
  `Stall` ticks ago (`HeldRecently`), and an entry is only so old at each point of the
  cleanup cycle (`Cycle`); so `LimitersStayShared` (`NoOrphans`), `TableIsReclaimed`
  (`IdleReclaimed`) and `ShortWindowsAreBounded`. *When a bucket is full again before
  it may be evicted* (`FullWhenEvicted`, `LimiterInv`): a bucket has regained
  `Rate * (idle - Stall)` tokens or is full (`Regained`); so a stale entry's bucket
  is full and nobody holds it (`StaleIsIdle`), removing it changes no client's level,
  and every other step maps to a step of `TokenBucket`: `WindowIsBounded` and the
  refinement `EvictionIsInvisible`. The hypotheses are not decoration: the first
  separates the races with the sweep, the second is finding 2.
* **`RuleEngineProofs`.** `QueriesAreSerial` (`OneSession`), `CallsAreBounded`
  (`BoundedCall`), `EngineTyped` and the refinement `EngineIsTruthful`
  (`ImplementsOracle`), for any number of callers, any timeout and any rule base,
  also one whose rules loop or raise, and any bound on overtaking. The inductive
  invariant `EngineInv` says that one caller holds the mutex, from `Acquire` to `Unlock`
  (`Holders`), with a session open in between (`Sessions`); that nobody who waits has
  been in its call longer than the holder, but for a timeout each time it was overtaken
  (`Ordered`), which is why a tick that the holder still has time for is one that
  everyone has time for, and `BoundedCall` is kept; and
  that goals fit their call and answers are the rule base's (`Asking`,
  `Truthful`), which makes each returned result one that `RuleOracle` may give.
  `LoadIsNoError` (`ErrorsHaveACause`) is an account of shares: a call has a share of
  its timeout for each caller and one for each time it was overtaken, an evaluation
  takes at most one, and a waiter's age, a share for each waiter that is no younger, and
  what the running evaluation has left never exceed all its shares together
  (`Patience`). `Acquire` moves a share from the queue to the evaluation, or gives one
  to whom it overtakes; a tick moves a tick from the evaluation to the age.
  Assumptions: the timeout is positive; callers are finitely many; calls and rule
  bases are of their types.
* **`QueryLanguageProofs`.** All six invariants of `query_language`, for any
  vocabulary and any texts and queries, of whatever length and depth. Nothing happens
  between the stages, so the invariant of the steps is short: `Inv` says that a text
  is, in each stage, what the parser, the walk and the builder make of it. The rest is what these make of any text, in five parts.
  *Soundness*: a parser that succeeds returns a node whose writing stands in the text
  from where it began to where it stopped (`AllRead`); hence `WholeTextRead`
  (`NothingIgnored`) and, with the shape of what is read, `TypeCorrect` (`TypeOK`).
  *The walk*: the clauses of a walked expression are those of the expression, in
  canonical names (`WalkedClauses`). *The builder*: its leaves are those of the
  clauses (`LeavesBuilt`), which gives `NoClauseEscapes` (`WalkReachesAll`), and what
  it builds matches what the expression means (`MatchesMeant`). *Leaves*: each clause
  of the syntax table becomes the query the table names (`LeafIsDocumented`).
  *Completeness*: where a query stands written in a text, with no bare `~` before a
  word and no value that is an operator without its quotes, the parsers accept it and
  return it (`AllMeant`). This is the hard one: each
  lemma (`ValueComplete`, `FuzzyComplete`, ...) needs to know what may come next, for
  the choices are greedy: `After` and `AndEnd` say which tokens may stand behind an
  operand and behind a conjunction. It gives `QueriesReadAsMeant`
  (`ReadAsMeant`) and with the other parts `QueriesSelectAsMeant` (`SelectsAsMeant`)
  and `EveryLeafDocumented` (`LeavesDocumented`). Inductions are not over data but
  over numbers, each from the least counterexample (`Least`): parsers over the places
  of a text from its end, the others over the height of an expression (`Shallowest`).
  Assumptions: names, words, strings in their quotes, keywords and punctuation are told
  apart, as the lexer does (`WordsAssumption`, `TokensAssumption`), while what a string
  is without its quotes may be anything, any other token too; queries are trees over the
  tokens (`QueriesAssumption`), and so are all expressions that occur, where `Exprs`
  holds, beside the queries, whatever is read at some place of a text and what the
  walk makes of either (`ExprsAssumption`: of the parser it says that its nodes are
  trees at all, nothing of which tree); the recursive operators are what their
  definitions say (`RecursionAssumption`). The run evaluates all five.
* **`PlaygroundProofs`.** All six safety properties, for any number of texts,
  revisions, calls and clipboard writes. `PageInv` adds two things to them. A call of
  the current revision has the text of the box and was aborted by nothing but its own
  timer (`CallOK`), so what it shows is about the box and its abort is a timeout.
  Clipboard writes under way are in the order of their revisions, those of the current
  one carry the DSL on the page, and once one of them is done so are all older ones
  (`WritesOK`), so nothing older overwrites a clipboard that the page calls copied.
* **`SchemaRulesProofs`.** `LeavesOnly` (`OnlyLeavesQueryable`), `AdviceHolds`
  (`AdvertisedAccepted`), `ReasonsHold` (`ReasonsTrue`) and `SchemaTyped`, for any
  mappings, indices, files and hand-written facts. Two things are about steps:
  advice is the analysis of the mapping it names (`AdviceInv`), and whatever the last
  file defines is in force (`Coherent`), for `Exec` replaces predicates, so that none of
  an earlier file stands where the last one has something to say. The rest is what the facts of a file say of its mapping:
  which paths `nested/2` and `object/2` name (`NestedFacts`, `ObjectFacts`) and what
  `known_field` then lets through. Assumptions: mappings are trees; a multi-field is
  no object; properties hang only on objects.
* **`LifecycleProofs`.** `CutsAreLate` (`CutOnlyAfterGrace`), `ShortOnesFinish`
  (`ShortRequestsFinish`), `LostAreSlow` (`LostOnlyIfSlow`) and `LifecycleTyped`, for
  any configurations, requests and times. The invariant `IInv` keeps an account of
  every request's time (`StageOK`): while the body is read, its age is its client's
  time; in the rules, that and the time in the stage; in the cluster, at most the
  client's time, the most the rules can take and the time in the stage; once it is being
  written, at most the client's time and `Budget`. And no shutdown has lasted longer
  than the connections it waits for are old, as the listener closes when it begins.
  None of the properties is inductive without the account, nor the account without
  `MainInv`, which ties the place of `main()` to the listener and to the limits being
  positive.

Only model-checked: the liveness properties (`CallsReturn`, `ButtonReturns`, `Stops`),
which need `ENABLED` and fairness; and `Dcg` (`LanguageKept`, `RefusedWhereWrong`), whose
lexer, parser, generator and semantics are recursive operators, which the prover does
not have. The way `QueryLanguage` takes would be open to it too, but its meanings are
least fixed points over positions, not functions of the height of a tree.

## 6. Not modelled, and the plan

1. `Gateway`: limiter, engine and pipeline composed for several requests. The three
   meet only through what `TokenBucket` and `RuleOracle` promise, each of which is
   shown of its component, and the pipeline is checked against every answer of either
   kind, so a composition would add interleavings and no new interaction.
2. Proofs about `Dcg`: first that the parser of grammars is sound, as it is for
   `QueryLanguage`, then the generator, one kind of node at a time.

Not modelled:

* Characters in the query language (letter case of keywords, escapes) and open range
  bounds in the builder: data, of which the checks see only the kind.
* The notes and highlights of introspection, and the facts that no rule reads.
* Request ids, logging and `ClientIP`: stateless, per request. JSON decoding.
* The idle timeout of connections: it closes those without a request. Further requests
  on one connection: each request has its own.
* How the interpreter searches, and so what a left-recursive grammar does.
* `cmd/playground` (the gateway's `main` without a cluster), static files, containers
  and seed data.
