----------------------------- MODULE Playground -----------------------------
(* internal/api/playground/playground.js: the page that translates the query in
   its box through POST /v1/translate.

   One JavaScript thread: a handler, or a continuation after an await, is one
   step.  Each call of translate() awaits twice, the response and its body, and
   meanwhile the user edits, submits again, picks examples or copies.  A call is
   known by the revision it took (version in the code).  fetch, timers and the
   clipboard are the browser's: a pending promise of an aborted request rejects
   (unless its body is already there), a running timer fires some time, clipboard
   writes happen in order.                                                     *)
EXTENDS Naturals, Sequences

CONSTANTS
  Queries,      \* texts of the box
  Valid,        \* those the gateway translates
  None,         \* no text
  MaxRevision,  \* bound on revision: the user does a bounded number of things
  MaxWrites     \* bound on clipboard writes under way

ASSUME QueriesAssumption == Valid \subseteq Queries /\ None \notin Queries
ASSUME BoundsAssumption == MaxRevision \in Nat \ {0} /\ MaxWrites \in Nat

VARIABLES
  box,          \* query.value
  revision,     \* revision
  active,       \* the call whose controller activeRequest is, 0 for none
  calls,        \* calls[v]: the call of translate() with version v
  currentDSL,   \* currentDSL: the query it translates, or None
  copyEnabled,  \* ~copy.disabled
  busy,         \* submit.disabled
  panel,        \* [kind, version]: the last message and on whose behalf it is
  writes,       \* clipboard writes under way: [text, version]
  clipboard     \* what the clipboard holds

playgroundVars == <<box, revision, active, calls, currentDSL, copyEnabled, busy,
                    panel, writes, clipboard>>

Versions == 1 .. MaxRevision
NoCall == [stage |-> "none", query |-> None, aborted |-> FALSE, timer |-> "none", ok |-> FALSE]
Call(q) == [stage |-> "fetching", query |-> q, aborted |-> FALSE, timer |-> "on", ok |-> FALSE]

Pending(v) == calls[v].stage \in {"fetching", "reading"}

Panel(kind, version) == [kind |-> kind, version |-> version]
-----------------------------------------------------------------------------
(* activeRequest?.abort(): nothing happens to a request that has ended. *)
AbortActive(cs) ==
  IF active = 0 THEN cs ELSE [cs EXCEPT ![active].aborted = TRUE]

(* translate(), up to its first await, for the text q and as revision v. *)
StartTranslation(q, v, cs) ==
  /\ revision' = v
  /\ active' = v
  /\ calls' = [cs EXCEPT ![v] = Call(q)]
  /\ currentDSL' = None /\ copyEnabled' = FALSE
  /\ busy' = TRUE
  /\ panel' = Panel("translating", v)
  /\ UNCHANGED <<writes, clipboard>>

(* The page loads: its last line calls translate(). *)
Init ==
  /\ box \in Queries
  /\ revision = 1 /\ active = 1
  /\ calls = [v \in Versions |-> IF v = 1 THEN Call(box) ELSE NoCall]
  /\ currentDSL = None /\ copyEnabled = FALSE /\ busy = TRUE
  /\ panel = Panel("translating", 1)
  /\ writes = <<>> /\ clipboard = None

(* The form is submitted: by the button or, also while that is disabled, by
   Ctrl+Enter (requestSubmit).                                                *)
Submit ==
  /\ revision < MaxRevision
  /\ StartTranslation(box, revision + 1, AbortActive(calls))
  /\ UNCHANGED box

(* Mutant: typing does not count as a new revision. *)
InputSameRevision(q) ==
  /\ revision < MaxRevision
  /\ box' = q
  /\ calls' = AbortActive(calls)
  /\ busy' = FALSE
  /\ currentDSL' = None /\ copyEnabled' = FALSE
  /\ panel' = Panel("ready", revision)
  /\ UNCHANGED <<revision, active, writes, clipboard>>

(* The user types: invalidate(). *)
Input(q) ==
  /\ revision < MaxRevision
  /\ box' = q
  /\ revision' = revision + 1
  /\ calls' = AbortActive(calls)
  /\ busy' = FALSE
  /\ currentDSL' = None /\ copyEnabled' = FALSE
  /\ panel' = Panel("ready", revision + 1)
  /\ UNCHANGED <<active, writes, clipboard>>

(* The user picks an example: invalidate() and translate(). *)
PickExample(q) ==
  /\ revision + 1 < MaxRevision
  /\ box' = q
  /\ StartTranslation(q, revision + 2, AbortActive(calls))
-----------------------------------------------------------------------------
ClearTimeout(timer) == IF timer = "on" THEN "cleared" ELSE timer

(* Mutant: the button is freed whatever the version. *)
FinallyAlways(v) ==
  /\ calls' = [calls EXCEPT ![v].stage = "over", ![v].timer = ClearTimeout(@)]
  /\ busy' = FALSE
  /\ UNCHANGED <<box, revision, active, writes, clipboard>>

(* Mutant: the timer of a finished call is left running. *)
FinallyNoClear(v) ==
  /\ calls' = [calls EXCEPT ![v].stage = "over"]
  /\ busy' = IF v = revision THEN FALSE ELSE busy
  /\ UNCHANGED <<box, revision, active, writes, clipboard>>

(* What the page ends a call with: clearTimeout, and the button for the current
   version.                                                                   *)
Finally(v) ==
  /\ calls' = [calls EXCEPT ![v].stage = "over", ![v].timer = ClearTimeout(@)]
  /\ busy' = IF v = revision THEN FALSE ELSE busy
  /\ UNCHANGED <<box, revision, active, writes, clipboard>>

(* Mutant: the timer is cleared once the headers are there. *)
RespondClearing(v) ==
  /\ calls[v].stage = "fetching" /\ ~calls[v].aborted
  /\ \E ok \in BOOLEAN :
        /\ ok => calls[v].query \in Valid
        /\ calls' = [calls EXCEPT ![v].stage = "reading", ![v].ok = ok,
                                  ![v].timer = ClearTimeout(@)]
  /\ UNCHANGED <<box, revision, active, currentDSL, copyEnabled, busy, panel, writes, clipboard>>

(* Response headers arrive; the second await begins.  A valid query may still be
   turned down (429, 500).                                                    *)
Respond(v) ==
  /\ calls[v].stage = "fetching" /\ ~calls[v].aborted
  /\ \E ok \in BOOLEAN :
        /\ ok => calls[v].query \in Valid
        /\ calls' = [calls EXCEPT ![v].stage = "reading", ![v].ok = ok]
  /\ UNCHANGED <<box, revision, active, currentDSL, copyEnabled, busy, panel, writes, clipboard>>

(* Mutant: the version is not compared after the second await. *)
ShowAnyVersion(v) ==
  IF ~calls[v].ok
  THEN panel' = Panel("refused", v) /\ UNCHANGED <<currentDSL, copyEnabled>>
  ELSE /\ currentDSL' = calls[v].query /\ copyEnabled' = TRUE
       /\ panel' = Panel("translated", v)

(* The body has been read: lines 61 to 74. *)
Show(v) ==
  IF v # revision THEN UNCHANGED <<currentDSL, copyEnabled, panel>>
  ELSE IF ~calls[v].ok
  THEN panel' = Panel("refused", v) /\ UNCHANGED <<currentDSL, copyEnabled>>
  ELSE /\ currentDSL' = calls[v].query /\ copyEnabled' = TRUE
       /\ panel' = Panel("translated", v)

(* Aborting comes too late for a body that has been received: json() resolves. *)
Read(v) ==
  /\ calls[v].stage = "reading"
  /\ Show(v)
  /\ Finally(v)

(* Mutant: the version is not compared in the catch block. *)
CatchAnyVersion(v, kind) ==
  /\ panel' = Panel(kind, v)
  /\ UNCHANGED <<currentDSL, copyEnabled>>

(* The catch block, lines 75 to 80, for an error of the kind given. *)
Catch(v, kind) ==
  /\ panel' = IF v = revision THEN Panel(kind, v) ELSE panel
  /\ UNCHANGED <<currentDSL, copyEnabled>>

(* The pending promise of an aborted request rejects with AbortError. *)
Reject(v) ==
  /\ Pending(v) /\ calls[v].aborted
  /\ Catch(v, "timed_out")
  /\ Finally(v)

(* The network fails, or the body is not JSON. *)
Fail(v) ==
  /\ \/ calls[v].stage = "reading"
     \/ calls[v].stage = "fetching" /\ ~calls[v].aborted
  /\ Catch(v, "unreachable")
  /\ Finally(v)

(* Ten seconds have passed: request.abort(). *)
Timer(v) ==
  /\ calls[v].timer = "on"
  /\ calls' = [calls EXCEPT ![v].timer = "fired", ![v].aborted = TRUE]
  /\ UNCHANGED <<box, revision, active, currentDSL, copyEnabled, busy, panel, writes, clipboard>>
-----------------------------------------------------------------------------
(* The copy button, up to the await on the clipboard. *)
Copy ==
  /\ copyEnabled /\ Len(writes) < MaxWrites
  /\ writes' = Append(writes, [text |-> currentDSL, version |-> revision])
  /\ UNCHANGED <<box, revision, active, calls, currentDSL, copyEnabled, busy, panel, clipboard>>

(* Mutant: the version is not compared after the clipboard's answer. *)
CopiedAnyVersion(kind) == panel' = Panel(kind, revision)

(* The oldest write is done, or denied. *)
Copied(kind) == panel' = IF writes[1].version = revision THEN Panel(kind, revision) ELSE panel

Write ==
  /\ writes # <<>>
  /\ \/ clipboard' = writes[1].text /\ Copied("copied")
     \/ clipboard' = clipboard /\ Copied("denied")
  /\ writes' = Tail(writes)
  /\ UNCHANGED <<box, revision, active, calls, currentDSL, copyEnabled, busy>>

Browser(v) == Respond(v) \/ Read(v) \/ Reject(v) \/ Fail(v) \/ Timer(v)

Next ==
  \/ Submit \/ Copy \/ Write
  \/ \E q \in Queries : Input(q) \/ PickExample(q)
  \/ \E v \in Versions : Browser(v)

Spec == Init /\ [][Next]_playgroundVars

(* Timers fire and rejected promises are delivered.  The network owes nothing. *)
FairSpec ==
  Spec /\ \A v \in Versions : WF_playgroundVars(Timer(v)) /\ WF_playgroundVars(Reject(v))
-----------------------------------------------------------------------------
(* Type invariant. *)
TypeOK ==
  /\ box \in Queries
  /\ revision \in Versions /\ active \in Versions
  /\ calls \in [Versions -> [stage   : {"none", "fetching", "reading", "over"},
                             query   : Queries \cup {None},
                             aborted : BOOLEAN,
                             timer   : {"none", "on", "fired", "cleared"},
                             ok      : BOOLEAN]]
  /\ \A v \in Versions : /\ v > revision => calls[v] = NoCall
                         /\ calls[v].timer = "on" => Pending(v)
                         /\ calls[v].timer = "fired" => calls[v].aborted
                         /\ Pending(v) => calls[v].query \in Queries
                         /\ v > active => ~Pending(v)
  /\ currentDSL \in Valid \cup {None}
  /\ copyEnabled \in BOOLEAN /\ busy \in BOOLEAN
  /\ panel \in [kind : {"translating", "ready", "refused", "translated", "timed_out",
                        "unreachable", "copied", "denied"},
                version : Versions]
  /\ writes \in Seq([text : Valid, version : Versions])
  /\ clipboard \in Valid \cup {None}

(* The DSL offered for copying is the translation of the query in the box, also
   when answers come late or out of order.                                    *)
CopyMatchesBox == copyEnabled => currentDSL = box

(* The button is disabled exactly while a call for the current revision waits:
   a finished or superseded call neither blocks nor frees it.                 *)
BusyWhilePending == busy <=> Pending(revision)

(* Everything the panel says is about the current revision: no late answer, late
   failure or late clipboard write paints over newer text.                    *)
PanelCurrent == panel.version = revision

(* "Request timed out" is said only of a call whose own timer fired: aborting a
   superseded call raises the same AbortError.                                *)
TimeoutHonest == panel.kind = "timed_out" => calls[revision].timer = "fired"

(* While the panel says "copied", the clipboard holds the DSL on the page. *)
CopiedHonest == panel.kind = "copied" => clipboard = currentDSL

(* The button always comes back, even if the server never answers. *)
ButtonReturns == busy ~> ~busy
=============================================================================
