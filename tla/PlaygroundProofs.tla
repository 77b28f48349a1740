-------------------------- MODULE PlaygroundProofs --------------------------
(* Proofs about Playground, for any texts and any number of revisions.  What the
   page shows is right because a call that may still speak for the current revision
   has the text of the box, was aborted by nothing but its timer, and found the page
   without a translation (CallOK); and because clipboard writes end in the order in
   which they were asked for (WritesOK).                                       *)
EXTENDS Playground, Integers, TLAPS

CallOK(v) ==
  /\ calls[v].ok => calls[v].query \in Valid
  /\ v = revision /\ calls[v].aborted => calls[v].timer = "fired"
  /\ v = revision /\ Pending(v) => calls[v].query = box

(* No write is from the future; one of this revision has the page's DSL; they are
   in order; and once one of this revision is done, so are all older ones.      *)
WritesOK ==
  \A k \in 1 .. Len(writes) :
    /\ writes[k].version <= revision
    /\ writes[k].version = revision => writes[k].text = currentDSL /\ ~Pending(revision)
    /\ panel.kind = "copied" => writes[k].version = revision
    /\ \A j \in 1 .. k : writes[j].version <= writes[k].version

PageOK ==
  /\ active <= revision /\ (copyEnabled => ~Pending(revision))
  /\ CopyMatchesBox /\ BusyWhilePending /\ PanelCurrent /\ TimeoutHonest /\ CopiedHonest

PageInv == TypeOK /\ (\A v \in Versions : CallOK(v)) /\ WritesOK /\ PageOK

CallStates == [stage   : {"none", "fetching", "reading", "over"},
               query   : Queries \cup {None},
               aborted : BOOLEAN,
               timer   : {"none", "on", "fired", "cleared"},
               ok      : BOOLEAN]

-----------------------------------------------------------------------------
LEMMA NewCalls ==
  /\ NoCall \in CallStates
  /\ \A q \in Queries : Call(q) \in CallStates
BY DEF NoCall, Call, CallStates

(* TypeOK in parts. *)
PanelStates == [kind : {"translating", "ready", "refused", "translated", "timed_out",
                        "unreachable", "copied", "denied"}, version : Versions]
CallsTyped ==
  \A v \in Versions : /\ v > revision => calls[v] = NoCall
                      /\ calls[v].timer = "on" => Pending(v)
                      /\ calls[v].timer = "fired" => calls[v].aborted
                      /\ Pending(v) => calls[v].query \in Queries
                      /\ v > active => ~Pending(v)
BoxTyped ==
  /\ box \in Queries /\ revision \in Versions /\ active \in Versions
  /\ currentDSL \in Valid \cup {None} /\ copyEnabled \in BOOLEAN /\ busy \in BOOLEAN
  /\ panel \in PanelStates
WritesTyped == writes \in Seq([text : Valid, version : Versions]) /\ clipboard \in Valid \cup {None}

LEMMA TypeParts ==
  /\ TypeOK <=> calls \in [Versions -> CallStates] /\ CallsTyped /\ BoxTyped /\ WritesTyped
  /\ TypeOK' <=> calls' \in [Versions -> CallStates] /\ CallsTyped' /\ BoxTyped' /\ WritesTyped'
BY Zenon DEF TypeOK, CallStates, CallsTyped, BoxTyped, WritesTyped, PanelStates, Pending

LEMMA Numbers ==
  ASSUME PageInv
  PROVE  /\ calls \in [Versions -> CallStates] /\ CallsTyped /\ BoxTyped /\ WritesTyped
         /\ revision \in Versions /\ active \in Versions /\ active <= revision
         /\ \A v \in Versions : v \in Nat \ {0}
         /\ Len(writes) \in Nat
         /\ \A k \in 1 .. Len(writes) : /\ writes[k] \in [text : Valid, version : Versions]
                                        /\ writes[k].version \in Nat
<1>1. calls \in [Versions -> CallStates] /\ CallsTyped /\ BoxTyped /\ WritesTyped
  BY TypeParts DEF PageInv
<1>2. \A v \in Versions : v \in Nat \ {0}
  BY BoundsAssumption DEF Versions
<1> DEFINE W == [text : Valid, version : Versions]
<1>3. writes \in Seq(W)
  BY <1>1 DEF WritesTyped
<1>4. \A w \in W : w.version \in Versions
  OBVIOUS
<1> HIDE DEF W
<1>5. Len(writes) \in Nat /\ \A k \in 1 .. Len(writes) : writes[k] \in W
  BY <1>3
<1>6. \A k \in 1 .. Len(writes) : writes[k].version \in Nat
  BY <1>2, <1>4, <1>5
<1>7. \A k \in 1 .. Len(writes) : writes[k] \in [text : Valid, version : Versions]
  BY <1>5 DEF W
<1>8. revision \in Versions /\ active \in Versions /\ active <= revision
  BY <1>1 DEF BoxTyped, PageInv, PageOK
<1> QED BY <1>1, <1>2, <1>5, <1>6, <1>7, <1>8

LEMMA PageInit == Init => PageInv
<1> SUFFICES ASSUME Init PROVE PageInv OBVIOUS
<1>0. 1 \in Versions /\ \A v \in Versions : v \in Nat
  BY BoundsAssumption DEF Versions
<1>1. calls \in [Versions -> CallStates]
  BY <1>0, NewCalls DEF Init
<1>2. TypeOK
  <2>1. /\ calls[1] = Call(box) /\ \A v \in Versions \ {1} : calls[v] = NoCall
        /\ \A v \in Versions : v > 1 <=> v # 1
    BY <1>0 DEF Init, Versions
  <2>2. CallsTyped
    BY <2>1 DEF Init, CallsTyped, Call, NoCall, Pending
  <2>3. writes \in Seq([text : Valid, version : Versions])
    BY DEF Init
  <2>4. panel \in [kind : {"translating", "ready", "refused", "translated", "timed_out",
                          "unreachable", "copied", "denied"}, version : Versions]
    BY <1>0 DEF Init, Panel
  <2>6. BoxTyped BY <1>0, <2>4 DEF Init, BoxTyped, PanelStates
  <2>7. WritesTyped BY <2>3 DEF Init, WritesTyped
  <2> QED BY <1>1, <2>2, <2>6, <2>7, TypeParts
<1>3. \A v \in Versions : CallOK(v)
  BY <1>0 DEF Init, CallOK, Call, NoCall, Pending
<1>4. WritesOK
  BY DEF Init, WritesOK
<1>5. PageOK
  BY <1>0 DEF Init, PageOK, CopyMatchesBox, BusyWhilePending, PanelCurrent, TimeoutHonest,
              CopiedHonest, Call, Pending, Panel
<1> QED BY <1>2, <1>3, <1>4, <1>5 DEF PageInv

(* The active call is aborted; the others, and whatever it was doing, stay. *)
LEMMA Aborting ==
  ASSUME TypeOK, active <= revision
  PROVE  /\ AbortActive(calls) \in [Versions -> CallStates]
         /\ \A v \in Versions :
              /\ AbortActive(calls)[v].stage = calls[v].stage
              /\ AbortActive(calls)[v].query = calls[v].query
              /\ AbortActive(calls)[v].timer = calls[v].timer
              /\ AbortActive(calls)[v].ok = calls[v].ok
              /\ calls[v].aborted => AbortActive(calls)[v].aborted
              /\ v # active => AbortActive(calls)[v] = calls[v]
<1>1. active \in Versions /\ active # 0 /\ calls \in [Versions -> CallStates]
  BY DEF TypeOK, CallStates, Versions
<1>2. AbortActive(calls) = [calls EXCEPT ![active].aborted = TRUE]
  BY <1>1 DEF AbortActive
<1>3. [calls[active] EXCEPT !.aborted = TRUE] \in CallStates
  BY <1>1 DEF CallStates
<1>4. AbortActive(calls)[active] = [calls[active] EXCEPT !.aborted = TRUE]
  BY <1>1, <1>2
<1>5. \A v \in Versions \ {active} : AbortActive(calls)[v] = calls[v]
  BY <1>1, <1>2
<1>6. AbortActive(calls) \in [Versions -> CallStates]
  BY <1>1, <1>2, <1>3
<1>7. /\ AbortActive(calls)[active].stage = calls[active].stage
      /\ AbortActive(calls)[active].query = calls[active].query
      /\ AbortActive(calls)[active].timer = calls[active].timer
      /\ AbortActive(calls)[active].ok = calls[active].ok
      /\ AbortActive(calls)[active].aborted
  BY <1>1, <1>4 DEF CallStates
<1> QED BY <1>5, <1>6, <1>7

(* A new call supersedes what there is: for a text q that is then in the box. *)
LEMMA Starting ==
  ASSUME PageInv, NEW q \in Queries, NEW v \in Versions, v > revision,
         StartTranslation(q, v, AbortActive(calls)), box' = q
  PROVE  PageInv'
<1> DEFINE cs == AbortActive(calls)
<1>0. /\ TypeOK /\ active <= revision /\ revision \in Versions /\ active \in Versions
      /\ \A u \in Versions : u \in Nat
  BY Numbers DEF PageInv
<1>1. /\ cs \in [Versions -> CallStates]
      /\ \A u \in Versions : /\ cs[u].stage = calls[u].stage /\ cs[u].query = calls[u].query
                             /\ cs[u].timer = calls[u].timer /\ cs[u].ok = calls[u].ok
                             /\ calls[u].aborted => cs[u].aborted
                             /\ u # active => cs[u] = calls[u]
  BY <1>0, Aborting
<1> HIDE DEF cs
<1>2. /\ revision' = v /\ active' = v /\ calls' = [cs EXCEPT ![v] = Call(q)]
      /\ currentDSL' = None /\ copyEnabled' = FALSE /\ busy' = TRUE
      /\ panel' = Panel("translating", v) /\ writes' = writes /\ clipboard' = clipboard
  BY DEF StartTranslation, cs
<1>3. calls' \in [Versions -> CallStates] /\ calls'[v] = Call(q)
  BY <1>1, <1>2, NewCalls
<1>4. \A u \in Versions \ {v} : calls'[u] = cs[u]
  BY <1>1, <1>2
<1>5. TypeOK'
  <2>1. ASSUME NEW u \in Versions
        PROVE  /\ u > v => calls'[u] = NoCall
               /\ calls'[u].timer = "on" => Pending(u)'
               /\ calls'[u].timer = "fired" => calls'[u].aborted
               /\ Pending(u)' => calls'[u].query \in Queries
               /\ u > v => ~Pending(u)'
    <3>1. CASE u = v
      BY <1>0, <1>3, <3>1 DEF Call, Pending
    <3>2. CASE u # v
      <4>1. calls'[u] = cs[u] /\ (Pending(u)' <=> Pending(u))
        BY <1>1, <1>4, <3>2 DEF Pending
      <4>2. u > v => calls[u] = NoCall /\ u # active /\ u > active
        BY <1>0, Numbers DEF CallsTyped
      <4>3. u > v => cs[u] = calls[u]
        BY <1>1, <4>2
      <4>4. u > v => ~Pending(u)
        BY <4>2 DEF Pending, NoCall
      <4>5. calls[u].timer = "on" => Pending(u)
        BY Numbers DEF CallsTyped
      <4>6. calls[u].timer = "fired" => calls[u].aborted
        BY Numbers DEF CallsTyped
      <4>7. Pending(u) => calls[u].query \in Queries
        BY Numbers DEF CallsTyped
      <4> QED BY <1>1, <4>1, <4>2, <4>3, <4>4, <4>5, <4>6, <4>7
    <3> QED BY <3>1, <3>2
  <2>2. CallsTyped' BY <1>2, <2>1 DEF CallsTyped
  <2>3. BoxTyped'
    <3>1. Panel("translating", v) \in PanelStates BY DEF Panel, PanelStates
    <3> QED BY <1>2, <3>1 DEF BoxTyped, PanelStates
  <2>4. WritesTyped' BY <1>2, Numbers DEF WritesTyped
  <2> QED BY <1>3, <2>2, <2>3, <2>4, TypeParts
<1>6. ASSUME NEW u \in Versions PROVE CallOK(u)'
  <2>1. CASE u = v
    BY <1>2, <1>3, <2>1 DEF CallOK, Call, Pending
  <2>2. CASE u # v
    BY <1>1, <1>2, <1>4, <2>2 DEF PageInv, CallOK
  <2> QED BY <2>1, <2>2
<1>7. WritesOK'
  <2>1. \A k \in 1 .. Len(writes) : writes[k].version <= revision /\ writes[k].version \in Nat
    BY Numbers DEF PageInv, WritesOK
  <2>2. \A k \in 1 .. Len(writes) : writes[k].version < v
    BY <1>0, <2>1
  <2>3. panel'.kind # "copied"
    BY <1>2 DEF Panel
  <2> QED BY <1>0, <1>2, <2>1, <2>2, <2>3 DEF PageInv, WritesOK
<1>8. PageOK'
  BY <1>0, <1>2, <1>3 DEF PageOK, CopyMatchesBox, BusyWhilePending, PanelCurrent, TimeoutHonest,
                          CopiedHonest, Call, Pending, Panel
<1> QED BY <1>5, <1>6, <1>7, <1>8 DEF PageInv

(* Typing makes a revision for which there is no call. *)
LEMMA InputKeeps ==
  ASSUME PageInv, NEW q \in Queries, Input(q)
  PROVE  PageInv'
<1>0. /\ TypeOK /\ active <= revision /\ revision \in Versions /\ active \in Versions
      /\ revision + 1 \in Versions /\ \A u \in Versions : u \in Nat
  BY Numbers, BoundsAssumption DEF PageInv, Versions, Input
<1>1. /\ calls' \in [Versions -> CallStates]
      /\ \A u \in Versions : /\ calls'[u].stage = calls[u].stage /\ calls'[u].query = calls[u].query
                             /\ calls'[u].timer = calls[u].timer /\ calls'[u].ok = calls[u].ok
                             /\ calls[u].aborted => calls'[u].aborted
                             /\ u # active => calls'[u] = calls[u]
  BY <1>0, Aborting DEF Input
<1>2. calls'[revision + 1] = NoCall /\ ~NoCall.aborted /\ NoCall.stage = "none"
  <2>1. calls[revision + 1] = NoCall /\ revision + 1 # active
    BY <1>0, Numbers DEF CallsTyped
  <2>2. calls'[revision + 1] = calls[revision + 1]
    BY <1>0, <1>1, <2>1
  <2> QED BY <2>1, <2>2 DEF NoCall
<1>3. TypeOK'
  <2>1. ASSUME NEW u \in Versions
        PROVE  /\ u > revision + 1 => calls'[u] = NoCall
               /\ calls'[u].timer = "on" => Pending(u)'
               /\ calls'[u].timer = "fired" => calls'[u].aborted
               /\ Pending(u)' => calls'[u].query \in Queries
               /\ u > active => ~Pending(u)'
    <3>1. Pending(u)' <=> Pending(u)
      BY <1>1 DEF Pending
    <3>2. u > revision + 1 => calls[u] = NoCall /\ u # active
      BY <1>0, Numbers DEF CallsTyped
    <3>3. u > revision + 1 => calls'[u] = NoCall
      BY <1>1, <3>2
    <3> QED BY <1>1, <3>1, <3>3, Numbers DEF CallsTyped
  <2>2. CallsTyped' BY <2>1 DEF CallsTyped, Input
  <2>3. BoxTyped'
    <3>1. Panel("ready", revision + 1) \in PanelStates BY <1>0 DEF Panel, PanelStates
    <3> QED BY <1>0, <3>1 DEF BoxTyped, PanelStates, Input
  <2>4. WritesTyped' BY Numbers DEF WritesTyped, Input
  <2> QED BY <1>1, <2>2, <2>3, <2>4, TypeParts
<1>4. ASSUME NEW u \in Versions PROVE CallOK(u)'
  BY <1>0, <1>1, <1>2 DEF PageInv, CallOK, Input, Pending
<1>5. WritesOK'
  <2>1. \A k \in 1 .. Len(writes) : writes[k].version <= revision /\ writes[k].version \in Nat
    BY Numbers DEF PageInv, WritesOK
  <2>2. \A k \in 1 .. Len(writes) : writes[k].version < revision + 1
    BY <1>0, <2>1
  <2>3. revision' = revision + 1 /\ writes' = writes /\ panel'.kind # "copied"
    BY DEF Input, Panel
  <2> QED BY <1>0, <2>1, <2>2, <2>3 DEF PageInv, WritesOK
<1>6. PageOK'
  BY <1>0, <1>2 DEF PageOK, CopyMatchesBox, BusyWhilePending, PanelCurrent, TimeoutHonest,
                    CopiedHonest, Pending, Panel, Input
<1> QED BY <1>3, <1>4, <1>5, <1>6 DEF PageInv

(* The end of call v, after which the panel says what it may say. *)
LEMMA Ending ==
  ASSUME PageInv, NEW v \in Versions, Pending(v), Finally(v), panel' \in [kind : {"refused", "translated", "timed_out", "unreachable"}, version : {v}] \cup {panel},
         v # revision => UNCHANGED <<currentDSL, copyEnabled, panel>>,
         panel' # panel => panel'.version = v,
         panel'.kind = "timed_out" /\ v = revision => calls[v].aborted,
         \/ UNCHANGED <<currentDSL, copyEnabled>>
         \/ calls[v].ok /\ currentDSL' = calls[v].query /\ copyEnabled' = TRUE /\ panel'.kind # "copied"
  PROVE  PageInv'
<1>0. /\ TypeOK /\ active <= revision /\ revision \in Versions /\ active \in Versions
      /\ calls \in [Versions -> CallStates] /\ v <= revision
      /\ \A u \in Versions : u \in Nat
  BY Numbers DEF PageInv, CallsTyped, Pending, NoCall
<1>1. /\ calls' \in [Versions -> CallStates]
      /\ calls'[v].stage = "over" /\ calls'[v].query = calls[v].query
      /\ calls'[v].aborted = calls[v].aborted /\ calls'[v].ok = calls[v].ok
      /\ calls'[v].timer = ClearTimeout(calls[v].timer)
      /\ \A u \in Versions \ {v} : calls'[u] = calls[u]
  BY <1>0 DEF Finally, CallStates, ClearTimeout
<1>2. /\ busy' = IF v = revision THEN FALSE ELSE busy
      /\ UNCHANGED <<box, revision, active, writes, clipboard>>
  BY DEF Finally
<1>3. ~Pending(v)' /\ \A u \in Versions \ {v} : Pending(u)' <=> Pending(u)
  BY <1>1 DEF Pending
<1>4. v = revision => ~(\E k \in 1 .. Len(writes) : writes[k].version = revision)
  BY DEF PageInv, WritesOK
<1>5. TypeOK'
  <2>1. ASSUME NEW u \in Versions
        PROVE  /\ u > revision => calls'[u] = NoCall
               /\ calls'[u].timer = "on" => Pending(u)'
               /\ calls'[u].timer = "fired" => calls'[u].aborted
               /\ Pending(u)' => calls'[u].query \in Queries
               /\ u > active => ~Pending(u)'
    BY <1>0, <1>1, <1>3 DEF TypeOK, ClearTimeout
  <2>2. currentDSL' \in Valid \cup {None} /\ copyEnabled' \in BOOLEAN
    BY Numbers DEF PageInv, BoxTyped, CallOK
  <2>3. CallsTyped' BY <1>2, <2>1 DEF CallsTyped
  <2>4. BoxTyped'
    <3>1. panel' \in PanelStates BY Numbers DEF BoxTyped, PanelStates
    <3>2. busy' \in BOOLEAN BY <1>2, Numbers DEF BoxTyped
    <3> QED BY <1>2, <2>2, <3>1, <3>2, Numbers DEF BoxTyped, PanelStates
  <2>5. WritesTyped' BY <1>2, Numbers DEF WritesTyped
  <2> QED BY <1>1, <2>3, <2>4, <2>5, TypeParts
<1>6. ASSUME NEW u \in Versions PROVE CallOK(u)'
  BY <1>1, <1>2, <1>3 DEF PageInv, CallOK, ClearTimeout
<1>7. WritesOK'
  BY <1>0, <1>1, <1>2, <1>3, <1>4 DEF PageInv, WritesOK, TypeOK
<1>8. PageOK'
  <2>1. CopyMatchesBox' /\ BusyWhilePending'
    BY <1>0, <1>2, <1>3 DEF PageInv, PageOK, CopyMatchesBox, BusyWhilePending, CallOK
  <2>2. PanelCurrent' /\ CopiedHonest'
    BY <1>2 DEF PageInv, PageOK, PanelCurrent, CopiedHonest
  <2>3. TimeoutHonest'
    BY <1>0, <1>1, <1>2 DEF PageInv, PageOK, TimeoutHonest, CallOK, ClearTimeout
  <2>4. (copyEnabled => ~Pending(revision))'
    <3>1. CASE v = revision
      BY <1>2, <1>3, <3>1
    <3>2. CASE v # revision
      <4>1. copyEnabled' = copyEnabled /\ (Pending(revision)' <=> Pending(revision))
        BY <1>0, <1>2, <1>3, <3>2
      <4>2. (copyEnabled => ~Pending(revision))' <=> (copyEnabled' => ~Pending(revision)')
        BY <1>2 DEF Pending
      <4> QED BY <4>1, <4>2 DEF PageInv, PageOK
    <3> QED BY <3>1, <3>2
  <2> QED BY <1>0, <1>2, <2>1, <2>2, <2>3, <2>4 DEF PageOK
<1> QED BY <1>5, <1>6, <1>7, <1>8 DEF PageInv

LEMMA ReadKeeps ==
  ASSUME PageInv, NEW v \in Versions, Read(v)
  PROVE  PageInv'
<1>0. Pending(v) /\ Show(v) /\ Finally(v) BY DEF Read, Pending
<1>1. CASE v # revision
  BY <1>0, <1>1, Ending DEF Show
<1>2. CASE v = revision /\ ~calls[v].ok
  BY <1>0, <1>2, Ending DEF Show, Panel
<1>3. CASE v = revision /\ calls[v].ok
  <2>1. /\ currentDSL' = calls[v].query /\ copyEnabled' = TRUE
        /\ panel' = [kind |-> "translated", version |-> v]
    BY <1>0, <1>3 DEF Show, Panel
  <2>2. /\ panel' \in [kind : {"refused", "translated", "timed_out", "unreachable"}, version : {v}]
        /\ panel'.kind = "translated" /\ panel'.version = v
    BY <2>1
  <2> QED BY <1>0, <1>3, <2>1, <2>2, Ending
<1> QED BY <1>1, <1>2, <1>3

LEMMA RejectKeeps ==
  ASSUME PageInv, NEW v \in Versions, Reject(v)
  PROVE  PageInv'
BY Ending DEF Reject, Catch, Panel

LEMMA FailKeeps ==
  ASSUME PageInv, NEW v \in Versions, Fail(v)
  PROVE  PageInv'
BY Ending DEF Fail, Catch, Panel, Pending

(* Headers and timers only change the call they are about. *)
LEMMA RespondKeeps ==
  ASSUME PageInv, NEW v \in Versions, Respond(v)
  PROVE  PageInv'
<1>0. /\ calls \in [Versions -> CallStates] /\ TypeOK
      /\ UNCHANGED <<box, revision, active, currentDSL, copyEnabled, busy, panel, writes, clipboard>>
  BY DEF PageInv, TypeOK, CallStates, Respond
<1>1. /\ calls' \in [Versions -> CallStates]
      /\ calls'[v].stage = "reading" /\ calls'[v].query = calls[v].query
      /\ calls'[v].aborted = calls[v].aborted /\ calls'[v].timer = calls[v].timer
      /\ calls'[v].ok => calls[v].query \in Valid
      /\ \A u \in Versions \ {v} : calls'[u] = calls[u]
  <2>1. PICK ok \in BOOLEAN :
          /\ ok => calls[v].query \in Valid
          /\ calls' = [calls EXCEPT ![v].stage = "reading", ![v].ok = ok]
    BY DEF Respond
  <2>2. calls[v] \in CallStates BY <1>0
  <2>3. calls'[v] = [calls[v] EXCEPT !.stage = "reading", !.ok = ok]
    BY <1>0, <2>1
  <2>4. calls'[v] \in CallStates BY <2>2, <2>3 DEF CallStates
  <2>5. calls' = [calls EXCEPT ![v] = calls'[v]]
    BY <1>0, <2>1
  <2>6. calls' \in [Versions -> CallStates] /\ \A u \in Versions \ {v} : calls'[u] = calls[u]
    BY <1>0, <2>4, <2>5
  <2>7. /\ calls'[v].stage = "reading" /\ calls'[v].query = calls[v].query
        /\ calls'[v].aborted = calls[v].aborted /\ calls'[v].timer = calls[v].timer
        /\ calls'[v].ok = ok
    BY <2>2, <2>3 DEF CallStates
  <2> QED BY <2>1, <2>6, <2>7
<1>2. Pending(v) /\ \A u \in Versions : Pending(u)' <=> Pending(u)
  BY <1>1 DEF Pending, Respond
<1>3. calls[v] # NoCall
  BY <1>2 DEF Pending, NoCall
<1>4. TypeOK'
  BY <1>0, <1>1, <1>2, <1>3 DEF TypeOK, CallStates
<1>5. ASSUME NEW u \in Versions PROVE CallOK(u)'
  BY <1>0, <1>1, <1>2 DEF PageInv, CallOK
<1>6. WritesOK' /\ PageOK'
  BY <1>0, <1>1, <1>2 DEF PageInv, WritesOK, PageOK, CopyMatchesBox, BusyWhilePending, PanelCurrent,
                          TimeoutHonest, CopiedHonest, TypeOK
<1> QED BY <1>4, <1>5, <1>6 DEF PageInv

LEMMA TimerKeeps ==
  ASSUME PageInv, NEW v \in Versions, Timer(v)
  PROVE  PageInv'
<1>0. /\ calls \in [Versions -> CallStates] /\ TypeOK
      /\ UNCHANGED <<box, revision, active, currentDSL, copyEnabled, busy, panel, writes, clipboard>>
  BY DEF PageInv, TypeOK, CallStates, Timer
<1>1. /\ calls' \in [Versions -> CallStates]
      /\ calls'[v].stage = calls[v].stage /\ calls'[v].query = calls[v].query
      /\ calls'[v].ok = calls[v].ok
      /\ calls'[v].aborted /\ calls'[v].timer = "fired"
      /\ \A u \in Versions \ {v} : calls'[u] = calls[u]
  BY <1>0 DEF Timer, CallStates
<1>2. Pending(v) /\ \A u \in Versions : Pending(u)' <=> Pending(u)
  BY <1>0, <1>1 DEF TypeOK, Pending, Timer
<1>3. calls[v] # NoCall
  BY <1>2 DEF Pending, NoCall
<1>4. TypeOK'
  BY <1>0, <1>1, <1>2, <1>3 DEF TypeOK, CallStates
<1>5. ASSUME NEW u \in Versions PROVE CallOK(u)'
  BY <1>0, <1>1, <1>2 DEF PageInv, CallOK
<1>6. WritesOK' /\ PageOK'
  BY <1>0, <1>1, <1>2 DEF PageInv, WritesOK, PageOK, CopyMatchesBox, BusyWhilePending, PanelCurrent,
                          TimeoutHonest, CopiedHonest, TypeOK
<1> QED BY <1>4, <1>5, <1>6 DEF PageInv

-----------------------------------------------------------------------------
(* A write of this revision is the last in the line; the calls are not touched. *)
LEMMA CopyKeeps ==
  ASSUME PageInv, Copy
  PROVE  PageInv'
<1> DEFINE w == [text |-> currentDSL, version |-> revision]
<1>0. /\ TypeOK /\ writes \in Seq([text : Valid, version : Versions])
      /\ UNCHANGED <<box, revision, active, calls, currentDSL, copyEnabled, busy, panel, clipboard>>
      /\ writes' = Append(writes, w) /\ copyEnabled
  BY DEF PageInv, TypeOK, Copy
<1>1. currentDSL \in Valid
  BY <1>0, QueriesAssumption DEF PageInv, PageOK, CopyMatchesBox, TypeOK
<1>2. w \in [text : Valid, version : Versions]
  BY <1>0, <1>1 DEF TypeOK
<1>3. writes' \in Seq([text : Valid, version : Versions])
  BY <1>0, <1>2
<1>4. TypeOK'
  BY <1>0, <1>3 DEF TypeOK, Pending
<1>5. ~Pending(revision)
  BY <1>0 DEF PageInv, PageOK
<1>6. /\ Len(writes') = Len(writes) + 1 /\ Len(writes) \in Nat
      /\ writes'[Len(writes) + 1] = w
      /\ \A k \in 1 .. Len(writes) : writes'[k] = writes[k]
  BY <1>0, <1>2
<1>7. revision \in Int /\ \A k \in 1 .. Len(writes) : writes[k].version \in Int
  BY Numbers
<1>8. WritesOK'
  <2>1. ASSUME NEW k \in 1 .. Len(writes')
        PROVE  /\ writes'[k].version <= revision
               /\ writes'[k].version = revision => writes'[k].text = currentDSL /\ ~Pending(revision)
               /\ panel.kind = "copied" => writes'[k].version = revision
               /\ \A j \in 1 .. k : writes'[j].version <= writes'[k].version
    <3>1. CASE k = Len(writes) + 1
      <4>1. writes'[k].version = revision /\ writes'[k].text = currentDSL
        BY <1>6, <3>1
      <4>2. \A j \in 1 .. k : j = k \/ j \in 1 .. Len(writes)
        BY <1>6, <3>1
      <4>3. \A j \in 1 .. k : writes'[j].version <= revision
        BY <1>6, <1>7, <4>1, <4>2 DEF PageInv, WritesOK
      <4> QED BY <1>5, <1>7, <4>1, <4>3
    <3>2. CASE k # Len(writes) + 1
      <4>1. k \in 1 .. Len(writes) /\ \A j \in 1 .. k : j \in 1 .. Len(writes)
        BY <1>6, <3>2
      <4> QED BY <1>6, <4>1 DEF PageInv, WritesOK
    <3> QED BY <3>1, <3>2
  <2> QED BY <1>0, <2>1 DEF WritesOK, Pending
<1>9. (\A v \in Versions : CallOK(v))' /\ PageOK'
  BY <1>0 DEF PageInv, CallOK, PageOK, CopyMatchesBox, BusyWhilePending, PanelCurrent,
              TimeoutHonest, CopiedHonest, Pending
<1> QED BY <1>4, <1>8, <1>9 DEF PageInv

(* The oldest write ends. *)
LEMMA WriteKeeps ==
  ASSUME PageInv, Write
  PROVE  PageInv'
<1>0. /\ TypeOK /\ writes \in Seq([text : Valid, version : Versions]) /\ writes # <<>>
      /\ UNCHANGED <<box, revision, active, calls, currentDSL, copyEnabled, busy>>
      /\ writes' = Tail(writes)
  BY DEF PageInv, TypeOK, Write
<1> DEFINE W == [text : Valid, version : Versions]
<1> HIDE DEF W
<1>1. /\ Len(writes) \in Nat \ {0} /\ Len(writes') = Len(writes) - 1
      /\ writes' \in Seq(W)
      /\ \A k \in 1 .. Len(writes') : writes'[k] = writes[k + 1]
      /\ writes[1] \in W
  <2>1. writes \in Seq(W) BY <1>0 DEF W
  <2> QED BY <1>0, <2>1
<1>2. /\ revision \in Int /\ revision \in Versions
      /\ \A k \in 1 .. Len(writes) : writes[k].version \in Int
  BY Numbers
<1>3. /\ writes[1].version <= revision
      /\ writes[1].version = revision => writes[1].text = currentDSL
      /\ panel.kind = "copied" => writes[1].version = revision
      /\ \A k \in 1 .. Len(writes) : writes[1].version <= writes[k].version
  BY <1>1 DEF PageInv, WritesOK
<1>4. \/ clipboard' = writes[1].text /\ Copied("copied")
      \/ clipboard' = clipboard /\ Copied("denied")
  BY DEF Write
<1>5. /\ panel' = panel \/ panel' = Panel("copied", revision) \/ panel' = Panel("denied", revision)
      /\ panel'.kind = "copied" => writes[1].version = revision /\ clipboard' = currentDSL
      /\ panel' # panel => panel'.version = revision /\ panel'.kind \in {"copied", "denied"}
  BY <1>3, <1>4 DEF Copied, Panel
<1>6. TypeOK'
  <2>1. panel' \in PanelStates
    BY <1>2, <1>5, Numbers DEF BoxTyped, PanelStates, Panel
  <2>2. BoxTyped' BY <1>0, <2>1, Numbers DEF BoxTyped, PanelStates
  <2>3. WritesTyped' BY <1>1, <1>4, Numbers DEF WritesTyped, W
  <2>4. CallsTyped' BY <1>0, Numbers DEF CallsTyped, Pending
  <2> QED BY <1>0, <2>2, <2>3, <2>4, TypeParts, Numbers
<1>7. WritesOK'
  <2>1. ASSUME NEW k \in 1 .. Len(writes')
        PROVE  /\ writes'[k].version <= revision
               /\ writes'[k].version = revision => writes'[k].text = currentDSL /\ ~Pending(revision)
               /\ panel'.kind = "copied" => writes'[k].version = revision
               /\ \A j \in 1 .. k : writes'[j].version <= writes'[k].version
    <3>1. k + 1 \in 1 .. Len(writes) /\ writes'[k] = writes[k + 1]
      BY <1>1
    <3>2. \A j \in 1 .. k : j + 1 \in 1 .. k + 1 /\ writes'[j] = writes[j + 1]
      BY <1>1
    <3>3. panel'.kind = "copied" => writes'[k].version = revision
      BY <1>2, <1>3, <1>5, <3>1 DEF PageInv, WritesOK
    <3> QED BY <3>1, <3>2, <3>3 DEF PageInv, WritesOK
  <2> QED BY <1>0, <2>1 DEF WritesOK, Pending
<1>8. PageOK'
  <2>1. PanelCurrent' /\ CopiedHonest'
    BY <1>0, <1>5 DEF PageInv, PageOK, PanelCurrent, CopiedHonest
  <2>2. TimeoutHonest'
    BY <1>0, <1>5 DEF PageInv, PageOK, TimeoutHonest
  <2>3. (copyEnabled => ~Pending(revision))' /\ CopyMatchesBox' /\ BusyWhilePending' /\ (active <= revision)'
    BY <1>0 DEF PageInv, PageOK, CopyMatchesBox, BusyWhilePending, Pending
  <2> QED BY <2>1, <2>2, <2>3 DEF PageOK
<1>9. (\A v \in Versions : CallOK(v))'
  BY <1>0 DEF PageInv, CallOK, Pending
<1> QED BY <1>6, <1>7, <1>8, <1>9 DEF PageInv

LEMMA PageNext == PageInv /\ [Next]_playgroundVars => PageInv'
<1> SUFFICES ASSUME PageInv, [Next]_playgroundVars PROVE PageInv' OBVIOUS
<1>1. CASE Submit
  <2>1. revision + 1 \in Versions /\ revision + 1 > revision /\ box \in Queries
    BY <1>1, Numbers, BoundsAssumption DEF Submit, BoxTyped, Versions
  <2> QED BY <1>1, <2>1, Starting DEF Submit
<1>2. ASSUME NEW q \in Queries, Input(q) PROVE PageInv'
  BY <1>2, InputKeeps
<1>3. ASSUME NEW q \in Queries, PickExample(q) PROVE PageInv'
  <2>1. revision + 2 \in Versions /\ revision + 2 > revision
    BY <1>3, Numbers, BoundsAssumption DEF PickExample, Versions
  <2> QED BY <1>3, <2>1, Starting DEF PickExample
<1>4. ASSUME NEW v \in Versions, Browser(v) PROVE PageInv'
  BY <1>4, RespondKeeps, ReadKeeps, RejectKeeps, FailKeeps, TimerKeeps DEF Browser
<1>5. CASE Copy
  BY <1>5, CopyKeeps
<1>6. CASE Write
  BY <1>6, WriteKeeps
<1>7. CASE UNCHANGED playgroundVars
  BY <1>7 DEF playgroundVars, PageInv, TypeOK, CallOK, WritesOK, PageOK, CopyMatchesBox,
              BusyWhilePending, PanelCurrent, TimeoutHonest, CopiedHonest, Pending
<1> QED BY <1>1, <1>2, <1>3, <1>4, <1>5, <1>6, <1>7 DEF Next

(* The invariant holds in every state of the page. *)
THEOREM PageInvariant == Spec => []PageInv
BY PageInit, PageNext, PTL DEF Spec

(* The types, and what a call that is over can no longer be (playground.js:40-88). *)
THEOREM PageTyped == Spec => []TypeOK
<1>1. PageInv => TypeOK BY DEF PageInv
<1> QED BY PageInvariant, <1>1, PTL

(* Whatever is late, the DSL that can be copied translates the text in the box. *)
THEOREM CopyIsOfTheBox == Spec => []CopyMatchesBox
<1>1. PageInv => CopyMatchesBox BY DEF PageInv, PageOK
<1> QED BY PageInvariant, <1>1, PTL

(* The button is disabled while, and only while, the current revision's call waits. *)
THEOREM ButtonIsTruthful == Spec => []BusyWhilePending
<1>1. PageInv => BusyWhilePending BY DEF PageInv, PageOK
<1> QED BY PageInvariant, <1>1, PTL

(* No message is about an older revision. *)
THEOREM PanelIsCurrent == Spec => []PanelCurrent
<1>1. PageInv => PanelCurrent BY DEF PageInv, PageOK
<1> QED BY PageInvariant, <1>1, PTL

(* Only a call's own timer makes the page say that it timed out. *)
THEOREM TimeoutsAreHonest == Spec => []TimeoutHonest
<1>1. PageInv => TimeoutHonest BY DEF PageInv, PageOK
<1> QED BY PageInvariant, <1>1, PTL

(* What the page says was copied is what the clipboard holds. *)
THEOREM CopiesAreHonest == Spec => []CopiedHonest
<1>1. PageInv => CopiedHonest BY DEF PageInv, PageOK
<1> QED BY PageInvariant, <1>1, PTL
=============================================================================
