--------------------------- MODULE UserRuntimeProofs ---------------------------
(* Proofs about UserRuntime for every set of tabs, runs and requests and every *)
(* bound on revisions, broken streams and snapshots.                           *)
EXTENDS UserRuntime, TLAPS

-------------------------------------------------------------------------------
(* The shapes of the records.                                                 *)

ViewType == [mark : Nat, facts : Nat]
MessageType == [type : {"scene", "patch"}, base : Nat, revision : Nat]
StreamType == [open : BOOLEAN, cursor : Nat, queue : Seq(MessageType)]
TabType == [revision : Nat, view : ViewType, stream : StreamType, timer : BOOLEAN,
            loads : Nat, answers : SUBSET Nat]
CallKinds == {"none", "navigate", "rewrite", "show", "hide", "refresh"}
CallStages == {"none", "sent", "collect", "list", "apply", "applied", "conflict"}
CallType == [kind : CallKinds, stage : CallStages, base : Nat, view : ViewType,
             revision : Nat]
RunOrNone == Runs \union {"none"}
Statuses == {"none", "started", "running", "stopping", "ended", "unknown"}
RequestType == [kind : {"none", "start", "sync", "set"},
                stage : {"none", "create", "insert", "get", "update"},
                run : RunOrNone, parent : RunOrNone, completed : BOOLEAN,
                status : Statuses]
RecordType == [status : Statuses, completed : BOOLEAN, parent : RunOrNone]

-------------------------------------------------------------------------------
(* The inductive invariant.                                                   *)

\* A view counts at most one navigation for each revision, and shows a collection
\* that was saved.
ViewOK(v, r) == v.mark <= r /\ v.facts <= latest

\* What a tab knows, shows and has still to read are revisions of the scene.
TabOK(x) ==
    /\ x.revision <= Revision
    /\ ViewOK(x.view, Revision)
    /\ x.answers \subseteq 0..Revision
    /\ x.stream.cursor <= Revision
    /\ \A i \in DOMAIN x.stream.queue : x.stream.queue[i].revision <= Revision
    /\ x.revision # 0 => x.view = View(x.revision)

\* A command under way: while the scene still has the revision the tab has sent,
\* the view that was computed shows no older collection than the scene does.
CallOK(c) ==
    /\ c.base <= Revision /\ c.revision <= Revision
    /\ ViewOK(c.view, Revision + 1)
    /\ c.stage = "apply" /\ c.base = Revision => c.view.facts >= View(Revision).facts

Scene ==
    /\ events \in Seq(ViewType) /\ latest \in Nat
    /\ Revision <= MaxRevision
    /\ \A r \in 1..Revision : ViewOK(events[r], r)

TabsOK == tab \in [Tabs -> TabType] /\ \A t \in Tabs : TabOK(tab[t])
CallsOK == call \in [Clients -> CallType] /\ \A w \in Clients : CallOK(call[w])
ErrorsOK == errors \in [Tabs -> 0..MaxErrors]
SceneInv == area \in Areas /\ Scene /\ TabsOK /\ CallsOK /\ ErrorsOK

\* What a request has learnt of a run stays true while it waits: a run that has
\* ended does not run again.
RequestOK(q) ==
    /\ q.stage \in {"insert", "get", "update"} => q.run \in Runs
    /\ q.stage = "insert" => upstream[q.run] # "none"
    /\ q.stage = "update" => q.status \in Statuses \ {"none"}
    /\ q.stage = "update" /\ q.status = "ended" => upstream[q.run] = "ended"
    /\ q.stage = "create" => ~q.completed
    /\ q.completed => q.run \in Runs /\ upstream[q.run] = "ended"
    /\ q.parent # "none" => upstream[q.parent] = "ended"

RunTypes ==
    /\ upstream \in [Runs -> {"none", "running", "ended"}]
    /\ record \in [Runs -> RecordType]
    /\ request \in [Requests -> RequestType]
    /\ requests \in Nat

RunInv ==
    /\ RunTypes
    /\ \A r \in Runs : record[r].status # "none" => upstream[r] # "none"
    /\ RetryOfEnded
    /\ \A q \in Requests : RequestOK(request[q])

IndInv == SceneInv /\ RunInv

-------------------------------------------------------------------------------
(* Lemmas about the scene.                                                    *)

\* Every revision of a scene has a view that fits it.
LEMMA ViewFacts ==
    ASSUME Scene, NEW r \in 0..Revision
    PROVE  /\ Revision \in Nat /\ View(r) \in ViewType
           /\ ViewOK(View(r), r) /\ ViewOK(View(r), Revision)
           /\ FirstView \in ViewType
<1>1. Revision \in Nat /\ events \in Seq(ViewType) /\ latest \in Nat
  BY DEF Scene, Revision
<1>2. FirstView \in ViewType /\ FirstView.mark = 0 /\ FirstView.facts = 0
  BY DEF FirstView, ViewType
<1>3. CASE r = 0
  BY <1>1, <1>2, <1>3 DEF View, ViewOK
<1>4. CASE r # 0
  <2>1. r \in 1..Revision /\ View(r) = events[r]
    BY <1>1, <1>4 DEF View
  <2>2. events[r] \in ViewType /\ ViewOK(events[r], r)
    BY <1>1, <2>1 DEF Scene, Revision
  <2>3. QED  BY <1>1, <1>2, <2>1, <2>2 DEF ViewOK, ViewType
<1>5. QED  BY <1>3, <1>4

\* What only moves a call keeps the invariant when the call is sound.
LEMMA CallChanges ==
    ASSUME SceneInv, NEW w \in Clients, NEW c \in CallType, CallOK(c),
           call' = [call EXCEPT ![w] = c],
           UNCHANGED <<area, events, latest, tab, errors>>
    PROVE  SceneInv'
<1>1. Scene' /\ TabsOK' /\ ErrorsOK' /\ area' \in Areas
  BY DEF SceneInv, Scene, TabsOK, ErrorsOK, TabOK, ViewOK, View, Revision, MaxRevision
<1>2. CallOK(c)' 
  BY DEF CallOK, ViewOK, View, Revision
<1>3. \A v \in Clients : CallOK(call[v])' /\ call'[v] \in CallType
  <2> TAKE v \in Clients
  <2>1. CASE v = w
    BY <1>2, <2>1 DEF SceneInv, CallsOK, CallOK, ViewOK, View, Revision
  <2>2. CASE v # w
    BY <2>2 DEF SceneInv, CallsOK, CallOK, ViewOK, View, Revision
  <2>3. QED  BY <2>1, <2>2
<1>4. QED  BY <1>1, <1>3 DEF SceneInv, CallsOK

\* What only moves a tab keeps the invariant when the tab is sound.
LEMMA TabChanges ==
    ASSUME SceneInv, NEW t \in Tabs, NEW x \in TabType, TabOK(x),
           tab' = [tab EXCEPT ![t] = x],
           UNCHANGED <<area, events, latest, call>>, ErrorsOK'
    PROVE  SceneInv'
<1>1. Scene' /\ CallsOK' /\ area' \in Areas
  BY DEF SceneInv, Scene, CallsOK, CallOK, ViewOK, View, Revision, MaxRevision
<1>2. \A u \in Tabs : TabOK(tab[u])' /\ tab'[u] \in TabType
  <2> TAKE u \in Tabs
  <2>1. CASE u = t
    BY <2>1 DEF SceneInv, TabsOK, TabOK, ViewOK, View, Revision
  <2>2. CASE u # t
    BY <2>2 DEF SceneInv, TabsOK, TabOK, ViewOK, View, Revision
  <2>3. QED  BY <2>1, <2>2
<1>3. QED  BY <1>1, <1>2 DEF SceneInv, TabsOK

-------------------------------------------------------------------------------
(* The steps of a call.                                                       *)

\* panelContext and listLatestHotspots: the view is computed from what is there.
LEMMA ComputedSound ==
    ASSUME SceneInv, NEW w \in Clients
    PROVE  /\ Computed(w) \in ViewType /\ ViewOK(Computed(w), Revision + 1)
           /\ Computed(w).facts >= View(Revision).facts
           /\ \A b \in BOOLEAN :
                /\ hotspotView(b) \in ViewType /\ ViewOK(hotspotView(b), Revision + 1)
                /\ hotspotView(b).facts >= View(Revision).facts
<1>1. Scene /\ latest \in Nat
  BY DEF SceneInv, Scene
<1>2. Revision \in Nat
  BY <1>1 DEF Scene, Revision
<1>3. View(Revision) \in ViewType /\ ViewOK(View(Revision), Revision)
  BY <1>1, <1>2, ViewFacts
<1>4. \A b \in BOOLEAN :
        /\ hotspotView(b) \in ViewType /\ ViewOK(hotspotView(b), Revision + 1)
        /\ hotspotView(b).facts >= View(Revision).facts
  BY <1>1, <1>2, <1>3 DEF hotspotView, ViewType, ViewOK
<1>5. CASE call[w].kind = "navigate"
  <2>1. Computed(w) = [View(Revision) EXCEPT !.mark = @ + 1]
    BY <1>5 DEF Computed
  <2>2. QED  BY <1>1, <1>2, <1>3, <1>4, <2>1 DEF ViewType, ViewOK
<1>6. CASE call[w].kind = "rewrite"
  <2>1. Computed(w) = View(Revision)
    BY <1>6 DEF Computed
  <2>2. QED  BY <1>1, <1>2, <1>3, <1>4, <2>1 DEF ViewType, ViewOK
<1>7. CASE call[w].kind \notin {"navigate", "rewrite"}
  <2>1. Computed(w) = hotspotView(call[w].kind # "hide")
    BY <1>7 DEF Computed
  <2>2. QED  BY <1>4, <2>1
<1>8. QED  BY <1>4, <1>5, <1>6, <1>7

\* A client without a call under way.
LEMMA NoCallSound ==
    ASSUME SceneInv
    PROVE  NoCall \in CallType /\ CallOK(NoCall)
<1>1. Revision \in Nat /\ latest \in Nat
  BY DEF SceneInv, Scene, Revision
<1>2. /\ NoCall.base = 0 /\ NoCall.revision = 0 /\ NoCall.stage = "none"
      /\ NoCall.view.mark = 0 /\ NoCall.view.facts = 0
  BY DEF NoCall, FirstView
<1>3. NoCall \in CallType
  BY DEF NoCall, CallType, CallKinds, CallStages, ViewType, FirstView
<1>4. CallOK(NoCall)
  BY <1>1, <1>2 DEF CallOK, ViewOK
<1>5. QED  BY <1>3, <1>4

\* The route has read the scene: its view fits the base it read.
LEMMA PanelContextStep ==
    ASSUME SceneInv, NEW w \in Clients, panelContext(w)
    PROVE  SceneInv'
<1> DEFINE c == [call[w] EXCEPT !.stage = IF call[w].kind = "refresh" THEN "collect" ELSE "apply",
                                !.view = Computed(w)]
<1>1. call[w] \in CallType /\ CallOK(call[w]) /\ call \in [Clients -> CallType]
  BY DEF SceneInv, CallsOK
<1>2. c \in CallType /\ CallOK(c)
  <2>1. c \in CallType
    BY <1>1, ComputedSound DEF CallType, CallStages
  <2>2. c.base = call[w].base /\ c.revision = call[w].revision /\ c.view = Computed(w)
    BY <1>1 DEF CallType
  <2>3. QED  BY <1>1, <2>1, <2>2, ComputedSound DEF CallOK
<1>3. call' = [call EXCEPT ![w] = c] /\ UNCHANGED <<area, events, latest, tab, errors>>
  BY <1>1 DEF panelContext, CallType
<1> HIDE DEF c
<1>4. QED  BY <1>2, <1>3, CallChanges

\* The newest hotspot collection, read now, is not behind the scene.
LEMMA ListStep ==
    ASSUME SceneInv, NEW w \in Clients, listLatestHotspots(w)
    PROVE  SceneInv'
<1> DEFINE c == [call[w] EXCEPT !.stage = "apply", !.view = hotspotView(TRUE)]
<1>1. call[w] \in CallType /\ CallOK(call[w]) /\ call \in [Clients -> CallType]
  BY DEF SceneInv, CallsOK
<1>2. c \in CallType /\ CallOK(c)
  <2>1. c \in CallType
    BY <1>1, ComputedSound DEF CallType, CallStages
  <2>2. c.base = call[w].base /\ c.revision = call[w].revision /\ c.view = hotspotView(TRUE)
    BY <1>1 DEF CallType
  <2>3. QED  BY <1>1, <2>1, <2>2, ComputedSound DEF CallOK
<1>3. call' = [call EXCEPT ![w] = c] /\ UNCHANGED <<area, events, latest, tab, errors>>
  BY <1>1 DEF listLatestHotspots, CallType
<1> HIDE DEF c
<1>4. QED  BY <1>2, <1>3, CallChanges

\* Calls that end, and calls that begin.
LEMMA CallEndStep ==
    ASSUME SceneInv, NEW w \in Clients, CallFails(w) \/ IntentAnswered(w)
    PROVE  SceneInv'
<1>1. call' = [call EXCEPT ![w] = NoCall] /\ UNCHANGED <<area, events, latest, tab, errors>>
  BY DEF CallFails, IntentAnswered
<1>2. QED  BY <1>1, NoCallSound, CallChanges

\* A call of the intents route has read nothing yet.
LEMMA SendStep ==
    ASSUME SceneInv, NEW w \in Clients, NEW kind \in CallKinds, SendIntent(w, kind)
    PROVE  SceneInv'
<1> DEFINE c == [NoCall EXCEPT !.kind = kind, !.stage = "sent"]
<1>1. c \in CallType /\ CallOK(c)
  <2>1. c \in CallType
    BY NoCallSound DEF CallType, CallStages
  <2>2. /\ c.base = NoCall.base /\ c.revision = NoCall.revision /\ c.view = NoCall.view
        /\ c.stage = "sent"
    BY NoCallSound DEF CallType
  <2>3. QED  BY <2>1, <2>2, NoCallSound DEF CallOK
<1>2. call' = [call EXCEPT ![w] = c] /\ UNCHANGED <<area, events, latest, tab, errors>>
  BY DEF SendIntent
<1> HIDE DEF c
<1>3. QED  BY <1>1, <1>2, CallChanges

\* A tab sends the revision it knows as the base.
LEMMA CommandStep ==
    ASSUME SceneInv, NEW t \in Tabs, NEW kind \in CallKinds, command(t, kind)
    PROVE  SceneInv'
<1> DEFINE c == [NoCall EXCEPT !.kind = kind, !.stage = "sent", !.base = tab[t].revision]
<1>1. tab[t].revision \in Nat /\ tab[t].revision <= Revision /\ t \in Clients
  BY DEF SceneInv, TabsOK, TabOK, TabType, Clients
<1>2. c \in CallType /\ CallOK(c)
  <2>1. c \in CallType
    BY <1>1, NoCallSound DEF CallType, CallStages
  <2>2. /\ c.base = tab[t].revision /\ c.revision = NoCall.revision
        /\ c.view = NoCall.view /\ c.stage = "sent"
    BY NoCallSound DEF CallType
  <2>3. QED  BY <1>1, <2>1, <2>2, NoCallSound DEF CallOK
<1>3. call' = [call EXCEPT ![t] = c] /\ UNCHANGED <<area, events, latest, tab, errors>>
  BY DEF command
<1> HIDE DEF c
<1>4. QED  BY <1>1, <1>2, <1>3, CallChanges

\* A newer collection: every view and every call stays within it.
LEMMA LatestGrows ==
    ASSUME SceneInv, latest' = latest + 1, UNCHANGED <<area, events, tab, errors>>,
           CallsOK'
    PROVE  SceneInv'
<1>1. latest \in Nat /\ latest' \in Nat /\ events \in Seq(ViewType)
  BY DEF SceneInv, Scene
<1>2. Scene'
  <2> SUFFICES ASSUME NEW r \in 1..Revision
               PROVE  ViewOK(events[r], r)'
    BY <1>1 DEF SceneInv, Scene, Revision, MaxRevision
  <2>1. events[r] \in ViewType /\ ViewOK(events[r], r)
    BY <1>1 DEF SceneInv, Scene, Revision
  <2>2. QED  BY <1>1, <2>1 DEF ViewOK, ViewType
<1>3. TabsOK'
  <2> SUFFICES ASSUME NEW t \in Tabs
               PROVE  TabOK(tab[t])'
    BY DEF SceneInv, TabsOK
  <2>1. TabOK(tab[t]) /\ tab[t] \in TabType
    BY DEF SceneInv, TabsOK
  <2>2. QED
    BY <1>1, <2>1 DEF TabOK, TabType, ViewOK, ViewType, View, Revision
<1>4. QED  BY <1>2, <1>3 DEF SceneInv, ErrorsOK

\* A collection that is saved gets the next number.
LEMMA SaveStep ==
    ASSUME SceneInv, NEW w \in Clients, saveIntegrationResult(w)
    PROVE  SceneInv'
<1>1. latest \in Nat
  BY DEF SceneInv, Scene
<1>2. CallsOK'
  <2>1. call' \in [Clients -> CallType]
    BY DEF saveIntegrationResult, SceneInv, CallsOK, CallType, CallStages
  <2>2. ASSUME NEW v \in Clients
        PROVE  CallOK(call[v])'
    <3>1. call[v] \in CallType /\ CallOK(call[v])
      BY DEF SceneInv, CallsOK
    <3>2. /\ call'[v].base = call[v].base /\ call'[v].view = call[v].view
          /\ call'[v].revision = call[v].revision
          /\ call'[v].stage = "apply" => call[v].stage = "apply"
      BY <3>1 DEF saveIntegrationResult, SceneInv, CallsOK, CallType
    <3>3. QED
      BY <1>1, <3>1, <3>2 DEF saveIntegrationResult, CallOK, CallType, ViewOK, ViewType, View, Revision
  <2>3. QED  BY <2>1, <2>2 DEF CallsOK
<1>3. QED  BY <1>2, LatestGrows DEF saveIntegrationResult

\* So does one the collector saves on its own.
LEMMA CollectStep ==
    ASSUME SceneInv, CollectHotspots
    PROVE  SceneInv'
<1>1. latest \in Nat
  BY DEF SceneInv, Scene
<1>2. CallsOK'
  <2> SUFFICES ASSUME NEW v \in Clients
               PROVE  CallOK(call[v])'
    BY DEF SceneInv, CallsOK, CollectHotspots
  <2>1. call[v] \in CallType /\ CallOK(call[v])
    BY DEF SceneInv, CallsOK
  <2>2. QED
    BY <1>1, <2>1 DEF CollectHotspots, CallOK, CallType, ViewOK, ViewType, View, Revision
<1>3. QED  BY <1>2, LatestGrows DEF CollectHotspots

\* The transaction: either a conflict, or a revision that comes after all others,
\* whose view was computed when no other one could have come between.
LEMMA ApplyStep ==
    ASSUME SceneInv, NEW w \in Clients, applyAgentSceneIntent(w)
    PROVE  SceneInv'
<1>1. /\ call \in [Clients -> CallType] /\ call[w] \in CallType /\ CallOK(call[w])
      /\ Scene /\ area \in Areas /\ area' = area
      /\ events \in Seq(ViewType) /\ latest \in Nat /\ latest' = latest
  BY DEF SceneInv, CallsOK, Scene, applyAgentSceneIntent
<1>2. Revision \in Nat /\ MaxRevision \in Nat /\ MaxRevision' = MaxRevision
  BY <1>1, UserRuntimeAssumption DEF Revision, MaxRevision
<1>3. CASE ~Expected(w)
  <2> DEFINE c == [call[w] EXCEPT !.stage = "conflict"]
  <2>1. c \in CallType
    BY <1>1 DEF CallType, CallStages
  <2>2. /\ c.base = call[w].base /\ c.revision = call[w].revision
        /\ c.view = call[w].view /\ c.stage = "conflict"
    BY <1>1 DEF CallType
  <2>3. CallOK(c)
    BY <1>1, <2>2 DEF CallOK
  <2>4. call' = [call EXCEPT ![w] = c] /\ UNCHANGED <<area, events, latest, tab, errors>>
    BY <1>1, <1>3 DEF applyAgentSceneIntent, CallType
  <2> HIDE DEF c
  <2>5. QED  BY <2>1, <2>3, <2>4, CallChanges
<1>4. CASE Expected(w)
  <2>1. /\ Revision < MaxRevision /\ events' = Append(events, call[w].view)
        /\ call' = [call EXCEPT ![w].stage = "applied", ![w].revision = Revision + 1]
        /\ tab' = tab /\ errors' = errors
    BY <1>4 DEF applyAgentSceneIntent
  <2>2. call[w].view \in ViewType /\ ViewOK(call[w].view, Revision + 1)
    BY <1>1 DEF CallType, CallOK
  <2>3. /\ events' \in Seq(ViewType) /\ Revision' = Revision + 1
        /\ \A r \in 1..Revision : events'[r] = events[r]
        /\ events'[Revision + 1] = call[w].view
    BY <1>1, <1>2, <2>1, <2>2 DEF Revision
  <2>4. \A r \in 0..Revision : View(r)' = View(r)
    BY <1>2, <2>3 DEF View
  <2>5. Scene'
    <3>1. ASSUME NEW r \in 1..Revision'
          PROVE  ViewOK(events[r], r)'
      <4>1. CASE r = Revision + 1
        BY <1>1, <2>2, <2>3, <4>1 DEF ViewOK
      <4>2. CASE r # Revision + 1
        <5>1. r \in 1..Revision
          BY <1>2, <2>3, <4>2
        <5>2. QED  BY <1>1, <2>3, <5>1 DEF ViewOK, Scene
      <4>3. QED  BY <4>1, <4>2
    <3>2. Revision' <= MaxRevision'
      BY <1>2, <2>1, <2>3
    <3>3. (\A r \in 1..Revision : ViewOK(events[r], r))'
      BY <3>1
    <3>4. QED  BY <1>1, <2>3, <3>2, <3>3 DEF Scene
  <2>6. TabsOK'
    <3> SUFFICES ASSUME NEW t \in Tabs
                 PROVE  TabOK(tab[t])'
      BY <2>1 DEF SceneInv, TabsOK
    <3>1. tab[t] \in TabType /\ TabOK(tab[t]) /\ tab'[t] = tab[t]
      BY <2>1 DEF SceneInv, TabsOK
    <3>2. /\ tab[t].revision \in 0..Revision /\ tab[t].view \in ViewType
          /\ tab[t].stream \in StreamType
      BY <1>2, <3>1 DEF TabType, TabOK
    <3>3. tab[t].revision # 0 => tab[t].view = View(tab[t].revision)'
      BY <2>4, <3>1, <3>2 DEF TabOK
    <3>4. \A i \in DOMAIN tab[t].stream.queue :
            tab[t].stream.queue[i].revision \in Nat
            /\ tab[t].stream.queue[i].revision <= Revision
      <4>1. tab[t].stream.queue \in Seq(MessageType)
        BY <3>2 DEF StreamType
      <4>2. \A i \in DOMAIN tab[t].stream.queue : tab[t].stream.queue[i] \in MessageType
        BY <4>1
      <4>3. QED  BY <3>1, <4>2 DEF TabOK, MessageType
    <3>5. /\ tab[t].stream.cursor \in Nat /\ tab[t].stream.cursor <= Revision
          /\ tab[t].answers \subseteq 0..Revision
          /\ tab[t].view.mark \in Nat /\ tab[t].view.facts \in Nat
          /\ ViewOK(tab[t].view, Revision)
      BY <3>1, <3>2 DEF TabOK, StreamType, ViewType
    <3>6. ViewOK(tab[t].view, Revision)'
      BY <1>1, <1>2, <2>3, <3>1, <3>5 DEF ViewOK
    <3>7. /\ tab[t].revision <= Revision' /\ tab[t].stream.cursor <= Revision'
          /\ tab[t].answers \subseteq 0..Revision'
          /\ \A i \in DOMAIN tab[t].stream.queue : tab[t].stream.queue[i].revision <= Revision'
      BY <1>2, <2>3, <3>2, <3>4, <3>5
    <3>8. (tab[t].revision # 0 => tab[t].view = View(tab[t].revision))'
      BY <3>1, <3>3
    <3>9. QED  BY <3>1, <3>6, <3>7, <3>8 DEF TabOK
  <2>7. CallsOK'
    <3>1. call' \in [Clients -> CallType]
      <4> DEFINE c == [call[w] EXCEPT !.stage = "applied", !.revision = Revision + 1]
      <4>0. Revision + 1 \in Nat
        BY <1>2
      <4>1. c \in CallType
        BY <1>1, <4>0 DEF CallType, CallStages
      <4>2. call' = [call EXCEPT ![w] = c]
        BY <1>1, <2>1 DEF CallType
      <4> HIDE DEF c
      <4>3. QED  BY <1>1, <4>1, <4>2
    <3>2. ASSUME NEW v \in Clients
          PROVE  CallOK(call[v])'
      <4>1. call[v] \in CallType /\ CallOK(call[v])
        BY DEF SceneInv, CallsOK
      <4>2. /\ call'[v].base = call[v].base /\ call'[v].view = call[v].view
            /\ call'[v].revision \in {call[v].revision, Revision + 1}
        BY <1>1, <2>1, <4>1 DEF CallType
      <4>3. /\ call[v].base \in Nat /\ call[v].base <= Revision
            /\ call[v].revision \in Nat /\ call[v].revision <= Revision
            /\ call[v].view.mark \in Nat /\ call[v].view.facts \in Nat
            /\ ViewOK(call[v].view, Revision + 1)
        BY <4>1 DEF CallType, ViewType, CallOK
      <4>4. ViewOK(call[v].view, Revision + 1)'
        BY <1>1, <1>2, <2>3, <4>2, <4>3 DEF ViewOK
      <4>5. call'[v].base < Revision' /\ call'[v].revision <= Revision'
        BY <1>2, <2>3, <4>2, <4>3
      <4>6. QED  BY <1>2, <2>3, <4>2, <4>3, <4>4, <4>5 DEF CallOK
    <3>3. QED  BY <3>1, <3>2 DEF CallsOK
  <2>8. QED  BY <1>1, <2>1, <2>5, <2>6, <2>7 DEF SceneInv, ErrorsOK
<1>5. QED  BY <1>3, <1>4

-------------------------------------------------------------------------------
(* The steps of a tab.                                                        *)

\* A tab that renders a revision of the scene, under that revision or under none.
LEMMA RenderSound ==
    ASSUME SceneInv, NEW x \in TabType, TabOK(x), NEW r \in 0..Revision,
           NEW known \in {0, r}
    PROVE  /\ render(x, known, r) \in TabType /\ TabOK(render(x, known, r))
           /\ render(x, known, r).stream = x.stream
           /\ render(x, known, r).answers = x.answers
<1>1. Scene /\ Revision \in Nat
  BY DEF SceneInv, Scene, Revision
<1>2. View(r) \in ViewType /\ ViewOK(View(r), Revision)
  BY <1>1, ViewFacts
<1> DEFINE y == render(x, known, r)
<1>3. /\ y.revision = known /\ y.view = View(r) /\ y.stream = x.stream
      /\ y.answers = x.answers /\ y \in TabType
  <2>1. known \in Nat
    BY <1>1
  <2>2. y = [x EXCEPT !.revision = known, !.view = View(r)]
    BY DEF render
  <2> HIDE DEF y
  <2>3. QED  BY <1>2, <2>1, <2>2 DEF TabType
<1> HIDE DEF y
<1>4. TabOK(y)
  BY <1>1, <1>2, <1>3 DEF TabOK
<1>5. QED  BY <1>3, <1>4 DEF y

\* A tab whose stream, timer and requests change and whose view stays.
LEMMA StreamSound ==
    ASSUME SceneInv, NEW x \in TabType, TabOK(x), NEW y \in TabType,
           y.revision = x.revision, y.view = x.view,
           y.answers \subseteq 0..Revision,
           y.stream.cursor <= Revision,
           \A i \in DOMAIN y.stream.queue : y.stream.queue[i].revision <= Revision
    PROVE  TabOK(y)
  BY DEF TabOK

\* A stream starts no later than the present revision.
LEMMA StreamFromSound ==
    ASSUME SceneInv, NEW after \in Nat
    PROVE  /\ StreamFrom(after) \in StreamType /\ StreamFrom(after).cursor <= Revision
           /\ \A i \in DOMAIN StreamFrom(after).queue :
                StreamFrom(after).queue[i].revision <= Revision
<1>1. Revision \in Nat
  BY DEF SceneInv, Scene, Revision
<1> DEFINE s == sceneSnapshot(Revision)
<1>2. s \in MessageType /\ s.revision = Revision
  BY <1>1 DEF sceneSnapshot, MessageType
<1> HIDE DEF s
<1>3. <<s>> \in Seq(MessageType) /\ DOMAIN <<s>> = {1} /\ <<s>>[1] = s
  BY <1>2
<1>4. <<>> \in Seq(MessageType) /\ DOMAIN <<>> = {}
  OBVIOUS
<1>5. CASE after = 0 \/ after > Revision
  <2>1. StreamFrom(after) = [open |-> TRUE, cursor |-> Revision, queue |-> <<s>>]
    BY <1>5 DEF StreamFrom, s
  <2>2. QED  BY <1>1, <1>2, <1>3, <2>1 DEF StreamType
<1>6. CASE ~(after = 0 \/ after > Revision)
  <2>1. StreamFrom(after) = [open |-> TRUE, cursor |-> after, queue |-> <<>>]
    BY <1>6 DEF StreamFrom
  <2>2. QED  BY <1>1, <1>4, <1>6, <2>1 DEF StreamType
<1>7. QED  BY <1>5, <1>6

\* What SceneInv says of one tab.
LEMMA TabFacts ==
    ASSUME SceneInv, NEW t \in Tabs
    PROVE  /\ tab \in [Tabs -> TabType] /\ tab[t] \in TabType /\ TabOK(tab[t])
           /\ Revision \in Nat /\ tab[t].revision \in 0..Revision
           /\ tab[t].stream \in StreamType
           /\ tab[t].stream.queue \in Seq(MessageType)
           /\ tab[t].stream.cursor \in 0..Revision
           /\ tab[t].answers \subseteq 0..Revision /\ tab[t].loads \in Nat
           /\ \A i \in DOMAIN tab[t].stream.queue :
                /\ tab[t].stream.queue[i] \in MessageType
                /\ tab[t].stream.queue[i].revision \in 0..Revision
<1>1. tab \in [Tabs -> TabType] /\ tab[t] \in TabType /\ TabOK(tab[t])
  BY DEF SceneInv, TabsOK
<1>2. Revision \in Nat
  BY DEF SceneInv, Scene, Revision
<1>3. tab[t].stream \in StreamType /\ tab[t].loads \in Nat /\ tab[t].revision \in 0..Revision
      /\ tab[t].answers \subseteq 0..Revision
  BY <1>1, <1>2 DEF TabType, TabOK
<1>4. tab[t].stream.queue \in Seq(MessageType) /\ tab[t].stream.cursor \in 0..Revision
  BY <1>1, <1>2, <1>3 DEF StreamType, TabOK
<1>5. ASSUME NEW i \in DOMAIN tab[t].stream.queue
      PROVE  /\ tab[t].stream.queue[i] \in MessageType
             /\ tab[t].stream.queue[i].revision \in 0..Revision
  <2>1. tab[t].stream.queue[i] \in MessageType
    BY <1>4
  <2>2. QED  BY <1>1, <1>2, <2>1 DEF TabOK, MessageType
<1>6. QED  BY <1>1, <1>2, <1>3, <1>4, <1>5

\* GET snapshot: the answer is the current revision.
LEMMA SnapshotStep ==
    ASSUME SceneInv, NEW t \in Tabs, panelSnapshot(t)
    PROVE  SceneInv'
<1> DEFINE y == [tab[t] EXCEPT !.loads = @ - 1, !.answers = @ \union {Revision}]
<1>1. tab[t].loads - 1 \in Nat /\ tab[t].answers \union {Revision} \in SUBSET Nat
  BY TabFacts DEF panelSnapshot
<1>2. /\ y \in TabType /\ y.revision = tab[t].revision /\ y.view = tab[t].view
      /\ y.stream = tab[t].stream /\ y.answers = tab[t].answers \union {Revision}
  BY <1>1, TabFacts DEF TabType
<1>3. tab' = [tab EXCEPT ![t] = y]
  BY TabFacts DEF panelSnapshot, TabType
<1>4. UNCHANGED <<area, events, latest, call>> /\ ErrorsOK'
  BY DEF panelSnapshot, SceneInv, ErrorsOK
<1> HIDE DEF y
<1>5. TabOK(y)
  BY <1>2, TabFacts, StreamSound
<1>6. QED  BY <1>2, <1>3, <1>4, <1>5, TabChanges

\* load: a snapshot that was on its way is rendered, and a new stream opened.
LEMMA LoadStep ==
    ASSUME SceneInv, NEW t \in Tabs, load(t)
    PROVE  SceneInv'
<1>1. PICK r \in tab[t].answers :
        tab' = [tab EXCEPT ![t] = [render(tab[t], r, r) EXCEPT !.answers = @ \ {r},
                                                               !.stream = StreamFrom(r)]]
  BY DEF load
<1>2. r \in 0..Revision /\ r \in Nat
  BY TabFacts
<1> DEFINE x == render(tab[t], r, r)
           y == [x EXCEPT !.answers = @ \ {r}, !.stream = StreamFrom(r)]
<1>3. tab' = [tab EXCEPT ![t] = y]
  BY <1>1
<1>4. x \in TabType /\ TabOK(x) /\ x.answers = tab[t].answers
  BY <1>2, TabFacts, RenderSound
<1> HIDE DEF x
<1>5. StreamFrom(r) \in StreamType
  BY <1>2, StreamFromSound
<1>6. /\ y \in TabType /\ y.revision = x.revision /\ y.view = x.view
      /\ y.answers = x.answers \ {r} /\ y.stream = StreamFrom(r)
  BY <1>4, <1>5 DEF TabType
<1> HIDE DEF y
<1>7. TabOK(y)
  BY <1>2, <1>4, <1>6, TabFacts, StreamSound, StreamFromSound
<1>8. UNCHANGED <<area, events, latest, call>> /\ ErrorsOK'
  BY DEF load, SceneInv, ErrorsOK
<1>9. QED  BY <1>3, <1>6, <1>7, <1>8, TabChanges

\* The server sends events the scene has, in their order.
LEMMA StreamStep ==
    ASSUME SceneInv, NEW t \in Tabs, streamSceneEvents(t)
    PROVE  SceneInv'
<1> DEFINE c == tab[t].stream.cursor
           p == scenePatch(c + 1)
           q == Append(tab[t].stream.queue, p)
           s == [tab[t].stream EXCEPT !.cursor = c + 1, !.queue = q]
           y == [tab[t] EXCEPT !.stream = s]
<1>1. c \in Nat /\ c + 1 \in Nat /\ c + 1 <= Revision
  BY TabFacts DEF streamSceneEvents, listAgentSceneEvents
<1>2. p \in MessageType /\ p.revision = c + 1
  BY <1>1 DEF scenePatch, MessageType
<1>3. tab' = [tab EXCEPT ![t] = y]
  BY TabFacts DEF streamSceneEvents, TabType, StreamType
<1> HIDE DEF p, c
<1>4. q \in Seq(MessageType) /\ \A i \in DOMAIN q : q[i].revision <= Revision
  BY <1>1, <1>2, TabFacts
<1> HIDE DEF q
<1>5. s \in StreamType /\ s.cursor = c + 1 /\ s.queue = q
  BY <1>1, <1>4, TabFacts DEF StreamType
<1> HIDE DEF s
<1>6. /\ y \in TabType /\ y.revision = tab[t].revision /\ y.view = tab[t].view
      /\ y.answers = tab[t].answers /\ y.stream = s
  BY <1>5, TabFacts DEF TabType
<1> HIDE DEF y
<1>7. TabOK(y)
  BY <1>1, <1>4, <1>5, <1>6, TabFacts, StreamSound
<1>8. UNCHANGED <<area, events, latest, call>> /\ ErrorsOK'
  BY DEF streamSceneEvents, SceneInv, ErrorsOK
<1>9. QED  BY <1>3, <1>6, <1>7, <1>8, TabChanges

\* A patch on the revision the tab has, a gap, or the snapshot of a new stream.
LEMMA MessageStep ==
    ASSUME SceneInv, NEW t \in Tabs, SceneMessage(t)
    PROVE  SceneInv'
<1> DEFINE m == Head(tab[t].stream.queue)
           q == Tail(tab[t].stream.queue)
           s == [tab[t].stream EXCEPT !.queue = q]
           x == [tab[t] EXCEPT !.stream = s]
           z == render(x, sceneFromSnapshot(m), m.revision)
           y == IF m.type = "patch" /\ m.base # tab[t].revision THEN resync(x) ELSE z
<1>1. /\ tab[t].stream.queue # <<>>
      /\ UNCHANGED <<area, events, latest, call>> /\ ErrorsOK'
  BY DEF SceneMessage, SceneInv, ErrorsOK
<1>2. tab' = [tab EXCEPT ![t] = y]
  <2>1. [tab[t] EXCEPT !.stream.queue = Tail(tab[t].stream.queue)] = x
    BY TabFacts DEF TabType, StreamType
  <2>2. QED  BY <2>1 DEF SceneMessage
<1>3. m \in MessageType /\ m.revision \in 0..Revision
  BY <1>1, TabFacts
<1>4. q \in Seq(MessageType) /\ \A i \in DOMAIN q : q[i].revision <= Revision
  BY <1>1, TabFacts
<1> HIDE DEF q
<1>5. s \in StreamType /\ s.cursor = tab[t].stream.cursor /\ s.queue = q
  BY <1>4, TabFacts DEF StreamType
<1> HIDE DEF s
<1>6. /\ x \in TabType /\ x.revision = tab[t].revision /\ x.view = tab[t].view
      /\ x.answers = tab[t].answers /\ x.stream = s /\ x.loads = tab[t].loads
  BY <1>5, TabFacts DEF TabType
<1> HIDE DEF x
<1>7. TabOK(x)
  BY <1>4, <1>5, <1>6, TabFacts, StreamSound
<1>8. sceneFromSnapshot(m) \in {0, m.revision}
  BY <1>3 DEF sceneFromSnapshot
<1> HIDE DEF m
<1>9. z \in TabType /\ TabOK(z)
  BY <1>3, <1>6, <1>7, <1>8, RenderSound
<1> HIDE DEF z
<1>10. resync(x) \in TabType /\ TabOK(resync(x))
  <2> DEFINE g == resync(x)
  <2>0. x.loads + 1 \in Nat
    BY <1>6, TabFacts
  <2>1. /\ g \in TabType /\ g.revision = x.revision /\ g.view = x.view
        /\ g.answers = x.answers /\ g.stream = x.stream
    BY <1>6, <2>0 DEF resync, TabType
  <2> HIDE DEF g
  <2>2. TabOK(g)
    BY <1>4, <1>5, <1>6, <1>7, <2>1, TabFacts, StreamSound
  <2>3. QED  BY <2>1, <2>2 DEF g
<1>11. y \in TabType /\ TabOK(y)
  BY <1>9, <1>10
<1> HIDE DEF y
<1>12. QED  BY <1>1, <1>2, <1>11, TabChanges

\* A broken stream is forgotten, and a timer is set.
LEMMA ErrorStep ==
    ASSUME SceneInv, NEW t \in Tabs, StreamError(t)
    PROVE  SceneInv'
<1> DEFINE y == [tab[t] EXCEPT !.stream = NoStream, !.timer = TRUE]
<1>1. tab' = [tab EXCEPT ![t] = y]
  BY TabFacts DEF StreamError, TabType
<1>2. NoStream \in StreamType /\ NoStream.cursor = 0 /\ NoStream.queue = <<>>
  BY DEF NoStream, StreamType
<1>3. /\ y \in TabType /\ y.revision = tab[t].revision /\ y.view = tab[t].view
      /\ y.answers = tab[t].answers /\ y.stream = NoStream
  BY <1>2, TabFacts DEF TabType
<1> HIDE DEF y
<1>4. TabOK(y)
  BY <1>2, <1>3, TabFacts, StreamSound
<1>5. UNCHANGED <<area, events, latest, call>>
  BY DEF StreamError
<1>6. ErrorsOK'
  BY UserRuntimeAssumption DEF StreamError, SceneInv, ErrorsOK
<1>7. QED  BY <1>1, <1>3, <1>4, <1>5, <1>6, TabChanges

\* A tab reconnects from the revision it knows.
LEMMA ConnectStep ==
    ASSUME SceneInv, NEW t \in Tabs, connect(t)
    PROVE  SceneInv'
<1> DEFINE s == StreamFrom(tab[t].revision)
           y == [tab[t] EXCEPT !.timer = FALSE, !.stream = s]
<1>1. tab' = [tab EXCEPT ![t] = y]
  BY TabFacts DEF connect, TabType
<1>2. /\ s \in StreamType /\ s.cursor <= Revision
      /\ \A i \in DOMAIN s.queue : s.queue[i].revision <= Revision
  <2>1. tab[t].revision \in Nat
    BY TabFacts
  <2>2. QED  BY <2>1, StreamFromSound
<1> HIDE DEF s
<1>3. /\ y \in TabType /\ y.revision = tab[t].revision /\ y.view = tab[t].view
      /\ y.answers = tab[t].answers /\ y.stream = s
  BY <1>2, TabFacts DEF TabType
<1> HIDE DEF y
<1>4. TabOK(y)
  BY <1>2, <1>3, TabFacts, StreamSound
<1>5. UNCHANGED <<area, events, latest, call>> /\ ErrorsOK'
  BY DEF connect, SceneInv, ErrorsOK
<1>6. QED  BY <1>1, <1>3, <1>4, <1>5, TabChanges

\* The answer of a command: the call ends, and the tab renders the revision it
\* made, or asks for the snapshot.
LEMMA AnswerStep ==
    ASSUME SceneInv, NEW t \in Tabs, CommandAnswered(t)
    PROVE  SceneInv'
<1> DEFINE r == call[t].revision
           y == IF call[t].stage = "applied" THEN render(tab[t], r, r) ELSE resync(tab[t])
<1>1. t \in Clients /\ call \in [Clients -> CallType] /\ r \in 0..Revision
  <2>1. t \in Clients
    BY DEF Clients
  <2>2. call[t] \in CallType /\ CallOK(call[t]) /\ call \in [Clients -> CallType]
    BY <2>1 DEF SceneInv, CallsOK
  <2>3. QED  BY <2>1, <2>2, TabFacts DEF CallType, CallOK
<1>2. /\ tab' = [tab EXCEPT ![t] = y] /\ call' = [call EXCEPT ![t] = NoCall]
      /\ UNCHANGED <<area, events, latest, errors>>
  BY DEF CommandAnswered
<1>3. render(tab[t], r, r) \in TabType /\ TabOK(render(tab[t], r, r))
  BY <1>1, TabFacts, RenderSound
<1>4. resync(tab[t]) \in TabType /\ TabOK(resync(tab[t]))
  <2> DEFINE g == resync(tab[t])
  <2>0. tab[t].loads + 1 \in Nat
    BY TabFacts
  <2>1. /\ g \in TabType /\ g.revision = tab[t].revision /\ g.view = tab[t].view
        /\ g.answers = tab[t].answers /\ g.stream = tab[t].stream
    BY <2>0, TabFacts DEF resync, TabType
  <2> HIDE DEF g
  <2>2. TabOK(g)
    BY <2>1, TabFacts, StreamSound
  <2>3. QED  BY <2>1, <2>2 DEF g
<1>5. y \in TabType /\ TabOK(y)
  BY <1>3, <1>4
<1> HIDE DEF y
<1>6. Scene' /\ ErrorsOK' /\ area' \in Areas
  BY <1>2 DEF SceneInv, Scene, ErrorsOK, ViewOK, Revision, MaxRevision
<1>7. TabsOK'
  <2>1. ASSUME NEW u \in Tabs
        PROVE  TabOK(tab[u])' /\ tab'[u] \in TabType
    <3>1. CASE u = t
      BY <1>2, <1>5, <3>1 DEF SceneInv, TabsOK, TabOK, ViewOK, View, Revision
    <3>2. CASE u # t
      BY <1>2, <3>2 DEF SceneInv, TabsOK, TabOK, ViewOK, View, Revision
    <3>3. QED  BY <3>1, <3>2
  <2>2. tab' \in [Tabs -> TabType]
    BY <1>2, <1>5 DEF SceneInv, TabsOK
  <2>3. QED  BY <2>1, <2>2 DEF TabsOK
<1>8. CallsOK'
  <2>1. NoCall \in CallType /\ CallOK(NoCall)
    BY NoCallSound
  <2>2. ASSUME NEW v \in Clients
        PROVE  CallOK(call[v])' /\ call'[v] \in CallType
    <3>1. CASE v = t
      BY <1>1, <1>2, <2>1, <3>1 DEF CallOK, ViewOK, View, Revision
    <3>2. CASE v # t
      BY <1>1, <1>2, <3>2 DEF SceneInv, CallsOK, CallOK, ViewOK, View, Revision
    <3>3. QED  BY <3>1, <3>2
  <2>3. call' \in [Clients -> CallType]
    BY <1>1, <1>2, <2>1
  <2>4. QED  BY <2>2, <2>3 DEF CallsOK
<1>9. QED  BY <1>6, <1>7, <1>8 DEF SceneInv

\* Every step of scenes and tabs keeps their invariant.
LEMMA SceneStep ==
    ASSUME SceneInv, SceneNext
    PROVE  SceneInv'
<1>0. /\ "api" \in Clients
      /\ \A w \in Clients : Kinds(w) \subseteq CallKinds
      /\ Tabs \subseteq Clients
  BY UserRuntimeAssumption DEF SceneInv, Clients, Kinds, CallKinds
<1>1. ASSUME NEW w \in Clients,
             \/ panelContext(w) \/ saveIntegrationResult(w) \/ listLatestHotspots(w)
             \/ CallFails(w) \/ applyAgentSceneIntent(w)
      PROVE  SceneInv'
  BY <1>1, PanelContextStep, SaveStep, ListStep, CallEndStep, ApplyStep
<1>2. ASSUME NEW kind \in Kinds("api"), SendIntent("api", kind)
      PROVE  SceneInv'
  BY <1>0, <1>2, SendStep
<1>3. CASE IntentAnswered("api")
  BY <1>0, <1>3, CallEndStep
<1>4. CASE CollectHotspots
  BY <1>4, CollectStep
<1>5. ASSUME NEW t \in Tabs, NEW kind \in Kinds(t), command(t, kind)
      PROVE  SceneInv'
  BY <1>0, <1>5, CommandStep
<1>6. ASSUME NEW t \in Tabs,
             \/ CommandAnswered(t)
             \/ panelSnapshot(t) \/ load(t) \/ streamSceneEvents(t) \/ SceneMessage(t)
             \/ StreamError(t) \/ connect(t)
      PROVE  SceneInv'
  BY <1>6, AnswerStep, SnapshotStep, LoadStep, StreamStep, MessageStep, ErrorStep, ConnectStep
<1>7. QED  BY <1>1, <1>2, <1>3, <1>4, <1>5, <1>6 DEF SceneNext

-------------------------------------------------------------------------------
(* The steps of the runs.                                                     *)

\* A request that begins, moves on or ends keeps the invariant when what it has
\* learnt is so.
LEMMA RequestChanges ==
    ASSUME RunInv, NEW q \in Requests, NEW x \in RequestType, RequestOK(x),
           request' = [request EXCEPT ![q] = x], requests' \in Nat,
           UNCHANGED <<upstream, record>>
    PROVE  RunInv'
<1>1. RunTypes'
  BY DEF RunInv, RunTypes
<1>2. RetryOfEnded' /\ \A r \in Runs : record'[r].status # "none" => upstream'[r] # "none"
  BY DEF RunInv, RetryOfEnded
<1>3. ASSUME NEW p \in Requests
      PROVE  RequestOK(request[p])'
  <2>1. request'[p] = IF p = q THEN x ELSE request[p]
    BY DEF RunInv, RunTypes
  <2>2. RequestOK(request'[p])
    BY <2>1 DEF RunInv
  <2>3. QED  BY <2>2 DEF RequestOK
<1>4. QED  BY <1>1, <1>2, <1>3 DEF RunInv

\* A request slot that is free.
LEMMA NoRequestSound ==
    NoRequest \in RequestType /\ RequestOK(NoRequest)
  BY DEF NoRequest, RequestType, RequestOK, Statuses, RunOrNone

\* Requests that begin.
LEMMA BeginStep ==
    ASSUME RunInv, NEW q \in Requests, NEW x \in RequestType, RequestOK(x), Begin(q, x)
    PROVE  RunInv'
<1>1. /\ request' = [request EXCEPT ![q] = x] /\ requests' \in Nat
      /\ UNCHANGED <<upstream, record>>
  BY DEF Begin, RunInv, RunTypes
<1>2. QED  BY <1>1, RequestChanges

\* A start request has not called Hermes yet.
LEMMA PostStep ==
    ASSUME RunInv, NEW q \in Requests, PostRun(q)
    PROVE  RunInv'
<1> DEFINE x == [NoRequest EXCEPT !.kind = "start", !.stage = "create"]
<1>1. x \in RequestType /\ RequestOK(x)
  BY DEF NoRequest, RequestType, RequestOK, Statuses, RunOrNone
<1>2. Begin(q, x)
  BY DEF PostRun
<1> HIDE DEF x
<1>3. QED  BY <1>1, <1>2, BeginStep

\* retry: the record of the parent says it has ended, and it has.
LEMMA RetryStep ==
    ASSUME RunInv, NEW q \in Requests, NEW p \in Runs, retry(q, p)
    PROVE  RunInv'
<1> DEFINE x == [NoRequest EXCEPT !.kind = "start", !.stage = "create", !.parent = p]
<1>1. upstream[p] = "ended"
  BY DEF retry, Terminal, RunInv, RetryOfEnded
<1>2. x \in RequestType /\ RequestOK(x)
  BY <1>1 DEF NoRequest, RequestType, RequestOK, Statuses, RunOrNone
<1>3. Begin(q, x)
  BY DEF retry
<1> HIDE DEF x
<1>4. QED  BY <1>2, <1>3, BeginStep

\* A synchronisation begins with the record it will update.
LEMMA SyncStep ==
    ASSUME RunInv, NEW q \in Requests, NEW r \in Runs, synchronizeAgentRun(q, r)
    PROVE  RunInv'
<1> DEFINE x == [NoRequest EXCEPT !.kind = "sync", !.stage = "get", !.run = r,
                                  !.completed = record[r].completed]
<1>1. record[r].completed \in BOOLEAN /\ (record[r].completed => upstream[r] = "ended")
  BY DEF RunInv, RunTypes, RecordType, RetryOfEnded
<1>2. x \in RequestType /\ RequestOK(x)
  BY <1>1 DEF NoRequest, RequestType, RequestOK, Statuses, RunOrNone
<1>3. Begin(q, x)
  BY DEF synchronizeAgentRun
<1> HIDE DEF x
<1>4. QED  BY <1>2, <1>3, BeginStep

\* approval and stop write a status that is not terminal.
LEMMA SetStep ==
    ASSUME RunInv, NEW q \in Requests, NEW r \in Runs, RunsApprove(q, r) \/ RunsStop(q, r)
    PROVE  RunInv'
<1> DEFINE x(status) == [NoRequest EXCEPT !.kind = "set", !.stage = "update", !.run = r,
                                          !.status = status]
<1>1. ASSUME NEW status \in {"running", "stopping"}
      PROVE  x(status) \in RequestType /\ RequestOK(x(status))
  BY DEF NoRequest, RequestType, RequestOK, Statuses, RunOrNone
<1>2. Begin(q, x("running")) \/ Begin(q, x("stopping"))
  BY DEF RunsApprove, RunsStop
<1> HIDE DEF x
<1>3. QED  BY <1>1, <1>2, BeginStep

\* runs.get: "ended" is answered of a run that has ended.
LEMMA GetStep ==
    ASSUME RunInv, NEW q \in Requests, RunsGet(q)
    PROVE  RunInv'
<1>1. PICK status \in {HermesStatus(request[q].run), "unknown"} :
        request' = [request EXCEPT ![q].stage = "update", ![q].status = status]
  BY DEF RunsGet
<1>2. /\ request \in [Requests -> RequestType] /\ request[q] \in RequestType
      /\ RequestOK(request[q]) /\ requests' \in Nat /\ request[q].run \in Runs
      /\ UNCHANGED <<upstream, record>>
  BY DEF RunInv, RunTypes, RunsGet, RequestOK
<1>3. /\ status \in Statuses \ {"none"}
      /\ status = "ended" => upstream[request[q].run] = "ended"
  BY <1>1 DEF HermesStatus, Statuses
<1> DEFINE x == [request[q] EXCEPT !.stage = "update", !.status = status]
<1>4. request' = [request EXCEPT ![q] = x]
  BY <1>1, <1>2 DEF RequestType
<1>5. x \in RequestType
  BY <1>2, <1>3 DEF RequestType
<1>6. /\ x.stage = "update" /\ x.status = status /\ x.run = request[q].run
      /\ x.parent = request[q].parent /\ x.completed = request[q].completed
  BY <1>2 DEF RequestType
<1> HIDE DEF x
<1>7. RequestOK(x)
  BY <1>2, <1>3, <1>6 DEF RequestOK
<1>8. QED  BY <1>2, <1>4, <1>5, <1>7, RequestChanges

\* A request that fails leaves its record as it was.
LEMMA RequestFailsStep ==
    ASSUME RunInv, NEW q \in Requests, RequestFails(q)
    PROVE  RunInv'
<1>1. /\ request' = [request EXCEPT ![q] = NoRequest] /\ requests' \in Nat
      /\ UNCHANGED <<upstream, record>>
  BY DEF RequestFails, RunInv, RunTypes
<1>2. QED  BY <1>1, NoRequestSound, RequestChanges

\* Hermes goes on: what has ended stays so, and a run that was made stays made.
LEMMA RequestKept ==
    ASSUME NEW x \in RequestType, RequestOK(x),
           \A r \in Runs : /\ upstream[r] = "ended" => upstream'[r] = "ended"
                           /\ upstream[r] # "none" => upstream'[r] # "none"
    PROVE  RequestOK(x)'
  BY DEF RequestOK, RequestType, RunOrNone

\* runs.create makes a run that was not there.
LEMMA StartStep ==
    ASSUME RunInv, NEW q \in Requests, startAgentRun(q)
    PROVE  RunInv'
<1>1. PICK r \in Runs :
        /\ upstream[r] = "none"
        /\ upstream' = [upstream EXCEPT ![r] = "running"]
        /\ request' = [request EXCEPT ![q].stage = "insert", ![q].run = r]
  BY DEF startAgentRun
<1>2. /\ upstream \in [Runs -> {"none", "running", "ended"}]
      /\ record \in [Runs -> RecordType] /\ record' = record
      /\ request \in [Requests -> RequestType] /\ request[q] \in RequestType
      /\ RequestOK(request[q]) /\ requests' \in Nat /\ request[q].stage = "create"
  BY DEF RunInv, RunTypes, startAgentRun
<1>3. \A p \in Runs : /\ upstream[p] = "ended" => upstream'[p] = "ended"
                      /\ upstream[p] # "none" => upstream'[p] # "none"
  BY <1>1, <1>2
<1> DEFINE x == [request[q] EXCEPT !.stage = "insert", !.run = r]
<1>4. request' = [request EXCEPT ![q] = x]
  BY <1>1, <1>2 DEF RequestType
<1>5. x \in RequestType
  BY <1>2 DEF RequestType, RunOrNone
<1>6. /\ x.stage = "insert" /\ x.run = r /\ x.parent = request[q].parent
      /\ x.completed = request[q].completed
  BY <1>2 DEF RequestType
<1> HIDE DEF x
<1>7. /\ upstream'[r] = "running" /\ ~x.completed
      /\ x.parent # "none" => upstream'[x.parent] = "ended"
  <2>1. upstream'[r] = "running" /\ ~x.completed
    BY <1>1, <1>2, <1>6 DEF RequestOK
  <2>2. x.parent # "none" => upstream'[x.parent] = "ended"
    BY <1>2, <1>3, <1>6 DEF RequestOK, RequestType, RunOrNone
  <2>3. QED  BY <2>1, <2>2
<1>8. RunTypes'
  BY <1>1, <1>2, <1>4, <1>5 DEF RunTypes
<1>9. ASSUME NEW p \in Requests
      PROVE  RequestOK(request[p])'
  <2>1. CASE p = q
    <3>1. request'[p] = x
      BY <1>2, <1>4, <2>1
    <3>2. QED  BY <1>6, <1>7, <3>1 DEF RequestOK
  <2>2. CASE p # q
    <3>1. request'[p] = request[p] /\ request[p] \in RequestType /\ RequestOK(request[p])
      BY <1>2, <1>4, <2>2 DEF RunInv
    <3>2. QED  BY <1>3, <3>1, RequestKept DEF RequestOK
  <2>3. QED  BY <2>1, <2>2
<1>10. \A p \in Runs : record'[p].status # "none" => upstream'[p] # "none"
  BY <1>2, <1>3 DEF RunInv
<1>11. RetryOfEnded'
  BY <1>2, <1>3 DEF RunInv, RetryOfEnded, RecordType, RunOrNone
<1>12. QED  BY <1>8, <1>9, <1>10, <1>11 DEF RunInv

\* A run that ended upstream stays so: what requests have learnt stays true.
LEMMA RunEndsStep ==
    ASSUME RunInv, NEW r \in Runs, RunEnds(r)
    PROVE  RunInv'
<1>1. /\ upstream \in [Runs -> {"none", "running", "ended"}]
      /\ record \in [Runs -> RecordType] /\ record' = record
      /\ request \in [Requests -> RequestType] /\ request' = request
      /\ requests' \in Nat
      /\ upstream' = [upstream EXCEPT ![r] = "ended"]
  BY DEF RunInv, RunTypes, RunEnds
<1>2. \A p \in Runs : /\ upstream[p] = "ended" => upstream'[p] = "ended"
                      /\ upstream[p] # "none" => upstream'[p] # "none"
  BY <1>1
<1>3. RunTypes'
  BY <1>1 DEF RunTypes
<1>4. ASSUME NEW p \in Requests
      PROVE  RequestOK(request[p])'
  <2>1. request'[p] = request[p] /\ request[p] \in RequestType /\ RequestOK(request[p])
    BY <1>1 DEF RunInv
  <2>2. QED  BY <1>2, <2>1, RequestKept DEF RequestOK
<1>5. \A p \in Runs : record'[p].status # "none" => upstream'[p] # "none"
  BY <1>1, <1>2 DEF RunInv
<1>6. RetryOfEnded'
  BY <1>1, <1>2 DEF RunInv, RetryOfEnded, RecordType, RunOrNone
<1>7. QED  BY <1>3, <1>4, <1>5, <1>6 DEF RunInv

\* What only moves a record, and ends the request that moved it.
LEMMA RecordChanges ==
    ASSUME RunInv, NEW q \in Requests, NEW r \in Runs, NEW x \in RecordType,
           upstream[r] # "none",
           x.status = "ended" \/ x.completed => upstream[r] = "ended",
           x.parent # "none" => upstream[x.parent] = "ended",
           record' = [record EXCEPT ![r] = x],
           request' = [request EXCEPT ![q] = NoRequest],
           UNCHANGED <<upstream, requests>>
    PROVE  RunInv'
<1>1. record \in [Runs -> RecordType] /\ request \in [Requests -> RequestType]
  BY DEF RunInv, RunTypes
<1>2. RunTypes'
  BY <1>1, NoRequestSound DEF RunInv, RunTypes
<1>3. ASSUME NEW p \in Requests
      PROVE  RequestOK(request[p])'
  <2>1. request'[p] = IF p = q THEN NoRequest ELSE request[p]
    BY <1>1
  <2>2. RequestOK(request'[p])
    BY <2>1, NoRequestSound DEF RunInv
  <2>3. QED  BY <2>2 DEF RequestOK
<1>4. \A p \in Runs : record'[p] = IF p = r THEN x ELSE record[p]
  BY <1>1
<1>5. \A p \in Runs : record'[p].status # "none" => upstream'[p] # "none"
  BY <1>4 DEF RunInv
<1>6. RetryOfEnded'
  BY <1>4 DEF RunInv, RetryOfEnded
<1>7. QED  BY <1>2, <1>3, <1>5, <1>6 DEF RunInv

\* createAgentRun inserts what the request has learnt.
LEMMA CreateStep ==
    ASSUME RunInv, NEW q \in Requests, createAgentRun(q)
    PROVE  RunInv'
<1> DEFINE r == request[q].run
           x == [status |-> "started", completed |-> FALSE, parent |-> request[q].parent]
<1>1. /\ request[q] \in RequestType /\ RequestOK(request[q]) /\ request[q].stage = "insert"
      /\ record' = [record EXCEPT ![r] = x] /\ request' = [request EXCEPT ![q] = NoRequest]
      /\ UNCHANGED <<upstream, requests>>
  BY DEF RunInv, RunTypes, createAgentRun
<1>2. /\ r \in Runs /\ upstream[r] # "none"
      /\ request[q].parent # "none" => upstream[request[q].parent] = "ended"
  BY <1>1 DEF RequestOK
<1>3. x \in RecordType /\ x.status = "started" /\ ~x.completed /\ x.parent = request[q].parent
  BY <1>1 DEF RecordType, RequestType, Statuses
<1> HIDE DEF x, r
<1>4. QED  BY <1>1, <1>2, <1>3, RecordChanges

\* updateAgentRun writes an end only when Hermes reported one.
LEMMA UpdateStep ==
    ASSUME RunInv, NEW q \in Requests, updateAgentRun(q)
    PROVE  RunInv'
<1> DEFINE r == request[q].run
           status == request[q].status
           completed == IF request[q].kind = "sync"
                        THEN request[q].completed \/ Terminal(status)
                        ELSE record[r].completed
           x == [record[r] EXCEPT !.status = status, !.completed = completed]
<1>1. /\ request[q] \in RequestType /\ RequestOK(request[q]) /\ request[q].stage = "update"
      /\ request' = [request EXCEPT ![q] = NoRequest]
      /\ UNCHANGED <<upstream, requests>> /\ record \in [Runs -> RecordType]
  BY DEF RunInv, RunTypes, updateAgentRun
<1>2. /\ r \in Runs /\ status \in Statuses
      /\ status = "ended" => upstream[r] = "ended"
      /\ request[q].completed => upstream[r] = "ended"
      /\ request[q].completed \in BOOLEAN
  BY <1>1 DEF RequestOK, RequestType
<1>3. CASE record[r].status = "none"
  <2>1. record' = record
    BY <1>3 DEF updateAgentRun
  <2>2. QED  BY <1>1, <2>1, NoRequestSound, RequestChanges DEF RunInv, RunTypes
<1>4. CASE record[r].status # "none"
  <2>1. /\ record[r] \in RecordType /\ upstream[r] # "none"
        /\ record[r].completed => upstream[r] = "ended"
        /\ record[r].parent # "none" => upstream[record[r].parent] = "ended"
    BY <1>1, <1>2, <1>4 DEF RunInv, RetryOfEnded
  <2>2. completed \in BOOLEAN /\ (completed => upstream[r] = "ended")
    BY <1>2, <2>1 DEF RecordType, Terminal
  <2>3. record' = [record EXCEPT ![r] = x]
    BY <1>1, <1>2, <1>4 DEF updateAgentRun, RecordType
  <2> HIDE DEF completed, status, r
  <2>4. /\ x \in RecordType /\ x.status = status /\ x.completed = completed
        /\ x.parent = record[r].parent
    BY <1>2, <2>1, <2>2 DEF RecordType
  <2> HIDE DEF x
  <2>5. QED  BY <1>1, <1>2, <2>1, <2>2, <2>3, <2>4, RecordChanges
<1>5. QED  BY <1>3, <1>4

\* Every step of runs and requests keeps their invariant.
LEMMA RunStep ==
    ASSUME RunInv, RunNext
    PROVE  RunInv'
<1>1. ASSUME NEW q \in Requests,
             \/ PostRun(q) \/ startAgentRun(q) \/ createAgentRun(q)
             \/ RunsGet(q) \/ updateAgentRun(q) \/ RequestFails(q)
      PROVE  RunInv'
  BY <1>1, PostStep, StartStep, CreateStep, GetStep, UpdateStep, RequestFailsStep
<1>2. ASSUME NEW q \in Requests, NEW r \in Runs,
             \/ retry(q, r) \/ synchronizeAgentRun(q, r) \/ RunsApprove(q, r) \/ RunsStop(q, r)
      PROVE  RunInv'
  BY <1>2, RetryStep, SyncStep, SetStep
<1>3. ASSUME NEW r \in Runs, RunEnds(r)
      PROVE  RunInv'
  BY <1>3, RunEndsStep
<1>4. QED  BY <1>1, <1>2, <1>3 DEF RunNext

-------------------------------------------------------------------------------
(* The theorems.                                                              *)

\* The first scene, no run.
LEMMA InitInv == Init => IndInv
<1> SUFFICES ASSUME Init  PROVE IndInv
  OBVIOUS
<1>1. Revision = 0 /\ events \in Seq(ViewType) /\ latest = 0 /\ area \in Areas
  BY DEF Init, Revision
<1>2. MaxRevision \in Nat
  BY <1>1, UserRuntimeAssumption DEF MaxRevision
<1>3. Scene
  BY <1>1, <1>2 DEF Scene
<1>4. FirstView \in ViewType /\ FirstView.mark = 0 /\ FirstView.facts = 0
  BY DEF FirstView, ViewType
<1>5. NoStream \in StreamType /\ NoStream.cursor = 0 /\ DOMAIN NoStream.queue = {}
  BY DEF NoStream, StreamType
<1>6. /\ NewTransport \in TabType /\ NewTransport.revision = 0
      /\ NewTransport.view = FirstView /\ NewTransport.stream = NoStream
      /\ NewTransport.answers = {}
  BY <1>4, <1>5 DEF NewTransport, TabType
<1>7. TabOK(NewTransport)
  BY <1>1, <1>4, <1>5, <1>6 DEF TabOK, ViewOK
<1>8. TabsOK
  BY <1>6, <1>7 DEF TabsOK, Init
<1>9. NoCall \in CallType /\ CallOK(NoCall)
  <2>1. NoCall \in CallType
    BY <1>4 DEF NoCall, CallType, CallKinds, CallStages
  <2>2. NoCall.base = 0 /\ NoCall.revision = 0 /\ NoCall.stage = "none" /\ NoCall.view = FirstView
    BY DEF NoCall
  <2>3. QED  BY <1>1, <1>4, <2>1, <2>2 DEF CallOK, ViewOK
<1>10. CallsOK
  BY <1>9 DEF CallsOK, Init
<1>11. ErrorsOK
  BY UserRuntimeAssumption DEF ErrorsOK, Init
<1>12. SceneInv
  BY <1>1, <1>3, <1>8, <1>10, <1>11 DEF SceneInv
<1>13. RunTypes
  BY NoRequestSound DEF RunTypes, Init, NoRecord, RecordType, Statuses, RunOrNone
<1>14. RunInv
  BY <1>13, NoRequestSound DEF RunInv, Init, NoRecord, RetryOfEnded
<1>15. QED  BY <1>12, <1>14 DEF IndInv

\* Steps of runs leave the invariant of scenes alone.
LEMMA SceneStays ==
    ASSUME SceneInv, UNCHANGED <<area, sceneVars>>
    PROVE  SceneInv'
  BY DEF SceneInv, Scene, TabsOK, CallsOK, ErrorsOK, TabOK, CallOK, ViewOK, View, Revision,
         MaxRevision, sceneVars

\* Steps of scenes leave the invariant of runs alone.
LEMMA RunStays ==
    ASSUME RunInv, UNCHANGED runVars
    PROVE  RunInv'
  BY DEF RunInv, RunTypes, RetryOfEnded, RequestOK, runVars

\* Scenes and tabs touch no run.
LEMMA SceneLeavesRuns == SceneNext => UNCHANGED runVars
  BY DEF SceneNext, panelContext, saveIntegrationResult, listLatestHotspots, CallFails,
         applyAgentSceneIntent, SendIntent, IntentAnswered, CollectHotspots, command,
         CommandAnswered, panelSnapshot, load, streamSceneEvents, SceneMessage, StreamError,
         connect, runVars

\* Runs touch no scene.
LEMMA RunLeavesScene == RunNext => UNCHANGED <<area, sceneVars>>
  BY DEF RunNext, PostRun, startAgentRun, createAgentRun, RunsGet, updateAgentRun,
         RequestFails, retry, synchronizeAgentRun, RunsApprove, RunsStop, RunEnds, Begin,
         sceneVars

\* Every step keeps the inductive invariant.
LEMMA NextInv == IndInv /\ [Next]_vars => IndInv'
<1> SUFFICES ASSUME IndInv, [Next]_vars  PROVE IndInv'
  OBVIOUS
<1>1. CASE SceneNext
  BY <1>1, SceneStep, SceneLeavesRuns, RunStays DEF IndInv
<1>2. CASE RunNext
  BY <1>2, RunStep, RunLeavesScene, SceneStays DEF IndInv
<1>3. CASE UNCHANGED vars
  BY <1>3, SceneStays, RunStays DEF IndInv, vars, sceneVars, runVars
<1>4. QED  BY <1>1, <1>2, <1>3 DEF Next

\* The inductive invariant holds in every reachable state.
LEMMA Inductive == Spec => []IndInv
<1>1. QED  BY InitInv, NextInv, PTL DEF Spec

\* What the invariant says of the tabs.
LEMMA InvTabs == IndInv => TabInv
<1> SUFFICES ASSUME IndInv  PROVE TabInv
  OBVIOUS
<1>1. SceneInv /\ Scene /\ Revision \in Nat /\ latest \in Nat
  BY DEF IndInv, SceneInv, Scene, Revision
<1>2. Revision <= MaxRevision /\ area \in Areas /\ MaxRevision \in Nat
  BY <1>1, UserRuntimeAssumption DEF SceneInv, Scene, MaxRevision
<1>3. ASSUME NEW v \in ViewType, NEW r \in 0..Revision, ViewOK(v, r)
      PROVE  v \in Views
  BY <1>1, <1>2, <1>3 DEF ViewOK, ViewType, Views
<1>4. \A r \in 1..Revision : events[r] \in Views
  <2> TAKE r \in 1..Revision
  <2>1. events[r] \in ViewType /\ ViewOK(events[r], r) /\ r \in 0..Revision
    BY <1>1 DEF Scene, Revision
  <2>2. QED  BY <1>3, <2>1
<1>5. ASSUME NEW t \in Tabs
      PROVE  /\ tab[t].revision \in 0..Revision /\ tab[t].view \in Views
             /\ tab[t].answers \subseteq 0..Revision /\ tab[t].loads \in Nat
             /\ tab[t].stream.cursor \in 0..Revision /\ errors[t] <= MaxErrors
             /\ tab[t].revision # 0 => tab[t].view = View(tab[t].revision)
  <2>1. tab[t].view \in ViewType /\ ViewOK(tab[t].view, Revision)
        /\ (tab[t].revision # 0 => tab[t].view = View(tab[t].revision))
    BY <1>1, TabFacts DEF TabType, TabOK
  <2>2. tab[t].view \in Views
    BY <1>1, <1>3, <2>1
  <2>3. errors[t] <= MaxErrors
    BY <1>1 DEF SceneInv, ErrorsOK
  <2>4. QED  BY <1>1, <2>1, <2>2, <2>3, TabFacts
<1>6. ASSUME NEW r \in Runs
      PROVE  /\ upstream[r] \in {"none", "running", "ended"}
             /\ record[r].status \in {"none", "started", "running", "stopping", "ended", "unknown"}
             /\ record[r].status # "none" => upstream[r] # "none"
  BY DEF IndInv, RunInv, RunTypes, RecordType, Statuses
<1>7. QED  BY <1>2, <1>4, <1>5, <1>6 DEF TabInv, TypeOK, TabConsistent

\* For any number of tabs, over snapshots, patches, answers and broken streams in
\* whatever order (BairuiSceneTransport): a tab knows only revisions the scene
\* has, and shows the view of the revision it knows.
THEOREM TabsCohere == Spec => []TabInv
  BY Inductive, InvTabs, PTL

\* A run is retried only when it has ended, and a record says so only of a run
\* that did (synchronizeAgentRun, updateAgentRun, startAgentRun), for any number
\* of runs and of concurrent requests.
THEOREM RetriesSound == Spec => []RetryOfEnded
<1>1. IndInv => RetryOfEnded
  BY DEF IndInv, RunInv
<1>2. QED  BY Inductive, <1>1, PTL

\* applyAgentSceneIntent with an expected revision never takes the hotspot
\* collection of a panel back to an older one.
THEOREM FactsMonotone == Spec => FactsNeverGoBack
<1>1. ASSUME IndInv, [Next]_vars, NEW t \in Tabs,
             call[t].stage = "apply", call'[t].stage = "applied"
      PROVE  events'[Revision + 1].facts >= View(Revision).facts
  <2>1. /\ t \in Clients /\ call \in [Clients -> CallType] /\ call[t] \in CallType
        /\ CallOK(call[t]) /\ events \in Seq(ViewType)
    BY <1>1 DEF IndInv, SceneInv, CallsOK, Scene, Clients
  <2>2. ASSUME NEW w \in Clients, applyAgentSceneIntent(w)
        PROVE  w = t /\ events' = Append(events, call[t].view) /\ Expected(t)
    <3>1. w = t
      BY <1>1, <2>1, <2>2 DEF applyAgentSceneIntent
    <3>2. Expected(t)
      BY <1>1, <2>1, <2>2, <3>1 DEF applyAgentSceneIntent, CallType
    <3>3. QED  BY <2>2, <3>1, <3>2 DEF applyAgentSceneIntent
  <2>3. \E w \in Clients : applyAgentSceneIntent(w)
    <3>1. call' # call
      BY <1>1
    <3>2. CASE RunNext
      BY <3>1, <3>2, RunLeavesScene DEF sceneVars
    <3>3. CASE UNCHANGED vars
      BY <3>1, <3>3 DEF vars
    <3>4. CASE SceneNext
      <4>1. ASSUME NEW w \in Clients, panelContext(w)  PROVE FALSE
        BY <1>1, <2>1, <4>1 DEF panelContext, CallType
      <4>2. ASSUME NEW w \in Clients, saveIntegrationResult(w) \/ listLatestHotspots(w)
            PROVE  FALSE
        BY <1>1, <2>1, <4>2 DEF saveIntegrationResult, listLatestHotspots, CallType
      <4>3. ASSUME NEW w \in Clients, CallFails(w) \/ IntentAnswered(w)  PROVE FALSE
        BY <1>1, <2>1, <4>3 DEF CallFails, IntentAnswered, NoCall
      <4>4. ASSUME NEW w \in Clients, NEW kind, SendIntent(w, kind)  PROVE FALSE
        BY <1>1, <2>1, <4>4 DEF SendIntent, NoCall
      <4>5. ASSUME NEW w \in Tabs, NEW kind, command(w, kind)  PROVE FALSE
        BY <1>1, <2>1, <4>5 DEF command, NoCall
      <4>6. ASSUME NEW w \in Tabs, CommandAnswered(w)  PROVE FALSE
        BY <1>1, <2>1, <4>6 DEF CommandAnswered, NoCall
      <4>7. ASSUME \/ CollectHotspots
                   \/ \E u \in Tabs : \/ panelSnapshot(u) \/ load(u) \/ streamSceneEvents(u)
                                      \/ SceneMessage(u) \/ StreamError(u) \/ connect(u)
            PROVE  FALSE
        BY <3>1, <4>7 DEF CollectHotspots, panelSnapshot, load, streamSceneEvents,
                          SceneMessage, StreamError, connect
      <4>8. "api" \in Clients
        BY DEF Clients
      <4>9. QED
        BY <3>4, <4>1, <4>2, <4>3, <4>4, <4>5, <4>6, <4>7, <4>8 DEF SceneNext
    <3>5. QED  BY <1>1, <3>2, <3>3, <3>4 DEF Next
  <2>4. events' = Append(events, call[t].view) /\ call[t].base = Revision
    BY <2>2, <2>3 DEF Expected, Guarded
  <2>5. call[t].view.facts >= View(Revision).facts
    BY <1>1, <2>1, <2>4 DEF CallOK
  <2>6. events'[Revision + 1] = call[t].view
    BY <2>1, <2>4 DEF Revision, CallType
  <2>7. QED  BY <2>5, <2>6
<1>2. IndInv /\ [Next]_vars
        => [\A t \in Tabs : call[t].stage = "apply" /\ call'[t].stage = "applied"
              => events'[Revision + 1].facts >= View(Revision).facts]_vars
  BY <1>1
<1>3. QED  BY <1>2, Inductive, PTL DEF FactsNeverGoBack, Spec
================================================================================
