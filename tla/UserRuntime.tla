---------------------------- MODULE UserRuntime ----------------------------
(* The live surfaces of an Agent's owner.  The "scene" area: the revisioned     *)
(* scene of a panel and its events (postgres-repository.mjs), the routes that   *)
(* change it (apps/web/routes/user-panels.mjs, user-runtime.mjs), the event     *)
(* stream (packages/scene/sse-transport.mjs) and the transport in each browser  *)
(* tab (apps/web/public/bairui-scene-bootstrap.js).  The "runs" area: the       *)
(* records of Hermes runs (app.mjs, user-runtime.mjs) and the runs themselves,  *)
(* which are external.                                                          *)
(*                                                                              *)
(* A view is a mark, which counts the navigations of the shell and is 1 when     *)
(* the hotspots are hidden, and facts, the number of the hotspot collection it  *)
(* shows.  A call to the server takes steps to be processed and to be answered. *)
EXTENDS Naturals, Sequences, FiniteSets

CONSTANTS
    Areas,          \* "scene-shell", "hotspots", "follow" (a shell nobody clicks in), "runs"
    Tabs,           \* browser tabs, which follow the panel
    Runs,           \* Hermes runs
    Requests,       \* requests about runs that are processed at the same time
    MaxRevisions,   \* bounds on the revision of the scene, by area
    MaxErrors,      \* bound on broken event streams of each tab
    MaxLoads,       \* bound on the snapshots a tab waits for when it sends a command
    MaxRequests     \* bound on requests about runs

ASSUME UserRuntimeAssumption ==
    /\ Areas \subseteq {"scene-shell", "hotspots", "follow", "runs"}
    /\ MaxRevisions \in [Areas -> Nat]
    /\ {MaxErrors, MaxLoads, MaxRequests} \subseteq Nat

VARIABLES
    area,
    events,     \* agent_scene_events: events[r] is the view of revision r
    latest,     \* the newest hotspot collection
    tab,        \* tab[t]: the transport of tab t
    call,       \* call[w]: the command of tab t, or the intent of another client
    errors,     \* errors[t]: broken streams so far
    upstream,   \* upstream[r]: what Hermes says of run r
    record,     \* record[r]: agent_runs
    request,    \* request[q]: a request about a run
    requests    \* requests about runs so far

sceneVars == <<events, latest, tab, call, errors>>
runVars == <<upstream, record, request, requests>>
vars == <<area, events, latest, tab, call, errors, upstream, record, request, requests>>

-----------------------------------------------------------------------------
(* The scene and the routes that change it. *)

FirstView == [mark |-> 0, facts |-> 0]
Revision == Len(events)
MaxRevision == MaxRevisions[area]
View(r) == IF r = 0 THEN FirstView ELSE events[r]

NoCall == [kind |-> "none", stage |-> "none", base |-> 0, view |-> FirstView, revision |-> 0]

\* Commands of the panels' transport carry the tab's revision; intents of the
\* scenes route, and panelState, carry none.
Guarded(w) == w \in Tabs

Kinds(w) ==
    CASE area = "hotspots" -> {"show", "hide"} \union (IF Guarded(w) THEN {"refresh"} ELSE {})
      [] area = "scene-shell" -> {"navigate"} \union (IF Guarded(w) THEN {} ELSE {"rewrite"})
      [] area = "follow" -> IF Guarded(w) THEN {} ELSE {"navigate", "rewrite"}
      [] area = "runs" -> {}

hotspotView(visible) == [mark |-> IF visible THEN 0 ELSE 1, facts |-> latest]

\* The view of a command from the scene and the collection that were read.
Computed(w) ==
    LET now == View(Revision) IN
    CASE call[w].kind = "navigate" -> [now EXCEPT !.mark = @ + 1]
      [] call[w].kind = "rewrite" -> now
      [] OTHER -> hotspotView(call[w].kind # "hide")

\* The route looks up the Agent, the latest collection and the scene, before the
\* transaction that applies the command.
panelContext(w) ==
    /\ call[w].stage = "sent"
    /\ call' = [call EXCEPT ![w].stage = IF call[w].kind = "refresh" THEN "collect" ELSE "apply",
                            ![w].view = Computed(w)]
    /\ UNCHANGED <<area, events, latest, tab, errors, runVars>>

\* A refresh: the Runtime has collected, and the result is saved.
saveIntegrationResult(w) ==
    /\ call[w].stage = "collect"
    /\ latest' = latest + 1
    /\ call' = [call EXCEPT ![w].stage = "list"]
    /\ UNCHANGED <<area, events, tab, errors, runVars>>

\* It then shows what is the latest by now.
listLatestHotspots(w) ==
    /\ call[w].stage = "list"
    /\ call' = [call EXCEPT ![w].stage = "apply", ![w].view = hotspotView(TRUE)]
    /\ UNCHANGED <<area, events, latest, tab, errors, runVars>>

\* Another Agent of the organization refreshes its hotspots: listLatestHotspots
\* is the organization's.
CollectHotspots ==
    /\ area = "hotspots" /\ latest < MaxRevision
    /\ latest' = latest + 1
    /\ UNCHANGED <<area, events, tab, call, errors, runVars>>

\* The Agent is not operational, or its runtime does not answer.
CallFails(w) ==
    /\ call[w].stage \in {"sent", "collect"}
    /\ call' = [call EXCEPT ![w] = NoCall]
    /\ UNCHANGED <<area, events, latest, tab, errors, runVars>>

\* Mutant: the expected revision is not compared.
AnyRevision(w) == TRUE

\* expectedRevision is undefined, or the revision that is current.
Expected(w) == Guarded(w) => call[w].base = Revision

\* One transaction on the locked row; a conflict changes nothing.
applyAgentSceneIntent(w) ==
    /\ call[w].stage = "apply"
    /\ IF Expected(w)
       THEN /\ Revision < MaxRevision
            /\ events' = Append(events, call[w].view)
            /\ call' = [call EXCEPT ![w].stage = "applied", ![w].revision = Revision + 1]
       ELSE call' = [call EXCEPT ![w].stage = "conflict"] /\ UNCHANGED events
    /\ UNCHANGED <<area, latest, tab, errors, runVars>>

\* A client of POST /scenes/:id/intents, or of panelState.
SendIntent(w, kind) ==
    /\ ~Guarded(w) /\ call[w].stage = "none" /\ Revision < MaxRevision
    /\ call' = [call EXCEPT ![w] = [NoCall EXCEPT !.kind = kind, !.stage = "sent"]]
    /\ UNCHANGED <<area, events, latest, tab, errors, runVars>>

IntentAnswered(w) ==
    /\ ~Guarded(w) /\ call[w].stage \in {"applied", "conflict"}
    /\ call' = [call EXCEPT ![w] = NoCall]
    /\ UNCHANGED <<area, events, latest, tab, errors, runVars>>

-----------------------------------------------------------------------------
(* The transport of a tab: BairuiSceneTransport. *)

NoStream == [open |-> FALSE, cursor |-> 0, queue |-> <<>>]

\* A transport that has asked for its first snapshot: loads counts the snapshots
\* asked for, answers holds those on their way back, by revision.
NewTransport == [revision |-> 0, view |-> FirstView, stream |-> NoStream, timer |-> FALSE,
                 loads |-> 1, answers |-> {}]

\* Mutant: the stream starts at the current revision, whatever the tab has.
StreamFromNow(after) == [open |-> TRUE, cursor |-> Revision, queue |-> <<>>]

\* sceneEventMessage of a snapshot and of a patch.
sceneSnapshot(r) == [type |-> "scene", base |-> 0, revision |-> r]
scenePatch(r) == [type |-> "patch", base |-> r - 1, revision |-> r]

\* Revisions a stream has still to send.
listAgentSceneEvents(after) == (after + 1)..Revision

\* streamSceneEvents: a snapshot first when the tab has none.
StreamFrom(after) ==
    IF after = 0 \/ after > Revision
    THEN [open |-> TRUE, cursor |-> Revision, queue |-> <<sceneSnapshot(Revision)>>]
    ELSE [open |-> TRUE, cursor |-> after, queue |-> <<>>]

\* GET snapshot reads the scene.
panelSnapshot(t) ==
    /\ tab[t].loads > 0
    /\ tab' = [tab EXCEPT ![t].loads = @ - 1, ![t].answers = @ \union {Revision}]
    /\ UNCHANGED <<area, events, latest, call, errors, runVars>>

\* Mutant: the result updates the revision and leaves the view.
RevisionOnly(x, revision, r) == [x EXCEPT !.revision = revision]

\* render: the view of revision r, under the revision that was read from the message.
render(x, revision, r) == [x EXCEPT !.revision = revision, !.view = View(r)]

\* A revision gap or a conflict: ask for the snapshot again.
resync(x) == [x EXCEPT !.loads = @ + 1]

\* load() ends: render the snapshot, close the stream and open another one.
load(t) ==
    /\ \E r \in tab[t].answers :
         tab' = [tab EXCEPT ![t] = [render(tab[t], r, r) EXCEPT !.answers = @ \ {r}, !.stream = StreamFrom(r)]]
    /\ UNCHANGED <<area, events, latest, call, errors, runVars>>

\* The server's loop finds the events after its cursor.
streamSceneEvents(t) ==
    LET c == tab[t].stream.cursor IN
    /\ tab[t].stream.open /\ listAgentSceneEvents(c) # {}
    /\ tab' = [tab EXCEPT ![t].stream.cursor = c + 1, ![t].stream.queue = Append(@, scenePatch(c + 1))]
    /\ UNCHANGED <<area, events, latest, call, errors, runVars>>

\* The message of a snapshot carries its revision as rev, and this reads revision.
sceneFromSnapshot(m) == IF m.type = "scene" THEN 0 ELSE m.revision

\* A patch replaces the whole view, as a snapshot does.
SceneMessage(t) ==
    LET m == Head(tab[t].stream.queue)
        rest == [tab[t] EXCEPT !.stream.queue = Tail(tab[t].stream.queue)] IN
    /\ tab[t].stream.open /\ tab[t].stream.queue # <<>>
    /\ tab' = [tab EXCEPT ![t] =
         IF m.type = "patch" /\ m.base # tab[t].revision THEN resync(rest)
         ELSE render(rest, sceneFromSnapshot(m), m.revision)]
    /\ UNCHANGED <<area, events, latest, call, errors, runVars>>

\* onerror: one reconnect timer at a time.
StreamError(t) ==
    /\ tab[t].stream.open /\ errors[t] < MaxErrors
    /\ tab' = [tab EXCEPT ![t].stream = NoStream, ![t].timer = TRUE]
    /\ errors' = [errors EXCEPT ![t] = @ + 1]
    /\ UNCHANGED <<area, events, latest, call, runVars>>

connect(t) ==
    /\ tab[t].timer
    /\ tab' = [tab EXCEPT ![t].timer = FALSE, ![t].stream = StreamFrom(tab[t].revision)]
    /\ UNCHANGED <<area, events, latest, call, errors, runVars>>

command(t, kind) ==
    /\ call[t].stage = "none" /\ Revision < MaxRevision
    /\ tab[t].loads + Cardinality(tab[t].answers) < MaxLoads
    /\ call' = [call EXCEPT ![t] = [NoCall EXCEPT !.kind = kind, !.stage = "sent",
                                                  !.base = tab[t].revision]]
    /\ UNCHANGED <<area, events, latest, tab, errors, runVars>>

\* The answer may be late: panelCommand loads the manifest before it returns.
CommandAnswered(t) ==
    /\ Guarded(t) /\ call[t].stage \in {"applied", "conflict"}
    /\ tab' = [tab EXCEPT ![t] = IF call[t].stage = "applied" THEN render(@, call[t].revision, call[t].revision)
                                 ELSE resync(@)]
    /\ call' = [call EXCEPT ![t] = NoCall]
    /\ UNCHANGED <<area, events, latest, errors, runVars>>

-----------------------------------------------------------------------------
(* Runs of Hermes and their records. *)

NoRecord == [status |-> "none", completed |-> FALSE, parent |-> "none"]
NoRequest == [kind |-> "none", stage |-> "none", run |-> "none", parent |-> "none",
              completed |-> FALSE, status |-> "none"]

\* What runs.get answers, and the record status it becomes.
HermesStatus(r) == IF upstream[r] = "ended" THEN "ended" ELSE "running"

Begin(q, req) ==
    /\ request[q] = NoRequest /\ requests < MaxRequests
    /\ request' = [request EXCEPT ![q] = req]
    /\ requests' = requests + 1
    /\ UNCHANGED <<area, sceneVars, upstream, record>>

\* POST /runs.
PostRun(q) == Begin(q, [NoRequest EXCEPT !.kind = "start", !.stage = "create"])

\* Mutant: everything that is not known to run may be retried.
NotRunning(status) == status \notin {"none", "started", "running"}

\* terminalAgentRunStatuses.
Terminal(status) == status = "ended"

retry(q, p) ==
    /\ Terminal(record[p].status)
    /\ Begin(q, [NoRequest EXCEPT !.kind = "start", !.stage = "create", !.parent = p])

\* startAgentRun, first half: runs.create.
startAgentRun(q) ==
    /\ request[q].stage = "create"
    /\ \E r \in Runs :
         /\ upstream[r] = "none"
         /\ upstream' = [upstream EXCEPT ![r] = "running"]
         /\ request' = [request EXCEPT ![q].stage = "insert", ![q].run = r]
    /\ UNCHANGED <<area, sceneVars, record, requests>>

\* Second half.
createAgentRun(q) ==
    /\ request[q].stage = "insert"
    /\ record' = [record EXCEPT ![request[q].run] =
         [status |-> "started", completed |-> FALSE, parent |-> request[q].parent]]
    /\ request' = [request EXCEPT ![q] = NoRequest]
    /\ UNCHANGED <<area, sceneVars, upstream, requests>>

\* synchronizeAgentRun: the record, then Hermes, then the update.
synchronizeAgentRun(q, r) ==
    /\ record[r].status # "none"
    /\ Begin(q, [NoRequest EXCEPT !.kind = "sync", !.stage = "get", !.run = r,
                                  !.completed = record[r].completed])

RunsGet(q) ==
    /\ request[q].stage = "get"
    /\ \E status \in {HermesStatus(request[q].run), "unknown"} :
         request' = [request EXCEPT ![q].stage = "update", ![q].status = status]
    /\ UNCHANGED <<area, sceneVars, upstream, record, requests>>

\* approval and stop: Hermes first, and then the record, without looking at it.
RunsApprove(q, r) ==
    /\ upstream[r] # "none"
    /\ Begin(q, [NoRequest EXCEPT !.kind = "set", !.stage = "update", !.run = r, !.status = "running"])

RunsStop(q, r) ==
    /\ upstream[r] # "none"
    /\ Begin(q, [NoRequest EXCEPT !.kind = "set", !.stage = "update", !.run = r, !.status = "stopping"])

\* UPDATE agent_runs: a synchronisation also sets completed_at.
updateAgentRun(q) ==
    LET req == request[q] IN
    /\ req.stage = "update"
    /\ record' = IF record[req.run].status = "none" THEN record
                 ELSE [record EXCEPT ![req.run].status = req.status,
                        ![req.run].completed = IF req.kind = "sync"
                                               THEN req.completed \/ Terminal(req.status) ELSE @]
    /\ request' = [request EXCEPT ![q] = NoRequest]
    /\ UNCHANGED <<area, sceneVars, upstream, requests>>

\* Hermes does not answer, or the process ends.
RequestFails(q) ==
    /\ request[q] # NoRequest
    /\ request' = [request EXCEPT ![q] = NoRequest]
    /\ UNCHANGED <<area, sceneVars, upstream, record, requests>>

\* External: a run completes, fails or is cancelled.
RunEnds(r) ==
    /\ upstream[r] = "running"
    /\ upstream' = [upstream EXCEPT ![r] = "ended"]
    /\ UNCHANGED <<area, sceneVars, record, request, requests>>

-----------------------------------------------------------------------------
Clients == Tabs \union {"api"}

Init ==
    /\ area \in Areas
    /\ events = <<>> /\ latest = 0
    /\ tab = [t \in Tabs |-> NewTransport]
    /\ call = [w \in Clients |-> NoCall]
    /\ errors = [t \in Tabs |-> 0]
    /\ upstream = [r \in Runs |-> "none"]
    /\ record = [r \in Runs |-> NoRecord]
    /\ request = [q \in Requests |-> NoRequest]
    /\ requests = 0

SceneNext ==
    \/ \E w \in Clients : \/ panelContext(w) \/ saveIntegrationResult(w) \/ listLatestHotspots(w)
                         \/ CallFails(w) \/ applyAgentSceneIntent(w)
    \/ \E kind \in Kinds("api") : SendIntent("api", kind)
    \/ IntentAnswered("api")
    \/ CollectHotspots
    \/ \E t \in Tabs : \E kind \in Kinds(t) : command(t, kind)
    \/ \E t \in Tabs : CommandAnswered(t)
    \/ \E t \in Tabs : panelSnapshot(t) \/ load(t) \/ streamSceneEvents(t) \/ SceneMessage(t)
                        \/ StreamError(t) \/ connect(t)

RunNext ==
    \/ \E q \in Requests :
         \/ PostRun(q) \/ startAgentRun(q) \/ createAgentRun(q)
         \/ RunsGet(q) \/ updateAgentRun(q) \/ RequestFails(q)
         \/ \E r \in Runs : retry(q, r) \/ synchronizeAgentRun(q, r) \/ RunsApprove(q, r) \/ RunsStop(q, r)
    \/ \E r \in Runs : RunEnds(r)

Next ==
    \/ area # "runs" /\ SceneNext
    \/ area = "runs" /\ RunNext

\* The server answers, a tab handles what arrives and its timer fires.
TabStep(t) ==
    area # "runs" /\ (panelSnapshot(t) \/ load(t) \/ streamSceneEvents(t) \/ SceneMessage(t) \/ connect(t))

Spec == Init /\ [][Next]_vars /\ \A t \in Tabs : WF_vars(TabStep(t))

-----------------------------------------------------------------------------
Views == [mark : 0..MaxRevision, facts : 0..latest]

\* The types of the variables: no message names a revision the scene does not
\* have, and no view shows a collection that was not saved.
TypeOK ==
    /\ area \in Areas
    /\ Revision <= MaxRevision
    /\ \A r \in 1..Revision : events[r] \in Views
    /\ \A t \in Tabs :
         /\ tab[t].revision \in 0..Revision /\ tab[t].view \in Views
         /\ tab[t].answers \subseteq 0..Revision /\ tab[t].loads \in Nat
         /\ tab[t].stream.cursor \in 0..Revision /\ errors[t] <= MaxErrors
    /\ \A r \in Runs :
         /\ upstream[r] \in {"none", "running", "ended"}
         /\ record[r].status \in {"none", "started", "running", "stopping", "ended", "unknown"}
         /\ record[r].status # "none" => upstream[r] # "none"

\* A tab that knows a revision shows the view of that revision, whatever
\* commands, snapshots and patches it rendered in whatever order: what it sends
\* as its base revision is what its owner saw.
TabConsistent ==
    \A t \in Tabs : tab[t].revision # 0 => tab[t].view = View(tab[t].revision)

\* A command of a panel that the server applies never takes the hotspot
\* collection back to an older one, although its view was computed before the
\* transaction: the expected revision tells that nothing came between.
FactsNeverGoBack ==
    [][\A t \in Tabs : call[t].stage = "apply" /\ call'[t].stage = "applied"
        => events'[Revision + 1].facts >= View(Revision).facts]_vars

\* A tab that only follows ends up showing the current view, over broken streams,
\* revision gaps and snapshots that arrive late.
Converges ==
    \A t \in Tabs :
        area = "follow" => <>[](tab[t].view = View(Revision))

\* A run is retried only when it has ended, and a record says so only of a run
\* that did, although approvals, stops and synchronisations overwrite the
\* record without a lock.
RetryOfEnded ==
    \A r \in Runs :
        /\ record[r].status = "ended" \/ record[r].completed => upstream[r] = "ended"
        /\ record[r].parent # "none" => upstream[record[r].parent] = "ended"

\* Together: what the tabs know is a revision the scene had, and they show it.
TabInv == TypeOK /\ TabConsistent
=============================================================================
