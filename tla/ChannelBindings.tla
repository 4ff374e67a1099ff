--------------------------- MODULE ChannelBindings ---------------------------
(* The Channel Worker and the bindings it serves: the owner saves and deletes   *)
(* bindings on the platform, the worker's inventory refresh starts and stops an *)
(* adapter for each of them (packages/channels/worker.mjs), the adapters keep a *)
(* connection to their vendor and report health (packages/channels/adapters),   *)
(* and the platform turns the reports into the binding's status                 *)
(* (apps/web/routes/internal-channels.mjs, postgres-repository.mjs).            *)
(*                                                                              *)
(* A credential is the number of the generation it was saved as.  Reports       *)
(* travel as messages: one that stays on the wire is lost, and any order of     *)
(* arrival is possible.  The areas of work are explored separately: "inventory" *)
(* (which adapters run), "qq" and "feishu" (connections and health reports of   *)
(* one binding) and "callback" (WeChat messages).                               *)
EXTENDS Naturals, Sequences, FiniteSets, FiniteSetsExt

CONSTANTS
    Areas,
    Channel,        \* Channel[b]: the vendor of binding b, b in 1 .. number of bindings
    Slots,          \* adapter objects that may be alive at the same time
    MaxGeneration,  \* bound on the times the owner saves a binding
    MaxReports,     \* bound on health reports; later ones are lost
    WeChatMessages, \* WeChat messages
    MaxCallbacks,   \* bound on the times the vendor posts a message
    Attempts        \* submitIngress attempts

ASSUME BindingsAssumption ==
    /\ Areas \subseteq {"inventory", "qq", "feishu", "callback"}
    /\ Channel \in Seq({"feishu", "qq", "wechat"})
    /\ Slots \subseteq Nat \ {0}
    /\ {MaxGeneration, MaxReports, MaxCallbacks, Attempts} \subseteq Nat

VARIABLES
    area,
    row,        \* row[b]: agent_channel_bindings
    saves,      \* times the owner saved each binding
    worker,     \* the refresh in progress, the adapters and generations maps
    adapter,    \* adapter[s]: adapter objects, "free" or alive
    wire,       \* health reports under way
    clock,      \* observed_at of the newest report
    callback    \* callback[m]: WeChat callbacks of message m

vars == <<area, row, saves, worker, adapter, wire, clock, callback>>

Bindings == DOMAIN Channel
Health == area \in {"qq", "feishu"}
None == 0

-----------------------------------------------------------------------------
(* The owner's routes and the repository. *)

NoBinding == [present |-> FALSE, generation |-> 0, complete |-> TRUE,
              status |-> "unconfigured", lastHealth |-> 0, newest |-> [at |-> 0, status |-> "none"]]

\* PUT /channels/:channel.  The status becomes pending whether or not there is a
\* new credential; only a new credential forgets the last health report.  The
\* credential is stored as it is: nothing checks that it is complete.
upsertAgentChannelBinding(b, credential, complete) ==
    /\ saves[b] < MaxGeneration
    /\ row[b].present \/ saves[b] = 0
    /\ saves' = [saves EXCEPT ![b] = @ + 1]
    /\ row' = [row EXCEPT ![b] =
         [present |-> TRUE,
          generation |-> @.generation + IF credential THEN 1 ELSE 0,
          complete |-> IF credential THEN complete ELSE @.complete,
          status |-> "pending",
          lastHealth |-> IF credential THEN 0 ELSE @.lastHealth,
          newest |-> NoBinding.newest]]
    /\ UNCHANGED <<area, worker, adapter, wire, clock, callback>>

\* A binding that is saved again after its deletion is another one, with a new id.
deleteAgentChannelBinding(b) ==
    /\ row[b].present
    /\ row' = [row EXCEPT ![b] = NoBinding]
    /\ UNCHANGED <<area, saves, worker, adapter, wire, clock, callback>>

\* The bindings that are listed: those with a credential.
listChannelBindingsForWorker == {b \in Bindings : row[b].generation > 0}

\* What the inventory route answers: 0 for a binding that is not listed.
InventoryRoute ==
    [b \in Bindings |-> IF b \in listChannelBindingsForWorker THEN row[b].generation ELSE 0]

\* What the resolve route answers: a credential or 404.
Resolvable(b) == row[b].present /\ row[b].generation > 0

Newer(b, at) == row[b].lastHealth <= at

\* A report that is older than the last one changes nothing.
saveChannelHealthReport(old, r) ==
    LET newer == Newer(r.binding, r.at)
    IN  [old EXCEPT !.status = IF newer THEN r.status ELSE @,
                    !.lastHealth = IF newer THEN r.at ELSE @,
                    !.newest = IF r.at > @.at THEN [at |-> r.at, status |-> r.status] ELSE @]

\* POST /channels/health: a report for a binding that is gone is refused.
HealthRoute(r) ==
    /\ r \in wire
    /\ wire' = wire \ {r}
    /\ row' = [row EXCEPT ![r.binding] = IF @.present THEN saveChannelHealthReport(@, r) ELSE @]
    /\ UNCHANGED <<area, saves, worker, adapter, clock, callback>>

-----------------------------------------------------------------------------
(* Adapters.  An adapter object outlives its place in the worker's map while    *)
(* its connection does.                                                         *)

Free == [binding |-> None, credential |-> 0, link |-> "none", stopped |-> TRUE]
IsFree(s) == adapter[s] = Free
Collected(a) == IF a.stopped /\ a.link = "none" THEN Free ELSE a

\* Health reports are sent one after the other; past the bound, and outside the
\* areas of health, they are lost.
report(b, statuses) ==
    LET sent == IF Health THEN Min({Len(statuses), MaxReports - clock}) ELSE 0
    IN  /\ clock' = clock + sent
        /\ wire' = wire \cup {[binding |-> b, status |-> statuses[i], at |-> clock + i] : i \in 1 .. sent}

\* stop(): the timer is cleared and the socket closed, but a connect() that is
\* waiting for its token or gateway goes on.
Stopped(a) == Collected([a EXCEPT !.stopped = TRUE, !.link = IF @ = "connecting" THEN @ ELSE "none"])

ScheduleReconnect(a) == [a EXCEPT !.link = IF a.stopped THEN "none" ELSE "waiting"]

Event(s, link, status) ==
    /\ adapter' = [adapter EXCEPT ![s] = Collected(link)]
    /\ report(adapter[s].binding, <<status>>)
    /\ UNCHANGED <<area, row, saves, worker, callback>>

InMap(s) == \E b \in Bindings : worker.map[b] = s
Linked(s, links) == ~IsFree(s) /\ adapter[s].link \in links /\ Health
IsChannel(s, c) == ~IsFree(s) /\ Channel[adapter[s].binding] = c

\* READY, RESUMED, onReady, onReconnected, or the first verified callback: the
\* vendor has accepted the credential.  No adapter asks whether it was stopped.
Handshake(s) ==
    /\ Linked(s, {"open"}) /\ s # worker.starting
    /\ Event(s, [adapter[s] EXCEPT !.link = "ready"], "connected")

\* Feishu: the SDK reconnects by itself.
FeishuEvent(s) ==
    /\ IsChannel(s, "feishu") /\ Linked(s, {"open", "ready"}) /\ s # worker.starting
    /\ \/ Event(s, adapter[s], "error")
       \/ Event(s, [adapter[s] EXCEPT !.link = "open"], "degraded")

\* QQ: the gateway asks for a reconnect or invalidates the session (op 7, op 9).
handlePayload(s) ==
    /\ IsChannel(s, "qq") /\ Linked(s, {"open", "ready"}) /\ s # worker.starting
    /\ Event(s, ScheduleReconnect(adapter[s]), "degraded")

\* QQ: the socket is closed by the other side.
SocketCloses(s) ==
    /\ IsChannel(s, "qq") /\ Linked(s, {"open", "ready"}) /\ s # worker.starting
    /\ IF adapter[s].stopped
       THEN /\ adapter' = [adapter EXCEPT ![s] = Free]
            /\ UNCHANGED <<area, row, saves, worker, callback, clock, wire>>
       ELSE Event(s, ScheduleReconnect(adapter[s]), "disconnected")

ReconnectTimer(s) ==
    /\ IsChannel(s, "qq") /\ Linked(s, {"waiting"})
    /\ adapter' = [adapter EXCEPT ![s].link = "connecting"]
    /\ UNCHANGED <<area, row, saves, worker, wire, clock, callback>>

connect(s) ==
    /\ IsChannel(s, "qq") /\ Linked(s, {"connecting"}) /\ s # worker.starting
    /\ \/ /\ adapter' = [adapter EXCEPT ![s].link = "open"]
          /\ UNCHANGED <<area, row, saves, worker, callback, clock, wire>>
       \/ Event(s, ScheduleReconnect(adapter[s]), "error")

-----------------------------------------------------------------------------
(* The worker. *)

Start == [pc |-> "idle", listed |-> [b \in Bindings |-> 0], todo |-> {}, starting |-> None,
          map |-> [b \in Bindings |-> None], generations |-> [b \in Bindings |-> 0],
          stopped |-> FALSE]

\* The inventory request succeeds; one that fails leaves everything as it is.
refreshInventory ==
    /\ worker.pc = "idle" /\ ~worker.stopped
    /\ worker' = [worker EXCEPT !.pc = "drop", !.listed = InventoryRoute]
    /\ UNCHANGED <<area, row, saves, adapter, wire, clock, callback>>

\* Mutant: an adapter of a listed binding is kept whatever its generation.
UpToDate_Listed(b) == worker.listed[b] # 0 /\ worker.map[b] # None
UpToDate(b) == worker.listed[b] # 0 /\ worker.map[b] # None
               /\ worker.generations[b] = worker.listed[b]

\* Mutant: a replaced adapter is forgotten without being stopped.
DropAdapter_Forget(b) == adapter' = adapter /\ UNCHANGED <<wire, clock>>
DropAdapter(b) ==
    /\ adapter' = [adapter EXCEPT ![worker.map[b]] = Stopped(@)]
    /\ report(b, <<"disconnected">>)

Unmapped(b) == [worker EXCEPT !.map[b] = None, !.generations[b] = 0]

DropAdapters ==
    /\ worker.pc = "drop"
    /\ LET stale == {b \in Bindings : worker.map[b] # None /\ ~UpToDate(b)}
       IN  IF stale = {}
           THEN /\ worker' = [worker EXCEPT !.pc = "start",
                                               !.todo = {b \in Bindings : worker.listed[b] # 0}]
                /\ UNCHANGED <<adapter, wire, clock>>
           ELSE LET b == Min(stale)
                IN  /\ DropAdapter(b)
                    /\ worker' = Unmapped(b)
    /\ UNCHANGED <<area, row, saves, callback>>

\* startAdapter up to adapter.start().  When the binding cannot be resolved, or
\* its credential is incomplete and the adapter's constructor throws, the whole
\* refresh ends and the bindings after it have to wait for the next one.
StartNext ==
    /\ worker.pc = "start"
    /\ IF worker.todo = {}
       THEN worker' = [worker EXCEPT !.pc = "idle"] /\ UNCHANGED <<adapter, wire, clock>>
       ELSE LET b == Min(worker.todo)
            IN  \/ /\ UpToDate(b)
                   /\ worker' = [worker EXCEPT !.todo = @ \ {b}]
                   /\ UNCHANGED <<adapter, wire, clock>>
                \/ /\ ~UpToDate(b) /\ ~(Resolvable(b) /\ row[b].complete)
                   /\ worker' = [worker EXCEPT !.pc = "idle", !.todo = {}]
                   /\ UNCHANGED <<adapter, wire, clock>>
                \/ /\ ~UpToDate(b) /\ Resolvable(b) /\ row[b].complete
                   /\ \E s \in Slots :
                        /\ IsFree(s) /\ \A t \in Slots : IsFree(t) => s <= t
                        /\ worker' = [worker EXCEPT !.pc = "starting", !.starting = s]
                        /\ adapter' = [adapter EXCEPT ![s] =
                             [binding |-> b, credential |-> row[b].generation,
                              link |-> "connecting", stopped |-> FALSE]]
                        /\ report(b, <<"pending">>)
    /\ UNCHANGED <<area, row, saves, callback>>

Recorded(b) == worker.listed[b]

\* adapter.start() returns: the token was granted and the connection is opening.
StartSucceeds ==
    /\ worker.pc = "starting"
    /\ LET s == worker.starting
           b == adapter[s].binding
       IN  /\ worker' = [worker EXCEPT !.pc = "start", !.todo = @ \ {b}, !.starting = None,
                                       !.map[b] = s, !.generations[b] = Recorded(b)]
           /\ adapter' = [adapter EXCEPT ![s].link = "open"]
    /\ UNCHANGED <<area, row, saves, wire, clock, callback>>

\* adapter.start() throws: the adapter is stopped and reports the error.
StartFails ==
    /\ worker.pc = "starting"
    /\ LET s == worker.starting
           b == adapter[s].binding
       IN  /\ worker' = [worker EXCEPT !.pc = "start", !.todo = @ \ {b}, !.starting = None]
           /\ adapter' = [adapter EXCEPT ![s] = Free]
           /\ report(b, <<"disconnected", "error">>)
    /\ UNCHANGED <<area, row, saves, callback>>

\* stop(): the adapters in the map are stopped; one that is starting is entered
\* into the map afterwards.
Stop ==
    /\ ~worker.stopped /\ area = "inventory"
    /\ worker' = [worker EXCEPT !.stopped = TRUE, !.map = Start.map,
                                !.generations = Start.generations]
    /\ adapter' = [s \in Slots |-> IF InMap(s) THEN Stopped(adapter[s]) ELSE adapter[s]]
    /\ UNCHANGED <<area, row, saves, wire, clock, callback>>

\* The process ends, after stop() or by a crash, and is started again.
Restart ==
    /\ worker.stopped
    /\ worker' = Start
    /\ adapter' = [s \in Slots |-> Free]
    /\ UNCHANGED <<area, row, saves, wire, clock, callback>>

-----------------------------------------------------------------------------
(* WeChat callbacks.  The vendor posts a message again, with the same signature, *)
(* until it has an answer; each post has a handler of its own.                   *)

NoCallback == [posts |-> 0, submitting |-> {}, accepted |-> FALSE, marked |-> FALSE, acked |-> FALSE]

\* Mutant: the replay is marked when the callback arrives.
MarkedOnArrival_Early(m) == TRUE
MarkedOnArrival(m) == callback[m].marked

\* handle() up to submitIngress; a replay is answered at once.
handle(m) ==
    /\ area = "callback" /\ callback[m].posts < MaxCallbacks /\ ~callback[m].acked
    /\ callback' = [callback EXCEPT
         ![m].posts = @ + 1,
         ![m].marked = MarkedOnArrival(m),
         ![m].acked = callback[m].marked,
         ![m].submitting = IF callback[m].marked THEN @ ELSE @ \cup {<<callback[m].posts + 1, 1>>}]
    /\ UNCHANGED <<area, row, saves, worker, adapter, wire, clock>>

\* POST /channels/ingress stores the message, or has it already.
ingressRoute(m) == [callback[m] EXCEPT !.accepted = TRUE]

\* markReplay, after the platform's acknowledgement, and the answer to the vendor.
markReplay(c) == [c EXCEPT !.marked = TRUE, !.acked = TRUE]

\* submitIngress: the platform accepts the message, once, and the answer may be
\* lost; an attempt that failed is repeated, and the last failure is a 500.
submitIngress(m) ==
    /\ area = "callback"
    /\ \E h \in callback[m].submitting :
         LET done == callback[m].submitting \ {h}
             again == IF h[2] < Attempts THEN done \cup {<<h[1], h[2] + 1>>} ELSE done
         IN  \/ callback' = [callback EXCEPT ![m] =
                               [markReplay(ingressRoute(m)) EXCEPT !.submitting = done]]
             \/ \E c \in {callback[m], ingressRoute(m)} :
                  callback' = [callback EXCEPT ![m] = [c EXCEPT !.submitting = again]]
    /\ UNCHANGED <<area, row, saves, worker, adapter, wire, clock>>

\* The binding's adapter is replaced: its replay memory is gone, its handlers go on.
CallbackAdapterReplaced ==
    /\ area = "callback" /\ \E m \in WeChatMessages : callback[m].marked
    /\ callback' = [m \in WeChatMessages |-> [callback[m] EXCEPT !.marked = FALSE]]
    /\ UNCHANGED <<area, row, saves, worker, adapter, wire, clock>>

-----------------------------------------------------------------------------
Init ==
    /\ area \in Areas
    /\ row = [b \in Bindings |-> NoBinding]
    /\ saves = [b \in Bindings |-> 0]
    /\ worker = Start
    /\ adapter = [s \in Slots |-> Free]
    /\ wire = {} /\ clock = 0
    /\ callback = [m \in WeChatMessages |-> NoCallback]

Owner ==
    /\ area # "callback"
    /\ \E b \in {b \in Bindings : Health => Channel[b] = area} :
         \/ \E credential, complete \in BOOLEAN :
              (area = "inventory" \/ complete) /\ upsertAgentChannelBinding(b, credential, complete)
         \/ deleteAgentChannelBinding(b)

Refresh == area # "callback" /\ (refreshInventory \/ DropAdapters \/ StartNext \/ StartFails)

Link(s) == \/ Handshake(s) \/ FeishuEvent(s) \/ handlePayload(s) \/ SocketCloses(s)
           \/ ReconnectTimer(s) \/ connect(s)

Next ==
    \/ Owner
    \/ Refresh
    \/ StartSucceeds
    \/ Stop
    \/ Restart
    \/ \E s \in Slots : Link(s)
    \/ \E r \in wire : HealthRoute(r)
    \/ \E m \in WeChatMessages : handle(m) \/ submitIngress(m)
    \/ CallbackAdapterReplaced

\* The refresh timer is set again after every refresh, requests time out, a
\* stopped process is started again by its container's restart policy, and an
\* adapter that is started again and again starts in the end.
Fairness == WF_vars(Refresh) /\ SF_vars(StartSucceeds) /\ WF_vars(Restart)

Spec == Init /\ [][Next]_vars /\ Fairness

-----------------------------------------------------------------------------
Statuses == {"unconfigured", "pending", "connected", "degraded", "error", "disconnected"}

\* A binding that is gone has no generation; the worker's map holds a live
\* adapter of that very binding; a free slot is in nobody's hands.
TypeOK ==
    /\ \A b \in Bindings :
         /\ row[b].status \in Statuses /\ row[b].generation <= saves[b]
         /\ ~row[b].present => row[b] = NoBinding
         /\ worker.map[b] # None => adapter[worker.map[b]].binding = b
    /\ worker.pc \in {"idle", "drop", "start", "starting"}
    /\ worker.pc = "starting" <=> worker.starting # None
    /\ \A s \in Slots : adapter[s].link \in {"none", "connecting", "open", "ready", "waiting"}
    /\ \A r \in wire : r.binding \in Bindings /\ r.status \in Statuses /\ r.at <= clock

\* refreshInventory reads the generation before it resolves the credential: the
\* generation it records is never newer than the credential the adapter uses, so
\* a credential saved meanwhile is noticed by the next refresh.
GenerationNotAhead ==
    \A b \in Bindings : worker.map[b] # None =>
        worker.generations[b] <= adapter[worker.map[b]].credential

\* At most one adapter of a binding is in service: every other one has been told
\* to stop, through refreshes, failed starts, stop() and restarts.
OneAdapterInService ==
    \A s, t \in Slots : s # t /\ ~adapter[s].stopped /\ ~adapter[t].stopped
        => adapter[s].binding # adapter[t].binding

\* The reconnect logic of the QQ adapter: an adapter in service is connected,
\* connecting or waiting for its reconnect timer, whatever events and failures
\* it has been through.
LinkNeverAbandoned ==
    \A s \in Slots : ~adapter[s].stopped => adapter[s].link # "none"

\* Reports arrive in any order: if the newest one since the binding was saved is
\* at least as new as the last one accepted, the binding shows its status.
NewestHealthWins ==
    \A b \in Bindings :
        row[b].newest.at # 0 /\ row[b].newest.at >= row[b].lastHealth
            => row[b].status = row[b].newest.status

\* A WeChat message that the vendor was told is a success has been accepted by
\* the platform: a replay is answered only when the message was acknowledged.
AckedIsAccepted == \A m \in WeChatMessages : callback[m].acked => callback[m].accepted

InForce(b) ==
    IF row[b].generation > 0
    THEN worker.map[b] # None /\ adapter[worker.map[b]].credential = row[b].generation
    ELSE worker.map[b] = None

\* Once the owner has stopped changing bindings, and if no credential makes the
\* constructor of an adapter throw, every binding has an adapter with its newest
\* credential, and a deleted one has none, for good.
AdapterFollows ==
    (area = "inventory" /\ <>[](\A b \in Bindings : row[b].complete) /\ <>[]~worker.stopped)
        => <>[](\A b \in Bindings : InForce(b))

\* Together: the worker's adapters and the status the owner sees, while bindings
\* are saved and deleted, adapters stopped and started, and reports delayed.
BindingsInv ==
    /\ TypeOK
    /\ GenerationNotAhead
    /\ OneAdapterInService
    /\ LinkNeverAbandoned
    /\ NewestHealthWins
==============================================================================
