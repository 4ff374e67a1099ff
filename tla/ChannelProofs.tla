---------------------------- MODULE ChannelProofs -----------------------------
(* Proofs about the channels: the bindings and their adapters                  *)
(* (ChannelBindings), for every list of bindings, every number of adapters,    *)
(* reports, callbacks and attempts; and the durable bridge (ChannelBridge),    *)
(* for every set of messages, every number of attempts, lease term and         *)
(* back-off.                                                                   *)
EXTENDS ChannelBindings, ChannelBridge, WellFoundedInduction, TLAPS

-------------------------------------------------------------------------------
(* THE BINDINGS: the inductive invariant.                                     *)

Links == {"none", "connecting", "open", "ready", "waiting"}
BindingRow == [present : BOOLEAN, generation : Nat, complete : BOOLEAN, status : Statuses,
               lastHealth : Nat, newest : [at : Nat, status : Statuses \cup {"none"}]]
WorkerType == [pc : {"idle", "drop", "start", "starting"}, listed : [Bindings -> Nat],
               todo : SUBSET Bindings, starting : Slots \cup {None},
               map : [Bindings -> Slots \cup {None}], generations : [Bindings -> Nat],
               stopped : BOOLEAN]
Adapter == [binding : Bindings, credential : Nat, link : Links, stopped : BOOLEAN]
Report == [binding : Bindings, status : Statuses, at : Nat \ {0}]
Callback == [posts : Nat, submitting : SUBSET (Nat \X Nat), accepted : BOOLEAN,
             marked : BOOLEAN, acked : BOOLEAN]

Types ==
    /\ row \in [Bindings -> BindingRow]
    /\ saves \in [Bindings -> Nat]
    /\ worker \in WorkerType
    /\ adapter \in [Slots -> Adapter \cup {Free}]
    /\ wire \subseteq Report
    /\ clock \in 0 .. MaxReports

\* What the platform keeps of a binding, and what the worker has listed of it: a
\* binding that is gone does not come back, so a generation is never ahead of
\* the row's.
RowsInv ==
    \A b \in Bindings :
        /\ row[b].generation <= saves[b]
        /\ ~row[b].present => row[b] = NoBinding
        /\ worker.listed[b] <= saves[b]
        /\ row[b].present => worker.listed[b] <= row[b].generation

\* An adapter in the map is one of its binding, was not told to stop, and its
\* generation is not ahead of its credential.
MapInv ==
    \A b \in Bindings : worker.map[b] # None =>
        /\ adapter[worker.map[b]].binding = b
        /\ ~adapter[worker.map[b]].stopped
        /\ worker.generations[b] <= adapter[worker.map[b]].credential

\* From the second loop of refreshInventory on, what is in the map is up to date.
StartInv ==
    /\ worker.pc \in {"start", "starting"} =>
         /\ \A b \in Bindings : worker.map[b] # None => UpToDate(b)
         /\ \A b \in worker.todo : worker.listed[b] # 0
    /\ worker.pc = "starting" <=> worker.starting # None

\* The adapter that is starting is the only one of its binding in service.
StartingInv ==
    LET a == adapter[worker.starting] IN
    worker.starting # None =>
        /\ ~a.stopped /\ a.link = "connecting"
        /\ worker.listed[a.binding] # 0 /\ worker.map[a.binding] = None
        /\ worker.listed[a.binding] <= a.credential

\* An adapter in service is starting or in the map, and has a connection.
ServiceInv ==
    \A s \in Slots : ~adapter[s].stopped =>
        /\ adapter[s].link # "none"
        /\ s = worker.starting \/ worker.map[adapter[s].binding] = s

\* Every report has a number of its own, none is ahead of the clock, and one that
\* was taken is not under way any more.
ReportsInv ==
    /\ \A r \in wire : r.at <= clock /\ \A b \in Bindings : r.at # row[b].newest.at
    /\ \A r, q \in wire : r.at = q.at => r = q

\* The newest report of a binding is not newer than the last one accepted, and
\* when it is that one, its status is shown.
NewestInv ==
    \A b \in Bindings :
        /\ row[b].newest.at <= row[b].lastHealth /\ row[b].newest.at <= clock
        /\ row[b].newest.at # 0 /\ row[b].newest.at = row[b].lastHealth
             => row[b].status = row[b].newest.status

\* A message is remembered or answered as a success after the platform has it.
CallbackInv ==
    /\ callback \in [WeChatMessages -> Callback]
    /\ \A m \in WeChatMessages : callback[m].acked \/ callback[m].marked => callback[m].accepted

\* The worker's adapters, without the reports.
AdaptersInv == RowsInv /\ MapInv /\ StartInv /\ StartingInv /\ ServiceInv

IndInv == Types /\ AdaptersInv /\ ReportsInv /\ NewestInv

-----------------------------------------------------------------------------
(* Facts about the operators. *)

\* A set of numbers that is not empty has a least one.
LEMMA Least ==
    ASSUME NEW T, T \subseteq Nat, T # {}
    PROVE  Min(T) \in T
<1>1. IsWellFoundedOn(OpToRel(<, Nat), Nat)
  BY NatLessThanWellFounded, Zenon
<1>2. PICK k \in T : \A j \in T : ~(<<j, k>> \in OpToRel(<, Nat))
  BY <1>1, WFMin, Zenon
<1>3. \A j \in T : k <= j
  <2> SUFFICES ASSUME NEW j \in T, j < k PROVE FALSE
    OBVIOUS
  <2>1. <<j, k>> \in {ss \in Nat \X Nat : ss[1] < ss[2]}
    OBVIOUS
  <2>2. QED  BY <1>2, <2>1 DEF OpToRel
<1>4. QED  BY <1>3 DEF Min

\* Bindings are numbers, and neither a binding nor a slot is None.
LEMMA Numbers == Bindings \subseteq Nat \ {0} /\ None \notin Bindings /\ None \notin Slots
                 /\ None \notin Nat \ {0} /\ MaxReports \in Nat
  BY BindingsAssumption DEF Bindings, None

\* An adapter object that is not free belongs to a binding.
LEMMA AdapterForm ==
    ASSUME NEW a \in Adapter \cup {Free}
    PROVE  /\ a # Free => a \in Adapter
           /\ ~a.stopped => a \in Adapter
           /\ a.link \in Links
           /\ Free.stopped /\ Free.binding = None /\ Free.link = "none"
  BY DEF Adapter, Free, Links

\* An object that is collected is free, and it was not in service.
LEMMA CollectedForm ==
    ASSUME NEW a \in Adapter
    PROVE  /\ Collected(a) \in Adapter \cup {Free}
           /\ ~a.stopped => Collected(a) = a
           /\ ~Collected(a).stopped => ~a.stopped
  BY AdapterForm DEF Collected

\* stop() of an adapter takes it out of service.
LEMMA StoppedForm ==
    ASSUME NEW a \in Adapter
    PROVE  Stopped(a) \in Adapter \cup {Free} /\ Stopped(a).stopped
<1> DEFINE c == [a EXCEPT !.stopped = TRUE, !.link = IF @ = "connecting" THEN @ ELSE "none"]
<1>1. c \in Adapter /\ c.stopped
  BY DEF Adapter, Links
<1> HIDE DEF c
<1>2. Collected(c) \in Adapter \cup {Free} /\ Collected(c).stopped
  BY <1>1, CollectedForm, AdapterForm DEF Collected
<1>3. QED  BY <1>2 DEF Stopped, c

\* Health reports get numbers of their own, from the clock on.
LEMMA ReportStep ==
    ASSUME Types, ReportsInv, NewestInv, NEW b \in Bindings,
           NEW statuses \in Seq(Statuses), report(b, statuses), row' = row
    PROVE  wire' \subseteq Report /\ clock' \in 0 .. MaxReports /\ ReportsInv' /\ NewestInv'
<1> DEFINE n == IF Health THEN Min({Len(statuses), MaxReports - clock}) ELSE 0
           new == {[binding |-> b, status |-> statuses[i], at |-> clock + i] : i \in 1 .. n}
<1>1. clock' = clock + n /\ wire' = wire \cup new
  BY DEF report
<1>2. clock \in 0 .. MaxReports /\ MaxReports \in Nat /\ Len(statuses) \in Nat
  BY Numbers DEF Types
<1>3. n \in 0 .. Len(statuses) /\ clock + n <= MaxReports
  <2>1. CASE Health
    <3>1. {Len(statuses), MaxReports - clock} \subseteq Nat
      BY <1>2
    <3>2. PICK k \in {Len(statuses), MaxReports - clock} :
              \A y \in {Len(statuses), MaxReports - clock} : k <= y
      BY <1>2
    <3>3. /\ Min({Len(statuses), MaxReports - clock}) \in Nat
          /\ Min({Len(statuses), MaxReports - clock}) <= Len(statuses)
          /\ Min({Len(statuses), MaxReports - clock}) <= MaxReports - clock
      BY <3>1, <3>2 DEF Min
    <3>4. QED  BY <1>2, <2>1, <3>3
  <2>2. CASE ~Health
    BY <1>2, <2>2
  <2>3. QED  BY <2>1, <2>2
<1> HIDE DEF n
<1>4. \A r \in new : r \in Report /\ r.at > clock /\ r.at <= clock + n
  <2>1. ASSUME NEW i \in 1 .. n
        PROVE  /\ statuses[i] \in Statuses /\ clock + i \in Nat \ {0}
               /\ clock + i > clock /\ clock + i <= clock + n
    BY <1>2, <1>3
  <2>2. QED  BY <2>1 DEF Report
<1>5. \A r, q \in new : r.at = q.at => r = q
  BY <1>2, <1>3
<1> HIDE DEF new
<1>6. wire' \subseteq Report /\ clock' \in 0 .. MaxReports
  BY <1>1, <1>2, <1>3, <1>4 DEF Types
<1>7. \A r \in wire : r \in Report /\ r.at \in Nat /\ r.at <= clock
  BY DEF Types, ReportsInv, Report
<1>8. \A c \in Bindings : row[c].newest.at \in Nat /\ row[c].newest.at <= clock
  BY DEF Types, NewestInv, BindingRow
<1>9. ReportsInv'
  <2>1. ASSUME NEW r \in wire'
        PROVE  r.at <= clock' /\ \A c \in Bindings : r.at # row'[c].newest.at
    <3>1. CASE r \in wire
      BY <1>1, <1>2, <1>3, <1>7, <3>1 DEF ReportsInv
    <3>2. CASE r \in new
      BY <1>1, <1>2, <1>3, <1>4, <1>8, <3>2 DEF Report
    <3>3. QED  BY <1>1, <3>1, <3>2
  <2>2. ASSUME NEW r \in wire', NEW q \in wire', r.at = q.at
        PROVE  r = q
    <3>1. CASE r \in wire /\ q \in wire
      BY <2>2, <3>1 DEF ReportsInv
    <3>2. CASE r \in new /\ q \in new
      BY <1>5, <2>2, <3>2
    <3>3. r.at \in Nat /\ q.at \in Nat
      BY <1>6 DEF Report
    <3>4. QED  BY <1>1, <1>2, <1>4, <1>7, <2>2, <3>1, <3>2, <3>3
  <2>3. QED  BY <2>1, <2>2 DEF ReportsInv
<1>10. NewestInv'
  <2>1. \A c \in Bindings : row[c].newest.at <= clock'
    BY <1>1, <1>2, <1>3, <1>8
  <2>2. QED  BY <2>1 DEF NewestInv
<1>11. QED  BY <1>6, <1>9, <1>10

-----------------------------------------------------------------------------
(* The platform. *)

\* A save may add a generation; it never takes one away.
LEMMA SaveStep ==
    ASSUME IndInv, NEW b \in Bindings, NEW credential \in BOOLEAN, NEW complete \in BOOLEAN,
           upsertAgentChannelBinding(b, credential, complete)
    PROVE  IndInv'
<1> DEFINE new == [present |-> TRUE,
                   generation |-> row[b].generation + IF credential THEN 1 ELSE 0,
                   complete |-> IF credential THEN complete ELSE row[b].complete,
                   status |-> "pending",
                   lastHealth |-> IF credential THEN 0 ELSE row[b].lastHealth,
                   newest |-> NoBinding.newest]
<1>1. /\ row[b].present \/ saves[b] = 0
      /\ saves' = [saves EXCEPT ![b] = @ + 1] /\ row' = [row EXCEPT ![b] = new]
      /\ UNCHANGED <<worker, adapter, wire, clock>>
  BY DEF upsertAgentChannelBinding
<1>2. row \in [Bindings -> BindingRow] /\ saves \in [Bindings -> Nat] /\ worker \in WorkerType
  BY DEF IndInv, Types
<1>3. row[b] \in BindingRow /\ saves[b] \in Nat /\ worker.listed[b] \in Nat
  BY <1>2 DEF WorkerType
<1>4. /\ new \in BindingRow /\ new.present /\ new.generation \in Nat /\ new.lastHealth \in Nat
      /\ new.newest.at = 0
      /\ new.generation <= row[b].generation + 1 /\ row[b].generation <= new.generation
  BY <1>3 DEF BindingRow, NoBinding, Statuses
<1> HIDE DEF new
<1>5. /\ row' \in [Bindings -> BindingRow] /\ row'[b] = new /\ saves' \in [Bindings -> Nat]
      /\ saves'[b] = saves[b] + 1
      /\ \A c \in Bindings : c # b => row'[c] = row[c] /\ saves'[c] = saves[c]
  BY <1>1, <1>2, <1>4
<1>6. Types'
  BY <1>1, <1>5 DEF IndInv, Types
<1>7. RowsInv'
  <2>1. /\ row[b].generation <= saves[b] /\ worker.listed[b] <= saves[b]
        /\ row[b].present => worker.listed[b] <= row[b].generation
    BY DEF IndInv, AdaptersInv, RowsInv
  <2>2. worker.listed[b] <= new.generation /\ new.generation <= saves[b] + 1
        /\ worker.listed[b] <= saves[b] + 1
    BY <1>1, <1>3, <1>4, <2>1 DEF BindingRow
  <2>3. QED  BY <1>1, <1>4, <1>5, <2>2 DEF IndInv, AdaptersInv, RowsInv
<1>8. AdaptersInv'
  BY <1>1, <1>7 DEF IndInv, AdaptersInv, MapInv, StartInv, StartingInv, ServiceInv, UpToDate
<1>9. ReportsInv'
  <2>1. \A r \in wire : r.at # 0
    BY DEF IndInv, Types, Report
  <2>2. QED  BY <1>1, <1>4, <1>5, <2>1 DEF IndInv, ReportsInv
<1>10. NewestInv'
  BY <1>1, <1>4, <1>5 DEF IndInv, NewestInv, Types
<1>11. QED  BY <1>6, <1>8, <1>9, <1>10 DEF IndInv

\* A row that is deleted is gone: what was listed of it cannot be resolved.
LEMMA DeleteStep ==
    ASSUME IndInv, NEW b \in Bindings, deleteAgentChannelBinding(b)
    PROVE  IndInv'
<1>1. /\ row' = [row EXCEPT ![b] = NoBinding] /\ UNCHANGED <<saves, worker, adapter, wire, clock>>
  BY DEF deleteAgentChannelBinding
<1>2. NoBinding \in BindingRow /\ NoBinding.newest.at = 0 /\ NoBinding.lastHealth = 0 /\ ~NoBinding.present
      /\ NoBinding.generation = 0
  BY DEF NoBinding, BindingRow, Statuses
<1>3. /\ row' \in [Bindings -> BindingRow] /\ row'[b] = NoBinding
      /\ \A c \in Bindings : c # b => row'[c] = row[c]
  BY <1>1, <1>2 DEF IndInv, Types
<1>4. Types'
  BY <1>1, <1>3 DEF IndInv, Types
<1>5. RowsInv'
  <2>1. saves[b] \in Nat
    BY DEF IndInv, Types
  <2>2. QED  BY <1>1, <1>2, <1>3, <2>1 DEF IndInv, AdaptersInv, RowsInv
<1>6. AdaptersInv'
  BY <1>1, <1>5 DEF IndInv, AdaptersInv, MapInv, StartInv, StartingInv, ServiceInv, UpToDate
<1>7. ReportsInv'
  <2>1. \A r \in wire : r.at # 0
    BY DEF IndInv, Types, Report
  <2>2. QED  BY <1>1, <1>2, <1>3, <2>1 DEF IndInv, ReportsInv
<1>8. NewestInv'
  BY <1>1, <1>2, <1>3 DEF IndInv, NewestInv, Types
<1>9. QED  BY <1>4, <1>6, <1>7, <1>8 DEF IndInv

\* A report is taken once; an older one than the last accepted changes nothing.
LEMMA HealthStep ==
    ASSUME IndInv, NEW r \in wire, HealthRoute(r)
    PROVE  IndInv'
<1> DEFINE b == r.binding
           old == row[b]
           newer == old.lastHealth <= r.at
           new == [old EXCEPT
                     !.status = IF newer THEN r.status ELSE @,
                     !.lastHealth = IF newer THEN r.at ELSE @,
                     !.newest = IF r.at > @.at THEN [at |-> r.at, status |-> r.status] ELSE @]
<1>1. /\ wire' = wire \ {r}
      /\ row' = [row EXCEPT ![b] = IF old.present THEN new ELSE old]
      /\ UNCHANGED <<saves, worker, adapter, clock>>
  BY DEF HealthRoute, saveChannelHealthReport, Newer
<1>2. r \in Report /\ b \in Bindings /\ r.at \in Nat \ {0} /\ r.status \in Statuses
  BY DEF IndInv, Types, Report
<1>3. /\ row \in [Bindings -> BindingRow] /\ old \in BindingRow /\ wire \subseteq Report
      /\ clock \in Nat
  <2>1. clock \in Nat
    BY Numbers DEF IndInv, Types
  <2>2. QED  BY <1>2, <2>1 DEF IndInv, Types
<1>4. /\ new \in BindingRow /\ new.present = old.present /\ new.generation = old.generation
      /\ new.status = (IF newer THEN r.status ELSE old.status)
      /\ new.lastHealth = (IF newer THEN r.at ELSE old.lastHealth)
      /\ new.newest = IF r.at > old.newest.at THEN [at |-> r.at, status |-> r.status]
                      ELSE old.newest
  BY <1>2, <1>3 DEF BindingRow
<1>5. /\ old.newest.at <= old.lastHealth /\ old.newest.at <= clock
      /\ old.newest.at # 0 /\ old.newest.at = old.lastHealth => old.status = old.newest.status
  BY <1>2 DEF IndInv, NewestInv
<1>6. r.at <= clock /\ r.at # old.newest.at
  BY <1>2 DEF IndInv, ReportsInv
<1>7. old.newest.at \in Nat /\ old.lastHealth \in Nat
  BY <1>3 DEF BindingRow
<1> HIDE DEF new
<1>8. /\ new.newest.at <= new.lastHealth /\ new.newest.at <= clock
      /\ new.newest.at # 0 /\ new.newest.at = new.lastHealth => new.status = new.newest.status
      /\ new.newest.at \in {r.at, old.newest.at}
  <2>1. CASE r.at > old.newest.at
    BY <1>2, <1>3, <1>4, <1>5, <1>6, <1>7, <2>1
  <2>2. CASE ~(r.at > old.newest.at)
    BY <1>2, <1>3, <1>4, <1>5, <1>6, <1>7, <2>2
  <2>3. QED  BY <2>1, <2>2
<1>9. \/ row' = row
      \/ /\ old.present /\ row' \in [Bindings -> BindingRow] /\ row'[b] = new
         /\ \A c \in Bindings : c # b => row'[c] = row[c]
  BY <1>1, <1>2, <1>3, <1>4
<1>10. Types'
  BY <1>1, <1>9 DEF IndInv, Types
<1>11. RowsInv'
  BY <1>1, <1>2, <1>4, <1>9 DEF IndInv, AdaptersInv, RowsInv
<1>12. AdaptersInv'
  BY <1>1, <1>11 DEF IndInv, AdaptersInv, MapInv, StartInv, StartingInv, ServiceInv, UpToDate
<1>13. ReportsInv'
  <2>1. ASSUME NEW q \in wire', NEW c \in Bindings
        PROVE  q.at # row'[c].newest.at
    <3>1. q \in wire /\ q # r /\ q.at # r.at /\ q.at # row[c].newest.at
      BY <1>1, <2>1 DEF IndInv, ReportsInv
    <3>2. QED  BY <1>8, <1>9, <3>1
  <2>2. QED  BY <1>1, <2>1 DEF IndInv, ReportsInv
<1>14. NewestInv'
  BY <1>1, <1>8, <1>9 DEF IndInv, NewestInv
<1>15. QED  BY <1>10, <1>12, <1>13, <1>14 DEF IndInv

-----------------------------------------------------------------------------
(* The connections of an adapter. *)

\* A slot whose adapter changes its connection, or is collected, in any way that
\* leaves an adapter in service with a connection.
LEMMA SlotStep ==
    ASSUME Types, AdaptersInv, NEW s \in Slots, s # worker.starting,
           NEW a \in Adapter \cup {Free},
           adapter' = [adapter EXCEPT ![s] = a], UNCHANGED <<row, saves, worker>>,
           a.stopped <=> adapter[s].stopped,
           ~a.stopped => /\ a.binding = adapter[s].binding /\ a.link # "none"
                         /\ a.credential = adapter[s].credential
    PROVE  adapter' \in [Slots -> Adapter \cup {Free}] /\ AdaptersInv'
<1>1. /\ adapter' \in [Slots -> Adapter \cup {Free}] /\ adapter'[s] = a
      /\ \A t \in Slots : t # s => adapter'[t] = adapter[t]
  BY DEF Types
<1>2. /\ \A b \in Bindings : worker.map[b] # None => worker.map[b] \in Slots
      /\ worker.starting # None => worker.starting \in Slots
  BY DEF Types, WorkerType
<1>3. RowsInv' /\ StartInv'
  BY DEF AdaptersInv, RowsInv, StartInv, UpToDate
<1>4. MapInv'
  BY <1>1, <1>2 DEF AdaptersInv, MapInv
<1>5. StartingInv'
  BY <1>1, <1>2 DEF AdaptersInv, StartingInv
<1>6. ServiceInv'
  BY <1>1, <1>2 DEF AdaptersInv, ServiceInv
<1>7. QED  BY <1>1, <1>3, <1>4, <1>5, <1>6 DEF AdaptersInv

\* An event of a connection and its report.
LEMMA EventStep ==
    ASSUME IndInv, NEW s \in Slots, s # worker.starting, NEW a \in Adapter,
           adapter[s] \in Adapter, NEW status \in Statuses, Event(s, a, status),
           a.stopped = adapter[s].stopped, a.binding = adapter[s].binding,
           a.credential = adapter[s].credential, ~a.stopped => a.link # "none"
    PROVE  IndInv'
<1>1. /\ adapter' = [adapter EXCEPT ![s] = Collected(a)]
      /\ report(adapter[s].binding, <<status>>) /\ UNCHANGED <<row, saves, worker>>
  BY DEF Event
<1>2. /\ Collected(a) \in Adapter \cup {Free} /\ (~a.stopped => Collected(a) = a)
      /\ (~Collected(a).stopped => ~a.stopped)
  BY CollectedForm
<1>3. Collected(a).stopped <=> adapter[s].stopped
  BY <1>2 DEF Adapter
<1>4. adapter' \in [Slots -> Adapter \cup {Free}] /\ AdaptersInv'
  BY <1>1, <1>2, <1>3, SlotStep DEF IndInv
<1>5. adapter[s].binding \in Bindings /\ <<status>> \in Seq(Statuses)
  BY DEF Adapter
<1>6. wire' \subseteq Report /\ clock' \in 0 .. MaxReports /\ ReportsInv' /\ NewestInv'
  BY <1>1, <1>5, ReportStep DEF IndInv
<1>7. Types'
  BY <1>1, <1>4, <1>6 DEF IndInv, Types
<1>8. QED  BY <1>4, <1>6, <1>7 DEF IndInv

\* Every event of a connection: handshakes, errors, reconnects, closed sockets.
LEMMA LinkStep ==
    ASSUME IndInv, NEW s \in Slots, Link(s)
    PROVE  IndInv'
<1>1. /\ adapter[s] \in Adapter /\ adapter[s] # Free
      /\ adapter \in [Slots -> Adapter \cup {Free}]
  <2>1. ~IsFree(s)
    BY DEF Link, Handshake, FeishuEvent, handlePayload, SocketCloses, ReconnectTimer, connect,
           Linked, IsChannel
  <2>2. QED  BY <2>1, AdapterForm DEF IsFree, IndInv, Types
<1>2. s # worker.starting
  <2>1. CASE ReconnectTimer(s)
    <3>1. adapter[s].link = "waiting" /\ worker.starting = s => s # None
      BY <2>1, Numbers DEF ReconnectTimer, Linked
    <3>2. QED  BY <2>1, <3>1 DEF IndInv, AdaptersInv, StartingInv, ReconnectTimer, Linked
  <2>2. QED  BY <2>1 DEF Link, Handshake, FeishuEvent, handlePayload, SocketCloses, connect
<1> DEFINE A(l) == [adapter[s] EXCEPT !.link = l]
<1>3. \A l \in Links : /\ A(l) \in Adapter /\ A(l).stopped = adapter[s].stopped
                       /\ A(l).binding = adapter[s].binding /\ A(l).link = l
                       /\ A(l).credential = adapter[s].credential
  BY <1>1 DEF Adapter
<1>4. {"open", "ready", "waiting", "none", "connecting"} \subseteq Links
      /\ {"connected", "degraded", "error", "disconnected"} \subseteq Statuses
  BY DEF Links, Statuses
<1>5. \E l \in Links : ScheduleReconnect(adapter[s]) = A(l) /\ (~adapter[s].stopped => l # "none")
  BY <1>4 DEF ScheduleReconnect
<1>6. \E l \in Links : adapter[s] = A(l) /\ (~adapter[s].stopped => l # "none")
  <2>1. adapter[s].link \in Links /\ adapter[s] = A(adapter[s].link)
    BY <1>1 DEF Adapter
  <2>2. QED  BY <2>1 DEF IndInv, AdaptersInv, ServiceInv
<1> HIDE DEF A
<1>7. ASSUME NEW l \in Links, NEW status \in Statuses, Event(s, A(l), status),
             ~adapter[s].stopped => l # "none"
      PROVE  IndInv'
  BY <1>1, <1>2, <1>3, <1>7, EventStep
<1>8. ASSUME NEW l \in Links \ {"none"}, adapter' = [adapter EXCEPT ![s] = A(l)],
             UNCHANGED <<row, saves, worker, wire, clock>>
      PROVE  IndInv'
  <2>1. A(l) \in Adapter \cup {Free} /\ A(l).stopped = adapter[s].stopped
        /\ A(l).binding = adapter[s].binding /\ A(l).link # "none"
        /\ A(l).credential = adapter[s].credential
    BY <1>3
  <2>2. adapter' \in [Slots -> Adapter \cup {Free}] /\ AdaptersInv'
    BY <1>2, <1>8, <2>1, SlotStep DEF IndInv
  <2>3. QED  BY <1>8, <2>2 DEF IndInv, Types, ReportsInv, NewestInv
<1>9. CASE Handshake(s)
  BY <1>4, <1>7, <1>9 DEF Handshake, A
<1>10. CASE FeishuEvent(s)
  <2>1. CASE Event(s, adapter[s], "error")
    BY <1>4, <1>6, <1>7, <2>1
  <2>2. CASE Event(s, [adapter[s] EXCEPT !.link = "open"], "degraded")
    BY <1>4, <1>7, <2>2 DEF A
  <2>3. QED  BY <1>10, <2>1, <2>2 DEF FeishuEvent
<1>11. CASE handlePayload(s)
  BY <1>4, <1>5, <1>7, <1>11 DEF handlePayload
<1>12. CASE SocketCloses(s)
  <2>1. CASE adapter[s].stopped
    <3>1. adapter' = [adapter EXCEPT ![s] = Free] /\ UNCHANGED <<row, saves, worker, wire, clock>>
      BY <1>12, <2>1 DEF SocketCloses
    <3>2. Free.stopped /\ Free \in Adapter \cup {Free}
      BY DEF Free
    <3>3. adapter' \in [Slots -> Adapter \cup {Free}] /\ AdaptersInv'
      BY <1>2, <2>1, <3>1, <3>2, SlotStep DEF IndInv
    <3>4. QED  BY <3>1, <3>3 DEF IndInv, Types, ReportsInv, NewestInv
  <2>2. CASE ~adapter[s].stopped
    BY <1>4, <1>5, <1>7, <1>12, <2>2 DEF SocketCloses
  <2>3. QED  BY <2>1, <2>2
<1>13. CASE ReconnectTimer(s)
  <2>1. adapter' = [adapter EXCEPT ![s] = A("connecting")]
    BY <1>1, <1>13 DEF ReconnectTimer, A
  <2>2. QED  BY <1>4, <1>8, <1>13, <2>1 DEF ReconnectTimer
<1>14. CASE connect(s)
  <2>1. CASE Event(s, ScheduleReconnect(adapter[s]), "error")
    BY <1>4, <1>5, <1>7, <2>1
  <2>2. CASE /\ adapter' = [adapter EXCEPT ![s].link = "open"]
             /\ UNCHANGED <<area, row, saves, worker, callback, clock, wire>>
    <3>1. adapter' = [adapter EXCEPT ![s] = A("open")]
      BY <1>1, <2>2 DEF A
    <3>2. QED  BY <1>4, <1>8, <2>2, <3>1
  <2>3. QED  BY <1>14, <2>1, <2>2 DEF connect
<1>15. QED  BY <1>9, <1>10, <1>11, <1>12, <1>13, <1>14 DEF Link

-----------------------------------------------------------------------------
(* The worker. *)

\* The inventory lists the generations of this moment.
LEMMA RefreshStep ==
    ASSUME IndInv, refreshInventory
    PROVE  IndInv'
<1>1. /\ worker.pc = "idle" /\ worker' = [worker EXCEPT !.pc = "drop", !.listed = InventoryRoute]
      /\ UNCHANGED <<row, saves, adapter, wire, clock>>
  BY DEF refreshInventory
<1>2. row \in [Bindings -> BindingRow] /\ worker \in WorkerType /\ saves \in [Bindings -> Nat]
  BY DEF IndInv, Types
<1>3. \A b \in Bindings : InventoryRoute[b] \in {0, row[b].generation}
  BY DEF InventoryRoute
<1>4. InventoryRoute \in [Bindings -> Nat]
  BY <1>2 DEF InventoryRoute, BindingRow
<1>5. /\ worker' \in WorkerType /\ worker'.pc = "drop" /\ worker'.listed = InventoryRoute
      /\ worker'.map = worker.map /\ worker'.generations = worker.generations
      /\ worker'.starting = worker.starting
  BY <1>1, <1>2, <1>4 DEF WorkerType
<1>6. Types'
  BY <1>1, <1>5 DEF IndInv, Types
<1>7. RowsInv'
  <2>1. \A b \in Bindings : /\ row[b].generation \in Nat /\ saves[b] \in Nat
                            /\ row[b].generation <= saves[b]
    BY <1>2 DEF BindingRow, IndInv, AdaptersInv, RowsInv
  <2>2. QED  BY <1>1, <1>3, <1>5, <2>1 DEF IndInv, AdaptersInv, RowsInv
<1>8. worker.starting = None
  BY <1>1 DEF IndInv, AdaptersInv, StartInv
<1>9. MapInv' /\ StartInv' /\ StartingInv' /\ ServiceInv'
  BY <1>1, <1>5, <1>8 DEF IndInv, AdaptersInv, MapInv, StartInv, StartingInv, ServiceInv
<1>10. QED  BY <1>1, <1>6, <1>7, <1>9 DEF IndInv, AdaptersInv, ReportsInv, NewestInv

\* An adapter that is dropped leaves the map and the service together.
LEMMA DropStep ==
    ASSUME IndInv, DropAdapters
    PROVE  IndInv'
<1> DEFINE stale == {b \in Bindings : worker.map[b] # None /\ ~UpToDate(b)}
<1>1. worker.pc = "drop" /\ worker \in WorkerType /\ worker.starting = None
      /\ UNCHANGED <<row, saves>>
  BY DEF DropAdapters, IndInv, Types, AdaptersInv, StartInv
<1>2. CASE stale = {}
  <2>1. /\ worker' = [worker EXCEPT !.pc = "start", !.todo = {b \in Bindings : worker.listed[b] # 0}]
        /\ UNCHANGED <<adapter, wire, clock>>
    BY <1>2 DEF DropAdapters
  <2>2. /\ worker' \in WorkerType /\ worker'.pc = "start" /\ worker'.listed = worker.listed
        /\ worker'.map = worker.map /\ worker'.generations = worker.generations
        /\ worker'.starting = worker.starting
        /\ worker'.todo = {b \in Bindings : worker.listed[b] # 0}
    BY <1>1, <2>1 DEF WorkerType
  <2>3. Types'
    BY <1>1, <2>1, <2>2 DEF IndInv, Types
  <2>4. StartInv'
    BY <1>1, <1>2, <2>2 DEF StartInv, UpToDate
  <2>5. RowsInv' /\ MapInv' /\ StartingInv' /\ ServiceInv'
    BY <1>1, <2>1, <2>2 DEF IndInv, AdaptersInv, RowsInv, MapInv, StartingInv, ServiceInv
  <2>6. QED
    BY <1>1, <2>1, <2>3, <2>4, <2>5 DEF IndInv, AdaptersInv, ReportsInv, NewestInv
<1>3. CASE stale # {}
  <2> DEFINE b == Min(stale)
             s == worker.map[b]
  <2>1. adapter' = [adapter EXCEPT ![s] = Stopped(@)] /\ report(b, <<"disconnected">>)
        /\ worker' = [worker EXCEPT !.map[b] = None, !.generations[b] = 0]
    BY <1>3 DEF DropAdapters, DropAdapter, Unmapped
  <2>2. b \in Bindings /\ s # None
    <3>1. stale \subseteq Nat
      BY Numbers
    <3>2. b \in stale
      BY <1>3, <3>1, Least
    <3>3. QED  BY <3>2
  <2> HIDE DEF b
  <2>3. s \in Slots /\ adapter[s] \in Adapter /\ adapter[s].binding = b
        /\ adapter \in [Slots -> Adapter \cup {Free}]
    <3>1. s \in Slots /\ ~adapter[s].stopped /\ adapter[s].binding = b
      BY <1>1, <2>2 DEF WorkerType, IndInv, AdaptersInv, MapInv
    <3>2. QED  BY <3>1, AdapterForm DEF IndInv, Types
  <2>4. /\ Stopped(adapter[s]) \in Adapter \cup {Free} /\ Stopped(adapter[s]).stopped
    BY <2>3, StoppedForm
  <2>5. /\ adapter' \in [Slots -> Adapter \cup {Free}] /\ adapter'[s].stopped
        /\ \A t \in Slots : t # s => adapter'[t] = adapter[t]
    BY <2>1, <2>3, <2>4
  <2>6. /\ worker' \in WorkerType /\ worker'.pc = "drop" /\ worker'.listed = worker.listed
        /\ worker'.starting = None /\ worker'.map[b] = None
        /\ \A c \in Bindings : c # b => /\ worker'.map[c] = worker.map[c]
                                        /\ worker'.generations[c] = worker.generations[c]
    BY <1>1, <2>1, <2>2, Numbers DEF WorkerType
  <2>7. wire' \subseteq Report /\ clock' \in 0 .. MaxReports /\ ReportsInv' /\ NewestInv'
    <3>1. <<"disconnected">> \in Seq(Statuses)
      BY DEF Statuses
    <3>2. QED  BY <1>1, <2>1, <2>2, <3>1, ReportStep DEF IndInv
  <2>8. Types'
    BY <1>1, <2>5, <2>6, <2>7 DEF IndInv, Types
  <2>9. RowsInv' /\ StartInv' /\ StartingInv'
    BY <1>1, <2>6 DEF IndInv, AdaptersInv, RowsInv, StartInv, StartingInv
  <2>10. ASSUME NEW c \in Bindings, worker'.map[c] # None
         PROVE  c # b /\ worker.map[c] # None /\ worker.map[c] # s /\ worker.map[c] \in Slots
    <3>1. c # b /\ worker.map[c] # None
      BY <2>6, <2>10
    <3>2. adapter[worker.map[c]].binding = c
      BY <3>1 DEF IndInv, AdaptersInv, MapInv
    <3>3. QED  BY <1>1, <2>3, <3>1, <3>2 DEF WorkerType
  <2>11. MapInv'
    BY <2>5, <2>6, <2>10 DEF IndInv, AdaptersInv, MapInv
  <2>12. ServiceInv'
    <3> SUFFICES ASSUME NEW t \in Slots, ~adapter'[t].stopped
                 PROVE  adapter'[t].link # "none" /\ worker'.map[adapter'[t].binding] = t
      BY DEF ServiceInv
    <3>1. t # s /\ adapter'[t] = adapter[t]
      BY <2>5
    <3>2. adapter[t].link # "none" /\ worker.map[adapter[t].binding] = t /\ adapter[t] \in Adapter
      BY <1>1, <3>1, AdapterForm, Numbers DEF IndInv, AdaptersInv, ServiceInv, Types
    <3>3. adapter[t].binding \in Bindings /\ adapter[t].binding # b
      BY <3>1, <3>2 DEF Adapter
    <3>4. QED  BY <2>6, <3>1, <3>2, <3>3
  <2>13. QED  BY <2>7, <2>8, <2>9, <2>11, <2>12 DEF IndInv, AdaptersInv
<1>4. QED  BY <1>2, <1>3

\* The next binding of the inventory: up to date, not to be had, or started in a
\* free slot with the credential of this moment.
LEMMA StartNextStep ==
    ASSUME IndInv, StartNext
    PROVE  IndInv'
<1> DEFINE b == Min(worker.todo)
<1>1. worker.pc = "start" /\ worker \in WorkerType /\ worker.starting = None
      /\ UNCHANGED <<row, saves>>
  BY DEF StartNext, IndInv, Types, AdaptersInv, StartInv
<1>2. ASSUME UNCHANGED <<adapter, wire, clock>>, NEW pc \in {"idle", "start"},
             NEW todo \in SUBSET worker.todo,
             worker' = [worker EXCEPT !.pc = pc, !.todo = todo]
      PROVE  IndInv'
  <2>1. /\ worker' \in WorkerType /\ worker'.pc = pc /\ worker'.listed = worker.listed
        /\ worker'.map = worker.map /\ worker'.generations = worker.generations
        /\ worker'.starting = None /\ worker'.todo = todo
    BY <1>1, <1>2 DEF WorkerType
  <2>2. Types'
    BY <1>1, <1>2, <2>1 DEF IndInv, Types
  <2>3. StartInv'
    BY <1>1, <1>2, <2>1 DEF IndInv, AdaptersInv, StartInv, UpToDate
  <2>4. RowsInv' /\ MapInv' /\ StartingInv' /\ ServiceInv'
    BY <1>1, <1>2, <2>1 DEF IndInv, AdaptersInv, RowsInv, MapInv, StartingInv, ServiceInv
  <2>5. QED
    BY <1>1, <1>2, <2>2, <2>3, <2>4 DEF IndInv, AdaptersInv, ReportsInv, NewestInv
<1>3. CASE worker.todo = {}
  <2>1. worker' = [worker EXCEPT !.pc = "idle", !.todo = worker.todo]
        /\ UNCHANGED <<adapter, wire, clock>>
    BY <1>1, <1>3 DEF StartNext, WorkerType
  <2>2. QED  BY <1>2, <2>1
<1>4. CASE worker.todo # {}
  <2>1. b \in worker.todo /\ b \in Bindings
    <3>1. worker.todo \subseteq Bindings
      BY <1>1 DEF WorkerType
    <3>2. QED  BY <1>4, <3>1, Numbers, Least
  <2>2. CASE /\ UpToDate(b) /\ worker' = [worker EXCEPT !.todo = @ \ {b}]
             /\ UNCHANGED <<adapter, wire, clock>>
    <3>1. worker' = [worker EXCEPT !.pc = "start", !.todo = worker.todo \ {b}]
      BY <1>1, <2>2 DEF WorkerType
    <3> DEFINE t == worker.todo \ {b}
    <3>2. t \in SUBSET worker.todo /\ worker' = [worker EXCEPT !.pc = "start", !.todo = t]
      BY <3>1
    <3> HIDE DEF t
    <3>3. QED  BY <1>2, <2>2, <3>2
  <2>3. CASE worker' = [worker EXCEPT !.pc = "idle", !.todo = {}]
             /\ UNCHANGED <<adapter, wire, clock>>
    <3> DEFINE t == {}
    <3>1. t \in SUBSET worker.todo /\ worker' = [worker EXCEPT !.pc = "idle", !.todo = t]
      BY <2>3
    <3> HIDE DEF t
    <3>2. QED  BY <1>2, <2>3, <3>1
  <2> DEFINE new == [binding |-> b, credential |-> row[b].generation,
                     link |-> "connecting", stopped |-> FALSE]
  <2>4. ASSUME ~UpToDate(b), Resolvable(b), NEW s \in Slots, IsFree(s),
               worker' = [worker EXCEPT !.pc = "starting", !.starting = s],
               adapter' = [adapter EXCEPT ![s] = new], report(b, <<"pending">>)
        PROVE  IndInv'
    <3>1. new \in Adapter /\ new.binding = b /\ new.link = "connecting" /\ ~new.stopped
          /\ new.credential = row[b].generation
      BY <2>1 DEF Adapter, Links, IndInv, Types, BindingRow
    <3> HIDE DEF new, b
    <3>2. /\ adapter' \in [Slots -> Adapter \cup {Free}] /\ adapter'[s] = new
          /\ \A t \in Slots : t # s => adapter'[t] = adapter[t]
      BY <2>4, <3>1 DEF IndInv, Types
    <3>3. /\ worker' \in WorkerType /\ worker'.pc = "starting" /\ worker'.listed = worker.listed
          /\ worker'.map = worker.map /\ worker'.generations = worker.generations
          /\ worker'.starting = s /\ worker'.todo = worker.todo /\ s # None
      BY <1>1, <2>4, Numbers DEF WorkerType
    <3>4. wire' \subseteq Report /\ clock' \in 0 .. MaxReports /\ ReportsInv' /\ NewestInv'
      <4>1. <<"pending">> \in Seq(Statuses)
        BY DEF Statuses
      <4>2. QED  BY <1>1, <2>1, <2>4, <4>1, ReportStep DEF IndInv
    <3>5. Types'
      BY <1>1, <3>2, <3>3, <3>4 DEF IndInv, Types
    <3>6. worker.listed[b] # 0 /\ worker.map[b] = None
      BY <1>1, <2>1, <2>4 DEF IndInv, AdaptersInv, StartInv
    <3>7. worker.listed[b] <= row[b].generation
      BY <2>1, <2>4 DEF IndInv, AdaptersInv, RowsInv, Resolvable
    <3>8. StartingInv'
      BY <3>1, <3>2, <3>3, <3>6, <3>7 DEF StartingInv
    <3>9. RowsInv' /\ StartInv'
      BY <1>1, <3>3 DEF IndInv, AdaptersInv, RowsInv, StartInv, UpToDate
    <3>10. MapInv'
      <4> SUFFICES ASSUME NEW c \in Bindings, worker.map[c] # None
                   PROVE  worker.map[c] # s /\ worker.map[c] \in Slots
        BY <3>2, <3>3 DEF IndInv, AdaptersInv, MapInv
      <4>1. worker.map[c] \in Slots /\ ~adapter[worker.map[c]].stopped
        BY <1>1 DEF WorkerType, IndInv, AdaptersInv, MapInv
      <4>2. adapter[s].stopped
        BY <2>4 DEF IsFree, Free
      <4>3. QED  BY <4>1, <4>2
    <3>11. ServiceInv'
      <4>1. ASSUME NEW t \in Slots, t # s, ~adapter'[t].stopped
            PROVE  adapter'[t].link # "none" /\ worker'.map[adapter'[t].binding] = t
        BY <1>1, <3>2, <3>3, <4>1, Numbers DEF IndInv, AdaptersInv, ServiceInv
      <4>2. QED  BY <3>1, <3>2, <3>3, <4>1 DEF ServiceInv
    <3>12. QED  BY <3>4, <3>5, <3>8, <3>9, <3>10, <3>11 DEF IndInv, AdaptersInv
  <2>5. QED  BY <1>4, <2>2, <2>3, <2>4 DEF StartNext
<1>5. QED  BY <1>3, <1>4

\* The adapter that has started takes its place in the map.
LEMMA StartedStep ==
    ASSUME IndInv, StartSucceeds
    PROVE  IndInv'
<1> DEFINE s == worker.starting
           b == adapter[s].binding
           a == [adapter[s] EXCEPT !.link = "open"]
<1>1. /\ worker.pc = "starting"
      /\ worker' = [worker EXCEPT !.pc = "start", !.todo = @ \ {b}, !.starting = None,
                                  !.map[b] = s, !.generations[b] = worker.listed[b]]
      /\ adapter' = [adapter EXCEPT ![s].link = "open"]
      /\ UNCHANGED <<row, saves, wire, clock>>
  BY DEF StartSucceeds, Recorded
<1>2. worker \in WorkerType /\ s \in Slots /\ s # None
  BY <1>1 DEF IndInv, Types, AdaptersInv, StartInv, WorkerType
<1>3. adapter[s] \in Adapter /\ ~adapter[s].stopped /\ b \in Bindings
      /\ adapter \in [Slots -> Adapter \cup {Free}]
      /\ worker.listed[b] # 0 /\ worker.map[b] = None
      /\ worker.listed[b] <= adapter[s].credential
  <2>1. adapter \in [Slots -> Adapter \cup {Free}] /\ ~adapter[s].stopped
    BY <1>2 DEF IndInv, Types, AdaptersInv, StartingInv
  <2>2. adapter[s] \in Adapter
    BY <1>2, <2>1, AdapterForm
  <2>3. QED  BY <1>2, <2>1, <2>2 DEF IndInv, AdaptersInv, StartingInv, Adapter
<1>4. a \in Adapter /\ a.binding = b /\ ~a.stopped /\ a.link = "open"
      /\ a.credential = adapter[s].credential
  BY <1>3 DEF Adapter, Links
<1> HIDE DEF a
<1>5. /\ adapter' \in [Slots -> Adapter \cup {Free}] /\ adapter'[s] = a
      /\ \A t \in Slots : t # s => adapter'[t] = adapter[t]
  BY <1>1, <1>2, <1>3, <1>4 DEF a
<1> HIDE DEF s, b
<1>6. /\ worker' \in WorkerType /\ worker'.pc = "start" /\ worker'.listed = worker.listed
      /\ worker'.todo = worker.todo \ {b} /\ worker'.starting = None
      /\ worker'.map[b] = s /\ worker'.generations[b] = worker.listed[b]
      /\ \A c \in Bindings : c # b => /\ worker'.map[c] = worker.map[c]
                                      /\ worker'.generations[c] = worker.generations[c]
  BY <1>1, <1>2, <1>3 DEF WorkerType
<1>7. Types'
  BY <1>1, <1>5, <1>6 DEF IndInv, Types
<1>8. RowsInv'
  BY <1>1, <1>6 DEF IndInv, AdaptersInv, RowsInv
<1>9. StartInv'
  <2>1. \A c \in Bindings : worker'.map[c] # None => UpToDate(c)'
    BY <1>1, <1>2, <1>3, <1>6 DEF IndInv, AdaptersInv, StartInv, UpToDate
  <2>2. QED  BY <1>1, <1>6, <2>1 DEF IndInv, AdaptersInv, StartInv
<1>10. StartingInv'
  BY <1>6 DEF StartingInv
<1>11. ASSUME NEW c \in Bindings, c # b, worker.map[c] # None
       PROVE  worker.map[c] \in Slots /\ worker.map[c] # s
  <2>1. worker.map[c] \in Slots /\ adapter[worker.map[c]].binding = c
    BY <1>2, <1>11 DEF WorkerType, IndInv, AdaptersInv, MapInv
  <2>2. QED  BY <1>11, <2>1 DEF b
<1>12. MapInv'
  BY <1>3, <1>4, <1>5, <1>6, <1>11 DEF IndInv, AdaptersInv, MapInv
<1>13. ServiceInv'
  <2>1. ASSUME NEW t \in Slots, t # s, ~adapter'[t].stopped
        PROVE  adapter'[t].link # "none" /\ worker'.map[adapter'[t].binding] = t
    <3>1. adapter'[t] = adapter[t] /\ adapter[t].link # "none"
          /\ worker.map[adapter[t].binding] = t /\ adapter[t] \in Adapter
      BY <1>5, <2>1, AdapterForm DEF IndInv, AdaptersInv, ServiceInv, Types, s
    <3>2. adapter[t].binding # b /\ adapter[t].binding \in Bindings
      BY <1>3, <3>1, Numbers DEF Adapter
    <3>3. QED  BY <1>6, <3>1, <3>2
  <2>2. QED  BY <1>4, <1>5, <1>6, <2>1 DEF ServiceInv
<1>14. QED
  BY <1>1, <1>7, <1>8, <1>9, <1>10, <1>12, <1>13 DEF IndInv, AdaptersInv, ReportsInv, NewestInv

\* An adapter that fails to start is stopped and leaves its slot.
LEMMA StartFailsStep ==
    ASSUME IndInv, StartFails
    PROVE  IndInv'
<1> DEFINE s == worker.starting
           b == adapter[s].binding
<1>1. /\ worker.pc = "starting"
      /\ worker' = [worker EXCEPT !.pc = "start", !.todo = @ \ {b}, !.starting = None]
      /\ adapter' = [adapter EXCEPT ![s] = Free] /\ report(b, <<"disconnected", "error">>)
      /\ UNCHANGED <<row, saves>>
  BY DEF StartFails
<1>2. worker \in WorkerType /\ s \in Slots /\ s # None
  BY <1>1 DEF IndInv, Types, AdaptersInv, StartInv, WorkerType
<1>3. b \in Bindings /\ adapter \in [Slots -> Adapter \cup {Free}] /\ worker.map[b] = None
  <2>1. adapter \in [Slots -> Adapter \cup {Free}] /\ ~adapter[s].stopped
        /\ worker.map[b] = None
    BY <1>2 DEF IndInv, Types, AdaptersInv, StartingInv
  <2>2. QED  BY <1>2, <2>1, AdapterForm DEF Adapter
<1>4. /\ adapter' \in [Slots -> Adapter \cup {Free}] /\ adapter'[s] = Free /\ Free.stopped
      /\ \A t \in Slots : t # s => adapter'[t] = adapter[t]
  BY <1>1, <1>2, <1>3 DEF Free
<1>5. /\ worker' \in WorkerType /\ worker'.pc = "start" /\ worker'.listed = worker.listed
      /\ worker'.todo = worker.todo \ {b} /\ worker'.starting = None
      /\ worker'.map = worker.map /\ worker'.generations = worker.generations
  BY <1>1, <1>2 DEF WorkerType
<1>6. wire' \subseteq Report /\ clock' \in 0 .. MaxReports /\ ReportsInv' /\ NewestInv'
  <2>1. <<"disconnected", "error">> \in Seq(Statuses)
    BY DEF Statuses
  <2>2. QED  BY <1>1, <1>3, <2>1, ReportStep DEF IndInv
<1>7. Types'
  BY <1>1, <1>4, <1>5, <1>6 DEF IndInv, Types
<1>8. RowsInv' /\ StartInv' /\ StartingInv'
  BY <1>1, <1>5 DEF IndInv, AdaptersInv, RowsInv, StartInv, StartingInv, UpToDate
<1>9. MapInv'
  <2> SUFFICES ASSUME NEW c \in Bindings, worker.map[c] # None
               PROVE  worker.map[c] # s /\ worker.map[c] \in Slots
    BY <1>4, <1>5 DEF IndInv, AdaptersInv, MapInv
  <2>1. worker.map[c] \in Slots /\ adapter[worker.map[c]].binding = c
    BY <1>2 DEF WorkerType, IndInv, AdaptersInv, MapInv
  <2>2. QED  BY <1>3, <2>1
<1>10. ServiceInv'
  BY <1>4, <1>5 DEF IndInv, AdaptersInv, ServiceInv
<1>11. QED  BY <1>6, <1>7, <1>8, <1>9, <1>10 DEF IndInv, AdaptersInv

\* stop(): what was in the map is out of service; an adapter that is starting is not.
LEMMA StopStep ==
    ASSUME IndInv, Stop
    PROVE  IndInv'
<1>1. /\ worker' = [worker EXCEPT !.stopped = TRUE, !.map = Start.map,
                                  !.generations = Start.generations]
      /\ adapter' = [s \in Slots |-> IF InMap(s) THEN Stopped(adapter[s]) ELSE adapter[s]]
      /\ UNCHANGED <<row, saves, wire, clock>>
  BY DEF Stop
<1>2. worker \in WorkerType /\ adapter \in [Slots -> Adapter \cup {Free}]
  BY DEF IndInv, Types
<1>3. Start.map = [b \in Bindings |-> None] /\ Start.generations = [b \in Bindings |-> 0]
  BY DEF Start
<1>4. /\ worker' \in WorkerType /\ worker'.pc = worker.pc /\ worker'.listed = worker.listed
      /\ worker'.starting = worker.starting /\ worker'.todo = worker.todo
      /\ \A b \in Bindings : worker'.map[b] = None
  <2> DEFINE m == [b \in Bindings |-> None]
             g == [b \in Bindings |-> 0]
  <2>1. m \in [Bindings -> Slots \cup {None}] /\ g \in [Bindings -> Nat]
        /\ \A b \in Bindings : m[b] = None
    OBVIOUS
  <2>2. worker' = [worker EXCEPT !.stopped = TRUE, !.map = m, !.generations = g]
    BY <1>1, <1>3
  <2> HIDE DEF m, g
  <2>3. QED  BY <1>2, <2>1, <2>2 DEF WorkerType
<1>5. ASSUME NEW s \in Slots, InMap(s)
      PROVE  /\ s # worker.starting /\ adapter[s] \in Adapter
             /\ Stopped(adapter[s]) \in Adapter \cup {Free} /\ Stopped(adapter[s]).stopped
  <2>1. PICK b \in Bindings : worker.map[b] = s
    BY <1>5 DEF InMap
  <2>2. adapter[s].binding = b /\ ~adapter[s].stopped
    BY <2>1, Numbers DEF IndInv, AdaptersInv, MapInv
  <2>3. s # worker.starting
    BY <2>1, <2>2, Numbers DEF IndInv, AdaptersInv, StartingInv
  <2>4. adapter[s] \in Adapter
    BY <1>2, <2>2, AdapterForm
  <2>5. QED  BY <2>3, <2>4, StoppedForm
<1>6. /\ adapter' \in [Slots -> Adapter \cup {Free}]
      /\ \A s \in Slots : /\ InMap(s) => adapter'[s].stopped
                          /\ ~InMap(s) => adapter'[s] = adapter[s]
  BY <1>1, <1>2, <1>5
<1>7. Types'
  BY <1>1, <1>4, <1>6 DEF IndInv, Types
<1>8. RowsInv' /\ StartInv' /\ MapInv'
  BY <1>1, <1>4 DEF IndInv, AdaptersInv, RowsInv, StartInv, MapInv
<1>9. worker.starting # None => /\ worker.starting \in Slots
                                /\ adapter'[worker.starting] = adapter[worker.starting]
  BY <1>2, <1>5, <1>6 DEF WorkerType
<1>10. StartingInv'
  <2> SUFFICES ASSUME worker.starting # None
               PROVE  StartingInv'
    BY <1>4 DEF StartingInv
  <2>1. adapter[worker.starting] \in Adapter
    BY <1>2, <1>9, AdapterForm DEF IndInv, AdaptersInv, StartingInv
  <2>2. adapter[worker.starting].binding \in Bindings
    BY <2>1 DEF Adapter
  <2>3. QED  BY <1>4, <1>9, <2>2 DEF IndInv, AdaptersInv, StartingInv
<1>11. ServiceInv'
  <2> SUFFICES ASSUME NEW s \in Slots, ~adapter'[s].stopped
               PROVE  adapter'[s].link # "none" /\ s = worker.starting
    BY <1>4 DEF ServiceInv
  <2>1. ~InMap(s) /\ adapter'[s] = adapter[s]
    BY <1>6
  <2>2. adapter[s] \in Adapter
    BY <1>2, <2>1, AdapterForm
  <2>3. QED  BY <2>1, <2>2 DEF IndInv, AdaptersInv, ServiceInv, InMap, Adapter
<1>12. QED
  BY <1>1, <1>7, <1>8, <1>10, <1>11 DEF IndInv, AdaptersInv, ReportsInv, NewestInv

\* A new process knows nothing and has no adapters.
LEMMA RestartStep ==
    ASSUME IndInv, worker' = Start, adapter' = [s \in Slots |-> Free],
           UNCHANGED <<row, saves, wire, clock>>
    PROVE  IndInv'
<1>1. /\ Start \in WorkerType /\ Start.pc = "idle" /\ Start.starting = None
      /\ \A b \in Bindings : Start.map[b] = None /\ Start.listed[b] = 0
  BY DEF Start, WorkerType
<1>2. /\ adapter' \in [Slots -> Adapter \cup {Free}]
      /\ \A s \in Slots : adapter'[s].stopped
  BY DEF Free
<1>3. Types'
  BY <1>1, <1>2 DEF IndInv, Types
<1>4. RowsInv'
  <2>1. \A b \in Bindings : row[b].generation \in Nat /\ saves[b] \in Nat
    BY DEF IndInv, Types, BindingRow
  <2>2. QED  BY <1>1, <2>1 DEF IndInv, AdaptersInv, RowsInv
<1>5. MapInv' /\ StartInv' /\ StartingInv' /\ ServiceInv'
  BY <1>1, <1>2 DEF MapInv, StartInv, StartingInv, ServiceInv
<1>6. QED  BY <1>3, <1>4, <1>5 DEF IndInv, AdaptersInv, ReportsInv, NewestInv

-----------------------------------------------------------------------------
(* The invariant holds in every state. *)

\* Before the first refresh nothing is mapped and nothing is reported.
LEMMA InitInd == Init => IndInv
<1> SUFFICES ASSUME Init PROVE IndInv
  OBVIOUS
<1>1. /\ row = [b \in Bindings |-> NoBinding] /\ saves = [b \in Bindings |-> 0] /\ worker = Start
      /\ adapter = [s \in Slots |-> Free] /\ wire = {} /\ clock = 0
  BY DEF Init
<1>2. /\ Start \in WorkerType /\ Start.pc = "idle" /\ Start.starting = None
      /\ \A b \in Bindings : Start.map[b] = None /\ Start.listed[b] = 0
  BY DEF Start, WorkerType
<1>3. /\ NoBinding \in BindingRow /\ NoBinding.newest.at = 0 /\ NoBinding.lastHealth = 0 /\ ~NoBinding.present
      /\ NoBinding.generation = 0
  BY DEF NoBinding, BindingRow, Statuses
<1>4. \A s \in Slots : adapter[s].stopped
  BY <1>1 DEF Free
<1>5. Types
  BY <1>1, <1>2, <1>3, Numbers DEF Types
<1>6. RowsInv
  BY <1>1, <1>2, <1>3 DEF RowsInv
<1>7. MapInv /\ StartInv /\ StartingInv /\ ServiceInv
  BY <1>1, <1>2, <1>4 DEF MapInv, StartInv, StartingInv, ServiceInv
<1>8. ReportsInv /\ NewestInv
  BY <1>1, <1>3 DEF ReportsInv, NewestInv
<1>9. QED  BY <1>5, <1>6, <1>7, <1>8 DEF IndInv, AdaptersInv

\* Every step keeps the inductive invariant of the bindings.
LEMMA NextInd == IndInv /\ [Next]_vars => IndInv'
<1> SUFFICES ASSUME IndInv, [Next]_vars PROVE IndInv'
  OBVIOUS
<1>1. CASE Owner
  <2>1. PICK b \in Bindings :
            \/ \E credential, complete \in BOOLEAN : upsertAgentChannelBinding(b, credential, complete)
            \/ deleteAgentChannelBinding(b)
    BY <1>1 DEF Owner
  <2>2. QED  BY <2>1, SaveStep, DeleteStep
<1>2. CASE Refresh
  BY <1>2, RefreshStep, DropStep, StartNextStep, StartFailsStep DEF Refresh
<1>3. CASE StartSucceeds
  BY <1>3, StartedStep
<1>4. CASE Stop
  BY <1>4, StopStep
<1>5. CASE Restart
  BY <1>5, RestartStep DEF Restart
<1>6. ASSUME NEW s \in Slots, Link(s) PROVE IndInv'
  BY <1>6, LinkStep
<1>7. ASSUME NEW r \in wire, HealthRoute(r) PROVE IndInv'
  BY <1>7, HealthStep
<1>8. ASSUME UNCHANGED <<row, saves, worker, adapter, wire, clock>> PROVE IndInv'
  BY <1>8 DEF IndInv, Types, AdaptersInv, RowsInv, MapInv, StartInv, StartingInv, ServiceInv,
              ReportsInv, NewestInv, UpToDate
<1>9. CASE \/ \E m \in WeChatMessages : handle(m) \/ submitIngress(m)
           \/ CallbackAdapterReplaced
           \/ UNCHANGED vars
  <2>1. UNCHANGED <<row, saves, worker, adapter, wire, clock>>
    BY <1>9 DEF handle, submitIngress, CallbackAdapterReplaced, vars
  <2>2. QED  BY <1>8, <2>1
<1>10. QED  BY <1>1, <1>2, <1>3, <1>4, <1>5, <1>6, <1>7, <1>9 DEF Next

\* The invariant the runs check follows from the inductive one.
LEMMA BindingsFromInd == IndInv => BindingsInv
<1> SUFFICES ASSUME IndInv PROVE BindingsInv
  OBVIOUS
<1>1. TypeOK
  <2>1. \A b \in Bindings : row[b].status \in Statuses
    BY DEF IndInv, Types, BindingRow
  <2>2. \A s \in Slots : adapter[s].link \in {"none", "connecting", "open", "ready", "waiting"}
    BY AdapterForm DEF IndInv, Types, Links
  <2>3. \A r \in wire : r.binding \in Bindings /\ r.status \in Statuses /\ r.at <= clock
    BY DEF IndInv, Types, Report, ReportsInv
  <2>4. worker.pc \in {"idle", "drop", "start", "starting"}
    BY DEF IndInv, Types, WorkerType
  <2>5. QED
    BY <2>1, <2>2, <2>3, <2>4 DEF TypeOK, IndInv, AdaptersInv, RowsInv, MapInv, StartInv
<1>2. GenerationNotAhead
  BY DEF GenerationNotAhead, IndInv, AdaptersInv, MapInv
<1>3. OneAdapterInService
  <2> SUFFICES ASSUME NEW s \in Slots, NEW t \in Slots, s # t, ~adapter[s].stopped,
                      ~adapter[t].stopped, adapter[s].binding = adapter[t].binding
               PROVE  FALSE
    BY DEF OneAdapterInService
  <2>1. s = worker.starting \/ worker.map[adapter[s].binding] = s
    BY DEF IndInv, AdaptersInv, ServiceInv
  <2>2. t = worker.starting \/ worker.map[adapter[t].binding] = t
    BY DEF IndInv, AdaptersInv, ServiceInv
  <2>3. worker.starting # None => worker.map[adapter[worker.starting].binding] = None
    BY DEF IndInv, AdaptersInv, StartingInv
  <2>4. QED  BY <2>1, <2>2, <2>3, Numbers
<1>4. LinkNeverAbandoned
  BY DEF LinkNeverAbandoned, IndInv, AdaptersInv, ServiceInv
<1>5. NewestHealthWins
  <2>1. \A b \in Bindings : row[b].newest.at \in Nat /\ row[b].lastHealth \in Nat
    BY DEF IndInv, Types, BindingRow
  <2>2. QED  BY <2>1 DEF NewestHealthWins, IndInv, NewestInv
<1>6. QED  BY <1>1, <1>2, <1>3, <1>4, <1>5 DEF BindingsInv

\* For every list of bindings, however the owner's saves and deletes, the refreshes,
\* the vendors' events, stop(), restarts and late reports interleave: a recorded
\* generation is never ahead of its adapter's credential (so refreshInventory
\* notices the next save), a binding has one adapter in service at most, no
\* adapter in service is without a connection or a timer, and the newest report
\* decides the status the owner sees.
THEOREM BindingsSound == Spec => []BindingsInv
<1>1. Spec => []IndInv
  BY InitInd, NextInd, PTL DEF Spec
<1>2. QED  BY <1>1, BindingsFromInd, PTL

-----------------------------------------------------------------------------
(* WeChat callbacks. *)

\* No callback was posted yet.
LEMMA CallbackInit == Init => CallbackInv
<1>1. NoCallback \in Callback /\ ~NoCallback.acked /\ ~NoCallback.marked
  BY DEF NoCallback, Callback
<1>2. QED  BY <1>1 DEF Init, CallbackInv

\* Every step keeps it; only handle, ingressRoute, markReplay and submitIngress
\* touch it.
LEMMA CallbackNext == CallbackInv /\ [Next]_vars => CallbackInv'
<1> SUFFICES ASSUME CallbackInv, [Next]_vars PROVE CallbackInv'
  OBVIOUS
<1> DEFINE Remembered(c) == c.acked \/ c.marked => c.accepted
<1>1. callback \in [WeChatMessages -> Callback] /\ \A m \in WeChatMessages : Remembered(callback[m])
  BY DEF CallbackInv
<1>2. ASSUME NEW m \in WeChatMessages, NEW c \in Callback, Remembered(c),
             callback' = [callback EXCEPT ![m] = c]
      PROVE  CallbackInv'
  BY <1>1, <1>2 DEF CallbackInv
<1>3. ASSUME NEW m \in WeChatMessages, handle(m) PROVE CallbackInv'
  <2> DEFINE o == callback[m]
             c == [o EXCEPT !.posts = @ + 1, !.marked = MarkedOnArrival(m), !.acked = o.marked,
                            !.submitting = IF o.marked THEN @ ELSE @ \cup {<<o.posts + 1, 1>>}]
  <2>1. callback' = [callback EXCEPT ![m] = c]
    BY <1>1, <1>3 DEF handle
  <2>2. o \in Callback /\ Remembered(o) /\ MarkedOnArrival(m) = o.marked
    BY <1>1 DEF MarkedOnArrival
  <2> DEFINE q == IF o.marked THEN o.submitting ELSE o.submitting \cup {<<o.posts + 1, 1>>}
  <2>3. c \in Callback /\ Remembered(c)
    <3>1. o.posts \in Nat /\ o.submitting \in SUBSET (Nat \X Nat) /\ o.marked \in BOOLEAN
      BY <2>2 DEF Callback
    <3>2. q \in SUBSET (Nat \X Nat) /\ o.posts + 1 \in Nat
      BY <3>1
    <3>3. c = [o EXCEPT !.posts = o.posts + 1, !.marked = o.marked, !.acked = o.marked,
                        !.submitting = q]
      BY <2>2
    <3> HIDE DEF q, c
    <3>4. CASE o.marked
      <4>1. c = [o EXCEPT !.posts = o.posts + 1, !.marked = TRUE, !.acked = TRUE, !.submitting = q]
        BY <3>1, <3>3, <3>4
      <4>2. QED  BY <2>2, <3>2, <3>4, <4>1 DEF Callback
    <3>5. CASE ~o.marked
      <4>1. c = [o EXCEPT !.posts = o.posts + 1, !.marked = FALSE, !.acked = FALSE, !.submitting = q]
        BY <3>1, <3>3, <3>5
      <4>2. QED  BY <2>2, <3>2, <4>1 DEF Callback
    <3>6. QED  BY <3>4, <3>5
  <2> HIDE DEF c
  <2>4. QED  BY <1>2, <2>1, <2>2, <2>3
<1>4. ASSUME NEW m \in WeChatMessages, submitIngress(m) PROVE CallbackInv'
  <2>1. callback[m] \in Callback /\ Remembered(callback[m])
    BY <1>1
  <2>2. PICK h \in callback[m].submitting :
          LET done == callback[m].submitting \ {h}
              again == IF h[2] < Attempts THEN done \cup {<<h[1], h[2] + 1>>} ELSE done
          IN  \/ callback' = [callback EXCEPT ![m] =
                               [markReplay(ingressRoute(m)) EXCEPT !.submitting = done]]
              \/ \E c \in {callback[m], ingressRoute(m)} :
                   callback' = [callback EXCEPT ![m] = [c EXCEPT !.submitting = again]]
    BY <1>4 DEF submitIngress
  <2> DEFINE done == callback[m].submitting \ {h}
             again == IF h[2] < Attempts THEN done \cup {<<h[1], h[2] + 1>>} ELSE done
  <2>3. h \in Nat \X Nat
    BY <2>1 DEF Callback
  <2>4. done \in SUBSET (Nat \X Nat) /\ again \in SUBSET (Nat \X Nat)
    BY <2>1, <2>3 DEF Callback
  <2>5. \/ callback' = [callback EXCEPT ![m] =
                          [markReplay(ingressRoute(m)) EXCEPT !.submitting = done]]
        \/ \E c \in {callback[m], ingressRoute(m)} :
              callback' = [callback EXCEPT ![m] = [c EXCEPT !.submitting = again]]
    BY <2>2
  <2> HIDE DEF done, again
  <2>6. ingressRoute(m) \in Callback /\ ingressRoute(m).accepted
    BY <2>1 DEF ingressRoute, Callback
  <2>7. markReplay(ingressRoute(m)) \in Callback /\ markReplay(ingressRoute(m)).accepted
    BY <2>6 DEF markReplay, Callback
  <2>8. ASSUME NEW c \in Callback, Remembered(c), NEW q \in SUBSET (Nat \X Nat)
        PROVE  [c EXCEPT !.submitting = q] \in Callback /\ Remembered([c EXCEPT !.submitting = q])
    BY <2>8 DEF Callback
  <2>9. QED  BY <1>2, <2>1, <2>4, <2>5, <2>6, <2>7, <2>8
<1>5. CASE CallbackAdapterReplaced
  <2>1. \A m \in WeChatMessages : LET c == [callback[m] EXCEPT !.marked = FALSE]
                            IN  c \in Callback /\ Remembered(c)
    BY <1>1 DEF Callback
  <2>2. QED  BY <1>5, <2>1 DEF CallbackAdapterReplaced, CallbackInv
<1>6. CASE UNCHANGED callback
  BY <1>6 DEF CallbackInv
<1>7. CASE Owner \/ Refresh \/ StartSucceeds \/ Stop \/ Restart \/ UNCHANGED vars
  BY <1>6, <1>7 DEF Owner, upsertAgentChannelBinding, deleteAgentChannelBinding, Refresh,
                    refreshInventory, DropAdapters, StartNext, StartFails, StartSucceeds,
                    Stop, Restart, vars
<1>8. ASSUME NEW s \in Slots, Link(s) PROVE CallbackInv'
  BY <1>6, <1>8 DEF Link, Handshake, FeishuEvent, handlePayload, SocketCloses, ReconnectTimer,
                    connect, Event
<1>9. ASSUME NEW r \in wire, HealthRoute(r) PROVE CallbackInv'
  BY <1>6, <1>9 DEF HealthRoute
<1>10. QED  BY <1>3, <1>4, <1>5, <1>7, <1>8, <1>9 DEF Next

\* Whatever is posted again, lost on the way to the platform or back, and whenever
\* the adapter is replaced: a WeChat message that was answered as a success is
\* one the platform has (handle, submitIngress and markReplay in this order).
THEOREM AcknowledgedSound == Spec => []AckedIsAccepted
<1>1. Spec => []CallbackInv
  BY CallbackInit, CallbackNext, PTL DEF Spec
<1>2. CallbackInv => AckedIsAccepted
  BY DEF CallbackInv, AckedIsAccepted
<1>3. QED  BY <1>1, <1>2, PTL

-------------------------------------------------------------------------------
(* THE BRIDGE.                                                                *)
(* What the operations on one row leave alone.                                *)

\* A lease counts one attempt and keeps the row well formed (both lease queries).
LEMMA LeasedRow ==
    ASSUME NEW S, "leased" \in S, NEW entry \in Row(S), Ready(entry),
           entry.attempts <= MaxAttempts
    PROVE  /\ Leased(entry) \in Row(S)
           /\ Leased(entry).state = "leased"
           /\ Leased(entry).attempts = entry.attempts + 1
           /\ Leased(entry).attempts <= MaxAttempts
<1>1. entry.attempts \in Nat /\ entry.attempts + 1 \in Nat /\ LeaseTerm \in Nat
      /\ MaxAttempts \in Nat /\ entry.attempts + 1 <= MaxAttempts
  BY BridgeAssumption DEF Row, Ready
<1>2. /\ Leased(entry) \in Row(S)
      /\ Leased(entry).state = "leased"
      /\ Leased(entry).attempts = entry.attempts + 1
  BY <1>1 DEF Row, Leased
<1>3. QED  BY <1>1, <1>2

\* A settlement changes the state and the times of a row, never its attempts.
LEMMA SettledRow ==
    ASSUME NEW S, NEW next \in S, NEW entry \in Row(S), NEW delay \in Nat
    PROVE  /\ Settled(entry, next, delay) \in Row(S)
           /\ Settled(entry, next, delay).state = next
           /\ Settled(entry, next, delay).attempts = entry.attempts
BY DEF Row, Settled

\* Time changes neither the state nor the attempts of a row.
LEMMA AgedRow ==
    ASSUME NEW S, NEW entry \in Row(S)
    PROVE  /\ Aged(entry) \in Row(S)
           /\ Aged(entry).state = entry.state
           /\ Aged(entry).attempts = entry.attempts
<1>1. (IF entry.lease = 0 THEN 0 ELSE entry.lease - 1) \in Nat
      /\ (IF entry.wait = 0 THEN 0 ELSE entry.wait - 1) \in Nat
  BY DEF Row
<1>2. QED  BY <1>1 DEF Row, Aged

\* An inserted row is pending and was never leased.
LEMMA InsertedRow ==
    ASSUME NEW S, "pending" \in S
    PROVE  NewRow \in Row(S) /\ NewRow.state = "pending" /\ NewRow.attempts = 0
BY DEF NewRow, NoRow, Row

-------------------------------------------------------------------------------
(* The inductive invariant.                                                   *)

\* A Channel Worker about to report "delivered" saw the vendor accept the message
\* under the lease it reports for.
ReportsReal ==
    \A d \in deliveries : d.outcome = "delivered" => d.token \in accepted[d.message]

BridgeIndInv == BridgeInv /\ ReportsReal

\* The conjuncts of BridgeInv, per message: what a step on one row must keep.
MessageInv(m) ==
    /\ outbox[m].state # "none" => inbox[m].state = "completed"
    /\ <<"inbound", m>> \in deadLetters <=> inbox[m].state = "dead"
    /\ <<"outbound", m>> \in deadLetters <=> outbox[m].state \in {"dead", "failed"}
    /\ inbox[m].state = "dead" => inbox[m].attempts = MaxAttempts
    /\ outbox[m].state = "dead" => outbox[m].attempts = MaxAttempts
    /\ outbox[m].state = "delivered" => outbox[m].attempts \in accepted[m]

\* BridgeInv is the type invariant and MessageInv of every message.
LEMMA BridgeInvByMessage ==
    BridgeInv <=> BridgeTypeOK /\ \A m \in Messages : MessageInv(m)
BY DEF BridgeInv, ReplyFollowsCompletion, DeliveredWasAccepted, DeadLettersMatch,
       MessageInv

\* The same after a step.
LEMMA BridgeInvByMessagePrime ==
    BridgeInv' <=> BridgeTypeOK' /\ \A m \in Messages : MessageInv(m)'
BY DEF BridgeInv, ReplyFollowsCompletion, DeliveredWasAccepted, DeadLettersMatch,
       MessageInv

-------------------------------------------------------------------------------
(* The steps of the ingress.                                                  *)

\* Accepting a message inserts a clean row.
LEMMA AcceptStep ==
    ASSUME BridgeIndInv, NEW m \in Messages, acceptChannelIngress(m)
    PROVE  BridgeIndInv'
<1>1. BridgeTypeOK /\ \A n \in Messages : MessageInv(n)
  BY BridgeInvByMessage DEF BridgeIndInv
<1>2. NewRow \in Row(InboxStates) /\ NewRow.state = "pending" /\ NewRow.attempts = 0
  BY InsertedRow DEF InboxStates
<1>3. BridgeTypeOK'
  BY <1>1, <1>2, BridgeAssumption DEF acceptChannelIngress, BridgeTypeOK
<1>4. \A n \in Messages : MessageInv(n)'
  BY <1>1, <1>2 DEF acceptChannelIngress, BridgeTypeOK, MessageInv
<1>5. ReportsReal'
  BY DEF acceptChannelIngress, BridgeIndInv, ReportsReal
<1>6. QED  BY <1>3, <1>4, <1>5, BridgeInvByMessagePrime DEF BridgeIndInv

\* Leasing inbox rows touches no completed or dead message.
LEMMA LeaseIngressStep ==
    ASSUME BridgeIndInv, NEW batch \in SUBSET Messages, leaseChannelIngress(batch)
    PROVE  BridgeIndInv'
<1>1. BridgeTypeOK /\ \A n \in Messages : MessageInv(n)
  BY BridgeInvByMessage DEF BridgeIndInv
<1>2. \A m \in batch : /\ Leased(inbox[m]) \in Row(InboxStates)
                       /\ Leased(inbox[m]).state = "leased"
                       /\ Leased(inbox[m]).attempts = inbox[m].attempts + 1
                       /\ Leased(inbox[m]).attempts <= MaxAttempts
                       /\ inbox[m].state \in {"pending", "retry", "leased"}
                       /\ inbox[m].attempts + 1 \in Nat
  <2> SUFFICES ASSUME NEW m \in batch
               PROVE  /\ Leased(inbox[m]) \in Row(InboxStates)
                      /\ Leased(inbox[m]).state = "leased"
                      /\ Leased(inbox[m]).attempts = inbox[m].attempts + 1
                      /\ Leased(inbox[m]).attempts <= MaxAttempts
                      /\ inbox[m].state \in {"pending", "retry", "leased"}
                      /\ inbox[m].attempts + 1 \in Nat
    OBVIOUS
  <2>1. /\ inbox[m] \in Row(InboxStates) /\ inbox[m].attempts <= MaxAttempts
        /\ Ready(inbox[m]) /\ "leased" \in InboxStates
    BY <1>1 DEF BridgeTypeOK, leaseChannelIngress, InboxStates
  <2>2. inbox[m].attempts + 1 \in Nat
    BY <2>1 DEF Row
  <2>3. QED  BY <2>1, <2>2, LeasedRow DEF Ready
<1>3. jobs' \subseteq Job
  <2>1. \A m \in batch : [message |-> m, token |-> inbox[m].attempts + 1,
                          invoked |-> FALSE] \in Job
    BY <1>2 DEF Job
  <2>2. QED  BY <1>1, <2>1 DEF leaseChannelIngress, BridgeTypeOK
<1>4. BridgeTypeOK'
  BY <1>1, <1>2, <1>3 DEF leaseChannelIngress, BridgeTypeOK
<1>5. \A n \in Messages : MessageInv(n)'
  BY <1>1, <1>2 DEF leaseChannelIngress, MessageInv
<1>6. ReportsReal'
  BY DEF leaseChannelIngress, BridgeIndInv, ReportsReal
<1>7. QED  BY <1>4, <1>5, <1>6, BridgeInvByMessagePrime DEF BridgeIndInv

\* A worker that completes, fails or loses a job changes its message only while it
\* owns the row, and then at most once.
LEMMA JobStep ==
    ASSUME BridgeIndInv, NEW j \in jobs,
           \/ InvokeRuntime(j)
           \/ \E reply, answered \in BOOLEAN :
                completeChannelIngress(j, reply, answered)
           \/ \E delay \in RetryDelays : failChannelIngress(j, delay)
           \/ LoseJob(j)
    PROVE  BridgeIndInv'
<1>1. BridgeTypeOK /\ \A n \in Messages : MessageInv(n)
  BY BridgeInvByMessage DEF BridgeIndInv
<1>2. j \in Job
  BY <1>1 DEF BridgeTypeOK
<1> DEFINE m == j.message
<1>3. m \in Messages /\ inbox[m] \in Row(InboxStates)
      /\ inbox[m].attempts \in Nat /\ inbox[m].attempts <= MaxAttempts
  BY <1>1, <1>2 DEF Job, BridgeTypeOK, Row
<1>4. CASE InvokeRuntime(j)
  <2>1. [j EXCEPT !.invoked = TRUE] \in Job
    BY <1>2 DEF Job
  <2>2. BridgeTypeOK'
    BY <1>1, <1>4, <2>1 DEF InvokeRuntime, BridgeTypeOK
  <2>3. (\A n \in Messages : MessageInv(n)') /\ ReportsReal'
    BY <1>1, <1>4 DEF InvokeRuntime, MessageInv, BridgeIndInv, ReportsReal
  <2>4. QED  BY <2>2, <2>3, BridgeInvByMessagePrime DEF BridgeIndInv
<1>5. CASE \E reply, answered \in BOOLEAN : completeChannelIngress(j, reply, answered)
  <2>1. PICK reply \in BOOLEAN, answered \in BOOLEAN :
          completeChannelIngress(j, reply, answered)
    BY <1>5
  <2>2. jobs' \subseteq jobs /\ UNCHANGED <<deadLetters, deliveries, accepted>>
    BY <2>1 DEF completeChannelIngress
  <2>3. ReportsReal'
    BY <2>2 DEF BridgeIndInv, ReportsReal
  <2>4. CASE Owned(inbox[m], j.token)
    <3>1. inbox[m].state = "leased" /\ outbox[m].state = "none"
      BY <1>1, <1>3, <2>4 DEF Owned, MessageInv
    <3>2. /\ inbox' = [inbox EXCEPT ![m] = Settled(inbox[m], "completed", 0)]
          /\ \/ outbox' = [outbox EXCEPT ![m] = NewRow]
             \/ outbox' = outbox
      BY <1>1, <2>1, <2>4, <3>1 DEF completeChannelIngress, BridgeTypeOK
    <3>3. /\ Settled(inbox[m], "completed", 0) \in Row(InboxStates)
          /\ Settled(inbox[m], "completed", 0).state = "completed"
          /\ Settled(inbox[m], "completed", 0).attempts = inbox[m].attempts
      BY <1>3, SettledRow DEF InboxStates
    <3>4. NewRow \in Row(OutboxStates) /\ NewRow.state = "pending"
          /\ NewRow.attempts = 0
      BY InsertedRow DEF OutboxStates
    <3>5. BridgeTypeOK'
      BY <1>1, <1>3, <2>2, <3>2, <3>3, <3>4, BridgeAssumption DEF BridgeTypeOK
    <3>6. \A n \in Messages : MessageInv(n)'
      BY <1>1, <1>3, <2>2, <3>1, <3>2, <3>3, <3>4 DEF BridgeTypeOK, MessageInv
    <3>7. QED  BY <2>3, <3>5, <3>6, BridgeInvByMessagePrime DEF BridgeIndInv
  <2>5. CASE ~Owned(inbox[m], j.token)
    <3>1. UNCHANGED <<inbox, outbox>>
      BY <2>1, <2>5 DEF completeChannelIngress
    <3>2. BridgeTypeOK' /\ \A n \in Messages : MessageInv(n)'
      BY <1>1, <2>2, <3>1 DEF BridgeTypeOK, MessageInv
    <3>3. QED  BY <2>3, <3>2, BridgeInvByMessagePrime DEF BridgeIndInv
  <2>6. QED  BY <2>4, <2>5
<1>6. CASE \E delay \in RetryDelays : failChannelIngress(j, delay)
  <2>1. PICK delay \in RetryDelays : failChannelIngress(j, delay)
    BY <1>6
  <2>2. jobs' \subseteq jobs /\ UNCHANGED <<outbox, deliveries, accepted>>
    BY <2>1 DEF failChannelIngress
  <2>3. ReportsReal'
    BY <2>2 DEF BridgeIndInv, ReportsReal
  <2> DEFINE next == IF Exhausted(inbox[m]) THEN "dead" ELSE "retry"
  <2>4. CASE Owned(inbox[m], j.token)
    <3>1. /\ inbox' = [inbox EXCEPT ![m] = Settled(inbox[m], next, delay)]
          /\ deadLetters' = IF Exhausted(inbox[m])
                            THEN deadLetters \cup {<<"inbound", m>>}
                            ELSE deadLetters
      BY <1>1, <2>1, <2>4 DEF failChannelIngress, BridgeTypeOK
    <3>2. delay \in Nat /\ next \in InboxStates
      BY BridgeAssumption DEF InboxStates
    <3>3. /\ Settled(inbox[m], next, delay) \in Row(InboxStates)
          /\ Settled(inbox[m], next, delay).state = next
          /\ Settled(inbox[m], next, delay).attempts = inbox[m].attempts
      BY <1>3, <3>2, SettledRow
    <3>4. inbox[m].state = "leased" /\ outbox[m].state = "none"
          /\ <<"inbound", m>> \notin deadLetters
      BY <1>1, <1>3, <2>4 DEF Owned, MessageInv
    <3>5. Exhausted(inbox[m]) => inbox[m].attempts = MaxAttempts
      BY <1>3, BridgeAssumption DEF Exhausted
    <3>6. BridgeTypeOK'
      BY <1>1, <1>3, <2>2, <3>1, <3>3 DEF BridgeTypeOK
    <3>7. \A n \in Messages : MessageInv(n)'
      <4> SUFFICES ASSUME NEW n \in Messages PROVE MessageInv(n)'
        OBVIOUS
      <4>1. <<"outbound", n>> \in deadLetters' <=> <<"outbound", n>> \in deadLetters
        BY <3>1
      <4>2. CASE n = m
        BY <1>1, <1>3, <2>2, <3>1, <3>3, <3>4, <3>5, <4>1, <4>2 DEF BridgeTypeOK, MessageInv
      <4>3. CASE n # m
        <5>1. <<"inbound", n>> \in deadLetters' <=> <<"inbound", n>> \in deadLetters
          BY <3>1, <4>3
        <5>2. inbox'[n] = inbox[n]
          BY <1>1, <3>1, <4>3 DEF BridgeTypeOK
        <5>3. QED  BY <1>1, <2>2, <4>1, <5>1, <5>2 DEF MessageInv
      <4>4. QED  BY <4>2, <4>3
    <3>8. QED  BY <2>3, <3>6, <3>7, BridgeInvByMessagePrime DEF BridgeIndInv
  <2>5. CASE ~Owned(inbox[m], j.token)
    <3>1. UNCHANGED <<inbox, deadLetters>>
      BY <2>1, <2>5 DEF failChannelIngress
    <3>2. BridgeTypeOK' /\ \A n \in Messages : MessageInv(n)'
      BY <1>1, <2>2, <3>1 DEF BridgeTypeOK, MessageInv
    <3>3. QED  BY <2>3, <3>2, BridgeInvByMessagePrime DEF BridgeIndInv
  <2>6. QED  BY <2>4, <2>5
<1>7. CASE LoseJob(j)
  <2>1. BridgeTypeOK' /\ ReportsReal' /\ \A n \in Messages : MessageInv(n)'
    BY <1>1, <1>7 DEF LoseJob, BridgeTypeOK, MessageInv, BridgeIndInv, ReportsReal
  <2>2. QED  BY <2>1, BridgeInvByMessagePrime DEF BridgeIndInv
<1>8. QED  BY <1>4, <1>5, <1>6, <1>7

-------------------------------------------------------------------------------
(* The steps of the delivery and of the clock.                                *)

\* Leasing outbox rows touches no delivered, failed or dead reply.
LEMMA LeaseDeliveriesStep ==
    ASSUME BridgeIndInv, NEW batch \in SUBSET Messages, leaseChannelDeliveries(batch)
    PROVE  BridgeIndInv'
<1>1. BridgeTypeOK /\ \A n \in Messages : MessageInv(n)
  BY BridgeInvByMessage DEF BridgeIndInv
<1>2. \A m \in batch : /\ Leased(outbox[m]) \in Row(OutboxStates)
                       /\ Leased(outbox[m]).state = "leased"
                       /\ Leased(outbox[m]).attempts <= MaxAttempts
                       /\ outbox[m].state \in {"pending", "retry", "leased"}
                       /\ outbox[m].attempts + 1 \in Nat
  <2> SUFFICES ASSUME NEW m \in batch
               PROVE  /\ Leased(outbox[m]) \in Row(OutboxStates)
                      /\ Leased(outbox[m]).state = "leased"
                      /\ Leased(outbox[m]).attempts <= MaxAttempts
                      /\ outbox[m].state \in {"pending", "retry", "leased"}
                      /\ outbox[m].attempts + 1 \in Nat
    OBVIOUS
  <2>1. /\ outbox[m] \in Row(OutboxStates) /\ outbox[m].attempts <= MaxAttempts
        /\ Ready(outbox[m]) /\ "leased" \in OutboxStates
    BY <1>1 DEF BridgeTypeOK, leaseChannelDeliveries, OutboxStates
  <2>2. outbox[m].attempts + 1 \in Nat
    BY <2>1 DEF Row
  <2>3. QED  BY <2>1, <2>2, LeasedRow DEF Ready
<1> DEFINE fresh == {[message |-> m, token |-> outbox[m].attempts + 1,
                      outcome |-> "none"] : m \in batch}
<1>3. fresh \subseteq Delivery /\ \A d \in fresh : d.outcome = "none"
  <2>1. \A m \in batch : [message |-> m, token |-> outbox[m].attempts + 1,
                          outcome |-> "none"] \in Delivery
    BY <1>2 DEF Delivery
  <2>2. QED  BY <2>1
<1>4. deliveries' = deliveries \cup fresh
  BY DEF leaseChannelDeliveries
<1> HIDE DEF fresh
<1>5. BridgeTypeOK'
  BY <1>1, <1>2, <1>3, <1>4 DEF leaseChannelDeliveries, BridgeTypeOK
<1>6. \A n \in Messages : MessageInv(n)'
  BY <1>1, <1>2 DEF leaseChannelDeliveries, MessageInv
<1>7. ReportsReal'
  BY <1>3, <1>4 DEF leaseChannelDeliveries, BridgeIndInv, ReportsReal
<1>8. QED  BY <1>5, <1>6, <1>7, BridgeInvByMessagePrime DEF BridgeIndInv

\* The adapter's outcome is "delivered" only when the vendor accepted the message.
LEMMA DeliverStep ==
    ASSUME BridgeIndInv, NEW d \in deliveries, NEW outcome \in {"delivered", "retryable", "failed"},
           deliver(d, outcome)
    PROVE  BridgeIndInv'
<1>1. BridgeTypeOK /\ \A n \in Messages : MessageInv(n)
  BY BridgeInvByMessage DEF BridgeIndInv
<1>2. d \in Delivery
  BY <1>1 DEF BridgeTypeOK
<1> DEFINE e == [d EXCEPT !.outcome = outcome]
<1>3. e \in Delivery /\ e.message = d.message /\ e.token = d.token
      /\ e.outcome = outcome /\ d.message \in Messages /\ d.token \in Nat
  BY <1>2 DEF Delivery
<1>4. /\ deliveries' = (deliveries \ {d}) \cup {e}
      /\ UNCHANGED <<inbox, outbox, deadLetters, jobs>>
      /\ \/ accepted' = [accepted EXCEPT ![d.message] = @ \cup {d.token}]
         \/ outcome # "delivered" /\ UNCHANGED accepted
  BY DEF deliver
<1> HIDE DEF e
<1>5. BridgeTypeOK'
  BY <1>1, <1>3, <1>4 DEF BridgeTypeOK
<1>6. /\ \A n \in Messages : accepted[n] \subseteq accepted'[n]
      /\ outcome = "delivered" => d.token \in accepted'[d.message]
  BY <1>1, <1>3, <1>4 DEF BridgeTypeOK
<1>7. \A n \in Messages : MessageInv(n)'
  BY <1>1, <1>4, <1>6 DEF MessageInv
<1>8. ReportsReal'
  <2> SUFFICES ASSUME NEW x \in deliveries', x.outcome = "delivered"
               PROVE  x.token \in accepted'[x.message]
    BY DEF ReportsReal
  <2>1. CASE x = e
    BY <1>3, <1>6, <2>1
  <2>2. CASE x \in deliveries
    <3>1. x.message \in Messages
      BY <1>1, <2>2 DEF BridgeTypeOK, Delivery
    <3>2. QED  BY <1>6, <2>2, <3>1 DEF BridgeIndInv, ReportsReal
  <2>3. QED  BY <1>4, <2>1, <2>2
<1>9. QED  BY <1>5, <1>7, <1>8, BridgeInvByMessagePrime DEF BridgeIndInv

\* A receipt settles the row of its own lease only: as delivered when that lease's
\* delivery was accepted, and with a dead letter exactly when it gives up.
LEMMA ReceiptStep ==
    ASSUME BridgeIndInv, NEW d \in deliveries, NEW delay \in RetryDelays,
           recordChannelDeliveryReceipt(d, delay)
    PROVE  BridgeIndInv'
<1>1. BridgeTypeOK /\ \A n \in Messages : MessageInv(n)
  BY BridgeInvByMessage DEF BridgeIndInv
<1>2. d \in Delivery
  BY <1>1 DEF BridgeTypeOK
<1> DEFINE m == d.message
           next == NextState(outbox[m], d.outcome)
           wait == IF next = "retry" THEN delay ELSE outbox[m].wait
           entry == Settled(outbox[m], next, wait)
<1>3. /\ m \in Messages /\ outbox[m] \in Row(OutboxStates)
      /\ outbox[m].attempts \in Nat /\ outbox[m].attempts <= MaxAttempts
      /\ outbox[m].wait \in Nat
  BY <1>1, <1>2 DEF Delivery, BridgeTypeOK, Row
<1>4. deliveries' \subseteq deliveries /\ UNCHANGED <<inbox, jobs, accepted>>
  BY DEF recordChannelDeliveryReceipt
<1>5. ReportsReal'
  BY <1>4 DEF BridgeIndInv, ReportsReal
<1>6. CASE Owned(outbox[m], d.token)
  <2>1. /\ outbox' = [outbox EXCEPT ![m] = entry]
        /\ deadLetters' = IF next \in {"dead", "failed"}
                          THEN deadLetters \cup {<<"outbound", m>>}
                          ELSE deadLetters
    BY <1>1, <1>6 DEF recordChannelDeliveryReceipt, BridgeTypeOK
  <2>2. /\ next \in {"delivered", "retry", "dead", "failed"}
        /\ next = "delivered" => d.outcome = "delivered"
        /\ next = "dead" => outbox[m].attempts = MaxAttempts
    <3>1. d.outcome \in {"none", "delivered", "retryable", "failed"}
      BY <1>2 DEF Delivery
    <3>2. Exhausted(outbox[m]) => outbox[m].attempts = MaxAttempts
      BY <1>3, BridgeAssumption DEF Exhausted
    <3>3. QED  BY <3>1, <3>2 DEF NextState
  <2>3. outbox[m].state = "leased" /\ outbox[m].attempts = d.token
        /\ inbox[m].state = "completed"
    BY <1>1, <1>3, <1>6 DEF Owned, MessageInv
  <2> HIDE DEF next
  <2>4. next \in OutboxStates /\ wait \in Nat
    BY <1>3, <2>2, BridgeAssumption DEF OutboxStates
  <2> HIDE DEF wait
  <2>5. entry \in Row(OutboxStates) /\ entry.state = next
        /\ entry.attempts = outbox[m].attempts
    <3>1. next \in OutboxStates /\ outbox[m] \in Row(OutboxStates) /\ wait \in Nat
      BY <1>3, <2>4
    <3> HIDE DEF m
    <3>2. QED  BY <3>1, SettledRow
  <2> HIDE DEF entry
  <2>6. BridgeTypeOK'
    BY <1>1, <1>3, <1>4, <2>1, <2>5 DEF BridgeTypeOK
  <2>7. \A n \in Messages : MessageInv(n)'
    <3> SUFFICES ASSUME NEW n \in Messages PROVE MessageInv(n)'
      OBVIOUS
    <3>1. <<"inbound", n>> \in deadLetters' <=> <<"inbound", n>> \in deadLetters
      BY <2>1
    <3>2. CASE n = m
      <4>1. next = "delivered" => outbox[m].attempts \in accepted[m]
        BY <2>2, <2>3 DEF BridgeIndInv, ReportsReal
      <4>2. outbox'[m] = entry
        BY <1>1, <1>3, <2>1 DEF BridgeTypeOK
      <4>3. MessageInv(m)
        BY <1>1, <1>3
      <4>4. <<"outbound", m>> \in deadLetters' <=> next \in {"dead", "failed"}
        BY <2>1, <2>3, <4>3 DEF MessageInv
      <4>5. QED
        BY <1>4, <2>2, <2>3, <2>5, <3>1, <3>2, <4>1, <4>2, <4>3, <4>4 DEF MessageInv
    <3>3. CASE n # m
      <4>1. <<"outbound", n>> \in deadLetters' <=> <<"outbound", n>> \in deadLetters
        BY <2>1, <3>3
      <4>2. outbox'[n] = outbox[n]
        BY <1>1, <2>1, <3>3 DEF BridgeTypeOK
      <4>3. QED  BY <1>1, <1>4, <3>1, <4>1, <4>2 DEF MessageInv
    <3>4. QED  BY <3>2, <3>3
  <2>8. QED  BY <1>5, <2>6, <2>7, BridgeInvByMessagePrime DEF BridgeIndInv
<1>7. CASE ~Owned(outbox[m], d.token)
  <2>1. UNCHANGED <<outbox, deadLetters>>
    BY <1>7 DEF recordChannelDeliveryReceipt
  <2>2. BridgeTypeOK' /\ \A n \in Messages : MessageInv(n)'
    BY <1>1, <1>4, <2>1 DEF BridgeTypeOK, MessageInv
  <2>3. QED  BY <1>5, <2>2, BridgeInvByMessagePrime DEF BridgeIndInv
<1>8. QED  BY <1>6, <1>7

\* A delivery that is lost, and the clock, settle nothing.
LEMMA QuietStep ==
    ASSUME BridgeIndInv, (\E d \in deliveries : LoseDelivery(d)) \/ Tick \/ UNCHANGED bridgeVars
    PROVE  BridgeIndInv'
<1>1. BridgeTypeOK /\ \A n \in Messages : MessageInv(n)
  BY BridgeInvByMessage DEF BridgeIndInv
<1>2. CASE \E d \in deliveries : LoseDelivery(d)
  <2>1. BridgeTypeOK' /\ ReportsReal' /\ \A n \in Messages : MessageInv(n)'
    BY <1>1, <1>2 DEF LoseDelivery, BridgeTypeOK, MessageInv, BridgeIndInv, ReportsReal
  <2>2. QED  BY <2>1, BridgeInvByMessagePrime DEF BridgeIndInv
<1>3. CASE Tick
  <2>1. \A n \in Messages :
          /\ Aged(inbox[n]) \in Row(InboxStates) /\ Aged(outbox[n]) \in Row(OutboxStates)
          /\ Aged(inbox[n]).state = inbox[n].state
          /\ Aged(inbox[n]).attempts = inbox[n].attempts
          /\ Aged(outbox[n]).state = outbox[n].state
          /\ Aged(outbox[n]).attempts = outbox[n].attempts
    BY <1>1, AgedRow DEF BridgeTypeOK
  <2>2. /\ inbox' = [n \in Messages |-> Aged(inbox[n])]
        /\ outbox' = [n \in Messages |-> Aged(outbox[n])]
        /\ UNCHANGED <<deadLetters, jobs, deliveries, accepted>>
    BY <1>3 DEF Tick
  <2>3. BridgeTypeOK'
    BY <1>1, <2>1, <2>2 DEF BridgeTypeOK
  <2>4. \A n \in Messages : MessageInv(n)'
    BY <1>1, <2>1, <2>2 DEF MessageInv
  <2>5. ReportsReal'
    BY <2>2 DEF BridgeIndInv, ReportsReal
  <2>6. QED  BY <2>3, <2>4, <2>5, BridgeInvByMessagePrime DEF BridgeIndInv
<1>4. CASE UNCHANGED bridgeVars
  <2>1. BridgeTypeOK' /\ ReportsReal' /\ \A n \in Messages : MessageInv(n)'
    BY <1>1, <1>4 DEF bridgeVars, BridgeTypeOK, MessageInv, BridgeIndInv, ReportsReal
  <2>2. QED  BY <2>1, BridgeInvByMessagePrime DEF BridgeIndInv
<1>5. QED  BY <1>2, <1>3, <1>4

-------------------------------------------------------------------------------
(* The theorems.                                                              *)

\* The inductive invariant holds in every reachable state.
LEMMA BridgeInductive == BridgeSpec => []BridgeIndInv
<1>1. BridgeInit => BridgeIndInv
  <2> SUFFICES ASSUME BridgeInit PROVE BridgeIndInv
    OBVIOUS
  <2>1. NoRow \in Row(InboxStates) /\ NoRow \in Row(OutboxStates)
        /\ NoRow.state = "none" /\ NoRow.attempts = 0
    BY DEF NoRow, Row, InboxStates, OutboxStates
  <2>2. BridgeTypeOK
    BY <2>1, BridgeAssumption DEF BridgeInit, BridgeTypeOK
  <2>3. \A m \in Messages : MessageInv(m)
    BY <2>1 DEF BridgeInit, MessageInv
  <2>4. ReportsReal
    BY DEF BridgeInit, ReportsReal
  <2>5. QED  BY <2>2, <2>3, <2>4, BridgeInvByMessage DEF BridgeIndInv
<1>2. BridgeIndInv /\ [BridgeNext]_bridgeVars => BridgeIndInv'
  BY AcceptStep, LeaseIngressStep, JobStep, LeaseDeliveriesStep, DeliverStep,
     ReceiptStep, QuietStep DEF BridgeNext, LeaseIngress, LeaseDeliveries
<1>3. QED  BY <1>1, <1>2, PTL DEF BridgeSpec

\* However often inbox and outbox rows change hands between workers that die, lose
\* answers or report late: a reply exists only for a completed message, a reply
\* marked delivered was accepted under the lease that reported it, and the dead
\* letters are exactly the rows that were given up.
THEOREM MessagesAccounted == BridgeSpec => []BridgeInv
<1>1. BridgeIndInv => BridgeInv
  BY DEF BridgeIndInv
<1>2. QED  BY <1>1, BridgeInductive, PTL

\* completeChannelIngress, failChannelIngress, recordChannelDeliveryReceipt and the
\* lease queries never move a row that is settled.
THEOREM SettlementFinal == BridgeSpec => SettledRowsStay
<1> DEFINE Stay == \A m \in Messages :
                     /\ inbox[m].state \in {"completed", "dead"} =>
                          inbox'[m].state = inbox[m].state
                     /\ outbox[m].state \in {"delivered", "failed", "dead"} =>
                          outbox'[m].state = outbox[m].state
<1>1. BridgeIndInv /\ [BridgeNext]_bridgeVars => [Stay]_bridgeVars
  <2> SUFFICES ASSUME BridgeIndInv, BridgeNext PROVE Stay
    OBVIOUS
  <2>1. BridgeTypeOK /\ \A n \in Messages : MessageInv(n)
    BY BridgeInvByMessage DEF BridgeIndInv
  <2>2. CASE \E m \in Messages : acceptChannelIngress(m)
    BY <2>1, <2>2 DEF acceptChannelIngress, BridgeTypeOK
  <2>3. CASE LeaseIngress
    BY <2>3 DEF LeaseIngress, leaseChannelIngress, Ready
  <2>4. CASE LeaseDeliveries
    BY <2>4 DEF LeaseDeliveries, leaseChannelDeliveries, Ready
  <2>5. CASE \E j \in jobs : InvokeRuntime(j) \/ LoseJob(j)
    BY <2>5 DEF InvokeRuntime, LoseJob
  <2>6. CASE \E j \in jobs : \E reply, answered \in BOOLEAN :
               completeChannelIngress(j, reply, answered)
    <3>1. PICK j \in jobs : \E reply, answered \in BOOLEAN :
            completeChannelIngress(j, reply, answered)
      BY <2>6
    <3>2. PICK reply \in BOOLEAN, answered \in BOOLEAN :
            completeChannelIngress(j, reply, answered)
      BY <3>1
    <3>3. j.message \in Messages
      BY <2>1 DEF BridgeTypeOK, Job
    <3>4. CASE Owned(inbox[j.message], j.token)
      <4>1. /\ inbox[j.message].state = "leased" /\ outbox[j.message].state = "none"
        BY <2>1, <3>3, <3>4 DEF Owned, MessageInv
      <4>2. /\ \E entry : inbox' = [inbox EXCEPT ![j.message] = entry]
            /\ \E entry : outbox' = [outbox EXCEPT ![j.message] = entry]
        BY <3>2, <3>4 DEF completeChannelIngress
      <4>3. QED  BY <2>1, <4>1, <4>2 DEF BridgeTypeOK
    <3>5. CASE ~Owned(inbox[j.message], j.token)
      BY <3>2, <3>5 DEF completeChannelIngress
    <3>6. QED  BY <3>4, <3>5
  <2>7. CASE \E j \in jobs : \E delay \in RetryDelays : failChannelIngress(j, delay)
    <3>1. PICK j \in jobs, delay \in RetryDelays : failChannelIngress(j, delay)
      BY <2>7
    <3>2. CASE Owned(inbox[j.message], j.token)
      <4>1. inbox[j.message].state = "leased"
        BY <3>2 DEF Owned
      <4>2. UNCHANGED outbox /\ \E entry : inbox' = [inbox EXCEPT ![j.message] = entry]
        BY <3>1, <3>2 DEF failChannelIngress
      <4>3. QED  BY <2>1, <4>1, <4>2 DEF BridgeTypeOK
    <3>3. CASE ~Owned(inbox[j.message], j.token)
      BY <3>1, <3>3 DEF failChannelIngress
    <3>4. QED  BY <3>2, <3>3
  <2>8. CASE \E d \in deliveries : \E outcome \in {"delivered", "retryable", "failed"} :
               deliver(d, outcome)
    BY <2>8 DEF deliver
  <2>9. CASE \E d \in deliveries : \E delay \in RetryDelays :
               recordChannelDeliveryReceipt(d, delay)
    <3>1. PICK d \in deliveries, delay \in RetryDelays :
            recordChannelDeliveryReceipt(d, delay)
      BY <2>9
    <3>2. CASE Owned(outbox[d.message], d.token)
      <4>1. outbox[d.message].state = "leased"
        BY <3>2 DEF Owned
      <4>2. UNCHANGED inbox /\ \E entry : outbox' = [outbox EXCEPT ![d.message] = entry]
        BY <3>1, <3>2 DEF recordChannelDeliveryReceipt
      <4>3. QED  BY <2>1, <4>1, <4>2 DEF BridgeTypeOK
    <3>3. CASE ~Owned(outbox[d.message], d.token)
      BY <3>1, <3>3 DEF recordChannelDeliveryReceipt
    <3>4. QED  BY <3>2, <3>3
  <2>10. CASE \E d \in deliveries : LoseDelivery(d)
    BY <2>10 DEF LoseDelivery
  <2>11. CASE Tick
    BY <2>1, <2>11, AgedRow DEF Tick, BridgeTypeOK
  <2>12. QED
    BY <2>2, <2>3, <2>4, <2>5, <2>6, <2>7, <2>8, <2>9, <2>10, <2>11 DEF BridgeNext
<1>2. QED  BY <1>1, BridgeInductive, PTL DEF BridgeSpec, SettledRowsStay

===============================================================================
