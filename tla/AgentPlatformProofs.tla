------------------------- MODULE AgentPlatformProofs -------------------------
(***************************************************************************)
(* Theorems about AgentPlatform, for every choice of areas and bounds: the  *)
(* command rows stay coherent (CommandInv), a superseded configuration      *)
(* never comes into force (SupersededNotInForce) and no ended command       *)
(* leaves a backup or a restore in a state of work (BackupInv).             *)
(***************************************************************************)
EXTENDS AgentPlatform, FiniteSetTheorems, TLAPS

-----------------------------------------------------------------------------
(* The inductive invariant. *)

CommandStates == ActiveStates \cup FinalStates
Runs == {"none", "queued", "requested", "running", "passed", "succeeded", "failed",
         "cancelled"}
Actions == LifecycleActions \cup
           {"deployment.provision", "config.apply-user", "backup.expire", "backup.create",
            "backup.verify", "backup.restore", "config.stage", "config.apply", "probe.run",
            "release.stage", "release.apply", "release.rollback"}

\* A command row when n configuration revisions exist.
Row(n) == [action : Actions, config : 0..n, state : CommandStates,
           due : BOOLEAN, lapsed : BOOLEAN,
           approval : {"none", "pending", "approved", "rejected"},
           attempts : Seq(CommandStates), run : Runs]

AgentRow == [status : {"pending", "active", "absent", "provisioning", "starting",
                       "suspended", "deleted", "failed", "degraded"},
             init : {"uninitialized", "provisioning", "ready", "degraded", "failed",
                     "deleting"},
             desired : {"running", "stopped", "suspended", "deleted"}]
RuntimeRow(n) == [status : AtRest \cup {"provisioning", "starting", "ready", "degraded",
                                        "failed"},
                  deployed : BOOLEAN, config : 0..n, env : 0..n, endpoint : BOOLEAN,
                  beat : {"never", "fresh", "stale"}]
DeploymentRow == [status : {"none", "enrolling", "active", "degraded", "revoked"},
                  version : Nat]
BackupRow == [status : {"none", "creating", "created", "verifying", "verified",
                        "expiring", "expired", "failed"}, aged : BOOLEAN]
ConfigRow == [scope : {"none", "skills", "identity"},
              status : {"approved", "applying", "applied", "staged", "failed",
                        "superseded"}]

\* Every row has its shape; a Runtime names a revision that exists.
RowTypes ==
  /\ area \in Areas
  /\ agent \in AgentRow
  /\ configs \in Seq(ConfigRow)
  /\ runtime \in RuntimeRow(LastConfig)
  /\ deployment \in DeploymentRow
  /\ backup \in BackupRow
  /\ commands \in Seq(Row(LastConfig))
  /\ releases \in [Releases -> {"candidate", "approved", "rolling_out", "released",
                                "blocked", "withdrawn"}]
  /\ alerts \in [AlertCodes -> ActiveAlert \cup {"resolved"}]

\* What a single command row says is consistent.  A command that was never
\* leased is queued, cancelled or expired; an attempt that ended, ended as its
\* command did; a restore run is "running" only while one of its attempts is
\* the one that started it, and has ended once its command has, unless the
\* command expired after it had run.
Approved(x) ==
  /\ x.approval \in {"pending", "rejected"} => x.attempts = <<>>
  /\ x.approval = "rejected" => x.state \in {"cancelled", "expired"}
Leased(x) == x.attempts = <<>> => x.state \in {"queued", "cancelled", "expired"}
Agrees(x) ==
  \A a \in DOMAIN x.attempts : x.attempts[a] \in {"succeeded", "failed"} =>
                                 x.state = x.attempts[a]
Ended == {"succeeded", "failed", "cancelled"}
RestoreOK(x) ==
  x.action = "backup.restore" =>
    /\ x.run \in {"requested", "running"} \cup Ended
    /\ x.run = "running" => \E a \in DOMAIN x.attempts : x.attempts[a] = "running"
    /\ x.attempts = <<>> => x.run \in {"requested", "cancelled"}
    /\ x.state \in Ended => x.run \in Ended
    /\ x.state = "expired" => x.run # "requested"

\* A server reports four states, and the timer's commands need no approval.
Reported == {"leased", "accepted", "running", "succeeded", "failed"}
ReportsOK(x) == \A a \in DOMAIN x.attempts : x.attempts[a] \in Reported
ExpireOK(x) == x.action = "backup.expire" => x.approval = "none"

RowOK(x) == /\ Approved(x) /\ Leased(x) /\ Agrees(x) /\ RestoreOK(x)
            /\ ReportsOK(x) /\ ExpireOK(x)

RowsInv == \A c \in DOMAIN commands : RowOK(commands[c])

\* A command that requestAgentLifecycle waits for.
Ordering(x) == x.action \in LifecycleActions /\ x.state \in ActiveStates
OneOrdering == \A c, d \in DOMAIN commands :
                 Ordering(commands[c]) /\ Ordering(commands[d]) => c = d

\* Only owner requests supersede revisions, and a revision that is still only
\* approved, or superseded, was never in force: neither the Runtime row nor the
\* environment of its container names it.
ConfigInv ==
  /\ \A c \in DOMAIN commands :
       /\ commands[c].action \in {"config.apply", "config.apply-user", "config.stage"}
            => area = "config" /\ commands[c].config # NoConfig
       /\ commands[c].action = "deployment.provision" => area = "lifecycle"
  /\ area = "lifecycle" => Len(configs) <= 1
  /\ area # "config" => \A k \in DOMAIN configs : configs[k].status # "superseded"
  /\ area = "config" =>
       \A k \in DOMAIN configs : configs[k].status \in {"approved", "superseded"} =>
                                   runtime.config # k /\ runtime.env # k

IndInv == RowTypes /\ RowsInv /\ OneOrdering /\ ConfigInv /\ ExpiringIsPursued

-----------------------------------------------------------------------------
(* The shape of the rows. *)

\* The requests of the areas make up the actions.
LEMMA ActionSets ==
  LifecycleActions \cup {"deployment.provision", "config.apply-user", "backup.expire"}
     \cup UNION {AdminActions[w] : w \in DOMAIN AdminActions} = Actions
BY DEF AdminActions, Actions

\* A command is a row with the configurations there are.
LEMMA CommandIsRow == Command = Row(LastConfig)
BY ActionSets DEF Command, Row, CommandStates, Runs

\* A row stays one when a configuration is added.
LEMMA RowWider ==
  ASSUME NEW m \in Nat, NEW n \in Nat, m <= n, NEW x \in Row(m)
  PROVE  x \in Row(n)
<1>1. 0..m \subseteq 0..n
  OBVIOUS
<1> QED
  BY <1>1 DEF Row

\* So does the table.
LEMMA RowsWider ==
  ASSUME NEW m \in Nat, NEW n \in Nat, m <= n, NEW cs \in Seq(Row(m))
  PROVE  cs \in Seq(Row(n))
<1>1. \A c \in DOMAIN cs : cs[c] \in Row(n)
  BY RowWider
<1> QED
  BY <1>1

\* A new row comes after the others and leaves them alone.
LEMMA AppendRow ==
  ASSUME NEW S, NEW cs \in Seq(S), NEW x \in S
  PROVE  /\ Append(cs, x) \in Seq(S)
         /\ Len(cs) \in Nat /\ Len(cs) + 1 \in Nat
         /\ DOMAIN Append(cs, x) = DOMAIN cs \cup {Len(cs) + 1}
         /\ \A c \in DOMAIN cs : Append(cs, x)[c] = cs[c]
         /\ Append(cs, x)[Len(cs) + 1] = x
         /\ Len(cs) + 1 \notin DOMAIN cs
         /\ Len(Append(cs, x)) = Len(cs) + 1
OBVIOUS

\* A new command is consistent: it was never leased, and a new restore is
\* requested.
LEMMA NewRow ==
  ASSUME NEW n \in Nat, NEW action \in Actions, NEW config \in 0..n,
         NEW approval \in {"none", "pending", "approved"}, NEW run \in Runs,
         action = "backup.restore" => run = "requested",
         action = "backup.expire" => approval = "none"
  PROVE  LET x == NewCommand(action, config, approval, run)
         IN  /\ x \in Row(n) /\ RowOK(x)
             /\ x.action = action /\ x.config = config /\ x.state = "queued"
<1> DEFINE x == NewCommand(action, config, approval, run)
<1>1. /\ x.action = action /\ x.config = config /\ x.state = "queued"
      /\ x.approval = approval /\ x.attempts = <<>> /\ x.run = run
  BY DEF NewCommand
<1>2. <<>> \in Seq(CommandStates) /\ DOMAIN <<>> = {}
  OBVIOUS
<1>3. x \in Row(n)
  BY <1>2 DEF NewCommand, Row, CommandStates, ActiveStates
<1>4. RowOK(x)
  BY <1>1, <1>2 DEF RowOK, Approved, Leased, Agrees, RestoreOK, Ended, ReportsOK, ExpireOK
<1> QED
  BY <1>1, <1>3, <1>4

\* Queueing a command, whatever happens to the other rows.
LEMMA Enqueued ==
  ASSUME RowTypes, RowsInv, OneOrdering, NEW x, configs' \in Seq(ConfigRow),
         LastConfig <= LastConfig', x \in Row(LastConfig'), RowOK(x),
         Ordering(x) => LifecycleInProgress = {},
         commands' = Append(commands, x)
  PROVE  /\ commands' \in Seq(Row(LastConfig')) /\ RowsInv' /\ OneOrdering'
         /\ DOMAIN commands' = DOMAIN commands \cup {Len(commands) + 1}
         /\ \A c \in DOMAIN commands : commands'[c] = commands[c]
         /\ commands'[Len(commands) + 1] = x
<1> DEFINE n == LastConfig'
           l == Len(commands) + 1
<1>1. LastConfig \in Nat /\ n \in Nat
  BY DEF RowTypes, LastConfig
<1>2. commands \in Seq(Row(n))
  BY <1>1, RowsWider DEF RowTypes
<1> HIDE DEF n
<1>3. /\ commands' \in Seq(Row(n))
      /\ DOMAIN commands' = DOMAIN commands \cup {l}
      /\ \A c \in DOMAIN commands : commands'[c] = commands[c]
      /\ commands'[l] = x
  BY <1>2, AppendRow DEF n
<1> HIDE DEF l
<1>4. RowsInv'
  BY <1>3 DEF RowsInv
<1>5. OneOrdering'
  <2> SUFFICES ASSUME NEW c \in DOMAIN commands', NEW d \in DOMAIN commands',
                      Ordering(commands'[c]), Ordering(commands'[d])
               PROVE  c = d
    BY DEF OneOrdering
  <2>1. CASE Ordering(x)
    <3>1. \A e \in DOMAIN commands : ~Ordering(commands[e])
      BY <2>1 DEF LifecycleInProgress, Ordering
    <3> QED
      BY <1>3, <3>1
  <2>2. CASE ~Ordering(x)
    BY <1>3, <2>2 DEF OneOrdering
  <2> QED
    BY <2>1, <2>2
<1> QED
  BY <1>3, <1>4, <1>5 DEF n, l

-----------------------------------------------------------------------------
(* Requests. *)

\* A backup that is expiring is still pursued while the commands that were
\* active stay so.
LEMMA StillPursued ==
  ASSUME ExpiringIsPursued,
         backup'.status = "expiring" => backup.status = "expiring",
         \A c \in DOMAIN commands :
           commands[c].action = "backup.expire" /\ commands[c].state \in ActiveStates =>
             /\ c \in DOMAIN commands' /\ commands'[c].action = "backup.expire"
             /\ commands'[c].state \in ActiveStates
  PROVE  ExpiringIsPursued'
BY DEF ExpiringIsPursued

\* Provisioning starts from nothing.
LEMMA ProvisioningStep ==
  ASSUME IndInv, RequestProvisioning
  PROVE  IndInv'
<1> USE DEF IndInv
<1> DEFINE x == NewCommand("deployment.provision", 1, "none", "none")
           k == [scope |-> "none", status |-> "approved"]
<1>1. /\ configs' = <<k>> /\ area = "lifecycle" /\ UNCHANGED <<area, backup, releases, alerts>>
      /\ commands' = Append(commands, x)
  BY DEF RequestProvisioning
<1>2. k \in ConfigRow
  BY DEF ConfigRow
<1>3. configs' \in Seq(ConfigRow) /\ LastConfig' = 1 /\ DOMAIN configs' = {1} /\ configs'[1] = k
  BY <1>1, <1>2 DEF LastConfig
<1>4. LastConfig \in Nat /\ LastConfig <= 1
  BY <1>1 DEF RowTypes, ConfigInv, LastConfig
<1>5. x \in Row(1) /\ RowOK(x) /\ x.action = "deployment.provision"
  <2>1. "deployment.provision" \in Actions /\ "none" \in Runs /\ 1 \in 0..1 /\ 1 \in Nat
    BY DEF Actions, Runs
  <2> QED
    BY <2>1, NewRow
<1> HIDE DEF x
<1>6. ~Ordering(x)
  BY <1>5 DEF Ordering, LifecycleActions
<1>7. /\ commands' \in Seq(Row(LastConfig')) /\ RowsInv' /\ OneOrdering'
      /\ DOMAIN commands' = DOMAIN commands \cup {Len(commands) + 1}
      /\ \A c \in DOMAIN commands : commands'[c] = commands[c]
      /\ commands'[Len(commands) + 1] = x
  BY <1>1, <1>3, <1>4, <1>5, <1>6, Enqueued
<1>8. RowTypes'
  <2>1. agent' \in AgentRow
    BY DEF RequestProvisioning, AgentRow
  <2>2. runtime' \in RuntimeRow(1)
    <3>1. runtime \in RuntimeRow(1)
      BY <1>4 DEF RowTypes, RuntimeRow
    <3>2. runtime' = [runtime EXCEPT !.deployed = TRUE, !.config = 1,
                                     !.status = "provisioning"]
      BY DEF RequestProvisioning
    <3>3. 1 \in 0..1 /\ "provisioning" \in AtRest \cup {"provisioning"}
      OBVIOUS
    <3> QED
      BY <3>1, <3>2, <3>3 DEF RuntimeRow
  <2>3. deployment' \in DeploymentRow
    BY DEF RequestProvisioning, RowTypes, DeploymentRow
  <2> QED
    BY <1>1, <1>3, <1>7, <2>1, <2>2, <2>3 DEF RowTypes
<1>9. ConfigInv'
  BY <1>1, <1>3, <1>5, <1>7 DEF ConfigInv
<1>10. ExpiringIsPursued'
  BY <1>1, <1>7, StillPursued
<1> QED
  BY <1>7, <1>8, <1>9, <1>10

\* The other requests leave the configuration revisions alone.
LEMMA QueuedStep ==
  ASSUME IndInv, NEW x, x \in Row(LastConfig), RowOK(x),
         Ordering(x) => LifecycleInProgress = {},
         x.action \in {"config.apply", "config.apply-user", "config.stage"}
           => area = "config" /\ x.config # NoConfig,
         x.action # "deployment.provision",
         commands' = Append(commands, x), UNCHANGED <<area, configs, releases, alerts>>,
         agent' \in AgentRow, runtime' \in RuntimeRow(LastConfig),
         runtime'.config = runtime.config, runtime'.env = runtime.env,
         deployment' \in DeploymentRow, backup' \in BackupRow,
         backup'.status = "expiring" =>
           \/ backup.status = "expiring"
           \/ x.action = "backup.expire" /\ x.state = "queued"
  PROVE  IndInv'
<1> USE DEF IndInv
<1>1. LastConfig' = LastConfig /\ LastConfig \in Nat /\ configs' \in Seq(ConfigRow)
  BY DEF RowTypes, LastConfig
<1>2. /\ commands' \in Seq(Row(LastConfig')) /\ RowsInv' /\ OneOrdering'
      /\ DOMAIN commands' = DOMAIN commands \cup {Len(commands) + 1}
      /\ \A c \in DOMAIN commands : commands'[c] = commands[c]
      /\ commands'[Len(commands) + 1] = x
  BY <1>1, Enqueued
<1>3. RowTypes'
  BY <1>1, <1>2 DEF RowTypes
<1>4. ConfigInv'
  BY <1>1, <1>2 DEF ConfigInv
<1>5. ExpiringIsPursued'
  <2>1. CASE backup'.status = "expiring" => backup.status = "expiring"
    BY <1>2, <2>1, StillPursued
  <2>2. CASE x.action = "backup.expire" /\ x.state = "queued"
    BY <1>2, <2>2 DEF ExpiringIsPursued, ActiveStates
  <2> QED
    BY <2>1, <2>2
<1> QED
  BY <1>2, <1>3, <1>4, <1>5

\* A lifecycle request is refused while another one is active.
LEMMA LifecycleStep ==
  ASSUME IndInv, NEW request \in DOMAIN ActionOf, RequestLifecycle(request)
  PROVE  IndInv'
<1> USE DEF IndInv
<1> DEFINE x == NewCommand(ActionOf[request], NoConfig,
                  IF request = "delete" THEN "approved" ELSE "none", "none")
<1>1. request \in {"pause", "resume", "delete"}
  BY DEF ActionOf
<1>2. ActionOf[request] \in LifecycleActions /\ DesiredOf[request] \in {"suspended", "running",
        "deleted"}
  BY <1>1 DEF ActionOf, LifecycleActions, DesiredOf
<1>3. LastConfig \in Nat
  BY DEF RowTypes, LastConfig
<1>4. ActionOf[request] \in Actions /\ NoConfig \in 0..LastConfig
      /\ ActionOf[request] \notin {"backup.restore", "backup.expire"}
  BY <1>2, <1>3 DEF Actions, NoConfig, LifecycleActions
<1>5. /\ x \in Row(LastConfig) /\ RowOK(x) /\ x.action \in LifecycleActions
      /\ commands' = Append(commands, x) /\ LifecycleInProgress = {}
  BY <1>2, <1>3, <1>4, NewRow DEF RequestLifecycle, Runs
<1> HIDE DEF x
<1>6. agent' \in AgentRow
  <2>1. agent \in AgentRow
    BY DEF RowTypes
  <2>2. agent' = [agent EXCEPT !.desired = DesiredOf[request],
                    !.init = IF request = "delete" THEN "deleting" ELSE agent.init]
    BY DEF RequestLifecycle
  <2> QED
    BY <1>2, <2>1, <2>2 DEF AgentRow
<1>7. /\ runtime' \in RuntimeRow(LastConfig)
      /\ runtime'.config = runtime.config /\ runtime'.env = runtime.env
  <2>1. runtime \in RuntimeRow(LastConfig)
    BY DEF RowTypes
  <2>2. runtime' \in {runtime, [runtime EXCEPT !.status = "deleting"]}
    BY DEF RequestLifecycle
  <2> QED
    BY <2>1, <2>2 DEF RuntimeRow, AtRest
<1>8. deployment' \in DeploymentRow
  BY DEF RequestLifecycle, RowTypes, DeploymentRow
<1>9. UNCHANGED <<area, configs, releases, alerts, backup>>
  BY DEF RequestLifecycle
<1>10. backup' \in BackupRow
  BY <1>9 DEF RowTypes
<1>11. x.action \notin {"config.apply", "config.apply-user", "config.stage",
                        "deployment.provision"}
  BY <1>5 DEF LifecycleActions
<1> QED
  BY <1>5, <1>6, <1>7, <1>8, <1>9, <1>10, <1>11, QueuedStep

\* An administrator's request adds one row that was never leased.
LEMMA OperationStep ==
  ASSUME IndInv, NEW action \in AdminActions[area],
         NEW config \in (IF area = "config" THEN DOMAIN configs ELSE {NoConfig}),
         RequestOperation(action, config)
  PROVE  IndInv'
<1> USE DEF IndInv
<1> DEFINE ap == IF action \in approvalControlActions THEN "pending" ELSE "none"
           rn == RunOf(action)
           x == NewCommand(action, config, ap, rn)
<1>1. area \in {"lifecycle", "health", "config", "backup", "release"}
  BY PlatformAssumption DEF RowTypes
<1>2. /\ action \in Actions \ ({"backup.restore", "deployment.provision", "backup.expire"}
                                 \cup LifecycleActions)
      /\ action \in {"config.apply", "config.apply-user", "config.stage"} => area = "config"
  BY <1>1 DEF RequestOperation, AdminActions, Actions, LifecycleActions
<1>3. LastConfig \in Nat /\ DOMAIN configs = 1..LastConfig
  BY DEF RowTypes, LastConfig
<1>4. config \in 0..LastConfig /\ (area = "config" => config # NoConfig)
  BY <1>3 DEF NoConfig
<1>5. rn \in Runs /\ ap \in {"none", "pending", "approved"} /\ action \in Actions
      /\ action # "backup.restore" /\ action # "backup.expire"
  BY <1>2 DEF RunOf, Runs
<1>6. commands' = Append(commands, x) /\ UNCHANGED <<area, configs, releases, alerts, agent,
                                                     runtime, deployment>>
  BY DEF RequestOperation, Enqueue
<1> HIDE DEF ap, rn
<1>7. /\ x \in Row(LastConfig) /\ RowOK(x) /\ x.action = action /\ x.config = config
  BY <1>3, <1>4, <1>5, NewRow
<1> HIDE DEF x
<1>8. ~Ordering(x)
  BY <1>2, <1>7 DEF Ordering
<1>9. backup' \in BackupRow /\ (backup'.status = "expiring" => backup.status = "expiring")
  BY DEF RequestOperation, RowTypes, BackupRow
<1>10. agent' \in AgentRow /\ runtime' \in RuntimeRow(LastConfig) /\ deployment' \in DeploymentRow
  BY <1>6 DEF RowTypes
<1> QED
  BY <1>2, <1>4, <1>7, <1>6, <1>8, <1>9, <1>10, QueuedStep

\* A restore request adds a run and its command.
LEMMA RestoreStep ==
  ASSUME IndInv, RequestRestore
  PROVE  IndInv'
<1> USE DEF IndInv
<1> DEFINE x == NewCommand("backup.restore", NoConfig, "pending", "requested")
<1>1. LastConfig \in Nat /\ NoConfig \in 0..LastConfig
  BY DEF RowTypes, LastConfig, NoConfig
<1>2. "backup.restore" \in Actions /\ "requested" \in Runs
  BY DEF Actions, Runs
<1>3. /\ x \in Row(LastConfig) /\ RowOK(x) /\ x.action = "backup.restore"
  BY <1>1, <1>2, NewRow
<1>4. /\ commands' = Append(commands, x)
      /\ UNCHANGED <<area, configs, releases, alerts, agent, runtime, deployment, backup>>
  BY DEF RequestRestore, Enqueue, RunOf, approvalControlActions
<1> HIDE DEF x
<1>5. ~Ordering(x)
  BY <1>3 DEF Ordering, LifecycleActions
<1>6. agent' \in AgentRow /\ runtime' \in RuntimeRow(LastConfig) /\ deployment' \in DeploymentRow
      /\ backup' \in BackupRow
  BY <1>4 DEF RowTypes
<1> QED
  BY <1>3, <1>4, <1>5, <1>6, QueuedStep

\* A backup becomes expiring together with its backup.expire command.
LEMMA RetentionStep ==
  ASSUME IndInv, EnforceRetention
  PROVE  IndInv'
<1> USE DEF IndInv
<1> DEFINE x == NewCommand("backup.expire", NoConfig, "none", "none")
<1>1. LastConfig \in Nat /\ NoConfig \in 0..LastConfig
  BY DEF RowTypes, LastConfig, NoConfig
<1>2. "backup.expire" \in Actions /\ "none" \in Runs
  BY DEF Actions, Runs
<1>3. /\ x \in Row(LastConfig) /\ RowOK(x) /\ x.action = "backup.expire" /\ x.state = "queued"
  BY <1>1, <1>2, NewRow
<1>4. /\ commands' = Append(commands, x)
      /\ UNCHANGED <<area, configs, releases, alerts, agent, runtime, deployment>>
  BY DEF EnforceRetention
<1> HIDE DEF x
<1>5. ~Ordering(x)
  BY <1>3 DEF Ordering, LifecycleActions
<1>6. agent' \in AgentRow /\ runtime' \in RuntimeRow(LastConfig) /\ deployment' \in DeploymentRow
  BY <1>4 DEF RowTypes
<1>7. backup' \in BackupRow
  BY DEF EnforceRetention, RowTypes, BackupRow
<1> QED
  BY <1>3, <1>4, <1>5, <1>6, <1>7, QueuedStep

-----------------------------------------------------------------------------
(* Owner configurations. *)

\* A sequence of rows whose rows are changed one by one.
LEMMA RowsOf ==
  ASSUME NEW S, NEW T, NEW cs \in Seq(T), NEW f,
         f = [c \in DOMAIN cs |-> f[c]], \A c \in DOMAIN cs : f[c] \in S
  PROVE  f \in Seq(S) /\ DOMAIN f = DOMAIN cs /\ Len(f) = Len(cs)
<1>1. DOMAIN cs = 1..Len(cs) /\ Len(cs) \in Nat
  OBVIOUS
<1> QED
  BY <1>1

\* Cancelling a queued command that is no restore.
LEMMA CancelRow ==
  ASSUME NEW n \in Nat, NEW x \in Row(n), RowOK(x), x.state = "queued",
         x.action = "config.apply-user"
  PROVE  LET y == [x EXCEPT !.state = "cancelled"]
         IN  /\ y \in Row(n) /\ RowOK(y) /\ ~Ordering(y)
             /\ y.action = x.action /\ y.config = x.config
<1> DEFINE y == [x EXCEPT !.state = "cancelled"]
<1>1. y \in Row(n) /\ y.state = "cancelled" /\ y.action = x.action /\ y.config = x.config
      /\ y.approval = x.approval /\ y.attempts = x.attempts /\ y.run = x.run
  BY DEF Row, CommandStates, FinalStates
<1> HIDE DEF y
<1>2. RowOK(y) /\ ~Ordering(y)
  BY <1>1 DEF RowOK, Approved, Leased, Agrees, RestoreOK, ReportsOK, ExpireOK, Ordering,
             ActiveStates
<1> QED
  BY <1>1, <1>2 DEF y

\* An owner request supersedes the configurations it replaces.
LEMMA OwnerStep ==
  ASSUME IndInv, NEW scope \in {"skills", "identity"}, RequestOwnerConfiguration(scope)
  PROVE  IndInv'
<1> USE DEF IndInv
<1> DEFINE n == LastConfig
           SC == SupersededCommands(scope)
           cs == [c \in DOMAIN commands |->
                    IF c \in SC THEN [commands[c] EXCEPT !.state = "cancelled"]
                    ELSE commands[c]]
           x == NewCommand("config.apply-user", n + 1, "none", "none")
           ks == SupersededConfigs(scope)
           k0 == [scope |-> scope, status |-> "approved"]
           l == Len(commands) + 1
<1>1. /\ configs' = Append(ks, k0) /\ commands' = Append(cs, x) /\ area = "config"
      /\ UNCHANGED <<area, agent, runtime, deployment, backup, releases, alerts>>
  BY DEF RequestOwnerConfiguration
<1>2. n \in Nat /\ n + 1 \in Nat /\ n <= n + 1 /\ DOMAIN configs = 1..n
      /\ n + 1 \in 0..(n + 1)
  BY DEF RowTypes, LastConfig
<1>3. /\ ks = [k \in DOMAIN configs |-> ks[k]]
      /\ \A k \in DOMAIN configs : ks[k] \in {configs[k], [configs[k] EXCEPT !.status = "superseded"]}
      /\ \A k \in DOMAIN configs : ks[k] # configs[k] => configs[k].status = "approved"
  BY DEF SupersededConfigs
<1>4. \A k \in DOMAIN configs : configs[k] \in ConfigRow
  BY DEF RowTypes
<1>5. \A k \in DOMAIN configs : ks[k] \in ConfigRow
  BY <1>3, <1>4 DEF ConfigRow
<1>6. configs \in Seq(ConfigRow)
  BY DEF RowTypes
<1> HIDE DEF ks
<1>7. ks \in Seq(ConfigRow) /\ DOMAIN ks = 1..n /\ Len(ks) = n
  BY <1>2, <1>3, <1>5, <1>6, RowsOf DEF LastConfig
<1>8. k0 \in ConfigRow
  BY DEF ConfigRow
<1> HIDE DEF k0
<1>9. /\ configs' \in Seq(ConfigRow) /\ LastConfig' = n + 1
      /\ DOMAIN configs' = 1..n \cup {n + 1}
      /\ \A k \in 1..n : configs'[k] = ks[k]
  BY <1>1, <1>7, <1>8, AppendRow DEF LastConfig
<1>10. "config.apply-user" \in Actions /\ "none" \in Runs
  BY DEF Actions, Runs
<1>11. /\ x \in Row(n + 1) /\ RowOK(x) /\ x.action = "config.apply-user"
       /\ x.config = n + 1
  BY <1>2, <1>10, NewRow
<1>12. commands \in Seq(Row(n + 1)) /\ \A c \in DOMAIN commands : commands[c] \in Row(n)
  BY <1>2, RowsWider DEF RowTypes
<1>13. \A c \in DOMAIN commands :
         /\ cs[c] \in Row(n) /\ RowOK(cs[c]) /\ cs[c].action = commands[c].action
         /\ cs[c].config = commands[c].config
         /\ Ordering(cs[c]) => Ordering(commands[c])
         /\ commands[c].action # "config.apply-user" => cs[c] = commands[c]
  <2> SUFFICES ASSUME NEW c \in DOMAIN commands
               PROVE  /\ cs[c] \in Row(n) /\ RowOK(cs[c])
                      /\ cs[c].action = commands[c].action
                      /\ cs[c].config = commands[c].config
                      /\ Ordering(cs[c]) => Ordering(commands[c])
                      /\ commands[c].action # "config.apply-user" => cs[c] = commands[c]
    OBVIOUS
  <2>1. CASE c \in SC
    <3>1. commands[c].state = "queued" /\ commands[c].action = "config.apply-user"
      BY <2>1 DEF SupersededCommands
    <3>2. cs[c] = [commands[c] EXCEPT !.state = "cancelled"]
      BY <2>1
    <3>3. commands[c] \in Row(n) /\ RowOK(commands[c])
      BY <1>12 DEF RowsInv
    <3> HIDE DEF cs, n, SC
    <3> QED
      BY <3>1, <3>2, <3>3, <1>2, CancelRow
  <2>2. CASE c \notin SC
    <3>1. cs[c] = commands[c]
      BY <2>2
    <3> QED
      BY <3>1, <1>12 DEF RowsInv
  <2> QED
    BY <2>1, <2>2
<1>14. cs = [c \in DOMAIN commands |-> cs[c]]
  OBVIOUS
<1> HIDE DEF cs, x, n, SC
<1>15. \A c \in DOMAIN commands : cs[c] \in Row(n + 1)
  BY <1>2, <1>13, RowWider
<1>16. cs \in Seq(Row(n + 1)) /\ DOMAIN cs = DOMAIN commands /\ Len(cs) = Len(commands)
  BY <1>12, <1>14, <1>15, RowsOf
<1>17. /\ commands' \in Seq(Row(n + 1)) /\ DOMAIN commands' = DOMAIN commands \cup {l}
       /\ \A c \in DOMAIN commands : commands'[c] = cs[c]
       /\ commands'[l] = x
  BY <1>1, <1>11, <1>16, AppendRow
<1> HIDE DEF l
<1>18. RowsInv'
  BY <1>11, <1>13, <1>17 DEF RowsInv
<1>19. OneOrdering'
  <2>1. ~Ordering(x)
    BY <1>11 DEF Ordering, LifecycleActions
  <2> QED
    BY <1>13, <1>17, <2>1 DEF OneOrdering
<1>20. RowTypes'
  <2>1. runtime \in RuntimeRow(n + 1)
    <3>1. 0..n \subseteq 0..(n + 1)
      BY <1>2
    <3>2. runtime \in RuntimeRow(n)
      BY DEF RowTypes, n
    <3> QED
      BY <3>1, <3>2 DEF RuntimeRow
  <2> QED
    BY <1>1, <1>9, <1>17, <2>1 DEF RowTypes
<1>21. ConfigInv'
  <2>1. \A c \in DOMAIN commands' :
          /\ commands'[c].action \in {"config.apply", "config.apply-user", "config.stage"}
               => area' = "config" /\ commands'[c].config # NoConfig
          /\ commands'[c].action = "deployment.provision" => area' = "lifecycle"
    <3>1. n + 1 # NoConfig
      BY <1>2 DEF NoConfig
    <3>2. /\ \A c \in DOMAIN commands : commands'[c].action = commands[c].action
                                        /\ commands'[c].config = commands[c].config
          /\ commands'[l].action = "config.apply-user" /\ commands'[l].config = n + 1
      BY <1>11, <1>13, <1>17
    <3> QED
      BY <1>1, <1>17, <3>1, <3>2 DEF ConfigInv
  <2>2. ASSUME NEW k \in DOMAIN configs', configs'[k].status \in {"approved", "superseded"}
        PROVE  runtime'.config # k /\ runtime'.env # k
    <3>1. CASE k \in 1..n
      <4>1. configs'[k] = ks[k] /\ k \in DOMAIN configs
        BY <1>2, <1>9, <3>1
      <4>2. configs[k].status \in {"approved", "superseded"}
        BY <1>3, <2>2, <4>1
      <4> QED
        BY <1>1, <4>1, <4>2 DEF ConfigInv
    <3>2. CASE k = n + 1
      <4>1. runtime \in RuntimeRow(n)
        BY DEF RowTypes, n
      <4>2. runtime.config \in 0..n /\ runtime.env \in 0..n
        BY <4>1 DEF RuntimeRow
      <4> QED
        BY <1>1, <1>2, <3>2, <4>2
    <3> QED
      BY <1>9, <3>1, <3>2
  <2> QED
    BY <1>1, <2>1, <2>2 DEF ConfigInv
<1>22. ExpiringIsPursued'
  BY <1>1, <1>13, <1>17, StillPursued
<1> QED
  BY <1>18, <1>19, <1>20, <1>21, <1>22

-----------------------------------------------------------------------------
(* Decisions, deadlines and leases: rows change in place. *)

\* Rows may move as long as each stays consistent, none begins to order the others,
\* and the pursuit of an expiring backup goes on.
LEMMA MovedStep ==
  ASSUME IndInv, UNCHANGED <<area, agent, runtime, deployment, configs, releases, alerts>>,
         backup' \in BackupRow, commands' = [c \in DOMAIN commands |-> commands'[c]],
         \A c \in DOMAIN commands :
           /\ commands'[c] \in Row(LastConfig) /\ RowOK(commands'[c])
           /\ commands'[c].action = commands[c].action
           /\ commands'[c].config = commands[c].config
           /\ Ordering(commands'[c]) => Ordering(commands[c]),
         backup'.status = "expiring" =>
           /\ backup.status = "expiring"
           /\ \A c \in DOMAIN commands :
                commands[c].action = "backup.expire" /\ commands[c].state \in ActiveStates =>
                  commands'[c].state \in ActiveStates
  PROVE  IndInv'
<1> USE DEF IndInv
<1>1. LastConfig' = LastConfig
  BY DEF LastConfig
<1>2. commands \in Seq(Row(LastConfig))
  BY DEF RowTypes
<1>3. commands' \in Seq(Row(LastConfig)) /\ DOMAIN commands' = DOMAIN commands
  BY <1>2, RowsOf
<1>4. RowTypes'
  BY <1>1, <1>3 DEF RowTypes
<1>5. RowsInv' /\ OneOrdering' /\ ConfigInv'
  BY <1>3 DEF RowsInv, OneOrdering, ConfigInv
<1>6. ExpiringIsPursued'
  BY <1>3 DEF ExpiringIsPursued
<1> QED
  BY <1>4, <1>5, <1>6

\* The row c alone changes.
LEMMA OneRow ==
  ASSUME IndInv, UNCHANGED <<area, agent, runtime, deployment, configs, releases, alerts,
                             backup>>,
         NEW c \in DOMAIN commands, NEW y, commands' = [commands EXCEPT ![c] = y],
         y \in Row(LastConfig), RowOK(y), y.action = commands[c].action,
         y.config = commands[c].config, Ordering(y) => Ordering(commands[c]),
         y.action = "backup.expire" => y.state = commands[c].state
  PROVE  IndInv'
<1>1. commands \in Seq(Row(LastConfig)) /\ \A d \in DOMAIN commands : RowOK(commands[d])
  BY DEF IndInv, RowTypes, RowsInv
<1>2. /\ commands' = [d \in DOMAIN commands |-> commands'[d]]
      /\ commands'[c] = y
      /\ \A d \in DOMAIN commands \ {c} : commands'[d] = commands[d]
  BY <1>1
<1>3. \A d \in DOMAIN commands : commands[d] \in Row(LastConfig)
  BY <1>1
<1>4. backup' \in BackupRow
  BY DEF IndInv, RowTypes
<1>5. \A d \in DOMAIN commands :
        /\ commands'[d] \in Row(LastConfig) /\ RowOK(commands'[d])
        /\ commands'[d].action = commands[d].action
        /\ commands'[d].config = commands[d].config
        /\ Ordering(commands'[d]) => Ordering(commands[d])
        /\ commands[d].action = "backup.expire" => commands'[d].state = commands[d].state
  <2> TAKE d \in DOMAIN commands
  <2>1. CASE d = c
    BY <1>2, <2>1
  <2>2. CASE d # c
    BY <1>1, <1>2, <1>3, <2>2
  <2> QED
    BY <2>1, <2>2
<1> QED
  BY <1>2, <1>4, <1>5, MovedStep

\* decideControlApproval: a command that waits for approval was never leased.
LEMMA DecideStep ==
  ASSUME IndInv, NEW c \in DOMAIN commands, NEW decision \in {"approved", "rejected"},
         DecideApproval(c, decision)
  PROVE  IndInv'
<1> DEFINE x == commands[c]
           reject == decision = "rejected" /\ x.state = "queued"
           st == IF reject THEN "cancelled" ELSE x.state
           rn == IF decision = "rejected" /\ x.run = "requested" THEN "cancelled" ELSE x.run
           y == [x EXCEPT !.approval = decision, !.state = st, !.run = rn]
<1>1. x \in Row(LastConfig) /\ RowOK(x) /\ x.approval = "pending"
  BY DEF IndInv, RowTypes, RowsInv, DecideApproval
<1>2. commands' = [commands EXCEPT ![c] = y]
  BY DEF DecideApproval
<1>3. UNCHANGED <<area, agent, runtime, deployment, configs, releases, alerts, backup>>
  BY DEF DecideApproval
<1> HIDE DEF x
<1>4. st \in CommandStates /\ rn \in Runs
  BY <1>1 DEF Row, CommandStates, FinalStates, Runs
<1> HIDE DEF st, rn
<1>5. /\ y \in Row(LastConfig) /\ y.action = x.action /\ y.config = x.config
      /\ y.approval = decision /\ y.state = st /\ y.run = rn /\ y.attempts = x.attempts
  BY <1>1, <1>4 DEF Row
<1> HIDE DEF y
<1>6. x.attempts = <<>> /\ x.state \in {"queued", "cancelled", "expired"}
      /\ DOMAIN x.attempts = {}
  BY <1>1 DEF RowOK, Approved, Leased
<1>7. Approved(y) /\ Leased(y)
  BY <1>5, <1>6 DEF Approved, Leased, st
<1>8. Agrees(y) /\ ReportsOK(y) /\ ExpireOK(y)
  BY <1>1, <1>5, <1>6 DEF RowOK, Agrees, ReportsOK, ExpireOK
<1>9. RestoreOK(y)
  BY <1>1, <1>5, <1>6 DEF RowOK, RestoreOK, Ended, st, rn
<1>10. RowOK(y)
  BY <1>7, <1>8, <1>9 DEF RowOK
<1>11. Ordering(y) => Ordering(x)
  BY <1>5 DEF Ordering, st, ActiveStates
<1>12. y.action # "backup.expire"
  BY <1>1, <1>5 DEF RowOK, ExpireOK
<1> QED
  BY <1>2, <1>3, <1>5, <1>10, <1>11, <1>12, OneRow DEF x

\* The clock ends a wait or a lease and nothing else.
LEMMA TimeStep ==
  ASSUME IndInv, NEW c \in DOMAIN commands, CommandDue(c) \/ LeaseLapses(c)
  PROVE  IndInv'
<1> DEFINE x == commands[c]
<1>1. x \in Row(LastConfig) /\ RowOK(x)
  BY DEF IndInv, RowTypes, RowsInv
<1>2. PICK y \in {[x EXCEPT !.due = TRUE], [x EXCEPT !.lapsed = TRUE]} :
        commands' = [commands EXCEPT ![c] = y]
  BY DEF CommandDue, LeaseLapses
<1>3. UNCHANGED <<area, agent, runtime, deployment, configs, releases, alerts, backup>>
  BY DEF CommandDue, LeaseLapses
<1> HIDE DEF x
<1>4. /\ y \in Row(LastConfig) /\ y.action = x.action /\ y.config = x.config
      /\ y.approval = x.approval /\ y.state = x.state /\ y.run = x.run
      /\ y.attempts = x.attempts
  BY <1>1, <1>2 DEF Row
<1>5. RowOK(y)
  BY <1>1, <1>4 DEF RowOK, Approved, Leased, Agrees, RestoreOK, ReportsOK, ExpireOK
<1>6. Ordering(y) => Ordering(x)
  BY <1>4 DEF Ordering
<1> QED
  BY <1>2, <1>3, <1>4, <1>5, <1>6, OneRow DEF x

\* The sweep of leaseControlCommands, on one row.
LEMMA SweptRow ==
  ASSUME IndInv, NEW c \in DOMAIN commands
  PROVE  /\ Swept[c] \in Row(LastConfig) /\ RowOK(Swept[c])
         /\ Swept[c].action = commands[c].action /\ Swept[c].config = commands[c].config
         /\ Swept[c].attempts = commands[c].attempts
         /\ Swept[c].state = Requeue(c)
         /\ Requeue(c) \in ActiveStates => commands[c].state \in ActiveStates
         /\ commands[c].state \in ActiveStates /\ Expire(c) # "expired" =>
              Requeue(c) \in ActiveStates
<1> DEFINE x == commands[c]
           st == Requeue(c)
           rn == SweptRun(c)
           lp == x.lapsed /\ st # "queued"
           y == [x EXCEPT !.state = st, !.run = rn, !.lapsed = lp]
<1>1. x \in Row(LastConfig) /\ RowOK(x)
  BY DEF IndInv, RowTypes, RowsInv
<1>2. Swept[c] = y
  BY DEF Swept
<1>3. Expire(c) \in {x.state, "expired"}
      /\ (Expire(c) # x.state => x.state \in {"queued", "leased"})
      /\ (st # Expire(c) => st = "queued" /\ x.state \in {"leased", "accepted", "running"})
  BY DEF Expire, Requeue
<1>4. rn \in {x.run, "cancelled"}
      /\ (rn # x.run => st = "expired" /\ x.run = "requested")
      /\ (st = "expired" /\ x.run = "requested" => rn = "cancelled")
  BY DEF SweptRun, Requeue
<1>5. x.state \in CommandStates /\ x.run \in Runs /\ lp \in BOOLEAN
  BY <1>1 DEF Row
<1> HIDE DEF x, st, rn, lp
<1>6. st \in CommandStates /\ rn \in Runs
      /\ (st # x.state => st \in {"queued", "expired"}
                          /\ x.state \in {"queued", "leased", "accepted", "running"})
  BY <1>3, <1>4, <1>5 DEF CommandStates, ActiveStates, FinalStates, Runs
<1>7. /\ y \in Row(LastConfig) /\ y.action = x.action /\ y.config = x.config
      /\ y.approval = x.approval /\ y.state = st /\ y.run = rn /\ y.attempts = x.attempts
  BY <1>1, <1>5, <1>6 DEF Row
<1> HIDE DEF y
<1>8. Approved(y) /\ Leased(y)
  <2>1. x.approval = "rejected" => st = x.state
    <3>1. x.approval = "rejected" => x.state \in {"cancelled", "expired"}
      BY <1>1 DEF RowOK, Approved
    <3> QED
      BY <1>6, <3>1
  <2> QED
    BY <1>1, <1>6, <1>7, <2>1 DEF RowOK, Approved, Leased
<1>9. Agrees(y) /\ ReportsOK(y) /\ ExpireOK(y)
  BY <1>1, <1>6, <1>7 DEF RowOK, Agrees, ReportsOK, ExpireOK
<1>10. RestoreOK(y)
  <2>1. st = "expired" => rn # "requested"
    BY <1>4
  <2>2. st \in Ended => rn = x.run /\ x.state = st
    BY <1>4, <1>6 DEF Ended
  <2>3. rn = "running" => x.run = "running"
    BY <1>4
  <2> QED
    BY <1>1, <1>4, <1>7, <2>1, <2>2, <2>3 DEF RowOK, RestoreOK, Ended
<1>11. RowOK(y)
  BY <1>8, <1>9, <1>10 DEF RowOK
<1>12. /\ st \in ActiveStates => x.state \in ActiveStates
       /\ x.state \in ActiveStates /\ Expire(c) # "expired" => st \in ActiveStates
  BY <1>3, <1>6 DEF ActiveStates
<1> QED
  BY <1>2, <1>7, <1>11, <1>12 DEF x, st

\* A lease of an approved, queued command adds an attempt.
LEMMA LeasedRow ==
  ASSUME NEW n \in Nat, NEW x \in Row(n), RowOK(x), x.state = "queued",
         x.approval \in {"none", "approved"}
  PROVE  LET y == [x EXCEPT !.state = "leased", !.lapsed = FALSE,
                            !.attempts = Append(x.attempts, "leased")]
         IN  /\ y \in Row(n) /\ RowOK(y) /\ y.state = "leased"
             /\ y.action = x.action /\ y.config = x.config
<1> DEFINE as == Append(x.attempts, "leased")
           l == Len(x.attempts) + 1
           y == [x EXCEPT !.state = "leased", !.lapsed = FALSE, !.attempts = as]
<1>1. x.attempts \in Seq(CommandStates) /\ "leased" \in CommandStates
  BY DEF Row, CommandStates, ActiveStates
<1>2. /\ as \in Seq(CommandStates) /\ DOMAIN as = DOMAIN x.attempts \cup {l}
      /\ \A a \in DOMAIN x.attempts : as[a] = x.attempts[a]
      /\ as[l] = "leased"
  BY <1>1, AppendRow
<1> HIDE DEF as, l
<1>3. /\ y \in Row(n) /\ y.action = x.action /\ y.config = x.config
      /\ y.approval = x.approval /\ y.state = "leased" /\ y.run = x.run /\ y.attempts = as
  BY <1>1, <1>2 DEF Row
<1> HIDE DEF y
<1>4. as # <<>>
  <2>1. l \in DOMAIN as /\ DOMAIN <<>> = {}
    BY <1>2
  <2> QED
    BY <2>1
<1>5. Approved(y) /\ Leased(y) /\ ExpireOK(y)
  BY <1>3, <1>4 DEF RowOK, Approved, Leased, ExpireOK
<1>6. Agrees(y) /\ ReportsOK(y)
  BY <1>2, <1>3 DEF RowOK, Agrees, ReportsOK, Reported
<1>7. RestoreOK(y)
  BY <1>2, <1>3, <1>4 DEF RowOK, RestoreOK, Ended
<1> QED
  BY <1>3, <1>5, <1>6, <1>7 DEF RowOK, y, as

\* A lease gives each row of the batch a new attempt.
LEMMA LeaseStep ==
  ASSUME IndInv, Lease
  PROVE  IndInv'
<1> DEFINE batch == {c \in DOMAIN commands : Leasable(c)}
           leased(c) == [Swept[c] EXCEPT !.state = "leased", !.lapsed = FALSE,
                                         !.attempts = Append(Swept[c].attempts, "leased")]
<1>1. /\ commands' = [c \in DOMAIN commands |->
                        IF c \notin batch THEN Swept[c] ELSE leased(c)]
      /\ UNCHANGED <<area, agent, runtime, deployment, configs, releases, alerts>>
      /\ backup' = SweptBackup
  BY DEF Lease
<1>2. LastConfig \in Nat
  BY DEF IndInv, RowTypes, LastConfig
<1>3. \A c \in DOMAIN commands :
        /\ commands'[c] \in Row(LastConfig) /\ RowOK(commands'[c])
        /\ commands'[c].action = commands[c].action
        /\ commands'[c].config = commands[c].config
        /\ commands'[c].state \in ActiveStates => commands[c].state \in ActiveStates
        /\ commands[c].state \in ActiveStates /\ Expire(c) # "expired" =>
             commands'[c].state \in ActiveStates
  <2> TAKE c \in DOMAIN commands
  <2>1. /\ Swept[c] \in Row(LastConfig) /\ RowOK(Swept[c])
        /\ Swept[c].action = commands[c].action /\ Swept[c].config = commands[c].config
        /\ Swept[c].state = Requeue(c)
        /\ Requeue(c) \in ActiveStates => commands[c].state \in ActiveStates
        /\ commands[c].state \in ActiveStates /\ Expire(c) # "expired" =>
             Requeue(c) \in ActiveStates
    BY SweptRow
  <2>2. CASE c \notin batch
    <3>1. commands'[c] = Swept[c]
      BY <1>1, <2>2
    <3> QED
      BY <2>1, <3>1
  <2>3. CASE c \in batch
    <3>1. commands'[c] = leased(c)
      BY <1>1, <2>3
    <3>2. Swept[c].state = "queued" /\ Swept[c].approval \in {"none", "approved"}
      BY <2>3 DEF Leasable
    <3>3. /\ leased(c) \in Row(LastConfig) /\ RowOK(leased(c)) /\ leased(c).state = "leased"
          /\ leased(c).action = Swept[c].action /\ leased(c).config = Swept[c].config
      BY <1>2, <2>1, <3>2, LeasedRow
    <3> HIDE DEF leased
    <3> QED
      BY <2>1, <3>1, <3>2, <3>3 DEF ActiveStates
  <2> QED
    BY <2>2, <2>3
<1>4. commands' = [c \in DOMAIN commands |-> commands'[c]]
  BY <1>1
<1>5. backup' \in BackupRow
  BY <1>1 DEF IndInv, RowTypes, SweptBackup, BackupRow
<1>6. backup'.status = "expiring" =>
        /\ backup.status = "expiring"
        /\ \A c \in DOMAIN commands : commands[c].action = "backup.expire" =>
                                        Expire(c) # "expired"
  <2>1. backup \in BackupRow
    BY DEF IndInv, RowTypes
  <2> QED
    BY <1>1, <2>1 DEF SweptBackup, BackupRow
<1>7. \A c \in DOMAIN commands : Ordering(commands'[c]) => Ordering(commands[c])
  BY <1>3 DEF Ordering
<1> QED
  BY <1>1, <1>3, <1>4, <1>5, <1>6, <1>7, MovedStep

-----------------------------------------------------------------------------
(* Receipts. *)

\* What a receipt that is taken says: it moves a leased command forward, or
\* repeats the state the command is in, and an outcome once recorded stays.
LEMMA ReceiptTaken ==
  ASSUME IndInv, NEW c \in DOMAIN commands, NEW a \in DOMAIN commands[c].attempts,
         NEW s \in Reports(commands[c].attempts[a]), Takes(c, s)
  PROVE  /\ s \in {"accepted", "running", "succeeded", "failed"}
         /\ commands[c].state \in {"leased", "accepted", "running", "succeeded", "failed"}
         /\ commands[c].state \in {"succeeded", "failed"} => s = commands[c].state
         /\ s = "accepted" => commands[c].attempts[a] \in {"leased", "accepted"}
<1>1. commands[c].attempts[a] \in Reported
  BY DEF IndInv, RowsInv, RowOK, ReportsOK
<1>2. /\ s \in {"accepted", "running", "succeeded", "failed"}
      /\ s = "accepted" => commands[c].attempts[a] \in {"leased", "accepted"}
  BY <1>1 DEF Reported, Reports
<1>3. commands[c].state \in CommandStates
  <2>1. commands[c] \in Row(LastConfig)
    BY DEF IndInv, RowTypes
  <2> QED
    BY <2>1 DEF Row
<1>4. DOMAIN allowed = {"leased", "accepted", "running"}
  BY DEF allowed
<1> QED
  BY <1>2, <1>3, <1>4 DEF Takes, CommandStates, ActiveStates, FinalStates

\* recordCommandReceipt on the command's own row.
LEMMA ReceiptRow ==
  ASSUME IndInv, NEW c \in DOMAIN commands, NEW a \in DOMAIN commands[c].attempts,
         NEW s \in Reports(commands[c].attempts[a]), RecordReceipt(c, a, s)
  PROVE  /\ commands' = [d \in DOMAIN commands |-> commands'[d]]
         /\ commands'[c] \in Row(LastConfig) /\ RowOK(commands'[c])
         /\ commands'[c].action = commands[c].action
         /\ commands'[c].config = commands[c].config
         /\ commands'[c].state = s
         /\ \A d \in DOMAIN commands \ {c} : commands'[d] = commands[d]
<1> DEFINE x == commands[c]
           as == [x.attempts EXCEPT ![a] = s]
           rn == RunAfter(x, s)
           lp == IF s = "running" THEN FALSE ELSE x.lapsed
           y == [x EXCEPT !.state = s, !.attempts = as, !.run = rn, !.lapsed = lp]
<1>1. x \in Row(LastConfig) /\ RowOK(x) /\ commands \in Seq(Row(LastConfig))
  BY DEF IndInv, RowTypes, RowsInv
<1>2. Takes(c, s)
  BY DEF RecordReceipt
<1>3. /\ s \in {"accepted", "running", "succeeded", "failed"}
      /\ x.state \in {"leased", "accepted", "running", "succeeded", "failed"}
      /\ x.state \in {"succeeded", "failed"} => s = x.state
      /\ s = "accepted" => x.attempts[a] \in {"leased", "accepted"}
  BY <1>2, ReceiptTaken
<1>4. commands' = [commands EXCEPT ![c] = y]
  BY <1>1 DEF RecordReceipt, Row
<1>5. x.attempts \in Seq(CommandStates) /\ x.run \in Runs /\ x.lapsed \in BOOLEAN
      /\ s \in CommandStates /\ a \in DOMAIN x.attempts
  BY <1>1, <1>3 DEF Row, CommandStates, ActiveStates, FinalStates
<1>6. /\ as \in Seq(CommandStates) /\ DOMAIN as = DOMAIN x.attempts /\ as[a] = s
      /\ \A b \in DOMAIN x.attempts \ {a} : as[b] = x.attempts[b]
  BY <1>5
<1>7. rn \in Runs /\ lp \in BOOLEAN
  BY <1>3, <1>5 DEF RunAfter, Runs
<1>8. x.action = "backup.restore" =>
        rn = (IF x.run = "none" THEN "none" ELSE IF s = "accepted" THEN x.run ELSE s)
  BY DEF RunAfter
<1> HIDE DEF x, as, rn, lp
<1>9. /\ y \in Row(LastConfig) /\ y.action = x.action /\ y.config = x.config
      /\ y.approval = x.approval /\ y.state = s /\ y.run = rn /\ y.attempts = as
  BY <1>1, <1>5, <1>6, <1>7 DEF Row
<1> HIDE DEF y
<1>10. as # <<>> /\ x.attempts # <<>>
  <2>1. a \in DOMAIN as /\ a \in DOMAIN x.attempts /\ DOMAIN <<>> = {}
    BY <1>5, <1>6
  <2> QED
    BY <2>1
<1>11. Approved(y) /\ Leased(y) /\ ExpireOK(y)
  BY <1>1, <1>9, <1>10 DEF RowOK, Approved, Leased, ExpireOK
<1>12. Agrees(y) /\ ReportsOK(y)
  BY <1>1, <1>3, <1>5, <1>6, <1>9 DEF RowOK, Agrees, ReportsOK, Reported
<1>13. RestoreOK(y)
  <2> SUFFICES ASSUME x.action = "backup.restore"
               PROVE  RestoreOK(y)
    BY <1>9 DEF RestoreOK
  <2>1. /\ x.run \in {"requested", "running"} \cup Ended
        /\ x.run = "running" => \E b \in DOMAIN x.attempts : x.attempts[b] = "running"
    BY <1>1 DEF RowOK, RestoreOK
  <2>2. rn = IF s = "accepted" THEN x.run ELSE s
    BY <1>8, <2>1 DEF Ended
  <2>3. rn = "running" => \E b \in DOMAIN as : as[b] = "running"
    BY <1>3, <1>5, <1>6, <2>1, <2>2
  <2>4. rn \in {"requested", "running"} \cup Ended /\ (s \in Ended => rn \in Ended)
    BY <1>3, <2>1, <2>2 DEF Ended
  <2> QED
    BY <1>3, <1>9, <1>10, <2>3, <2>4 DEF RestoreOK
<1>14. RowOK(y)
  BY <1>11, <1>12, <1>13 DEF RowOK
<1> QED
  BY <1>1, <1>4, <1>9, <1>14 DEF x

\* What a receipt does to the Agent, its deployment, its releases and its backup
\* keeps their shape.  It ends an expiring backup when it ends a backup.expire.
LEMMA ReceiptTypes ==
  ASSUME RowTypes, NEW cmd \in Row(LastConfig),
         NEW s \in {"accepted", "running", "succeeded", "failed"}
  PROVE  /\ AgentAfter(cmd, s) \in AgentRow
         /\ DeploymentAfter(cmd, s) \in DeploymentRow
         /\ ReleasesAfter(cmd, s) \in [Releases -> {"candidate", "approved", "rolling_out",
                                                    "released", "blocked", "withdrawn"}]
         /\ BackupAfter(cmd, s) \in BackupRow
         /\ BackupAfter(cmd, s).status = "expiring" =>
              /\ backup.status = "expiring"
              /\ cmd.action = "backup.expire" => s \in ActiveStates
<1>1. AgentAfter(cmd, s) \in AgentRow
  <2>1. agent \in AgentRow
    BY DEF RowTypes
  <2> QED
    BY <2>1 DEF AgentAfter, AgentRow
<1>2. DeploymentAfter(cmd, s) \in DeploymentRow
  <2>1. deployment \in DeploymentRow
    BY DEF RowTypes
  <2> QED
    BY <2>1 DEF DeploymentAfter, DeploymentRow
<1>3. ReleasesAfter(cmd, s) \in [Releases -> {"candidate", "approved", "rolling_out",
                                              "released", "blocked", "withdrawn"}]
  <2>1. releases \in [Releases -> {"candidate", "approved", "rolling_out",
                                   "released", "blocked", "withdrawn"}]
    BY DEF RowTypes
  <2> QED
    BY <2>1 DEF ReleasesAfter, Releases
<1>4. backup \in BackupRow
  BY DEF RowTypes
<1>5. BackupAfter(cmd, s) \in BackupRow
  BY <1>4 DEF BackupAfter, BackupRow
<1>6. BackupAfter(cmd, s).status = "expiring" =>
        /\ backup.status = "expiring"
        /\ cmd.action = "backup.expire" => s \in ActiveStates
  BY <1>4 DEF BackupAfter, BackupRow, ActiveStates
<1> QED
  BY <1>1, <1>2, <1>3, <1>5, <1>6

\* What a receipt does to the configuration revisions and the Runtime: a revision
\* that comes into force is recorded as applied in the same transaction.
LEMMA ReceiptConfigs ==
  ASSUME IndInv, NEW c \in DOMAIN commands,
         NEW s \in {"accepted", "running", "succeeded", "failed"},
         configs' = ConfigsAfter(commands[c], s), runtime' = RuntimeAfter(commands[c], s)
  PROVE  /\ configs' \in Seq(ConfigRow) /\ LastConfig' = LastConfig
         /\ DOMAIN configs' = DOMAIN configs
         /\ runtime' \in RuntimeRow(LastConfig)
         /\ area # "config" => \A k \in DOMAIN configs : configs'[k].status # "superseded"
         /\ area = "config" =>
              \A k \in DOMAIN configs :
                configs'[k].status \in {"approved", "superseded"} =>
                  runtime'.config # k /\ runtime'.env # k
<1> DEFINE cmd == commands[c]
           n == LastConfig
           k0 == cmd.config
           Apply == {"config.apply", "config.apply-user"}
<1>1. n \in Nat /\ DOMAIN configs = 1..n /\ configs \in Seq(ConfigRow)
  BY DEF IndInv, RowTypes, LastConfig
<1>2. cmd \in Row(n)
  BY DEF IndInv, RowTypes
<1>3. k0 \in 0..n
  BY <1>2 DEF Row
<1>4. /\ cmd.action \in Apply \cup {"config.stage"} => area = "config" /\ k0 # NoConfig
      /\ cmd.action = "deployment.provision" => area = "lifecycle"
  BY DEF IndInv, ConfigInv
<1>5. runtime \in RuntimeRow(n)
  BY DEF IndInv, RowTypes
<1> HIDE DEF cmd, n
<1>6. runtime' \in RuntimeRow(n)
  BY <1>3, <1>5 DEF RuntimeAfter, RuntimeRow, AtRest, cmd
<1>7. /\ ~(cmd.action \in Apply /\ s = "succeeded") /\ cmd.action # "deployment.provision" =>
           runtime'.config = runtime.config /\ runtime'.env = runtime.env
      /\ cmd.action \in Apply /\ s = "succeeded" =>
           runtime'.config = k0 /\ runtime'.env \in {k0, runtime.env}
  BY <1>5 DEF RuntimeAfter, RuntimeRow, cmd
<1>8. /\ configs' \in Seq(ConfigRow) /\ DOMAIN configs' = DOMAIN configs
      /\ Len(configs') = Len(configs)
      /\ \A k \in DOMAIN configs : k # k0 => configs'[k] = configs[k]
      /\ k0 # NoConfig => configs'[k0].status = ConfigStatusAfter(cmd, s)
  <2>1. CASE k0 = NoConfig
    BY <1>1, <2>1 DEF ConfigsAfter, cmd
  <2>2. CASE k0 # NoConfig
    <3> DEFINE st == ConfigStatusAfter(cmd, s)
    <3>1. k0 \in DOMAIN configs
      BY <1>1, <1>3, <2>2 DEF NoConfig
    <3>2. configs[k0] \in ConfigRow
      BY <1>1, <3>1
    <3>3. st \in {"approved", "applying", "applied", "staged", "failed", "superseded"}
      BY <3>2 DEF ConfigStatusAfter, ConfigRow
    <3>4. configs' = [configs EXCEPT ![k0].status = st]
      BY <2>2 DEF ConfigsAfter, cmd
    <3> HIDE DEF st, k0
    <3>5. configs' = [configs EXCEPT ![k0] = [configs[k0] EXCEPT !.status = st]]
      BY <3>4
    <3>6. [configs[k0] EXCEPT !.status = st] \in ConfigRow
          /\ [configs[k0] EXCEPT !.status = st].status = st
      BY <3>2, <3>3 DEF ConfigRow
    <3> QED
      BY <1>1, <3>1, <3>5, <3>6 DEF st
  <2> QED
    BY <2>1, <2>2
<1>9. LastConfig' = n
  BY <1>8 DEF LastConfig, n
<1>10. /\ ConfigStatusAfter(cmd, s) \in {"approved", "superseded"} =>
            ConfigStatusAfter(cmd, s) = configs[k0].status
       /\ cmd.action \in Apply /\ s = "succeeded" => ConfigStatusAfter(cmd, s) = "applied"
  BY DEF ConfigStatusAfter
<1>11. \A k \in DOMAIN configs : configs'[k].status \in {"approved", "superseded"} =>
          configs'[k].status = configs[k].status
  <2> TAKE k \in DOMAIN configs
  <2>1. CASE k = k0
    BY <1>1, <1>8, <1>10, <2>1 DEF NoConfig
  <2>2. CASE k # k0
    BY <1>8, <2>2
  <2> QED
    BY <2>1, <2>2
<1>12. area # "config" => \A k \in DOMAIN configs : configs'[k].status # "superseded"
  BY <1>11 DEF IndInv, ConfigInv
<1>13. ASSUME area = "config", NEW k \in DOMAIN configs,
              configs'[k].status \in {"approved", "superseded"}
       PROVE  runtime'.config # k /\ runtime'.env # k
  <2>1. runtime.config # k /\ runtime.env # k
    BY <1>11, <1>13 DEF IndInv, ConfigInv
  <2>2. CASE cmd.action \in Apply /\ s = "succeeded"
    <3>1. k0 # k
      BY <1>4, <1>8, <1>10, <1>13, <2>2
    <3> QED
      BY <1>7, <2>1, <2>2, <3>1
  <2>3. CASE ~(cmd.action \in Apply /\ s = "succeeded")
    BY <1>4, <1>7, <1>13, <2>1, <2>3
  <2> QED
    BY <2>2, <2>3
<1> QED
  BY <1>6, <1>8, <1>9, <1>12, <1>13 DEF n

\* A receipt, of the last attempt or a late one, keeps all rows consistent.
LEMMA ReceiptStep ==
  ASSUME IndInv, Receipt
  PROVE  IndInv'
<1>1. PICK c \in DOMAIN commands : \E a \in DOMAIN commands[c].attempts :
             \E s \in Reports(commands[c].attempts[a]) : RecordReceipt(c, a, s)
  BY DEF Receipt
<1>2. PICK a \in DOMAIN commands[c].attempts :
             \E s \in Reports(commands[c].attempts[a]) : RecordReceipt(c, a, s)
  BY <1>1
<1>3. PICK s \in Reports(commands[c].attempts[a]) : RecordReceipt(c, a, s)
  BY <1>2
<1>4. Takes(c, s)
  BY <1>3 DEF RecordReceipt
<1>5. /\ s \in {"accepted", "running", "succeeded", "failed"}
      /\ commands[c].state \in {"leased", "accepted", "running", "succeeded", "failed"}
      /\ commands[c].state \in {"succeeded", "failed"} => s = commands[c].state
  BY <1>4, ReceiptTaken
<1>6. /\ commands' = [d \in DOMAIN commands |-> commands'[d]]
      /\ commands'[c] \in Row(LastConfig) /\ RowOK(commands'[c])
      /\ commands'[c].action = commands[c].action
      /\ commands'[c].config = commands[c].config
      /\ commands'[c].state = s
      /\ \A d \in DOMAIN commands \ {c} : commands'[d] = commands[d]
  BY <1>3, ReceiptRow
<1>7. /\ agent' = AgentAfter(commands[c], s) /\ deployment' = DeploymentAfter(commands[c], s)
      /\ configs' = ConfigsAfter(commands[c], s) /\ runtime' = RuntimeAfter(commands[c], s)
      /\ backup' = BackupAfter(commands[c], s) /\ releases' = ReleasesAfter(commands[c], s)
      /\ UNCHANGED <<area, alerts>>
  BY <1>3 DEF RecordReceipt
<1>8. RowTypes /\ RowsInv /\ OneOrdering /\ ConfigInv /\ ExpiringIsPursued
  BY DEF IndInv
<1>9. commands \in Seq(Row(LastConfig)) /\ commands[c] \in Row(LastConfig)
  BY <1>8 DEF RowTypes
<1>10. /\ configs' \in Seq(ConfigRow) /\ LastConfig' = LastConfig
       /\ DOMAIN configs' = DOMAIN configs
       /\ runtime' \in RuntimeRow(LastConfig)
       /\ area # "config" => \A k \in DOMAIN configs : configs'[k].status # "superseded"
       /\ area = "config" =>
            \A k \in DOMAIN configs :
              configs'[k].status \in {"approved", "superseded"} =>
                runtime'.config # k /\ runtime'.env # k
  BY <1>5, <1>7, ReceiptConfigs
<1>11. /\ agent' \in AgentRow /\ deployment' \in DeploymentRow /\ backup' \in BackupRow
       /\ releases' \in [Releases -> {"candidate", "approved", "rolling_out", "released",
                                      "blocked", "withdrawn"}]
       /\ backup'.status = "expiring" =>
            /\ backup.status = "expiring"
            /\ commands[c].action = "backup.expire" => s \in ActiveStates
  BY <1>5, <1>7, <1>8, <1>9, ReceiptTypes
<1>12. \A d \in DOMAIN commands : commands'[d] \in Row(LastConfig) /\ RowOK(commands'[d])
  <2>1. \A d \in DOMAIN commands : commands[d] \in Row(LastConfig) /\ RowOK(commands[d])
    BY <1>8, <1>9 DEF RowsInv
  <2> QED
    BY <1>6, <2>1
<1>13. commands' \in Seq(Row(LastConfig)) /\ DOMAIN commands' = DOMAIN commands
  BY <1>6, <1>9, <1>12, RowsOf
<1>14. RowTypes' /\ RowsInv'
  BY <1>7, <1>8, <1>10, <1>11, <1>12, <1>13 DEF RowTypes, RowsInv
<1>15. \A d \in DOMAIN commands : /\ commands'[d].action = commands[d].action
                                  /\ commands'[d].config = commands[d].config
                                  /\ Ordering(commands'[d]) => Ordering(commands[d])
  BY <1>5, <1>6 DEF Ordering, ActiveStates
<1>16. OneOrdering'
  BY <1>8, <1>13, <1>15 DEF OneOrdering
<1>17. ConfigInv'
  BY <1>7, <1>8, <1>10, <1>13, <1>15 DEF ConfigInv, LastConfig
<1>18. ExpiringIsPursued'
  <2> SUFFICES ASSUME backup'.status = "expiring"
               PROVE  ExpiringIsPursued'
    BY DEF ExpiringIsPursued
  <2>1. PICK d \in DOMAIN commands : /\ commands[d].action = "backup.expire"
                                     /\ commands[d].state \in ActiveStates
    BY <1>8, <1>11 DEF ExpiringIsPursued
  <2>2. commands'[d].action = "backup.expire" /\ commands'[d].state \in ActiveStates
    BY <1>6, <1>11, <2>1
  <2> QED
    BY <1>13, <2>2 DEF ExpiringIsPursued
<1> QED
  BY <1>14, <1>16, <1>17, <1>18 DEF IndInv

-----------------------------------------------------------------------------
(* Heartbeats, alerts and the timers. *)

\* Steps that leave the commands and the configuration revisions alone, and bring
\* no revision into force that the container did not run already.
LEMMA QuietStep ==
  ASSUME IndInv, UNCHANGED <<area, configs, commands, releases>>,
         agent' \in AgentRow, runtime' \in RuntimeRow(LastConfig),
         runtime'.config \in {runtime.config, runtime.env}, runtime'.env = runtime.env,
         deployment' \in DeploymentRow, backup' \in BackupRow,
         alerts' \in [AlertCodes -> ActiveAlert \cup {"resolved"}],
         backup'.status = backup.status
  PROVE  IndInv'
<1> USE DEF IndInv
<1>1. LastConfig' = LastConfig
  BY DEF LastConfig
<1>2. RowTypes'
  BY <1>1 DEF RowTypes
<1>3. RowsInv' /\ OneOrdering' /\ ExpiringIsPursued'
  BY DEF RowsInv, OneOrdering, ExpiringIsPursued
<1>4. ConfigInv'
  BY DEF ConfigInv
<1> QED
  BY <1>2, <1>3, <1>4

\* A heartbeat writes the configuration of the container, which is not superseded.
LEMMA HeartbeatStep ==
  ASSUME IndInv, NEW health \in {"healthy", "degraded", "unhealthy"},
         NEW age \in {"fresh", "stale"}, Heartbeat(health, age)
  PROVE  IndInv'
<1> DEFINE status == CASE health = "healthy" -> "ready"
                       [] health = "unhealthy" -> "failed"
                       [] OTHER -> "degraded"
<1>1. /\ agent \in AgentRow /\ runtime \in RuntimeRow(LastConfig)
      /\ deployment \in DeploymentRow /\ backup \in BackupRow
      /\ alerts \in [AlertCodes -> ActiveAlert \cup {"resolved"}]
  BY DEF IndInv, RowTypes
<1>2. /\ UNCHANGED <<area, configs, commands, releases, deployment, backup>>
      /\ runtime' = [runtime EXCEPT !.status = status, !.config = runtime.env, !.beat = age]
      /\ agent' = [agent EXCEPT !.init = status,
                     !.status = IF health = "healthy" THEN "active" ELSE status]
  BY DEF Heartbeat
<1>3. status \in {"ready", "failed", "degraded"} /\ (health # "healthy" => status # "ready")
  OBVIOUS
<1> HIDE DEF status
<1>4. /\ runtime' \in RuntimeRow(LastConfig)
      /\ runtime'.config = runtime.env /\ runtime'.env = runtime.env
  BY <1>1, <1>2, <1>3 DEF RuntimeRow
<1>5. agent' \in AgentRow
  BY <1>1, <1>2, <1>3 DEF AgentRow
<1>6. alerts' \in [AlertCodes -> ActiveAlert \cup {"resolved"}]
  BY <1>1 DEF Heartbeat, AlertCodes, ActiveAlert, Raise, Resolve
<1> QED
  BY <1>1, <1>2, <1>4, <1>5, <1>6, QuietStep

\* Steps that write alerts only.
LEMMA AlertStep ==
  ASSUME IndInv, UNCHANGED <<area, agent, runtime, deployment, configs, commands, backup,
                             releases>>,
         NEW code \in AlertCodes, NEW status \in ActiveAlert \cup {"resolved"},
         alerts' = [alerts EXCEPT ![code] = status]
  PROVE  IndInv'
<1>1. /\ agent \in AgentRow /\ runtime \in RuntimeRow(LastConfig)
      /\ deployment \in DeploymentRow /\ backup \in BackupRow
      /\ alerts \in [AlertCodes -> ActiveAlert \cup {"resolved"}]
  BY DEF IndInv, RowTypes
<1> QED
  BY <1>1, QuietStep

\* An alert is raised, acknowledged or resolved.
LEMMA RaisedOrResolved ==
  ASSUME IndInv, NEW code \in AlertCodes
  PROVE  {Raise(code), Resolve(code), alerts[code]} \subseteq ActiveAlert \cup {"resolved"}
<1>1. alerts[code] \in ActiveAlert \cup {"resolved"}
  BY DEF IndInv, RowTypes
<1> QED
  BY <1>1 DEF Raise, Resolve, ActiveAlert

\* Samples and evaluations touch alerts only.
LEMMA AlertsStep ==
  ASSUME IndInv,
         \/ \E high \in BOOLEAN : SaveResourceSample(high)
         \/ \E code \in AlertCodes, status \in AlertStatuses : UpdateAlert(code, status)
         \/ Evaluate
  PROVE  IndInv'
<1>1. CASE \E high \in BOOLEAN : SaveResourceSample(high)
  <2>1. PICK high \in BOOLEAN : SaveResourceSample(high)
    BY <1>1
  <2>2. "resource" \in AlertCodes
    BY DEF AlertCodes
  <2>3. (IF high THEN Raise("resource") ELSE Resolve("resource"))
          \in ActiveAlert \cup {"resolved"}
    BY <2>2, RaisedOrResolved
  <2> QED
    BY <2>1, <2>2, <2>3, AlertStep DEF SaveResourceSample
<1>2. CASE \E code \in AlertCodes, status \in AlertStatuses : UpdateAlert(code, status)
  <2>1. PICK code \in AlertCodes, status \in AlertStatuses : UpdateAlert(code, status)
    BY <1>2
  <2>2. status \in ActiveAlert \cup {"resolved"}
    BY DEF AlertStatuses, ActiveAlert
  <2> QED
    BY <2>1, <2>2, AlertStep DEF UpdateAlert
<1>3. CASE EvaluateResolve \/ EvaluateWrite
  <2> DEFINE code == "runtime.offline"
  <2>1. code \in AlertCodes
    BY DEF AlertCodes
  <2>2. PICK status \in {Raise(code), Resolve(code), alerts[code]} :
          alerts' = [alerts EXCEPT ![code] = status]
    BY <1>3 DEF EvaluateResolve, EvaluateWrite
  <2>3. status \in ActiveAlert \cup {"resolved"}
    BY <2>1, RaisedOrResolved
  <2>4. UNCHANGED <<area, agent, runtime, deployment, configs, commands, backup, releases>>
    BY <1>3 DEF EvaluateResolve, EvaluateWrite
  <2> QED
    BY <2>1, <2>2, <2>3, <2>4, AlertStep
<1>4. CASE EvaluateRead
  <2>1. UNCHANGED <<area, agent, runtime, deployment, configs, commands, backup, releases,
                    alerts>>
    BY <1>4 DEF EvaluateRead
  <2>2. /\ agent \in AgentRow /\ runtime \in RuntimeRow(LastConfig)
        /\ deployment \in DeploymentRow /\ backup \in BackupRow
        /\ alerts \in [AlertCodes -> ActiveAlert \cup {"resolved"}]
    BY DEF IndInv, RowTypes
  <2> QED
    BY <2>1, <2>2, QuietStep
<1> QED
  BY <1>1, <1>2, <1>3, <1>4 DEF Evaluate

\* Steps that touch no command.
LEMMA OtherSteps ==
  ASSUME IndInv, DeleteUninitialized \/ CheckRestore \/ HeartbeatAges \/ BackupAges
                 \/ UNCHANGED vars
  PROVE  IndInv'
<1>1. /\ agent \in AgentRow /\ runtime \in RuntimeRow(LastConfig)
      /\ deployment \in DeploymentRow /\ backup \in BackupRow
      /\ alerts \in [AlertCodes -> ActiveAlert \cup {"resolved"}]
  BY DEF IndInv, RowTypes
<1>2. UNCHANGED <<area, configs, commands, releases, deployment, alerts>>
  BY DEF DeleteUninitialized, CheckRestore, HeartbeatAges, BackupAges, vars
<1>3. agent' \in AgentRow
  BY <1>1 DEF DeleteUninitialized, CheckRestore, HeartbeatAges, BackupAges, vars, AgentRow
<1>4. runtime' \in RuntimeRow(LastConfig) /\ runtime'.config = runtime.config
      /\ runtime'.env = runtime.env
  BY <1>1 DEF DeleteUninitialized, CheckRestore, HeartbeatAges, BackupAges, vars, RuntimeRow
<1>5. backup' \in BackupRow /\ backup'.status = backup.status
  BY <1>1 DEF DeleteUninitialized, CheckRestore, HeartbeatAges, BackupAges, vars, BackupRow
<1> QED
  BY <1>1, <1>2, <1>3, <1>4, <1>5, QuietStep

-----------------------------------------------------------------------------
\* The empty tables.
LEMMA InitHolds == Init => IndInv
<1> SUFFICES ASSUME Init PROVE IndInv
  OBVIOUS
<1>1. commands = <<>> /\ DOMAIN commands = {} /\ area \in Areas
  BY DEF Init
<1>2. configs \in Seq(ConfigRow) /\ runtime \in RuntimeRow(LastConfig)
      /\ agent \in AgentRow /\ deployment \in DeploymentRow
  <2>1. CASE area = "lifecycle"
    <3>1. configs = <<>> /\ LastConfig = 0
      BY <2>1 DEF Init, LastConfig
    <3>2. 0 \in 0..0
      OBVIOUS
    <3>3. /\ agent = NewAgent /\ runtime = NewRuntime
          /\ deployment = [status |-> "none", version |-> 0]
      BY <2>1 DEF Init
    <3>4. NewRuntime \in RuntimeRow(0)
      BY <3>2 DEF NewRuntime, RuntimeRow, AtRest, NoConfig
    <3>5. NewAgent \in AgentRow /\ deployment \in DeploymentRow /\ configs \in Seq(ConfigRow)
      BY <3>1, <3>3 DEF NewAgent, AgentRow, DeploymentRow
    <3> QED
      BY <3>1, <3>3, <3>4, <3>5
  <2>2. CASE area # "lifecycle"
    <3> DEFINE k == [scope |-> "none", status |-> "applied"]
    <3>1. k \in ConfigRow
      BY DEF ConfigRow
    <3>2. configs = <<k>>
      BY <2>2 DEF Init
    <3>3. configs \in Seq(ConfigRow) /\ LastConfig = 1
      BY <3>1, <3>2 DEF LastConfig
    <3>4. 1 \in 0..1
      OBVIOUS
    <3>5. /\ agent = RunningAgent /\ runtime = RunningRuntime
          /\ deployment = [status |-> "active", version |-> 1]
      BY <2>2 DEF Init
    <3>6. RunningRuntime \in RuntimeRow(1)
      BY <3>4 DEF RunningRuntime, RuntimeRow
    <3>7. RunningAgent \in AgentRow /\ deployment \in DeploymentRow
      BY <3>5 DEF RunningAgent, AgentRow, DeploymentRow
    <3> QED
      BY <3>3, <3>5, <3>6, <3>7
  <2> QED
    BY <2>1, <2>2
<1>3. backup \in BackupRow /\ backup.status # "expiring"
  BY DEF Init, BackupRow
<1>4. commands \in Seq(Row(LastConfig))
  BY <1>1
<1>5. RowTypes
  BY <1>1, <1>2, <1>3, <1>4 DEF RowTypes, Init, Releases, ActiveAlert
<1>6. RowsInv /\ OneOrdering /\ ExpiringIsPursued
  BY <1>1, <1>3 DEF RowsInv, OneOrdering, ExpiringIsPursued
<1>7. ConfigInv
  <2>1. CASE area = "lifecycle"
    <3>1. configs = <<>> /\ Len(configs) = 0 /\ DOMAIN configs = {}
      BY <2>1 DEF Init
    <3> QED
      BY <1>1, <2>1, <3>1 DEF ConfigInv
  <2>2. CASE area # "lifecycle"
    <3>1. configs = <<[scope |-> "none", status |-> "applied"]>>
      BY <2>2 DEF Init
    <3>2. DOMAIN configs = {1} /\ configs[1].status = "applied"
      BY <3>1
    <3> QED
      BY <1>1, <2>2, <3>2 DEF ConfigInv
  <2> QED
    BY <2>1, <2>2
<1> QED
  BY <1>5, <1>6, <1>7 DEF IndInv

\* Every step preserves the invariant: one case per action.
LEMMA StepHolds == IndInv /\ [Next]_vars => IndInv'
<1> SUFFICES ASSUME IndInv, [Next]_vars PROVE IndInv'
  OBVIOUS
<1>1. CASE Owner
  BY <1>1, ProvisioningStep, OtherSteps, OwnerStep, LifecycleStep DEF Owner
<1>2. CASE Administrator
  <2>1. CASE \E action \in AdminActions[area] :
               \E config \in IF area = "config" THEN DOMAIN configs ELSE {NoConfig} :
                 RequestOperation(action, config)
    BY <2>1, OperationStep
  <2>2. CASE CheckRestore \/ RequestRestore
    BY <2>2, RestoreStep, OtherSteps
  <2>3. CASE \E c \in DOMAIN commands : \E decision \in {"approved", "rejected"} :
               DecideApproval(c, decision)
    BY <2>3, DecideStep
  <2>4. CASE \E code \in AlertCodes, status \in AlertStatuses : UpdateAlert(code, status)
    BY <2>4, AlertsStep
  <2> QED
    BY <1>2, <2>1, <2>2, <2>3, <2>4 DEF Administrator
<1>3. CASE Lease
  BY <1>3, LeaseStep
<1>4. CASE Receipt
  BY <1>4, ReceiptStep
<1>5. CASE RuntimeReports
  BY <1>5, HeartbeatStep, AlertsStep DEF RuntimeReports
<1>6. CASE Evaluate
  BY <1>6, AlertsStep
<1>7. CASE Retention
  BY <1>7, RetentionStep DEF Retention
<1>8. CASE TimePasses
  BY <1>8, TimeStep, OtherSteps DEF TimePasses
<1>9. CASE UNCHANGED vars
  BY <1>9, OtherSteps
<1> QED
  BY <1>1, <1>2, <1>3, <1>4, <1>5, <1>6, <1>7, <1>8, <1>9 DEF Next

\* The rows of an Agent keep their inductive invariant.
LEMMA RowsHold == Spec => []IndInv
<1>1. Init => IndInv
  BY InitHolds
<1>2. IndInv /\ [Next]_vars => IndInv'
  BY StepHolds
<1> QED
  BY <1>1, <1>2, PTL DEF Spec

-----------------------------------------------------------------------------
(* What follows from it. *)

\* The inductive invariant implies the types.
LEMMA TypesFollow == IndInv => TypeOK
<1> SUFFICES ASSUME IndInv PROVE TypeOK
  OBVIOUS
<1>1. RowTypes
  BY DEF IndInv
<1>2. commands \in Seq(Command)
  BY <1>1, CommandIsRow DEF RowTypes
<1>3. runtime \in RuntimeRow(LastConfig) /\ agent \in AgentRow /\ deployment \in DeploymentRow
      /\ backup \in BackupRow
  BY <1>1 DEF RowTypes
<1>4. /\ runtime.status \in AtRest \cup {"provisioning", "starting", "ready", "degraded",
                                         "failed"}
      /\ runtime.config \in 0..LastConfig /\ runtime.env \in 0..LastConfig
      /\ runtime.beat \in {"never", "fresh", "stale"}
  BY <1>3 DEF RuntimeRow
<1>5. /\ agent.init \in {"uninitialized", "provisioning", "ready", "degraded", "failed",
                         "deleting"}
      /\ agent.desired \in {"running", "stopped", "suspended", "deleted"}
  BY <1>3 DEF AgentRow
<1>6. /\ deployment.status \in {"none", "enrolling", "active", "degraded", "revoked"}
      /\ backup.status \in {"none", "creating", "created", "verifying", "verified",
                            "expiring", "expired", "failed"}
  BY <1>3 DEF DeploymentRow, BackupRow
<1> QED
  BY <1>1, <1>2, <1>4, <1>5, <1>6 DEF RowTypes, TypeOK

\* Pairs that exclude one another leave at most one lifecycle command.
LEMMA OneFollows == IndInv => OneLifecycleCommand
<1> SUFFICES ASSUME IndInv PROVE OneLifecycleCommand
  OBVIOUS
<1> DEFINE S == {c \in DOMAIN commands : /\ commands[c].action \in LifecycleActions
                                         /\ commands[c].state \in ActiveStates}
<1>1. \A c, d \in S : c = d
  BY DEF IndInv, OneOrdering, Ordering
<1> HIDE DEF S
<1>2. CASE S = {}
  BY <1>2, FS_EmptySet DEF OneLifecycleCommand, S
<1>3. CASE S # {}
  <2>1. PICK c : c \in S
    BY <1>3
  <2>2. S = {c}
    BY <1>1, <2>1
  <2>3. Cardinality(S) = 1
    BY <2>2, FS_Singleton
  <2> QED
    BY <2>3 DEF OneLifecycleCommand, S
<1> QED
  BY <1>2, <1>3

\* The command rows of an Agent stay coherent, for every bound on commands and
\* attempts: late and repeated receipts (recordCommandReceipt) never record two
\* outcomes, nothing unapproved or rejected is leased (leaseControlCommands,
\* decideControlApproval) and requestAgentLifecycle leaves one command to order.
THEOREM CommandsCohere == Spec => []CommandInv
<1>1. IndInv => OutcomesAgree
  BY DEF IndInv, RowsInv, RowOK, Agrees, OutcomesAgree
<1>2. IndInv => UnapprovedNeverLeased
  BY DEF IndInv, RowsInv, RowOK, Approved, UnapprovedNeverLeased
<1>3. IndInv => CommandInv
  BY <1>1, <1>2, TypesFollow, OneFollows DEF CommandInv
<1> QED
  BY <1>3, RowsHold, PTL

\* requestAgentOwnerConfiguration: a revision that was superseded before it was
\* leased never comes into force, whatever receipts and heartbeats arrive.
THEOREM SupersededStaysOut == Spec => []SupersededNotInForce
<1>1. IndInv => SupersededNotInForce
  BY DEF IndInv, ConfigInv, SupersededNotInForce
<1> QED
  BY <1>1, RowsHold, PTL

\* leaseControlCommands' sweep and recordCommandReceipt: an expiring backup is
\* always pursued by a command that can still end it, and a restore run ends with
\* its command.
THEOREM BackupsPursued == Spec => []BackupInv
<1>1. IndInv => RestoreRunEnds
  <2> SUFFICES ASSUME IndInv, NEW c \in DOMAIN commands,
                      commands[c].action = "backup.restore", commands[c].state \in FinalStates
               PROVE  \/ commands[c].run \in {"succeeded", "failed", "cancelled"}
                      \/ /\ commands[c].state = "expired" /\ commands[c].run = "running"
                         /\ \E a \in DOMAIN commands[c].attempts :
                              commands[c].attempts[a] = "running"
    BY DEF RestoreRunEnds
  <2>1. RestoreOK(commands[c])
    BY DEF IndInv, RowsInv, RowOK
  <2> QED
    BY <2>1 DEF RestoreOK, Ended, FinalStates
<1>2. IndInv => BackupInv
  BY <1>1 DEF IndInv, BackupInv
<1> QED
  BY <1>2, RowsHold, PTL

\* Ended commands, as the poll's sweep, late receipts and decisions find them.
EndedKept ==
  \A c \in DOMAIN commands : commands[c].state \in FinalStates =>
    /\ c \in DOMAIN commands'
    /\ commands'[c].state = commands[c].state
    /\ Len(commands'[c].attempts) = Len(commands[c].attempts)

\* A command that has ended stays as it ended and is never leased again.
EndedIsFinal == [][EndedKept]_vars

\* A new command, and those it replaces, were not among the ended ones.
LEMMA EndedRequests ==
  ASSUME IndInv, Owner \/ Administrator \/ Retention
  PROVE  EndedKept
<1>1. commands \in Seq(Row(LastConfig)) /\ DOMAIN commands = 1..Len(commands)
  BY DEF IndInv, RowTypes
<1>2. ASSUME NEW x, commands' = Append(commands, x)
      PROVE  EndedKept
  BY <1>1, <1>2 DEF EndedKept
<1>3. ASSUME UNCHANGED commands
      PROVE  EndedKept
  BY <1>3 DEF EndedKept
<1>4. ASSUME NEW scope, RequestOwnerConfiguration(scope)
      PROVE  EndedKept
  <2> DEFINE old == [c \in DOMAIN commands |->
                       IF c \in SupersededCommands(scope)
                       THEN [commands[c] EXCEPT !.state = "cancelled"] ELSE commands[c]]
  <2>1. PICK x : commands' = Append(old, x)
    BY <1>4 DEF RequestOwnerConfiguration
  <2>2. /\ old \in Seq(Row(LastConfig)) /\ DOMAIN old = DOMAIN commands
    <3>1. ASSUME NEW c \in DOMAIN commands
          PROVE  old[c] \in Row(LastConfig)
      <4>1. commands[c] \in Row(LastConfig)
        BY <1>1
      <4>2. [commands[c] EXCEPT !.state = "cancelled"] \in Row(LastConfig)
        BY <4>1 DEF Row, CommandStates, FinalStates
      <4> QED
        BY <4>1, <4>2
    <3> HIDE DEF old
    <3>2. old = [c \in DOMAIN commands |-> old[c]]
      BY DEF old
    <3> QED
      BY <1>1, <3>1, <3>2, RowsOf
  <2>3. \A c \in DOMAIN commands : commands[c].state \in FinalStates => old[c] = commands[c]
    BY DEF SupersededCommands, FinalStates
  <2> HIDE DEF old
  <2>4. \A c \in DOMAIN commands : c \in DOMAIN commands' /\ commands'[c] = old[c]
    BY <1>1, <2>1, <2>2
  <2> QED
    BY <2>3, <2>4 DEF EndedKept
<1>5. ASSUME NEW c \in DOMAIN commands, NEW decision, DecideApproval(c, decision)
      PROVE  EndedKept
  <2>1. DOMAIN commands' = DOMAIN commands
        /\ \A d \in DOMAIN commands : /\ commands'[d].attempts = commands[d].attempts
                                      /\ commands[d].state \in FinalStates
                                           => commands'[d].state = commands[d].state
    BY <1>1, <1>5 DEF DecideApproval, Row, FinalStates
  <2> QED
    BY <2>1 DEF EndedKept
<1>6. CASE Owner
  <2>1. CASE RequestProvisioning
    BY <1>2, <2>1 DEF RequestProvisioning
  <2>2. CASE DeleteUninitialized
    BY <1>3, <2>2 DEF DeleteUninitialized
  <2>3. CASE \E request \in DOMAIN ActionOf : RequestLifecycle(request)
    BY <1>2, <2>3 DEF RequestLifecycle
  <2> QED
    BY <1>4, <1>6, <2>1, <2>2, <2>3 DEF Owner
<1>7. CASE Administrator
  <2>1. CASE \E action \in AdminActions[area] :
               \E config \in IF area = "config" THEN DOMAIN configs ELSE {NoConfig} :
                 RequestOperation(action, config)
    BY <1>2, <2>1 DEF RequestOperation, Enqueue
  <2>2. CASE CheckRestore
    BY <1>3, <2>2 DEF CheckRestore
  <2>3. CASE RequestRestore
    BY <1>2, <2>3 DEF RequestRestore, Enqueue
  <2>4. CASE \E code \in AlertCodes, status \in AlertStatuses : UpdateAlert(code, status)
    BY <1>3, <2>4 DEF UpdateAlert
  <2> QED
    BY <1>5, <1>7, <2>1, <2>2, <2>3, <2>4 DEF Administrator
<1>8. CASE Retention
  BY <1>2, <1>8 DEF Retention, EnforceRetention
<1> QED
  BY <1>6, <1>7, <1>8

\* The sweep expires and requeues commands that are under way, and only queued ones
\* are leased.
LEMMA EndedLease ==
  ASSUME IndInv, Lease
  PROVE  EndedKept
<1> SUFFICES ASSUME NEW c \in DOMAIN commands, commands[c].state \in FinalStates
             PROVE  /\ c \in DOMAIN commands' /\ commands'[c].state = commands[c].state
                    /\ commands'[c].attempts = commands[c].attempts
  BY DEF EndedKept
<1>1. commands[c] \in Row(LastConfig)
  BY DEF IndInv, RowTypes
<1>2. Requeue(c) = commands[c].state
  BY DEF Requeue, Expire, FinalStates
<1>3. /\ Swept[c].state = commands[c].state /\ Swept[c].attempts = commands[c].attempts
      /\ ~Leasable(c)
  <2>1. Swept[c] = [commands[c] EXCEPT !.state = Requeue(c), !.run = SweptRun(c),
                                       !.lapsed = @ /\ Requeue(c) # "queued"]
    BY DEF Swept
  <2>2. /\ Swept[c].state = commands[c].state /\ Swept[c].attempts = commands[c].attempts
    BY <1>1, <1>2, <2>1 DEF Row
  <2> QED
    BY <2>2 DEF Leasable, FinalStates
<1>4. c \in DOMAIN commands' /\ commands'[c] = Swept[c]
  BY <1>3 DEF Lease
<1> QED
  BY <1>3, <1>4

\* A receipt that is taken for an ended command repeats what it ended as.
LEMMA EndedReceipt ==
  ASSUME IndInv, Receipt
  PROVE  EndedKept
<1>1. PICK c \in DOMAIN commands : \E b \in DOMAIN commands[c].attempts :
             \E r \in Reports(commands[c].attempts[b]) : RecordReceipt(c, b, r)
  BY DEF Receipt
<1>2. PICK a \in DOMAIN commands[c].attempts :
             \E r \in Reports(commands[c].attempts[a]) : RecordReceipt(c, a, r)
  BY <1>1
<1>3. PICK s \in Reports(commands[c].attempts[a]) : RecordReceipt(c, a, s)
  BY <1>2
<1>4. commands[c].state \in FinalStates => s = commands[c].state
  BY <1>3, ReceiptTaken DEF RecordReceipt, FinalStates
<1>5. commands[c] \in Row(LastConfig) /\ commands[c].attempts \in Seq(CommandStates)
  <2>1. commands[c] \in Row(LastConfig)
    BY DEF IndInv, RowTypes
  <2> QED
    BY <2>1 DEF Row
<1>6. Len([commands[c].attempts EXCEPT ![a] = s]) = Len(commands[c].attempts)
  BY <1>5
<1>7. commands' = [commands EXCEPT ![c].state = s, ![c].attempts[a] = s,
                     ![c].run = RunAfter(commands[c], s),
                     ![c].lapsed = IF s = "running" THEN FALSE ELSE @]
  BY <1>3 DEF RecordReceipt
<1>8. /\ DOMAIN commands' = DOMAIN commands
      /\ \A d \in DOMAIN commands : d # c => commands'[d] = commands[d]
      /\ commands'[c].state = s
      /\ commands'[c].attempts = [commands[c].attempts EXCEPT ![a] = s]
  BY <1>5, <1>7 DEF Row
<1> QED
  BY <1>4, <1>6, <1>8 DEF EndedKept

\* recordCommandReceipt, the sweep of leaseControlCommands, decideControlApproval
\* and the requests that replace others: a command that succeeded, failed, was
\* cancelled or expired stays so and is never leased again, although receipts of
\* attempts whose lease had lapsed, and repeated ones, are still taken.
THEOREM EndedCommandsStay == Spec => EndedIsFinal
<1>1. ASSUME IndInv, [Next]_vars
      PROVE  [EndedKept]_vars
  <2>1. CASE RuntimeReports \/ Evaluate \/ UNCHANGED vars
    <3>1. UNCHANGED commands
      BY <2>1 DEF RuntimeReports, Heartbeat, SaveResourceSample, Evaluate, EvaluateResolve,
                  EvaluateRead, EvaluateWrite, vars
    <3> QED
      BY <3>1 DEF EndedKept
  <2>2. CASE TimePasses
    <3>1. /\ DOMAIN commands' = DOMAIN commands
          /\ \A d \in DOMAIN commands : /\ commands'[d].attempts = commands[d].attempts
                                        /\ commands'[d].state = commands[d].state
      <4>1. \A d \in DOMAIN commands : commands[d] \in Row(LastConfig)
        BY <1>1 DEF IndInv, RowTypes
      <4>2. CASE \E c \in DOMAIN commands : CommandDue(c) \/ LeaseLapses(c)
        <5>1. PICK c \in DOMAIN commands : CommandDue(c) \/ LeaseLapses(c)
          BY <4>2
        <5>2. PICK x \in {[commands[c] EXCEPT !.due = TRUE], [commands[c] EXCEPT !.lapsed = TRUE]} :
                   commands' = [commands EXCEPT ![c] = x]
          BY <5>1 DEF CommandDue, LeaseLapses
        <5>3. x.attempts = commands[c].attempts /\ x.state = commands[c].state
          BY <4>1, <5>2 DEF Row
        <5>4. /\ DOMAIN commands' = DOMAIN commands /\ commands'[c] = x
              /\ \A d \in DOMAIN commands : d # c => commands'[d] = commands[d]
          BY <5>2
        <5> QED
          BY <5>3, <5>4
      <4>3. CASE HeartbeatAges \/ BackupAges
        BY <4>3 DEF HeartbeatAges, BackupAges
      <4> QED
        BY <2>2, <4>2, <4>3 DEF TimePasses
    <3> QED
      BY <3>1 DEF EndedKept
  <2> QED
    BY <1>1, <2>1, <2>2, EndedRequests, EndedLease, EndedReceipt DEF Next
<1> QED
  BY <1>1, RowsHold, PTL DEF Spec, EndedIsFinal

=============================================================================
