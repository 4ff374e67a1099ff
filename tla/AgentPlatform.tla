----------------------------- MODULE AgentPlatform -----------------------------
(* The platform's own record of one Agent (packages/db/postgres-repository.mjs  *)
(* and the routes that call it): the agent, runtime and deployment rows, its    *)
(* configuration revisions, the commands queued for its server with their       *)
(* approvals, leases and receipts, its backup, two releases, and the health     *)
(* alerts.  The actors are the owner, an administrator, the server that leases  *)
(* commands and reports receipts (possibly late, twice or for a lease that has  *)
(* lapsed), the Runtime that sends heartbeats, and the platform's timers.       *)
(*                                                                              *)
(* Time is abstract: a command carries "due" (expires_at has passed) and        *)
(* "lapsed" (lease_expires_at has passed), a runtime its newest heartbeat's     *)
(* age.  A behaviour uses the operations of one area of work, chosen at the     *)
(* start, so that the areas add up instead of multiplying.                      *)
EXTENDS Naturals, Sequences, FiniteSets

CONSTANTS
    Areas,          \* the areas of work explored
    MaxCommands,    \* MaxCommands[w]: bound on the commands in area w
    MaxAttempts     \* MaxAttempts[w]: bound on the leases of a command in area w

ASSUME PlatformAssumption ==
    /\ Areas \subseteq {"lifecycle", "health", "config", "backup", "release"}
    /\ MaxCommands \in [Areas -> Nat] /\ MaxAttempts \in [Areas -> Nat]

VARIABLES
    area,       \* the area of work of this behaviour
    agent,      \* row of agents, "absent" once deleted
    runtime,    \* row of agent_runtimes
    deployment, \* row of control_deployments
    configs,    \* config_revisions, in order of revision
    commands,   \* control_commands, in order of creation
    backup,     \* one row of backup_records
    releases,   \* release_manifests r1 and r2
    alerts,     \* newest alert of each code; earlier ones are resolved
    checked,    \* a backup.restore request is past its check, not yet committed
    evaluator   \* where evaluateOfflineAlerts is, with what it has read

vars == <<area, agent, runtime, deployment, configs, commands, backup, releases,
          alerts, checked, evaluator>>

Releases == {"r1", "r2"}
AlertCodes == {"runtime.health", "runtime.offline", "resource"}
ActiveAlert == {"open", "acknowledged"}

ActiveStates == {"queued", "leased", "accepted", "running"}
FinalStates == {"succeeded", "failed", "cancelled", "expired"}

\* The receipts' state machine.
allowed == [leased |-> {"accepted"}, accepted |-> {"running"},
            running |-> {"succeeded", "failed", "cancelled"}]

\* Lifecycle actions that requestAgentLifecycle keeps apart.
LifecycleActions == {"deployment.start", "deployment.stop", "deployment.suspend",
                     "deployment.resume", "deployment.delete"}

\* Administrator operations, and those that need a second person's approval.
AdminActions == [backup |-> {"backup.create", "backup.verify", "backup.restore"},
                 config |-> {"config.stage", "config.apply"},
                 release |-> {"probe.run", "release.stage", "release.apply",
                              "release.rollback"},
                 lifecycle |-> {}, health |-> {}]
approvalControlActions == {"config.apply", "backup.restore", "release.apply",
                           "release.rollback"}

\* Runtime statuses that make an Agent count as not running.
AtRest == {"uninitialized", "stopped", "suspended", "deleting", "deleted"}

NoConfig == 0

\* An Agent that was created but never initialized ...
NewAgent == [status |-> "pending", init |-> "uninitialized", desired |-> "stopped"]
NewRuntime == [status |-> "uninitialized", deployed |-> FALSE, config |-> NoConfig,
               env |-> NoConfig, endpoint |-> FALSE, beat |-> "never"]

\* ... and one whose provisioning succeeded and whose Runtime reports healthy.
RunningAgent == [status |-> "active", init |-> "ready", desired |-> "running"]
RunningRuntime == [status |-> "ready", deployed |-> TRUE, config |-> 1, env |-> 1,
                   endpoint |-> TRUE, beat |-> "fresh"]

Init ==
    /\ area \in Areas
    /\ IF area = "lifecycle"
       THEN /\ agent = NewAgent /\ runtime = NewRuntime
            /\ deployment = [status |-> "none", version |-> 0] /\ configs = <<>>
       ELSE /\ agent = RunningAgent /\ runtime = RunningRuntime
            /\ deployment = [status |-> "active", version |-> 1]
            /\ configs = <<[scope |-> "none", status |-> "applied"]>>
    /\ commands = <<>>
    /\ backup \in [status : IF area = "backup" THEN {"none", "verified"} ELSE {"none"},
                  aged : {FALSE}]
    /\ releases = [r \in Releases |-> "candidate"]
    /\ alerts = [c \in AlertCodes |-> "resolved"]
    /\ checked = FALSE
    /\ evaluator = [at |-> "idle", stale |-> FALSE]

-------------------------------------------------------------------------------
(* Requests.  A new command is queued; "run" is the row that belongs to it      *)
(* alone: a test run or a restore run.                                          *)

NewCommand(action, config, approval, run) ==
    [action |-> action, config |-> config, state |-> "queued", due |-> FALSE,
     lapsed |-> FALSE, approval |-> approval, attempts |-> <<>>, run |-> run]

Room == Len(commands) < MaxCommands[area]
Present == agent.status # "absent"
LastConfig == Len(configs)

\* requestAgentProvisioning.  A later initialization finds a revision with the
\* same content and approves it again.
RequestProvisioning ==
    /\ area = "lifecycle" /\ Present /\ Room
    /\ agent.init \notin {"provisioning", "ready"}
    /\ configs' = <<[scope |-> "none", status |-> "approved"]>>
    /\ deployment' = [status |-> "enrolling", version |-> deployment.version + 1]
    /\ commands' = Append(commands,
                     NewCommand("deployment.provision", 1, "none", "none"))
    /\ runtime' = [runtime EXCEPT !.deployed = TRUE, !.config = 1,
                                  !.status = "provisioning"]
    /\ agent' = [status |-> "provisioning", init |-> "provisioning",
                 desired |-> "running"]
    /\ UNCHANGED <<area, backup, releases, alerts, checked, evaluator>>

\* The revisions whose queued config.apply-user command a newer request of the
\* same scope replaces.
SupersededCommands(scope) ==
    {c \in DOMAIN commands : /\ commands[c].action = "config.apply-user"
                             /\ commands[c].state = "queued"
                             /\ configs[commands[c].config].scope = scope}

\* Mutant of SupersededConfigs: every revision of the scope is superseded.
SupersededConfigs_All(scope) ==
    [k \in DOMAIN configs |-> IF configs[k].scope = scope
       THEN [configs[k] EXCEPT !.status = "superseded"] ELSE configs[k]]

SupersededConfigs(scope) ==
    [k \in DOMAIN configs |->
       IF /\ k \in {commands[c].config : c \in SupersededCommands(scope)}
          /\ configs[k].status = "approved"
       THEN [configs[k] EXCEPT !.status = "superseded"] ELSE configs[k]]

\* requestAgentOwnerConfiguration, for the skills or the identity of the Agent.
RequestOwnerConfiguration(scope) ==
    /\ area = "config" /\ Present /\ Room
    /\ runtime.deployed /\ runtime.config # NoConfig
    /\ deployment.status # "revoked"
    /\ configs' = Append(SupersededConfigs(scope), [scope |-> scope, status |-> "approved"])
    /\ commands' = Append(
         [c \in DOMAIN commands |->
            IF c \in SupersededCommands(scope)
            THEN [commands[c] EXCEPT !.state = "cancelled"] ELSE commands[c]],
         NewCommand("config.apply-user", LastConfig + 1, "none", "none"))
    /\ UNCHANGED <<area, agent, runtime, deployment, backup, releases, alerts,
                   checked, evaluator>>

ActionOf == [pause |-> "deployment.suspend", resume |-> "deployment.resume",
             delete |-> "deployment.delete"]

\* The lifecycle commands that have not ended.
LifecycleInProgress ==
    {c \in DOMAIN commands : /\ commands[c].action \in LifecycleActions
                             /\ commands[c].state \in ActiveStates}

DesiredOf == [pause |-> "suspended", resume |-> "running", delete |-> "deleted"]

\* requestAgentLifecycle with a deployment: a new command, unless the Agent is
\* paused already, is not paused, or a lifecycle command is in progress.  The
\* owner's deletion approves itself.
RequestLifecycle(request) ==
    /\ area \in {"lifecycle", "health"} /\ Present /\ Room
    /\ runtime.deployed
    /\ request = "pause" => runtime.status # "suspended"
    /\ request = "resume" => runtime.status = "suspended"
    /\ LifecycleInProgress = {}
    /\ commands' = Append(commands, NewCommand(ActionOf[request], NoConfig,
                     IF request = "delete" THEN "approved" ELSE "none", "none"))
    /\ deployment' = [deployment EXCEPT !.version = @ + 1]
    /\ agent' = [agent EXCEPT !.desired = DesiredOf[request],
                   !.init = IF request = "delete" THEN "deleting" ELSE @]
    /\ runtime' = IF request = "delete" THEN [runtime EXCEPT !.status = "deleting"]
                  ELSE runtime
    /\ UNCHANGED <<area, configs, backup, releases, alerts, checked, evaluator>>

\* requestAgentLifecycle without a deployment: a deletion removes the row.
DeleteUninitialized ==
    /\ area = "lifecycle" /\ Present /\ ~runtime.deployed
    /\ agent' = [agent EXCEPT !.status = "absent"]
    /\ UNCHANGED <<area, runtime, deployment, configs, commands, backup, releases,
                   alerts, checked, evaluator>>

\* What requestControlOperation requires of the rows an operation refers to.
ReferencesExist(action) ==
    /\ action \in {"config.stage", "config.apply"} => configs # <<>>
    /\ action = "backup.create" => backup.status = "none"
    /\ action \in {"backup.verify", "backup.restore"} => backup.status # "none"
    /\ action \in {"release.stage", "release.apply"} =>
         releases["r1"] \in {"candidate", "approved", "released"}

\* The row an operation inserts along with its command.
RunOf(action) == CASE action = "probe.run" -> "queued"
                   [] action = "backup.restore" -> "requested"
                   [] OTHER -> "none"

Enqueue(action, config) ==
    commands' = Append(commands, NewCommand(action, config,
      IF action \in approvalControlActions THEN "pending" ELSE "none",
      RunOf(action)))

\* requestControlOperation by an administrator, except backup.restore.  Every
\* backup.create names a new backup; one is followed.
RequestOperation(action, config) ==
    /\ action \in AdminActions[area] \ {"backup.restore"} /\ Room
    /\ deployment.status # "revoked" /\ ~checked
    /\ ReferencesExist(action)
    /\ Enqueue(action, config)
    /\ backup' = IF action = "backup.create"
                 THEN [status |-> "creating", aged |-> FALSE] ELSE backup
    /\ UNCHANGED <<area, agent, runtime, deployment, configs, releases, alerts,
                   checked, evaluator>>

\* requestControlOperation for backup.restore holds the lock of the deployment,
\* not of the backup: the check and the commit are two steps.
CheckRestore ==
    /\ "backup.restore" \in AdminActions[area] /\ Room /\ ~checked
    /\ deployment.status # "revoked" /\ ReferencesExist("backup.restore")
    /\ backup.status = "verified"
    /\ checked' = TRUE
    /\ UNCHANGED <<area, agent, runtime, deployment, configs, commands, backup,
                   releases, alerts, evaluator>>

RequestRestore ==
    /\ checked /\ Room
    /\ Enqueue("backup.restore", NoConfig)
    /\ checked' = FALSE
    /\ UNCHANGED <<area, agent, runtime, deployment, configs, backup, releases,
                   alerts, evaluator>>

\* decideControlApproval.
DecideApproval(c, decision) ==
    /\ commands[c].approval = "pending" /\ ~commands[c].due
    /\ LET reject == decision = "rejected" /\ commands[c].state = "queued" IN
       commands' = [commands EXCEPT ![c].approval = decision,
         ![c].state = IF reject THEN "cancelled" ELSE @,
         ![c].run = IF decision = "rejected" /\ @ = "requested"
                    THEN "cancelled" ELSE @]
    /\ UNCHANGED <<area, agent, runtime, deployment, configs, backup, releases,
                   alerts, checked, evaluator>>

-------------------------------------------------------------------------------
(* The server's side: leases and receipts.                                      *)

\* The housekeeping at the start of leaseControlCommands: commands that are due
\* and not yet accepted expire, ...
Expire(c) == IF commands[c].state \in {"queued", "leased"} /\ commands[c].due
             THEN "expired" ELSE commands[c].state

\* ... restore runs of expired commands that never ran are cancelled, ...
SweptRun(c) == IF Expire(c) = "expired" /\ commands[c].run = "requested"
               THEN "cancelled" ELSE commands[c].run

\* Mutant of SweptBackup: the sweep forgets the backup.
SweptBackup_Kept == backup

\* ... a backup that was expiring fails if any of its backup.expire commands has
\* expired, ...
SweptBackup ==
    IF /\ backup.status = "expiring"
       /\ \E c \in DOMAIN commands : /\ commands[c].action = "backup.expire"
                                     /\ Expire(c) = "expired"
    THEN [backup EXCEPT !.status = "failed"] ELSE backup

\* ... and commands whose lease has lapsed before they are due are queued again.
Requeue(c) == IF /\ Expire(c) \in {"leased", "accepted", "running"}
                 /\ commands[c].lapsed /\ ~commands[c].due
              THEN "queued" ELSE Expire(c)

Swept == [c \in DOMAIN commands |->
            [commands[c] EXCEPT !.state = Requeue(c), !.run = SweptRun(c),
                                !.lapsed = @ /\ Requeue(c) # "queued"]]

\* leaseControlCommands hands out c: it needs a valid approval where it has one.
Leasable(c) == /\ Swept[c].state = "queued" /\ ~Swept[c].due
               /\ Swept[c].approval \in {"none", "approved"}

\* One call leases all of them: its limit of 10 is above MaxCommands.
Lease ==
    LET batch == {c \in DOMAIN commands : Leasable(c)} IN
    /\ \A c \in batch : Len(commands[c].attempts) < MaxAttempts[area]
    /\ batch # {} \/ Swept # commands \/ SweptBackup # backup
    /\ commands' = [c \in DOMAIN commands |->
         IF c \notin batch THEN Swept[c]
         ELSE [Swept[c] EXCEPT !.state = "leased", !.lapsed = FALSE,
                               !.attempts = Append(@, "leased")]]
    /\ backup' = SweptBackup
    /\ UNCHANGED <<area, agent, runtime, deployment, configs, releases, alerts,
                   checked, evaluator>>

\* Effects of a receipt on the runtime row.  A succeeded provisioning or
\* config.apply also writes the Runtime container's environment, from which its
\* heartbeats take the revision they report.
RuntimeAfter(cmd, s) ==
    CASE cmd.action = "deployment.provision" /\ s = "succeeded" ->
           [runtime EXCEPT !.endpoint = TRUE, !.status = "starting",
                           !.env = cmd.config]
      [] cmd.action = "deployment.provision" /\ s = "failed" ->
           [runtime EXCEPT !.status = "failed"]
      [] cmd.action \in {"deployment.start", "deployment.resume"}
         /\ s = "succeeded" -> [runtime EXCEPT !.status = "starting"]
      [] cmd.action = "deployment.suspend" /\ s = "succeeded" ->
           [runtime EXCEPT !.status = "suspended"]
      [] cmd.action = "deployment.delete" /\ s = "succeeded" ->
           [runtime EXCEPT !.status = "deleted", !.endpoint = FALSE]
      [] cmd.action = "deployment.delete" /\ s = "failed" ->
           [runtime EXCEPT !.status = "degraded"]
      [] cmd.action \in {"config.apply", "config.apply-user"} /\ s = "succeeded" ->
           [runtime EXCEPT !.config = cmd.config,
              !.env = IF cmd.action = "config.apply" THEN cmd.config ELSE @]
      [] OTHER -> runtime

\* Actions whose failure degrades the Agent and its deployment.
Degrading == {"deployment.start", "deployment.stop", "deployment.suspend",
              "deployment.resume", "deployment.delete", "config.apply",
              "release.apply", "release.rollback", "service.restart",
              "credential.revoke"}

AgentAfter(cmd, s) ==
    CASE cmd.action \in {"deployment.start", "deployment.resume"}
         /\ s = "succeeded" ->
           [agent EXCEPT !.status = "starting", !.desired = "running"]
      [] cmd.action = "deployment.suspend" /\ s = "succeeded" ->
           [agent EXCEPT !.status = "suspended", !.desired = "suspended"]
      [] cmd.action = "deployment.delete" /\ s = "succeeded" ->
           [agent EXCEPT !.status = "deleted", !.desired = "deleted"]
      [] cmd.action = "deployment.provision" /\ s = "failed" ->
           [agent EXCEPT !.status = "failed", !.init = "failed"]
      [] cmd.action \in Degrading /\ s = "failed" ->
           [agent EXCEPT !.status = "degraded",
              !.init = IF cmd.action = "deployment.delete" THEN "failed" ELSE @]
      [] OTHER -> agent

DeploymentAfter(cmd, s) ==
    CASE cmd.action = "deployment.provision" /\ s = "succeeded" ->
           [deployment EXCEPT !.status = "active"]
      [] cmd.action = "deployment.delete" /\ s = "succeeded" ->
           [deployment EXCEPT !.status = "revoked"]
      [] cmd.action \in Degrading \cup {"deployment.provision"} /\ s = "failed" ->
           [deployment EXCEPT !.status = "degraded"]
      [] OTHER -> deployment

ConfigStatusAfter(cmd, s) ==
    CASE cmd.action = "deployment.provision" /\ s = "succeeded" -> "applied"
      [] cmd.action \in {"config.apply", "config.apply-user"} /\ s = "running" ->
           "applying"
      [] cmd.action = "config.stage" /\ s = "succeeded" -> "staged"
      [] cmd.action \in {"config.apply", "config.apply-user"}
         /\ s = "succeeded" -> "applied"
      [] cmd.action \in {"config.stage", "config.apply", "config.apply-user"}
         /\ s = "failed" -> "failed"
      [] OTHER -> configs[cmd.config].status

ConfigsAfter(cmd, s) ==
    IF cmd.config = NoConfig THEN configs
    ELSE [configs EXCEPT ![cmd.config].status = ConfigStatusAfter(cmd, s)]

\* Test runs and restore runs follow their own command.
RunAfter(cmd, s) ==
    IF cmd.run = "none" THEN "none"
    ELSE CASE s = "succeeded" /\ cmd.action = "probe.run" -> "passed"
           [] s = "accepted" \/ (s = "cancelled" /\ cmd.action = "probe.run") -> cmd.run
           [] OTHER -> s

BackupAfter(cmd, s) ==
    LET to(status) == [backup EXCEPT !.status = status] IN
    CASE cmd.action = "backup.verify" /\ s = "running" -> to("verifying")
      [] cmd.action = "backup.create" /\ s = "succeeded" -> to("created")
      [] cmd.action = "backup.verify" /\ s = "succeeded" -> to("verified")
      [] cmd.action = "backup.expire" /\ s = "succeeded" -> to("expired")
      [] cmd.action \in {"backup.create", "backup.verify", "backup.expire"}
         /\ s = "failed" -> to("failed")
      [] OTHER -> backup

\* Releases: r1 is staged and applied, a rollback returns from r1 to r2.
ReleasesAfter(cmd, s) ==
    CASE cmd.action = "release.stage" /\ s = "succeeded"
         /\ releases["r1"] = "candidate" -> [releases EXCEPT !["r1"] = "approved"]
      [] cmd.action = "release.apply" /\ s = "running" ->
           [releases EXCEPT !["r1"] = "rolling_out"]
      [] cmd.action = "release.apply" /\ s = "succeeded" ->
           [releases EXCEPT !["r1"] = "released"]
      [] cmd.action = "release.rollback" /\ s = "succeeded" ->
           [releases EXCEPT !["r1"] = "withdrawn", !["r2"] = "released"]
      [] cmd.action \in {"release.stage", "release.apply", "release.rollback"}
         /\ s = "failed" -> [releases EXCEPT !["r1"] = "blocked"]
      [] OTHER -> releases

\* Mutant of Takes: the state the command is in does not matter.
Takes_Any(c, s) == commands[c].attempts # <<>>

\* A receipt is taken for any attempt of a command that is or was leased, when it
\* moves the command forward or repeats the state the command is in.
Takes(c, s) == LET from == commands[c].state IN
    /\ from \notin {"queued", "expired"} /\ commands[c].attempts # <<>>
    /\ s = from \/ (from \in DOMAIN allowed /\ s \in allowed[from])

\* recordCommandReceipt: the command, the attempt and every row that depends on it.
RecordReceipt(c, a, s) ==
    /\ Takes(c, s)
    /\ LET cmd == commands[c] IN
       /\ commands' = [commands EXCEPT ![c].state = s, ![c].attempts[a] = s,
            ![c].run = RunAfter(cmd, s),
            ![c].lapsed = IF s = "running" THEN FALSE ELSE @]
       /\ runtime' = RuntimeAfter(cmd, s)
       /\ agent' = AgentAfter(cmd, s)
       /\ deployment' = DeploymentAfter(cmd, s)
       /\ configs' = ConfigsAfter(cmd, s)
       /\ backup' = BackupAfter(cmd, s)
       /\ releases' = ReleasesAfter(cmd, s)
    /\ UNCHANGED <<area, alerts, checked, evaluator>>

\* The server reports each attempt in order: its next state, or again the state it
\* reported last, whose answer was lost.  It never reports "cancelled".
Reports(state) == CASE state = "leased" -> {"accepted"}
                    [] state = "accepted" -> {"accepted", "running"}
                    [] state = "running" -> {"running", "succeeded", "failed"}
                    [] OTHER -> {state}

Receipt == \E c \in DOMAIN commands : \E a \in DOMAIN commands[c].attempts :
             \E s \in Reports(commands[c].attempts[a]) : RecordReceipt(c, a, s)

-------------------------------------------------------------------------------
(* Heartbeats, resource samples and alerts.                                     *)

Raise(code) == IF alerts[code] \in ActiveAlert THEN alerts[code] ELSE "open"
Resolve(code) == IF alerts[code] \in ActiveAlert THEN "resolved" ELSE alerts[code]

\* saveAgentHeartbeat: the newest arrival decides the status, whatever the rows
\* say and whatever its sequence; "age" tells how old its observed_at is.
Heartbeat(health, age) ==
    /\ area \in {"lifecycle", "health", "config"} /\ Present /\ runtime.env # NoConfig
    /\ LET status == CASE health = "healthy" -> "ready"
                      [] health = "unhealthy" -> "failed"
                      [] OTHER -> "degraded" IN
       /\ runtime' = [runtime EXCEPT !.status = status, !.config = runtime.env,
                                     !.beat = age]
       /\ agent' = [agent EXCEPT !.init = status,
                      !.status = IF health = "healthy" THEN "active" ELSE status]
       /\ alerts' = IF health = "healthy"
            THEN [alerts EXCEPT !["runtime.health"] = Resolve("runtime.health"),
                                !["runtime.offline"] = Resolve("runtime.offline")]
            ELSE [alerts EXCEPT !["runtime.health"] = Raise("runtime.health")]
    /\ UNCHANGED <<area, deployment, configs, commands, backup, releases, checked,
                   evaluator>>

\* saveAgentResourceSamples with evaluateResourceAlerts, for one of its codes.
SaveResourceSample(high) ==
    /\ area = "health" /\ runtime.deployed
    /\ alerts' = [alerts EXCEPT !["resource"] =
                    IF high THEN Raise("resource") ELSE Resolve("resource")]
    /\ UNCHANGED <<area, agent, runtime, deployment, configs, commands, backup,
                   releases, checked, evaluator>>

\* updateAlertStatus, from the administrator's route.
UpdateAlert(code, status) ==
    /\ area = "health"
    /\ alerts' = [alerts EXCEPT ![code] = status]
    /\ UNCHANGED <<area, agent, runtime, deployment, configs, commands, backup,
                   releases, checked, evaluator>>

\* evaluateOfflineAlerts is three queries with no transaction around them.  First
\* it resolves the alerts of Agents that should not be running, ...
Supervised == agent.desired = "running" /\ runtime.status \notin AtRest

\* Mutant of EvaluateResolve: nobody resolves the alerts of Agents at rest.
EvaluateResolve_Keep ==
    /\ area = "health" /\ evaluator.at = "idle"
    /\ evaluator' = [evaluator EXCEPT !.at = "resolved"]
    /\ UNCHANGED <<area, agent, runtime, deployment, configs, commands, backup,
                   releases, alerts, checked>>

EvaluateResolve ==
    /\ area = "health" /\ evaluator.at = "idle"
    /\ alerts' = [alerts EXCEPT !["runtime.offline"] =
                    IF Supervised THEN @ ELSE Resolve("runtime.offline")]
    /\ evaluator' = [evaluator EXCEPT !.at = "resolved"]
    /\ UNCHANGED <<area, agent, runtime, deployment, configs, commands, backup,
                   releases, checked>>

\* ... then it reads the others' newest heartbeat, ...
EvaluateRead ==
    /\ evaluator.at = "resolved"
    /\ evaluator' = IF Supervised THEN [at |-> "read", stale |-> runtime.beat # "fresh"]
                    ELSE [at |-> "idle", stale |-> FALSE]
    /\ UNCHANGED <<area, agent, runtime, deployment, configs, commands, backup,
                   releases, alerts, checked>>

\* ... and opens or resolves an alert by what it read.
EvaluateWrite ==
    /\ evaluator.at = "read"
    /\ alerts' = [alerts EXCEPT !["runtime.offline"] =
                    IF evaluator.stale THEN Raise("runtime.offline")
                    ELSE Resolve("runtime.offline")]
    /\ evaluator' = [at |-> "idle", stale |-> FALSE]
    /\ UNCHANGED <<area, agent, runtime, deployment, configs, commands, backup,
                   releases, checked>>

\* enforceRetentionPolicies for the backup: past its retention, at rest and with
\* no restore under way, it starts to expire.
EnforceRetention ==
    /\ area = "backup" /\ Room
    /\ backup.aged /\ backup.status \in {"created", "verified", "failed"}
    /\ \A c \in DOMAIN commands : ~(/\ commands[c].action = "backup.restore"
                                     /\ commands[c].run \in {"requested", "running"})
    /\ commands' = Append(commands, NewCommand("backup.expire", NoConfig, "none", "none"))
    /\ backup' = [backup EXCEPT !.status = "expiring"]
    /\ UNCHANGED <<area, agent, runtime, deployment, configs, releases, alerts,
                   checked, evaluator>>

-------------------------------------------------------------------------------
(* Time.                                                                        *)

CommandDue(c) ==
    /\ commands[c].state \in ActiveStates /\ ~commands[c].due
    /\ commands' = [commands EXCEPT ![c].due = TRUE]
    /\ UNCHANGED <<area, agent, runtime, deployment, configs, backup, releases,
                   alerts, checked, evaluator>>

LeaseLapses(c) ==
    /\ commands[c].state \in ActiveStates \ {"queued"} /\ ~commands[c].lapsed
    /\ commands' = [commands EXCEPT ![c].lapsed = TRUE]
    /\ UNCHANGED <<area, agent, runtime, deployment, configs, backup, releases,
                   alerts, checked, evaluator>>

HeartbeatAges ==
    /\ area = "health" /\ runtime.beat = "fresh"
    /\ runtime' = [runtime EXCEPT !.beat = "stale"]
    /\ UNCHANGED <<area, agent, deployment, configs, commands, backup, releases,
                   alerts, checked, evaluator>>

BackupAges ==
    /\ backup.status # "none" /\ ~backup.aged
    /\ backup' = [backup EXCEPT !.aged = TRUE]
    /\ UNCHANGED <<area, agent, runtime, deployment, configs, commands, releases,
                   alerts, checked, evaluator>>

Owner == \/ RequestProvisioning \/ DeleteUninitialized
         \/ \E scope \in {"skills", "identity"} :
              /\ LastConfig = 1 => scope = "skills"  \* the two are alike
              /\ RequestOwnerConfiguration(scope)
         \/ \E request \in DOMAIN ActionOf : RequestLifecycle(request)

AlertStatuses == {"acknowledged", "resolved"}

Administrator ==
    \/ \E action \in AdminActions[area] :
         \E config \in IF area = "config" THEN DOMAIN configs ELSE {NoConfig} :
           RequestOperation(action, config)
    \/ CheckRestore \/ RequestRestore
    \/ \E c \in DOMAIN commands : \E decision \in {"approved", "rejected"} :
         DecideApproval(c, decision)
    \/ \E code \in AlertCodes, status \in AlertStatuses : UpdateAlert(code, status)

RuntimeReports ==
    \/ \E health \in {"healthy", "degraded", "unhealthy"} :
         \E age \in {"fresh", "stale"} :
           /\ area # "health" => health = "healthy" /\ age = "fresh"
           /\ Heartbeat(health, age)
    \/ \E high \in BOOLEAN : SaveResourceSample(high)

\* The two interval timers of the platform process.
Evaluate == EvaluateResolve \/ EvaluateRead \/ EvaluateWrite

Retention == EnforceRetention

TimePasses == \/ \E c \in DOMAIN commands : CommandDue(c) \/ LeaseLapses(c)
              \/ HeartbeatAges \/ BackupAges

Next == Owner \/ Administrator \/ Lease \/ Receipt \/ RuntimeReports \/ Evaluate
        \/ Retention \/ TimePasses

\* The health evaluation runs on an interval timer of the platform process.
Spec == Init /\ [][Next]_vars /\ WF_vars(Evaluate)

-------------------------------------------------------------------------------
(* Properties.                                                                  *)

Command == [action : LifecycleActions \cup {"deployment.provision",
              "config.apply-user", "backup.expire"}
              \cup UNION {AdminActions[w] : w \in DOMAIN AdminActions},
            config : 0..LastConfig, state : ActiveStates \cup FinalStates,
            due : BOOLEAN, lapsed : BOOLEAN,
            approval : {"none", "pending", "approved", "rejected"},
            attempts : Seq(ActiveStates \cup FinalStates),
            run : {"none", "queued", "requested", "running", "passed", "succeeded",
                   "failed", "cancelled"}]

\* Every row holds values its CHECK constraints admit.
TypeOK ==
    /\ area \in Areas
    /\ agent.init \in {"uninitialized", "provisioning", "ready", "degraded",
                       "failed", "deleting"}
    /\ agent.desired \in {"running", "stopped", "suspended", "deleted"}
    /\ runtime.status \in AtRest \cup {"provisioning", "starting", "ready",
                                       "degraded", "failed"}
    /\ runtime.config \in 0..LastConfig /\ runtime.env \in 0..LastConfig
    /\ runtime.beat \in {"never", "fresh", "stale"}
    /\ deployment.status \in {"none", "enrolling", "active", "degraded", "revoked"}
    /\ commands \in Seq(Command)
    /\ backup.status \in {"none", "creating", "created", "verifying", "verified",
                          "expiring", "expired", "failed"}
    /\ releases \in [Releases -> {"candidate", "approved", "rolling_out",
                                  "released", "blocked", "withdrawn"}]
    /\ alerts \in [AlertCodes -> ActiveAlert \cup {"resolved"}]

\* recordCommandReceipt takes receipts of lapsed attempts, yet no command is told
\* both outcomes: an attempt that ended, ended the way its command did.
OutcomesAgree ==
    \A c \in DOMAIN commands : \A a \in DOMAIN commands[c].attempts :
      commands[c].attempts[a] \in {"succeeded", "failed"} =>
        commands[c].state = commands[c].attempts[a]

\* An operation that needs approval is never handed to the server before the
\* approval, and a rejected one never at all, whatever expires in between.
UnapprovedNeverLeased ==
    \A c \in DOMAIN commands :
      /\ commands[c].approval \in {"pending", "rejected"} =>
           commands[c].attempts = <<>>
      /\ commands[c].approval = "rejected" =>
           commands[c].state \in {"cancelled", "expired"}

\* requestAgentLifecycle never leaves the server two lifecycle commands to order.
OneLifecycleCommand ==
    Cardinality({c \in DOMAIN commands : /\ commands[c].action \in LifecycleActions
                                         /\ commands[c].state \in ActiveStates}) <= 1

\* An owner configuration that a newer one replaced before it was leased does not
\* come into force, not even by a receipt or heartbeat that arrives late.
SupersededNotInForce ==
    \A k \in DOMAIN configs :
      configs[k].status = "superseded" => runtime.config # k

\* A backup the retention timer has put into "expiring" always has a backup.expire
\* command that can still end it: an expired one returns it to "failed".
ExpiringIsPursued ==
    backup.status = "expiring" =>
      \E c \in DOMAIN commands : /\ commands[c].action = "backup.expire"
                                 /\ commands[c].state \in ActiveStates

\* A restore run ends with its command.  The exception is in the code: the sweep
\* cancels only runs that were never started, so a restore that ran, lost its
\* lease and then expired leaves its run "running".
RestoreRunEnds ==
    \A c \in DOMAIN commands :
      commands[c].action = "backup.restore" /\ commands[c].state \in FinalStates =>
        \/ commands[c].run \in {"succeeded", "failed", "cancelled"}
        \/ /\ commands[c].state = "expired" /\ commands[c].run = "running"
           /\ \E a \in DOMAIN commands[c].attempts :
                commands[c].attempts[a] = "running"

\* The offline alert is open exactly when the Agent should run and its newest
\* heartbeat is old.
OfflineAlertRight ==
    alerts["runtime.offline"] \in ActiveAlert <=>
      Supervised /\ runtime.beat # "fresh"

\* evaluateOfflineAlerts reads and writes in separate queries, so a heartbeat in
\* between leaves a wrong alert; the timer's next rounds always repair it.
OfflineAlertSettles == (area = "health") => []<>OfflineAlertRight

\* Together: the command rows, through late receipts, approvals, replacements and
\* sweeps.
CommandInv ==
    /\ TypeOK
    /\ OutcomesAgree
    /\ UnapprovedNeverLeased
    /\ OneLifecycleCommand

\* Together: no backup and no restore is left in a state of work by a command that
\* has ended.
BackupInv == ExpiringIsPursued /\ RestoreRunEnds
================================================================================
