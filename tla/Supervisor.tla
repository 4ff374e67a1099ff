----------------------------- MODULE Supervisor -----------------------------
(***************************************************************************)
(* The Supervisor of one server (server-agent/supervisor.mjs) at work on   *)
(* one Agent: its files on disk, its three containers, its instance record *)
(* and its backups.  The daemon hands the Supervisor one command at a time *)
(* (execute).  A command is a program of steps; between two steps the      *)
(* containers go on writing memory, and the process may crash.  A step     *)
(* that calls docker or tar may fail, after which the code's catch and     *)
(* finally blocks run; an inspection that fails is taken for an answer:    *)
(* what was asked about is not there.                                      *)
(*                                                                         *)
(* Files are the revision they were written for, 0 when missing: "env"     *)
(* (the three *.env files), "soul" (SOUL.md), "skills" (config.yaml) and   *)
(* "token" (agent-control.token).  "memory" is the rest of hermes-data,    *)
(* a new number for each change the Agent makes.                           *)
(***************************************************************************)
EXTENDS Integers, Sequences, FiniteSets

CONSTANTS Revs,        \* configuration revisions, positive numbers
          Images,      \* releases, 0 is the image the Agent was created with
          BackupIds, RestoreIds,
          PortCount,   \* size of the Runtime port range
          First, OtherFirst, \* where allocatePort starts for the two Agents
          Workloads,   \* sets of actions and "write memory"; a behaviour keeps to
                       \* one of them
          MaxCommands, MaxFaults, MaxCrashes, MaxWrites

ASSUME SupervisorAssumption ==
  /\ Revs \subseteq Nat \ {0} /\ 1 \in Revs
  /\ 0 \in Images /\ Images \subseteq Nat
  /\ PortCount \in Nat \ {0}
  /\ {First, OtherFirst} \subseteq 0 .. PortCount - 1
  /\ {MaxCommands, MaxFaults, MaxCrashes, MaxWrites} \subseteq Nat

VARIABLES
  disk,      \* the files of the instance directory
  staged,    \* revisions under staged-config
  history,   \* config-history: files kept by the revision they belonged to
  copies,    \* restore-history: data and env kept by restore id
  archive,   \* sealed backups
  plain,     \* unencrypted archives under the backup root
  box,       \* the containers
  network,   \* the Agent's docker network exists
  meta,      \* instance.json
  other,     \* another Agent of this server: its recorded port, and whether its
             \* Runtime container is running
  op,        \* the command being executed, or the last one
  before,    \* files and Hermes state when it began
  used       \* counters of the bounds

vars == <<disk, staged, history, copies, archive, plain, box, network, meta,
          other, op, before, used>>

Files == {"env", "soul", "skills", "token"}
Data == {"soul", "skills", "memory"}
Archived == Data \cup {"env"}
Containers == {"hermes", "dashboard", "runtime"}
None == [none |-> TRUE]
NoPort == -1
Ports == 0 .. PortCount - 1
PlainIds == ({"backup.create"} \X BackupIds) \cup ({"backup.restore"} \X RestoreIds)
Keys == {"provision", "config.apply", "config.apply-user", "release.apply"} \X Nat

Only(r, S) == [f \in S |-> r[f]]
Absent == [state |-> "absent", env |-> 0, image |-> 0, port |-> NoPort]

-----------------------------------------------------------------------------
(* Programs: the steps of each command, <<verb, object>>.  The four steps  *)
(* from "prepare" on are runContainers.                                    *)

AllContainers == <<"hermes", "dashboard", "runtime">>

provision ==
  <<<<"write", "env">>, <<"write", "soul">>, <<"write", "skills">>, <<"write", "token">>,
    <<"prepare", "network">>, <<"replace", "hermes">>, <<"replace", "dashboard">>,
    <<"replace", "runtime">>, <<"record", "provision">>>>

lifecycle(action) ==
  CASE action = "start"   -> <<<<"docker", "start">>>>
    [] action = "resume"  -> <<<<"docker", "unpause">>>>
    [] action = "stop"    -> <<<<"docker", "stop">>>>
    [] action = "suspend" -> <<<<"docker", "pause">>>>
    [] action = "delete"  -> <<<<"remove", "runtime">>, <<"remove", "dashboard">>,
                               <<"remove", "hermes">>, <<"remove", "network">>>>

applyConfiguration ==
  <<<<"stage", "config">>, <<"keep", "all">>,
    <<"write", "env">>, <<"write", "soul">>, <<"write", "token">>,
    <<"prepare", "network">>, <<"replace", "hermes">>, <<"replace", "dashboard">>,
    <<"replace", "runtime">>, <<"record", "config.apply">>>>

applyUserConfiguration(file) ==
  <<<<"keep", file>>, <<"write", file>>, <<"replace", "hermes">>,
    <<"relive", "hermes">>, <<"record", "config.apply-user">>>>

createBackup == <<<<"tar", "create">>, <<"seal", "backup">>>>

restoreBackup ==
  <<<<"open", "backup">>, <<"tar", "extract">>, <<"copy", "data">>,
    <<"stop", "runtime">>, <<"stop", "dashboard">>, <<"stop", "hermes">>,
    <<"swap", "data">>, <<"swap", "env">>,
    <<"prepare", "network">>, <<"replace", "hermes">>, <<"replace", "dashboard">>,
    <<"replace", "runtime">>>>

applyRelease ==
  <<<<"check", "pull">>,
    <<"prepare", "network">>, <<"replace", "hermes">>, <<"replace", "dashboard">>,
    <<"replace", "runtime">>, <<"record", "release.apply">>>>

revokeCredential == <<<<"drop", "token">>, <<"stop", "runtime">>>>

\* The programs of the catch blocks.
undoConfiguration ==
  <<<<"back", "env">>, <<"back", "soul">>, <<"back", "token">>,
    <<"prepare", "network">>, <<"replace", "hermes">>, <<"replace", "dashboard">>,
    <<"replace", "runtime">>>>

undoUserConfiguration(file) ==
  <<<<"back", file>>, <<"replace", "hermes">>, <<"relive", "hermes">>>>

undoRestore ==
  <<<<"return", "data">>, <<"return", "env">>,
    <<"prepare", "network">>, <<"replace", "hermes">>, <<"replace", "dashboard">>,
    <<"replace", "runtime">>>>

\* A command: its action, the revision, release, backup, service or file it is
\* about, and the restore id.
Command(action, id, restore) == [action |-> action, id |-> id, restore |-> restore]
Commands ==
  {Command(a, r, 0) : a \in {"provision", "config.stage", "config.apply"}, r \in Revs}
  \cup {Command(a, r, 0) : a \in {"apply.soul", "apply.skills"}, r \in Revs}
  \cup {Command(a, 0, 0) : a \in {"start", "stop", "suspend", "resume", "delete",
                                  "check", "credential.revoke"}}
  \cup {Command("service.restart", c, 0) : c \in {1, 2, 3}}
  \cup {Command(a, b, 0) : a \in {"backup.create", "backup.verify", "backup.expire"},
                           b \in BackupIds}
  \cup {Command("backup.restore", b, r) : b \in BackupIds, r \in RestoreIds}
  \cup {Command(a, i, 0) : a \in {"release.stage", "release.apply"}, i \in Images}

execute(c) ==
  CASE c.action = "provision"         -> provision
    [] c.action = "config.stage"      -> <<<<"stage", "config">>>>
    [] c.action = "config.apply"      -> applyConfiguration
    [] c.action = "apply.soul"        -> applyUserConfiguration("soul")
    [] c.action = "apply.skills"      -> applyUserConfiguration("skills")
    [] c.action \in {"check", "backup.verify"} -> <<<<"check", "report">>>>
    [] c.action = "credential.revoke" -> revokeCredential
    [] c.action = "service.restart"   -> <<<<"restart", AllContainers[c.id]>>>>
    [] c.action = "backup.create"     -> createBackup
    [] c.action = "backup.expire"     -> <<<<"expire", "backup">>>>
    [] c.action = "backup.restore"    -> restoreBackup
    [] c.action = "release.stage"     -> <<<<"check", "pull">>>>
    [] c.action = "release.apply"     -> applyRelease
    [] OTHER                          -> lifecycle(c.action)

KeyOf(c) == <<IF c.action \in {"apply.soul", "apply.skills"} THEN "config.apply-user"
              ELSE c.action, c.id>>

\* readMetadata and readBackup refuse before anything is changed: there is no
\* instance record, or no backup.
readMetadata(c) == c.action \in {"provision", "release.stage"} \/ meta.exists
readBackup(c) == c.action \in {"backup.verify", "backup.restore"} => archive[c.id] # None

\* Mutant: only the ports of running Runtimes count as taken.
allocatePort_Running(start, taken) ==
  LET offsets == {k \in 0 .. PortCount - 1 :
                    ~(other.running /\ (start + k) % PortCount = other.port)}
  IN  IF offsets = {} THEN NoPort
      ELSE (start + (CHOOSE k \in offsets : \A j \in offsets : k <= j)) % PortCount

\* The first port, from the Agent's own starting point, that no other instance
\* record holds.
allocatePort(start, taken) ==
  LET offsets == {k \in 0 .. PortCount - 1 : (start + k) % PortCount \notin taken}
  IN  IF offsets = {} THEN NoPort
      ELSE (start + (CHOOSE k \in offsets : \A j \in offsets : k <= j)) % PortCount

\* A provision command that is repeated after it succeeded.
Replayed(c) ==
  /\ c.action = "provision"
  /\ meta.exists /\ meta.key = KeyOf(c)
  /\ \A x \in Containers : box[x].state # "absent"

-----------------------------------------------------------------------------
Provisioned == [state |-> "running", env |-> 1, image |-> 0, port |-> First]

\* A server on which the Agent is not yet, or already, provisioned.
Init ==
  /\ \/ /\ disk = [f \in Files \cup {"memory"} |-> 0]
        /\ box = [x \in Containers |-> Absent]
        /\ network = FALSE
        /\ meta = [exists |-> FALSE, config |-> 0, image |-> 0, port |-> NoPort,
                   key |-> <<"provision", 0>>]
     \/ /\ disk = [f \in Files \cup {"memory"} |-> IF f = "memory" THEN 0 ELSE 1]
        /\ box = [x \in Containers |->
                    [Provisioned EXCEPT !.port = IF x = "runtime" THEN First ELSE NoPort]]
        /\ network = TRUE
        /\ meta = [exists |-> TRUE, config |-> 1, image |-> 0, port |-> First,
                   key |-> <<"provision", 1>>]
  /\ staged = {}
  /\ history = [r \in Revs |-> [f \in Files |-> 0]]
  /\ copies = [r \in RestoreIds |-> None]
  /\ archive = [b \in BackupIds |-> None]
  /\ plain = [i \in PlainIds |-> None]
  /\ other = [port |-> NoPort, running |-> FALSE]
  /\ op = [cmd |-> Command("none", 0, 0), mode |-> "idle", todo |-> <<>>,
           was |-> "running", port |-> NoPort, result |-> "none"]
  /\ before = [files |-> Only(disk, Files), hermes |-> "absent"]
  /\ \E w \in Workloads :
       used = [actions |-> w, commands |-> 0, faults |-> 0, crashes |-> 0, writes |-> 0,
               restores |-> {}]

Idle == op.mode = "idle"
NextIs(verb) == ~Idle /\ op.todo[1][1] = verb
Object == op.todo[1][2]
Id == op.cmd.id

\* Before its first step config.apply-user asks docker for the status of Hermes,
\* and a repeated provision asks whether the containers are there.
Inspects(c) == meta.exists /\ (c.action \in {"apply.soul", "apply.skills"} \/ Replayed(c))

\* The daemon hands over a command.  The authority never has a restore executed
\* twice, so a restore id is used once.  An inspection that fails or times out is
\* swallowed: the status of Hermes is then unknown, the containers of a repeated
\* provision not there, and the command goes on.
Begin(c, answered) ==
  /\ Idle /\ used.commands < MaxCommands /\ c.action \in used.actions
  /\ c.action = "backup.restore" => c.restore \notin used.restores
  /\ answered \/ (Inspects(c) /\ used.faults < MaxFaults)
  /\ used' = [used EXCEPT !.commands = @ + 1,
                          !.faults = IF answered THEN @ ELSE @ + 1,
                          !.restores = IF c.restore = 0 THEN @ ELSE @ \cup {c.restore}]
  /\ before' = [files |-> Only(disk, Files), hermes |-> box["hermes"].state]
  /\ LET port == IF c.action = "provision"
                 THEN allocatePort(First, {other.port}) ELSE meta.port
         ended == [cmd |-> c, mode |-> "idle", todo |-> <<>>, port |-> port,
                   was |-> IF answered THEN box["hermes"].state ELSE "unknown",
                   result |-> "failed"]
     IN  op' = IF ~readMetadata(c) \/ ~readBackup(c)
                  \/ (c.action = "provision" /\ port = NoPort) THEN ended
               ELSE IF answered /\ Replayed(c) THEN [ended EXCEPT !.result = "replayed"]
               ELSE [ended EXCEPT !.mode = "run", !.todo = execute(c), !.result = "none"]
  /\ UNCHANGED <<disk, staged, history, copies, archive, plain, box, network, meta, other>>

\* The unencrypted archive of the command in hand, which its finally block removes.
PlainOf(c) == <<c.action, IF c.action = "backup.restore" THEN c.restore ELSE c.id>>
Cleanup == [i \in PlainIds |-> IF i = PlainOf(op.cmd) THEN None ELSE plain[i]]
\* The last step of a command returns its result.
Proceed ==
  op' = IF Len(op.todo) > 1 THEN [op EXCEPT !.todo = Tail(@)]
        ELSE [op EXCEPT !.mode = "idle", !.todo = <<>>,
                        !.result = IF op.mode = "run" THEN "done" ELSE "rolledback"]
Ending == Len(op.todo) = 1

\* The catch blocks.  config.apply rolls back only when all files are in its
\* history, a restore only from the moment it replaces the data; a failure of
\* the roll-back itself is swallowed.
Rollback ==
  IF op.mode = "back" THEN <<>>
  ELSE CASE op.cmd.action = "config.apply"
            /\ \A f \in {"env", "soul", "token"} : history[meta.config][f] # 0
            -> undoConfiguration
         [] op.cmd.action = "apply.soul" -> undoUserConfiguration("soul")
         [] op.cmd.action = "apply.skills" -> undoUserConfiguration("skills")
         [] op.cmd.action = "backup.restore" /\ op.todo[1][1] \in {"prepare", "replace"}
            -> undoRestore
         [] OTHER -> <<>>
Fail ==
  /\ op' = IF Rollback = <<>>
           THEN [op EXCEPT !.mode = "idle", !.todo = <<>>, !.result = "failed"]
           ELSE [op EXCEPT !.mode = "back", !.todo = Rollback]
  /\ plain' = IF Rollback = <<>> THEN Cleanup ELSE plain
Fault == used.faults < MaxFaults /\ used' = [used EXCEPT !.faults = @ + 1]

-----------------------------------------------------------------------------
(* Steps on files: they do not fail, but a crash may come between them. *)

Snapshot == [f \in Archived |-> disk[f]]
Write(content) == disk' = [f \in DOMAIN disk |-> IF f \in DOMAIN content THEN content[f]
                                                 ELSE disk[f]]
One(f, v) == [x \in {f} |-> v]

\* Mutant: kept under the new revision instead of the one they belong to.
Keep_Revision(files) ==
  history' = [history EXCEPT ![Id] =
                [f \in Files |-> IF f \in files /\ disk[f] # 0 THEN disk[f] ELSE @[f]]]

\* config-history keeps the files that exist; an earlier copy of a file that is
\* now missing stays.
Keep(files) ==
  history' = [history EXCEPT ![meta.config] =
                [f \in Files |-> IF f \in files /\ disk[f] # 0 THEN disk[f] ELSE @[f]]]
copyData == copies' = [copies EXCEPT ![op.cmd.restore] = Snapshot]

writeMetadata ==
  meta' = CASE op.cmd.action = "provision" ->
                 [exists |-> TRUE, config |-> Id, image |-> 0, port |-> op.port,
                  key |-> KeyOf(op.cmd)]
            [] op.cmd.action = "release.apply" ->
                 [meta EXCEPT !.image = Id, !.key = KeyOf(op.cmd)]
            [] OTHER -> [meta EXCEPT !.config = Id, !.key = KeyOf(op.cmd)]

FileStep ==
  /\ ~Idle /\ Proceed
  /\ \/ NextIs("write") /\ Write(One(Object, Id))
        /\ UNCHANGED <<staged, history, copies, archive, meta, plain>>
     \/ NextIs("back")
        /\ Write(One(Object, IF op.cmd.action # "config.apply" /\ before.files[Object] = 0
                             THEN 0 ELSE history[meta.config][Object]))
        /\ UNCHANGED <<staged, history, copies, archive, meta, plain>>
     \/ NextIs("drop") /\ Write(One("token", 0))
        /\ UNCHANGED <<staged, history, copies, archive, meta, plain>>
     \/ NextIs("stage") /\ staged' = staged \cup {Id}
        /\ UNCHANGED <<disk, history, copies, archive, meta, plain>>
     \/ NextIs("keep") /\ Keep(IF Object = "all" THEN {"env", "soul", "token"} ELSE {Object})
        /\ UNCHANGED <<disk, staged, copies, archive, meta, plain>>
     \/ NextIs("record") /\ writeMetadata
        /\ UNCHANGED <<disk, staged, history, copies, archive, plain>>
     \/ NextIs("seal") /\ archive' = [archive EXCEPT ![Id] = plain[PlainOf(op.cmd)]]
        /\ plain' = Cleanup
        /\ UNCHANGED <<disk, staged, history, copies, meta>>
     \/ NextIs("expire") /\ archive' = [archive EXCEPT ![Id] = None]
        /\ UNCHANGED <<disk, staged, history, copies, meta, plain>>
     \/ NextIs("open") /\ plain' = [plain EXCEPT ![PlainOf(op.cmd)] = archive[Id]]
        /\ UNCHANGED <<disk, staged, history, copies, archive, meta>>
     \/ NextIs("copy") /\ copyData
        /\ UNCHANGED <<disk, staged, history, archive, meta, plain>>
     \/ NextIs("swap")
        /\ Write(Only(plain[PlainOf(op.cmd)], IF Object = "data" THEN Data ELSE {"env"}))
        /\ UNCHANGED <<staged, history, copies, archive, meta, plain>>
     \/ NextIs("return")
        /\ Write(Only(copies[op.cmd.restore], IF Object = "data" THEN Data ELSE {"env"}))
        /\ UNCHANGED <<staged, history, copies, archive, meta, plain>>
  /\ UNCHANGED <<box, network, other, before, used>>

-----------------------------------------------------------------------------
(* Steps that call docker or tar.  A call that fails or times out may have *)
(* taken effect, wholly or partly.  When the inspection before a removal   *)
(* fails (exists), the removal is skipped and the step succeeds; before a  *)
(* creation, the name is still in use and docker refuses, which is one of  *)
(* the failures of Prepare and replaceContainer.                           *)

\* The finally block belongs to the end of the command.
Succeed == Proceed /\ plain' = IF Ending THEN Cleanup ELSE plain

tar ==
  /\ NextIs("tar")
  /\ LET held == IF Object = "create" THEN [plain EXCEPT ![PlainOf(op.cmd)] = Snapshot]
                 ELSE plain
     IN  \/ Proceed /\ plain' = held /\ UNCHANGED used
         \/ Fault /\ Fail
  /\ UNCHANGED <<disk, staged, history, copies, archive, box, network, meta, other, before>>

\* Probes, contract and smoke tests, snapshots, image pulls and inspections
\* change nothing on this server that the model keeps.
Check ==
  /\ NextIs("check")
  /\ \/ Succeed /\ UNCHANGED used
     \/ Fault /\ Fail
  /\ UNCHANGED <<disk, staged, history, copies, archive, box, network, meta, other, before>>

\* ensureManagementConfiguration, the data directory and the network.
Prepare ==
  /\ NextIs("prepare")
  /\ \/ Proceed /\ network' = TRUE /\ UNCHANGED <<plain, used>>
     \/ Fault /\ Fail /\ network' \in {network, TRUE}
  /\ UNCHANGED <<disk, staged, history, copies, archive, box, meta, other, before>>

\* Mutant: a release is applied with the recorded images.
ImageFor_Meta == meta.image
ImageFor == CASE op.mode = "run" /\ op.cmd.action = "release.apply" -> Id
              [] op.cmd.action = "provision" -> 0
              [] OTHER -> meta.image

\* The container replaceContainer creates, and what a failure may leave behind.
Created(x) == [state |-> "running", env |-> disk["env"], image |-> ImageFor,
               port |-> IF x = "runtime" THEN op.port ELSE NoPort]
Leftovers(x) == {box[x], Absent, Created(x), [Created(x) EXCEPT !.state = "stopped"]}
Runnable(x) == network /\ ~(x = "runtime" /\ other.running /\ other.port = op.port)

replaceContainer ==
  /\ NextIs("replace")
  /\ \/ /\ Runnable(Object) /\ box' = [box EXCEPT ![Object] = Created(Object)]
        /\ Succeed /\ UNCHANGED used
     \/ /\ Fault /\ Fail
        /\ \E left \in Leftovers(Object) :
             /\ left.state = "running" /\ left # box[Object] => Runnable(Object)
             /\ box' = [box EXCEPT ![Object] = left]
     \/ /\ ~Runnable(Object) /\ Fail /\ UNCHANGED used
        /\ \E left \in {Absent, [Created(Object) EXCEPT !.state = "stopped"]} :
             box' = [box EXCEPT ![Object] = left]
  /\ UNCHANGED <<disk, staged, history, copies, archive, network, meta, other, before>>

\* docker start, unpause, stop, pause, restart: the state a container is brought
\* to, or its refusal (a container that does not exist refuses everything).
DockerAccepts(verb, state) ==
  CASE verb = "start"   -> state \in {"running", "stopped"}
    [] verb = "unpause" -> state = "paused"
    [] verb = "pause"   -> state = "running"
    [] OTHER            -> state # "absent"
DockerState(verb) ==
  CASE verb = "pause" -> "paused" [] verb = "stop" -> "stopped" [] OTHER -> "running"
Docker(verb, xs) ==
  box' = [x \in Containers |->
            IF x \in xs /\ DockerAccepts(verb, box[x].state)
            THEN [box[x] EXCEPT !.state = DockerState(verb)] ELSE box[x]]

\* start, resume, stop and suspend name all three containers in one call; docker
\* goes through them in order and reports an error if one of them refused.
LifecycleCall ==
  /\ NextIs("docker")
  /\ \/ /\ Docker(Object, Containers) /\ UNCHANGED used
        /\ IF \A x \in Containers : DockerAccepts(Object, box[x].state)
           THEN Succeed ELSE Fail
     \/ /\ Fault /\ Fail
        /\ \E xs \in {{}, {IF Object = "stop" THEN "runtime" ELSE "hermes"}, Containers} :
             Docker(Object, xs)
  /\ UNCHANGED <<disk, staged, history, copies, archive, network, meta, other, before>>

\* One container: stopped if it is seen to exist (restore, revoke), or restarted.
ServiceCall ==
  /\ NextIs("stop") \/ NextIs("restart")
  /\ \/ /\ Docker(op.todo[1][1], {Object}) /\ UNCHANGED used
        /\ IF NextIs("stop") \/ box[Object].state # "absent" THEN Succeed ELSE Fail
     \/ /\ Fault /\ Fail
        /\ \E xs \in {{}, {Object}} : Docker(op.todo[1][1], xs)
     \/ NextIs("stop") /\ Fault /\ Succeed /\ UNCHANGED box
  /\ UNCHANGED <<disk, staged, history, copies, archive, network, meta, other, before>>

\* config.apply-user pauses or stops a Hermes it found suspended or stopped; one
\* whose status it could not read stays running.
LifecycleVerb == CASE op.was = "paused" -> "pause" [] op.was = "stopped" -> "stop"
                   [] OTHER -> "none"
restoreHermesLifecycle ==
  /\ NextIs("relive")
  /\ LET xs == IF LifecycleVerb = "none" THEN {} ELSE {"hermes"}
     IN  \/ Docker(LifecycleVerb, xs) /\ Succeed /\ UNCHANGED used
         \/ xs # {} /\ Fault /\ Fail /\ \E ys \in {{}, xs} : Docker(LifecycleVerb, ys)
  /\ UNCHANGED <<disk, staged, history, copies, archive, network, meta, other, before>>

\* deployment.delete keeps the files and the instance record, and skips what it
\* does not see.
Remove ==
  /\ NextIs("remove")
  /\ LET gone == /\ box' = IF Object = "network" THEN box ELSE [box EXCEPT ![Object] = Absent]
                 /\ network' = (network /\ Object # "network")
     IN  \/ gone /\ Succeed /\ UNCHANGED used
         \/ Fault /\ Fail /\ (gone \/ UNCHANGED <<box, network>>)
         \/ Fault /\ Succeed /\ UNCHANGED <<box, network>>
  /\ UNCHANGED <<disk, staged, history, copies, archive, meta, other, before>>

-----------------------------------------------------------------------------
(* The world around the Supervisor. *)

\* The process dies; nothing of the command in hand survives in memory.
Crash ==
  /\ ~Idle /\ used.crashes < MaxCrashes
  /\ used' = [used EXCEPT !.crashes = @ + 1]
  /\ op' = [op EXCEPT !.mode = "idle", !.todo = <<>>, !.result = "crashed"]
  /\ \/ UNCHANGED box
     \/ NextIs("replace") /\ box' = [box EXCEPT ![Object] = Absent]
  /\ UNCHANGED <<disk, staged, history, copies, archive, plain, network, meta, other, before>>

\* The Agent at work changes its memory, which only backups and restores look at.
AgentWrites ==
  /\ box["hermes"].state = "running"
  /\ "write memory" \in used.actions /\ used.writes < MaxWrites
  /\ used' = [used EXCEPT !.writes = @ + 1]
  /\ disk' = [disk EXCEPT !["memory"] = used.writes + 1]
  /\ UNCHANGED <<staged, history, copies, archive, plain, box, network, meta, other,
                 op, before>>

\* The same Supervisor provisions, stops and starts another Agent.
RunningOn(port) == box["runtime"].state \in {"running", "paused"} /\ box["runtime"].port = port
OtherAgent ==
  /\ Idle
  /\ \/ /\ other.port = NoPort
        /\ LET port == allocatePort(OtherFirst, {meta.port})
           IN  port # NoPort /\ ~RunningOn(port) /\ other' = [port |-> port, running |-> TRUE]
     \/ other.running /\ other' = [other EXCEPT !.running = FALSE]
     \/ /\ other.port # NoPort /\ ~other.running /\ ~RunningOn(other.port)
        /\ other' = [other EXCEPT !.running = TRUE]
  /\ UNCHANGED <<disk, staged, history, copies, archive, plain, box, network, meta,
                 op, before, used>>

Next ==
  \/ \E c \in Commands, answered \in BOOLEAN : Begin(c, answered)
  \/ FileStep \/ tar \/ Check \/ Prepare \/ replaceContainer
  \/ LifecycleCall \/ ServiceCall \/ restoreHermesLifecycle \/ Remove
  \/ Crash \/ AgentWrites \/ OtherAgent

Spec == Init /\ [][Next]_vars

-----------------------------------------------------------------------------
States == {"absent", "running", "paused", "stopped"}
Versions == Revs \cup {0}
SnapshotType(s) == s = None \/ (DOMAIN s = Archived /\ \A f \in Archived : s[f] \in Nat)

\* Every file, container, record and archive keeps its shape; a container other
\* than an absent one runs a revision that was written (--env-file is never
\* missing) and only the Runtime publishes a port.
TypeOK ==
  /\ \A f \in Files : disk[f] \in Versions
  /\ disk["memory"] \in 0 .. MaxWrites
  /\ staged \subseteq Revs
  /\ \A r \in Revs, f \in Files : history[r][f] \in Versions
  /\ \A r \in RestoreIds : SnapshotType(copies[r])
  /\ \A b \in BackupIds : SnapshotType(archive[b])
  /\ \A i \in PlainIds : SnapshotType(plain[i])
  /\ \A x \in Containers :
       /\ box[x].state \in States /\ box[x].image \in Images
       /\ box[x].state # "absent" => box[x].env \in Revs
       /\ box[x].port \in (IF x = "runtime" THEN Ports \cup {NoPort} ELSE {NoPort})
  /\ meta.exists => meta.config \in Revs /\ meta.image \in Images /\ meta.port \in Ports
  /\ op.mode \in {"idle", "run", "back"}
  /\ op.result \in {"none", "done", "failed", "rolledback", "crashed", "replayed"}

AllRun(env, image) ==
  \A x \in Containers :
    box[x].state = "running" /\ box[x].env = env /\ box[x].image = image

\* A Hermes that config.apply-user replaced is paused or stopped again if its
\* status was read and was that; it is left running when it was running before or
\* had no container, and also when docker did not answer for its status.
HermesRelived ==
  /\ op.was \in {before.hermes, "unknown"}
  /\ box["hermes"].state = IF op.was \in {"paused", "stopped"} THEN op.was ELSE "running"

\* applyConfiguration, applyUserConfiguration and restoreBackup: when the catch
\* block completed, every file is what it was before the command, and the
\* containers it restarted run them with the recorded image.  A config.apply
\* without a control token to keep is the exception: it brings back a token
\* that had been revoked, or does not roll back.  A Hermes found paused or
\* stopped is so again, unless its status could not be read (HermesRelived).
RollbackRestores ==
  Idle /\ op.result = "rolledback" =>
    /\ \A f \in Files : before.files[f] # 0 => disk[f] = before.files[f]
    /\ op.cmd.action \in {"config.apply", "backup.restore"} => AllRun(disk["env"], meta.image)
    /\ op.cmd.action \in {"apply.soul", "apply.skills"} =>
         /\ box["hermes"].env = disk["env"] /\ box["hermes"].image = meta.image
         /\ HermesRelived

\* A command that reports success has put in force what the instance record
\* says: all three containers run the files on disk with the recorded image and
\* port, and the recorded revision is the one that was asked for.  A Hermes that
\* config.apply-user found paused or stopped is so again, but one whose status
\* docker did not tell is left running (HermesRelived).
SuccessInForce ==
  Idle /\ op.result = "done" =>
    /\ op.cmd.action \in {"provision", "config.apply", "release.apply", "backup.restore"} =>
         /\ AllRun(disk["env"], meta.image)
         /\ box["runtime"].port = meta.port
    /\ op.cmd.action \in {"provision", "config.apply"} =>
         disk["env"] = meta.config /\ disk["soul"] = meta.config
    /\ op.cmd.action \in {"apply.soul", "apply.skills"} => HermesRelived

\* allocatePort: the instance records of two Agents never name the same port,
\* and no two running Runtimes publish the same one, whichever of them is
\* stopped, deleted, half provisioned or provisioned again.
PortsDiffer ==
  /\ meta.exists => meta.port # other.port
  /\ other.running => ~RunningOn(other.port)

\* The finally blocks: an unencrypted archive outlives its command only when
\* the process died.
NoPlaintextLeft ==
  Idle /\ used.crashes = 0 => \A i \in PlainIds : plain[i] = None

\* Together: what the Supervisor leaves on its host, through failing steps,
\* crashes and repeated commands.
HostInv == TypeOK /\ PortsDiffer /\ NoPlaintextLeft
=============================================================================
