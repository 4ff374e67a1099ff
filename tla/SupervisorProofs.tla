-------------------------- MODULE SupervisorProofs --------------------------
(***************************************************************************)
(* Theorems about Supervisor, for every set of revisions, images, backups  *)
(* and restores, every port range and every bound: what commands leave on  *)
(* the host (HostInv), what a roll-back restores (RollbackRestores) and    *)
(* what a reported success means (SuccessInForce).                         *)
(***************************************************************************)
EXTENDS Supervisor, WellFoundedInduction, TLAPS

-----------------------------------------------------------------------------
(* Where a command is: its program, and how many of its steps are left. *)

action == op.cmd.action
left == Len(op.todo)
Verb == op.todo[1][1]

Users == {"apply.soul", "apply.skills"}
UserFile == IF action = "apply.soul" THEN "soul" ELSE "skills"

undo(act) ==
  CASE act = "config.apply" -> undoConfiguration
    [] act = "apply.soul"   -> undoUserConfiguration("soul")
    [] act = "apply.skills" -> undoUserConfiguration("skills")
    [] OTHER                -> undoRestore

Plan == IF op.mode = "run" THEN execute(op.cmd) ELSE undo(action)
IsSeq(s) == s \in Seq({s[i] : i \in 1..Len(s)})

\* What is left to do is the end of the program.
OnPlan ==
  ~Idle => /\ IsSeq(op.todo)
           /\ left \in 1..Len(Plan)
           /\ \A i \in 1..left : op.todo[i] = Plan[Len(Plan) - left + i]

-----------------------------------------------------------------------------
(* The inductive invariant. *)

Paths == Files \cup {"memory"}
Snaps == {s \in [Archived -> Nat] : /\ s["env"] \in Revs /\ s["soul"] \in Versions
                                    /\ s["skills"] \in Versions
                                    /\ s["memory"] \in 0..MaxWrites}
BoxRow == [state : States, env : Versions, image : Images, port : Ports \cup {NoPort}]

\* Files, records and containers keep their shape; an instance that has a record
\* has its environment, and so has every snapshot.
FilesOK ==
  /\ disk \in [Paths -> Nat]
  /\ \A f \in Files : disk[f] \in Versions
  /\ disk["memory"] \in 0..MaxWrites
  /\ meta.exists => disk["env"] \in Revs
  /\ staged \subseteq Revs
  /\ history \in [Revs -> [Files -> Versions]]
SnapsOK ==
  /\ copies \in [RestoreIds -> Snaps \cup {None}]
  /\ archive \in [BackupIds -> Snaps \cup {None}]
  /\ plain \in [PlainIds -> Snaps \cup {None}]
BoxOK ==
  /\ box \in [Containers -> BoxRow]
  /\ \A x \in Containers : /\ box[x].state # "absent" => box[x].env \in Revs
                           /\ x # "runtime" => box[x].port = NoPort
  /\ network \in BOOLEAN
RecordsOK ==
  /\ meta = [exists |-> meta.exists, config |-> meta.config, image |-> meta.image,
             port |-> meta.port, key |-> meta.key]
  /\ meta.exists \in BOOLEAN /\ meta.image \in Images /\ meta.port \in Ports \cup {NoPort}
  /\ meta.exists => meta.config \in Revs /\ meta.port \in Ports
  /\ other \in [port : Ports \cup {NoPort}, running : BOOLEAN]
  /\ other.running => other.port \in Ports
  /\ before = [files |-> before.files, hermes |-> before.hermes]
  /\ before.files \in [Files -> Versions]
  /\ used = [actions |-> used.actions, commands |-> used.commands, faults |-> used.faults,
             crashes |-> used.crashes, writes |-> used.writes, restores |-> used.restores]
  /\ used.crashes \in Nat /\ used.writes \in 0..MaxWrites
OpOK ==
  /\ op = [cmd |-> op.cmd, mode |-> op.mode, todo |-> op.todo, was |-> op.was,
           port |-> op.port, result |-> op.result]
  /\ op.mode \in {"idle", "run", "back"}
  /\ op.result \in {"none", "done", "failed", "rolledback", "crashed", "replayed"}
Types == FilesOK /\ SnapsOK /\ BoxOK /\ RecordsOK /\ OpOK

\* The command in hand is on its program; all but two kinds of command need an
\* instance record, and publish the port it names.
CmdOK ==
  ~Idle =>
    /\ op.cmd \in Commands
    /\ op.mode = "back" => action \in {"config.apply", "backup.restore"} \cup Users
    /\ op.was \in {before.hermes, "unknown"}
    /\ action \notin {"provision", "release.stage"} =>
         meta.exists /\ before.files["env"] \in Revs /\ op.port = meta.port
    /\ action = "provision" => op.port \in Ports /\ op.port # other.port
CmdInv == OnPlan /\ CmdOK

\* How far the files are.  Kept: the history holds the file the command found.
Kept(f) == before.files[f] # 0 => history[meta.config][f] = before.files[f]
Same(f) == disk[f] = before.files[f]
Returned(f) == before.files[f] # 0 => Same(f)
Copied == /\ copies[op.cmd.restore] \in Snaps
          /\ \A f \in {"env", "soul", "skills"} :
               copies[op.cmd.restore][f] = before.files[f]

ProvisionFiles ==
  action = "provision" => /\ left <= 8 => disk["env"] = Id
                          /\ left <= 7 => disk["soul"] = Id
ConfigFiles ==
  action = "config.apply" /\ op.mode = "run" =>
    /\ Same("skills")
    /\ left >= 9 => \A f \in Files : Same(f)
    /\ left <= 8 => \A f \in {"env", "soul", "token"} : Kept(f)
    /\ left <= 7 => disk["env"] = Id
    /\ left <= 6 => disk["soul"] = Id
ConfigBack ==
  action = "config.apply" /\ op.mode = "back" =>
    /\ Same("skills")
    /\ \A f \in {"env", "soul", "token"} : Kept(f)
    /\ left <= 6 => Returned("env")
    /\ left <= 5 => Returned("soul")
    /\ left <= 4 => Returned("token")
UserFiles ==
  action \in Users =>
    /\ \A f \in Files \ {UserFile} : Same(f)
    /\ op.mode = "run" /\ left = 5 => Same(UserFile)
    /\ op.mode = "run" /\ left <= 4 => Kept(UserFile)
    /\ op.mode = "back" => Kept(UserFile)
    /\ op.mode = "back" /\ left <= 2 => Returned(UserFile)
RestoreFiles ==
  action = "backup.restore" =>
    /\ Same("token")
    /\ op.mode = "run" /\ left >= 7 => \A f \in Files : Same(f)
    /\ op.mode = "run" /\ left = 12 => archive[Id] \in Snaps
    /\ op.mode = "run" /\ left \in 5..11 => plain[PlainOf(op.cmd)] \in Snaps
    /\ op.mode = "run" /\ left <= 9 => Copied
    /\ op.mode = "back" => Copied
    /\ op.mode = "back" /\ left <= 5 => Same("soul") /\ Same("skills")
    /\ op.mode = "back" /\ left <= 4 => Same("env")
CreateFiles ==
  action = "backup.create" => (left = 1 => plain[PlainOf(op.cmd)] \in Snaps)
FileWork == ~Idle => /\ ProvisionFiles /\ ConfigFiles /\ ConfigBack /\ UserFiles
                     /\ RestoreFiles /\ CreateFiles

\* How far the containers are: the ones behind have been replaced.
Made(x) == box[x] = Created(x)
Replacing == {"provision", "config.apply", "release.apply", "backup.restore"}
After == IF op.mode = "run" /\ action # "backup.restore" THEN 1 ELSE 0
BoxWork ==
  ~Idle =>
    /\ action \in Replacing =>
         /\ left <= After + 2 => Made("hermes")
         /\ left <= After + 1 => Made("dashboard")
         /\ left <= After => Made("runtime")
    /\ action \in Users =>
         /\ left = (IF op.mode = "run" THEN 2 ELSE 1) => Made("hermes")
         /\ op.mode = "run" /\ left = 1 => HermesRelived

\* Before the other Agent has a port, every port is the first one; afterwards
\* the recorded instance stays off the other's port even when it is stopped.
PortsInv ==
  /\ PortsDiffer
  /\ meta.exists /\ other.port # NoPort => box["runtime"].port # other.port
  /\ other.port = NoPort =>
       /\ box["runtime"].port \in {NoPort, First}
       /\ meta.exists => meta.port = First
       /\ ~Idle /\ action = "provision" => op.port = First

\* Only the command in hand has an unencrypted archive.
PlainInv ==
  used.crashes = 0 =>
    \A i \in PlainIds : Idle \/ i # PlainOf(op.cmd) => plain[i] = None

IndInv == /\ Types /\ CmdInv /\ FileWork /\ BoxWork /\ PortsInv /\ PlainInv
          /\ RollbackRestores /\ SuccessInForce

-----------------------------------------------------------------------------
(* The programs. *)

\* The actions there are and what each names.
LEMMA CommandKinds ==
  ASSUME NEW c \in Commands
  PROVE  /\ c.action \in {"provision", "config.stage", "config.apply", "apply.soul",
              "apply.skills", "start", "stop", "suspend", "resume", "delete", "check",
              "credential.revoke", "service.restart", "backup.create", "backup.verify",
              "backup.expire", "backup.restore", "release.stage", "release.apply"}
         /\ c.action \in {"provision", "config.stage", "config.apply", "apply.soul",
                          "apply.skills"} => c.id \in Revs
         /\ c.action = "service.restart" => c.id \in {1, 2, 3}
         /\ c.action \in {"backup.create", "backup.verify", "backup.expire",
                          "backup.restore"} => c.id \in BackupIds
         /\ c.action = "backup.restore" => c.restore \in RestoreIds
         /\ c.action \in {"release.stage", "release.apply"} => c.id \in Images
BY DEF Commands, Command

\* The programs are sequences; their lengths.
LEMMA ProgramSeq ==
  /\ IsSeq(provision) /\ Len(provision) = 9
  /\ IsSeq(applyConfiguration) /\ Len(applyConfiguration) = 10
  /\ IsSeq(restoreBackup) /\ Len(restoreBackup) = 12
  /\ IsSeq(applyRelease) /\ Len(applyRelease) = 6
  /\ IsSeq(createBackup) /\ Len(createBackup) = 2
  /\ IsSeq(revokeCredential) /\ Len(revokeCredential) = 2
  /\ IsSeq(undoConfiguration) /\ Len(undoConfiguration) = 7
  /\ IsSeq(undoRestore) /\ Len(undoRestore) = 6
  /\ \A f : IsSeq(applyUserConfiguration(f)) /\ Len(applyUserConfiguration(f)) = 5
  /\ \A f : IsSeq(undoUserConfiguration(f)) /\ Len(undoUserConfiguration(f)) = 3
  /\ \A v, f : IsSeq(<<<<v, f>>>>) /\ Len(<<<<v, f>>>>) = 1
<1>1. IsSeq(provision) /\ Len(provision) = 9
  BY DEF provision, IsSeq
<1>2. IsSeq(applyConfiguration) /\ Len(applyConfiguration) = 10
  BY DEF applyConfiguration, IsSeq
<1>3. IsSeq(restoreBackup) /\ Len(restoreBackup) = 12
  BY DEF restoreBackup, IsSeq
<1>4. IsSeq(applyRelease) /\ Len(applyRelease) = 6
  BY DEF applyRelease, IsSeq
<1>5. IsSeq(createBackup) /\ Len(createBackup) = 2
  BY DEF createBackup, IsSeq
<1>6. IsSeq(revokeCredential) /\ Len(revokeCredential) = 2
  BY DEF revokeCredential, IsSeq
<1>7. IsSeq(undoConfiguration) /\ Len(undoConfiguration) = 7
  BY DEF undoConfiguration, IsSeq
<1>8. IsSeq(undoRestore) /\ Len(undoRestore) = 6
  BY DEF undoRestore, IsSeq
<1>9. \A f : IsSeq(applyUserConfiguration(f)) /\ Len(applyUserConfiguration(f)) = 5
  BY DEF applyUserConfiguration, IsSeq
<1>10. \A f : IsSeq(undoUserConfiguration(f)) /\ Len(undoUserConfiguration(f)) = 3
  BY DEF undoUserConfiguration, IsSeq
<1>11. \A v, f : IsSeq(<<<<v, f>>>>) /\ Len(<<<<v, f>>>>) = 1
  BY DEF IsSeq
<1> QED
  BY <1>1, <1>2, <1>3, <1>4, <1>5, <1>6, <1>7, <1>8, <1>9, <1>10, <1>11

\* So are those of the lifecycle actions.
LEMMA LifecycleSeq ==
  ASSUME NEW act \in {"start", "stop", "suspend", "resume", "delete"}
  PROVE  IsSeq(lifecycle(act)) /\ Len(lifecycle(act)) \in Nat \ {0}
<1>1. CASE act # "delete"
  BY <1>1, ProgramSeq DEF lifecycle
<1>2. CASE act = "delete"
  <2> DEFINE p == <<<<"remove", "runtime">>, <<"remove", "dashboard">>,
                    <<"remove", "hermes">>, <<"remove", "network">>>>
  <2>1. IsSeq(p) /\ Len(p) = 4
    BY DEF IsSeq
  <2>2. lifecycle(act) = p
    BY <1>2 DEF lifecycle
  <2> HIDE DEF p
  <2> QED
    BY <2>1, <2>2
<1> QED
  BY <1>1, <1>2

\* Every command has a program of at least one step.
LEMMA ExecuteSeq ==
  ASSUME NEW c \in Commands
  PROVE  IsSeq(execute(c)) /\ Len(execute(c)) \in Nat \ {0}
<1>1. CASE c.action \in {"start", "stop", "suspend", "resume", "delete"}
  <2>1. execute(c) = lifecycle(c.action)
    BY <1>1 DEF execute
  <2> QED
    BY <1>1, <2>1, LifecycleSeq
<1>2. CASE c.action \in {"provision", "config.apply", "apply.soul", "apply.skills",
                         "credential.revoke", "backup.create", "backup.restore",
                         "release.apply"}
  <2>1. execute(c) \in {provision, applyConfiguration, applyUserConfiguration("soul"),
                        applyUserConfiguration("skills"), revokeCredential, createBackup,
                        restoreBackup, applyRelease}
    BY <1>2 DEF execute
  <2>2. \A p \in {provision, applyConfiguration, applyUserConfiguration("soul"),
                  applyUserConfiguration("skills"), revokeCredential, createBackup,
                  restoreBackup, applyRelease} : IsSeq(p) /\ Len(p) \in Nat \ {0}
    <3>1. {2, 5, 6, 9, 10, 12} \subseteq Nat \ {0}
      OBVIOUS
    <3> QED
      BY <3>1, ProgramSeq, Zenon
  <2> QED
    BY <2>1, <2>2, Zenon
<1>3. CASE c.action \in {"config.stage", "check", "service.restart", "backup.verify",
                         "backup.expire", "release.stage"}
  <2>1. PICK v, f : execute(c) = <<<<v, f>>>>
    BY <1>3 DEF execute
  <2>2. IsSeq(<<<<v, f>>>>) /\ Len(<<<<v, f>>>>) = 1
    BY ProgramSeq
  <2> QED
    BY <2>1, <2>2
<1> QED
  BY <1>1, <1>2, <1>3, CommandKinds

\* The step that is due when i steps are left.
At(i, verb, object) == left = i => Verb = verb /\ Object = object

\* Which step of provision is due when so many are left.
LEMMA ProvisionTable ==
  ASSUME OnPlan, ~Idle, op.mode = "run", action = "provision"
  PROVE  /\ left \in 1..9
         /\ At(9, "write", "env") /\ At(8, "write", "soul") /\ At(7, "write", "skills")
         /\ At(6, "write", "token") /\ At(5, "prepare", "network")
         /\ At(4, "replace", "hermes") /\ At(3, "replace", "dashboard")
         /\ At(2, "replace", "runtime") /\ At(1, "record", "provision")
<1>1. Plan = provision
  BY DEF Plan, execute, action
<1>2. op.todo[1] = provision[10 - left] /\ left \in 1..9
  BY <1>1, ProgramSeq DEF OnPlan
<1> QED
  BY <1>2 DEF At, Verb, Object, provision

\* The same for config.apply,
LEMMA ConfigTable ==
  ASSUME OnPlan, ~Idle, op.mode = "run", action = "config.apply"
  PROVE  /\ left \in 1..10
         /\ At(10, "stage", "config") /\ At(9, "keep", "all") /\ At(8, "write", "env")
         /\ At(7, "write", "soul") /\ At(6, "write", "token")
         /\ At(5, "prepare", "network") /\ At(4, "replace", "hermes")
         /\ At(3, "replace", "dashboard") /\ At(2, "replace", "runtime")
         /\ At(1, "record", "config.apply")
<1>1. Plan = applyConfiguration
  BY DEF Plan, execute, action
<1>2. op.todo[1] = applyConfiguration[11 - left] /\ left \in 1..10
  BY <1>1, ProgramSeq DEF OnPlan
<1> QED
  BY <1>2 DEF At, Verb, Object, applyConfiguration

\* for its catch block,
LEMMA ConfigBackTable ==
  ASSUME OnPlan, ~Idle, op.mode = "back", action = "config.apply"
  PROVE  /\ left \in 1..7
         /\ At(7, "back", "env") /\ At(6, "back", "soul") /\ At(5, "back", "token")
         /\ At(4, "prepare", "network") /\ At(3, "replace", "hermes")
         /\ At(2, "replace", "dashboard") /\ At(1, "replace", "runtime")
<1>1. Plan = undoConfiguration
  BY DEF Plan, undo, action
<1>2. op.todo[1] = undoConfiguration[8 - left] /\ left \in 1..7
  BY <1>1, ProgramSeq DEF OnPlan
<1> QED
  BY <1>2 DEF At, Verb, Object, undoConfiguration

\* for backup.restore,
LEMMA RestoreTable ==
  ASSUME OnPlan, ~Idle, op.mode = "run", action = "backup.restore"
  PROVE  /\ left \in 1..12
         /\ At(12, "open", "backup") /\ At(11, "tar", "extract") /\ At(10, "copy", "data")
         /\ At(9, "stop", "runtime") /\ At(8, "stop", "dashboard")
         /\ At(7, "stop", "hermes") /\ At(6, "swap", "data") /\ At(5, "swap", "env")
         /\ At(4, "prepare", "network") /\ At(3, "replace", "hermes")
         /\ At(2, "replace", "dashboard") /\ At(1, "replace", "runtime")
<1>1. Plan = restoreBackup
  BY DEF Plan, execute, action
<1>2. op.todo[1] = restoreBackup[13 - left] /\ left \in 1..12
  BY <1>1, ProgramSeq DEF OnPlan
<1> QED
  BY <1>2 DEF At, Verb, Object, restoreBackup

\* for its catch block,
LEMMA RestoreBackTable ==
  ASSUME OnPlan, ~Idle, op.mode = "back", action = "backup.restore"
  PROVE  /\ left \in 1..6
         /\ At(6, "return", "data") /\ At(5, "return", "env")
         /\ At(4, "prepare", "network") /\ At(3, "replace", "hermes")
         /\ At(2, "replace", "dashboard") /\ At(1, "replace", "runtime")
<1>1. Plan = undoRestore
  BY DEF Plan, undo, action
<1>2. op.todo[1] = undoRestore[7 - left] /\ left \in 1..6
  BY <1>1, ProgramSeq DEF OnPlan
<1> QED
  BY <1>2 DEF At, Verb, Object, undoRestore

\* for release.apply,
LEMMA ReleaseTable ==
  ASSUME OnPlan, ~Idle, op.mode = "run", action = "release.apply"
  PROVE  /\ left \in 1..6
         /\ At(6, "check", "pull") /\ At(5, "prepare", "network")
         /\ At(4, "replace", "hermes") /\ At(3, "replace", "dashboard")
         /\ At(2, "replace", "runtime") /\ At(1, "record", "release.apply")
<1>1. Plan = applyRelease
  BY DEF Plan, execute, action
<1>2. op.todo[1] = applyRelease[7 - left] /\ left \in 1..6
  BY <1>1, ProgramSeq DEF OnPlan
<1> QED
  BY <1>2 DEF At, Verb, Object, applyRelease

\* for backup.create,
LEMMA CreateTable ==
  ASSUME OnPlan, ~Idle, op.mode = "run", action = "backup.create"
  PROVE  /\ left \in 1..2
         /\ At(2, "tar", "create") /\ At(1, "seal", "backup")
<1>1. Plan = createBackup
  BY DEF Plan, execute, action
<1>2. op.todo[1] = createBackup[3 - left] /\ left \in 1..2
  BY <1>1, ProgramSeq DEF OnPlan
<1> QED
  BY <1>2 DEF At, Verb, Object, createBackup

\* for credential.revoke,
LEMMA RevokeTable ==
  ASSUME OnPlan, ~Idle, op.mode = "run", action = "credential.revoke"
  PROVE  /\ left \in 1..2
         /\ At(2, "drop", "token") /\ At(1, "stop", "runtime")
<1>1. Plan = revokeCredential
  BY DEF Plan, execute, action
<1>2. op.todo[1] = revokeCredential[3 - left] /\ left \in 1..2
  BY <1>1, ProgramSeq DEF OnPlan
<1> QED
  BY <1>2 DEF At, Verb, Object, revokeCredential

\* for the owner's configuration,
LEMMA UserTable ==
  ASSUME OnPlan, ~Idle, op.mode = "run", action \in Users
  PROVE  /\ left \in 1..5 /\ UserFile \in {"soul", "skills"}
         /\ At(5, "keep", UserFile) /\ At(4, "write", UserFile) /\ At(3, "replace", "hermes")
         /\ At(2, "relive", "hermes") /\ At(1, "record", "config.apply-user")
<1>1. Plan = applyUserConfiguration(UserFile)
  BY DEF Plan, execute, action, Users, UserFile
<1>2. UserFile \in {"soul", "skills"}
  BY DEF UserFile
<1> HIDE DEF UserFile
<1>3. Len(applyUserConfiguration(UserFile)) = 5
  BY ProgramSeq, Zenon
<1>4. op.todo[1] = applyUserConfiguration(UserFile)[6 - left] /\ left \in 1..5
  BY <1>1, <1>3 DEF OnPlan
<1> QED
  BY <1>2, <1>4 DEF At, Verb, Object, applyUserConfiguration

\* and for its catch block.
LEMMA UserBackTable ==
  ASSUME OnPlan, ~Idle, op.mode = "back", action \in Users
  PROVE  /\ left \in 1..3 /\ UserFile \in {"soul", "skills"}
         /\ At(3, "back", UserFile) /\ At(2, "replace", "hermes") /\ At(1, "relive", "hermes")
<1>1. Plan = undoUserConfiguration(UserFile)
  BY DEF Plan, undo, action, Users, UserFile
<1>2. UserFile \in {"soul", "skills"}
  BY DEF UserFile
<1> HIDE DEF UserFile
<1>3. Len(undoUserConfiguration(UserFile)) = 3
  BY ProgramSeq, Zenon
<1>4. op.todo[1] = undoUserConfiguration(UserFile)[4 - left] /\ left \in 1..3
  BY <1>1, <1>3 DEF OnPlan
<1> QED
  BY <1>2, <1>4 DEF At, Verb, Object, undoUserConfiguration

\* The commands of one step, and the one that removes everything.
LEMMA ShortTable ==
  ASSUME OnPlan, CmdOK, ~Idle, op.mode = "run",
         action \notin Replacing \cup Users \cup {"backup.create", "credential.revoke"}
  PROVE  \/ /\ action = "delete" /\ Verb = "remove"
            /\ Object \in {"runtime", "dashboard", "hermes", "network"}
         \/ /\ left = 1
            /\ \/ action = "config.stage" /\ Verb = "stage" /\ Object = "config"
               \/ /\ action \in {"check", "backup.verify", "release.stage"}
                  /\ Verb = "check"
               \/ /\ action = "service.restart" /\ Verb = "restart"
                  /\ Object \in Containers
               \/ action = "backup.expire" /\ Verb = "expire"
               \/ /\ action \in {"start", "resume", "stop", "suspend"} /\ Verb = "docker"
                  /\ Object \in {"start", "unpause", "stop", "pause"}
<1> DEFINE short == {"config.stage", "check", "service.restart", "backup.verify",
                     "backup.expire", "release.stage", "start", "stop", "suspend", "resume"}
<1>1. action \in short \cup {"delete"}
  BY CommandKinds DEF action, CmdOK, Replacing, Users
<1>2. Plan = execute(op.cmd)
  BY DEF Plan
<1>3. CASE action = "delete"
  <2> DEFINE p == <<<<"remove", "runtime">>, <<"remove", "dashboard">>,
                    <<"remove", "hermes">>, <<"remove", "network">>>>
  <2>1. Plan = p
    BY <1>2, <1>3 DEF execute, lifecycle, action
  <2>2. Len(p) = 4
    OBVIOUS
  <2> HIDE DEF p
  <2>3. op.todo[1] = p[5 - left] /\ left \in 1..4
    BY <2>1, <2>2 DEF OnPlan
  <2> QED
    BY <1>3, <2>3 DEF p, Verb, Object
<1>4. CASE action \in short
  <2>1. PICK v, f : Plan = <<<<v, f>>>>
    BY <1>2, <1>4 DEF execute, lifecycle, action
  <2>2. left = 1 /\ op.todo[1] = <<v, f>>
    BY <2>1 DEF OnPlan
  <2>3. \/ action = "config.stage" /\ v = "stage" /\ f = "config"
        \/ action \in {"check", "backup.verify", "release.stage"} /\ v = "check"
        \/ action = "service.restart" /\ v = "restart" /\ f = AllContainers[op.cmd.id]
        \/ action = "backup.expire" /\ v = "expire"
        \/ /\ action \in {"start", "resume", "stop", "suspend"} /\ v = "docker"
           /\ f \in {"start", "unpause", "stop", "pause"}
    BY <1>2, <1>4, <2>1 DEF execute, lifecycle, action
  <2>4. action = "service.restart" => AllContainers[op.cmd.id] \in Containers
    BY CommandKinds DEF CmdOK, action, AllContainers, Containers
  <2> QED
    BY <2>2, <2>3, <2>4 DEF Verb, Object
<1> QED
  BY <1>1, <1>3, <1>4


-----------------------------------------------------------------------------
(* Which commands a step belongs to. *)

Mode(mode, acts) == op.mode = mode /\ action \in acts

\* The commands and the place in their programs that a step belongs to.
LEMMA Heads ==
  ASSUME CmdInv, OpOK, ~Idle
  PROVE  /\ left \in Nat \ {0}
         /\ Verb = "write" => Mode("run", {"provision", "config.apply"} \cup Users)
         /\ Verb = "back" => Mode("back", {"config.apply"} \cup Users)
         /\ Verb = "drop" => Mode("run", {"credential.revoke"})
         /\ Verb = "stage" => Mode("run", {"config.stage", "config.apply"})
         /\ Verb = "keep" => Mode("run", {"config.apply"} \cup Users)
         /\ Verb = "record" =>
              left = 1 /\ Mode("run", {"provision", "config.apply", "release.apply"} \cup Users)
         /\ Verb = "seal" => left = 1 /\ Mode("run", {"backup.create"})
         /\ Verb = "expire" => left = 1 /\ Mode("run", {"backup.expire"})
         /\ Verb \in {"open", "copy", "swap"} => Mode("run", {"backup.restore"})
         /\ Verb = "return" => Mode("back", {"backup.restore"})
         /\ Verb = "tar" => left > 1 /\ Mode("run", {"backup.create", "backup.restore"})
         /\ Verb = "check" =>
              \/ left = 1 /\ Mode("run", {"check", "backup.verify", "release.stage"})
              \/ left = 6 /\ Mode("run", {"release.apply"})
         /\ Verb = "prepare" => action \in Replacing /\ left = After + 4
         /\ Verb = "replace" =>
              \/ /\ action \in Replacing /\ left \in 1..(After + 3)
                 /\ left = After + 3 => Object = "hermes"
                 /\ left = After + 2 => Object = "dashboard"
                 /\ left = After + 1 => Object = "runtime"
                 /\ left # After
              \/ action \in Users /\ left \in 2..3 /\ Object = "hermes"
         /\ Verb = "docker" =>
              left = 1 /\ Mode("run", {"start", "resume", "stop", "suspend"})
         /\ Verb = "stop" => /\ Mode("run", {"backup.restore", "credential.revoke"})
                             /\ Object \in Containers
         /\ Verb = "restart" => /\ left = 1 /\ Mode("run", {"service.restart"})
                                /\ Object \in Containers
         /\ Verb = "relive" => /\ action \in Users
                               /\ left = IF op.mode = "run" THEN 2 ELSE 1
         /\ Verb = "remove" => /\ Mode("run", {"delete"})
                               /\ Object \in Containers \cup {"network"}
<1> USE DEF CmdInv, Mode
<1>1. CASE op.mode = "run" /\ action = "provision"
  BY <1>1, ProvisionTable DEF At, Replacing, Users, After
<1>2. CASE op.mode = "run" /\ action = "config.apply"
  BY <1>2, ConfigTable DEF At, Replacing, Users, After
<1>3. CASE op.mode = "back" /\ action = "config.apply"
  BY <1>3, ConfigBackTable DEF At, Replacing, Users, After
<1>4. CASE op.mode = "run" /\ action = "backup.restore"
  BY <1>4, RestoreTable DEF At, Replacing, Users, After, Containers
<1>5. CASE op.mode = "back" /\ action = "backup.restore"
  BY <1>5, RestoreBackTable DEF At, Replacing, Users, After
<1>6. CASE op.mode = "run" /\ action = "release.apply"
  BY <1>6, ReleaseTable DEF At, Replacing, Users, After
<1>7. CASE op.mode = "run" /\ action = "backup.create"
  BY <1>7, CreateTable DEF At, Replacing, Users, After
<1>8. CASE op.mode = "run" /\ action = "credential.revoke"
  BY <1>8, RevokeTable DEF At, Replacing, Users, After, Containers
<1>9. CASE op.mode = "run" /\ action \in Users
  BY <1>9, UserTable DEF At, Replacing, Users, After
<1>10. CASE op.mode = "back" /\ action \in Users
  BY <1>10, UserBackTable DEF At, Replacing, Users, After
<1>11. CASE /\ op.mode = "run"
            /\ action \notin Replacing \cup Users \cup {"backup.create", "credential.revoke"}
  <2>1. left \in Nat \ {0}
    BY DEF OnPlan
  <2> QED
    BY <1>11, <2>1, ShortTable DEF Replacing, Users, Containers
<1> QED
  BY <1>1, <1>2, <1>3, <1>4, <1>5, <1>6, <1>7, <1>8, <1>9, <1>10, <1>11
  DEF OpOK, CmdOK, Idle, Replacing


-----------------------------------------------------------------------------
(* How a step moves the command: on to its next step or its end, or into *)
(* the catch block.                                                      *)

\* The rest of a program.
LEMMA TailSeq ==
  ASSUME NEW s, IsSeq(s), Len(s) > 1
  PROVE  /\ IsSeq(Tail(s)) /\ Len(Tail(s)) = Len(s) - 1
         /\ \A i \in 1..(Len(s) - 1) : Tail(s)[i] = s[i + 1]
<1> DEFINE S == {s[i] : i \in 1..Len(s)}
<1>1. s \in Seq(S)
  BY DEF IsSeq
<1> HIDE DEF S
<1>2. /\ Tail(s) \in Seq(S) /\ Len(Tail(s)) = Len(s) - 1
      /\ \A i \in 1..(Len(s) - 1) : Tail(s)[i] = s[i + 1]
  BY <1>1
<1> DEFINE t == Tail(s)
           T == {t[i] : i \in 1..Len(t)}
<1>3. t \in Seq(T)
  <2>1. t \in Seq(S)
    BY <1>2
  <2> HIDE DEF t
  <2> QED
    BY <2>1
<1> QED
  BY <1>2, <1>3 DEF IsSeq

SameCommand == op'.cmd = op.cmd /\ op'.port = op.port /\ op'.was = op.was

\* A step that succeeds brings its program one step nearer to the end.
LEMMA Advance ==
  ASSUME CmdInv, OpOK, ~Idle, Proceed
  PROVE  /\ OpOK' /\ SameCommand /\ OnPlan'
         /\ left > 1 => ~Idle' /\ op'.mode = op.mode /\ left' = left - 1
         /\ left = 1 => /\ Idle'
                        /\ op'.result = IF op.mode = "run" THEN "done" ELSE "rolledback"
<1>0. left \in Nat \ {0} /\ IsSeq(op.todo)
  BY DEF CmdInv, OnPlan
<1>1. CASE left > 1
  <2>1. op' = [op EXCEPT !.todo = Tail(@)]
    BY <1>1 DEF Proceed, left
  <2>2. /\ SameCommand /\ OpOK' /\ op'.mode = op.mode /\ op'.todo = Tail(op.todo)
        /\ ~Idle'
    BY <2>1 DEF OpOK, SameCommand, Idle
  <2>3. /\ IsSeq(op'.todo) /\ left' = left - 1
        /\ \A i \in 1..(left - 1) : op'.todo[i] = op.todo[i + 1]
    BY <1>0, <1>1, <2>2, TailSeq DEF left
  <2>4. Plan' = Plan
    BY <2>2 DEF SameCommand, Plan, action
  <2>5. OnPlan'
    <3>1. left \in 1..Len(Plan) /\ \A i \in 1..left : op.todo[i] = Plan[Len(Plan) - left + i]
      BY DEF CmdInv, OnPlan
    <3>2. IsSeq(op.todo)'
      BY <2>3
    <3>3. left' \in 1..Len(Plan)
      BY <1>1, <2>3, <3>1
    <3>4. ASSUME NEW i \in 1..left'
          PROVE  op'.todo[i] = Plan[Len(Plan) - left' + i]
      <4>1. i \in 1..(left - 1) /\ i + 1 \in 1..left
        BY <1>0, <2>3
      <4>2. Len(Plan) - left' + i = Len(Plan) - left + (i + 1)
        BY <1>0, <2>3, <3>1, <4>1
      <4> QED
        BY <2>3, <3>1, <4>1, <4>2
    <3> QED
      BY <2>4, <3>2, <3>3, <3>4 DEF OnPlan
  <2> QED
    BY <1>0, <1>1, <2>2, <2>3, <2>5
<1>2. CASE left = 1
  <2>1. op' = [op EXCEPT !.mode = "idle", !.todo = <<>>,
                         !.result = IF op.mode = "run" THEN "done" ELSE "rolledback"]
    BY <1>2 DEF Proceed, left
  <2>2. Idle'
    BY <2>1 DEF OpOK, Idle
  <2>3. OpOK' /\ SameCommand
    BY <2>1 DEF OpOK, SameCommand
  <2>4. op'.result = IF op.mode = "run" THEN "done" ELSE "rolledback"
    BY <2>1 DEF OpOK
  <2>5. OnPlan'
    BY <2>2 DEF OnPlan
  <2> QED
    BY <1>2, <2>2, <2>3, <2>4, <2>5
<1> QED
  BY <1>0, <1>1, <1>2

\* The programs of the catch blocks.
LEMMA UndoSeq ==
  ASSUME NEW act \in {"config.apply", "backup.restore"} \cup Users
  PROVE  /\ IsSeq(undo(act)) /\ undo(act) # <<>>
         /\ Len(undo(act)) = CASE act = "config.apply" -> 7
                               [] act = "backup.restore" -> 6
                               [] OTHER -> 3
<1>0. Len(<<>>) = 0
  OBVIOUS
<1>1. CASE act = "config.apply"
  <2>1. undo(act) = undoConfiguration
    BY <1>1 DEF undo
  <2>2. IsSeq(undo(act)) /\ Len(undo(act)) = 7
    BY <2>1, ProgramSeq, Zenon
  <2> QED
    BY <1>0, <1>1, <2>2
<1>2. CASE act = "backup.restore"
  <2>1. undo(act) = undoRestore
    BY <1>2 DEF undo
  <2>2. IsSeq(undo(act)) /\ Len(undo(act)) = 6
    BY <2>1, ProgramSeq, Zenon
  <2> QED
    BY <1>0, <1>2, <2>2
<1>3. CASE act \in Users
  <2>1. undo(act) \in {undoUserConfiguration("soul"), undoUserConfiguration("skills")}
    BY <1>3 DEF undo, Users
  <2>2. IsSeq(undo(act)) /\ Len(undo(act)) = 3
    BY <2>1, ProgramSeq, Zenon
  <2> QED
    BY <1>0, <1>3, <2>2 DEF Users
<1> QED
  BY <1>1, <1>2, <1>3

\* A step that fails ends the command or starts its catch block.
LEMMA Failing ==
  ASSUME CmdInv, OpOK, ~Idle, Fail
  PROVE  /\ OpOK' /\ SameCommand /\ OnPlan'
         /\ \/ Idle' /\ op'.result = "failed" /\ plain' = Cleanup
            \/ /\ ~Idle' /\ op'.mode = "back" /\ plain' = plain /\ op.mode = "run"
               /\ \/ action = "config.apply" /\ left' = 7
                  \/ action \in Users /\ left' = 3
                  \/ action = "backup.restore" /\ Verb \in {"prepare", "replace"} /\ left' = 6
<1>1. CASE Rollback = <<>>
  <2>1. op' = [op EXCEPT !.mode = "idle", !.todo = <<>>, !.result = "failed"]
    BY <1>1 DEF Fail
  <2>2. Idle'
    BY <2>1 DEF OpOK, Idle
  <2> QED
    BY <1>1, <2>1, <2>2 DEF OpOK, SameCommand, OnPlan, Fail
<1>2. CASE Rollback # <<>>
  <2>1. /\ op' = [op EXCEPT !.mode = "back", !.todo = Rollback]
        /\ plain' = plain
    BY <1>2 DEF Fail
  <2>2. /\ op.mode = "run"
        /\ action \in {"config.apply", "backup.restore"} \cup Users
        /\ action = "backup.restore" => Verb \in {"prepare", "replace"}
        /\ Rollback = undo(action)
    <3>1. op.mode \in {"run", "back"}
      BY DEF OpOK, Idle
    <3>2. op.mode # "back"
      BY <1>2 DEF Rollback
    <3>3. CASE action \notin {"config.apply", "backup.restore"} \cup Users
      BY <1>2, <3>2, <3>3 DEF Rollback, action, Users
    <3>4. CASE action = "config.apply"
      BY <1>2, <3>1, <3>2, <3>4 DEF Rollback, action, undo
    <3>5. CASE action \in Users
      BY <1>2, <3>1, <3>2, <3>5 DEF Rollback, action, Users, undo
    <3>6. CASE action = "backup.restore"
      BY <1>2, <3>1, <3>2, <3>6 DEF Rollback, action, Verb, undo
    <3>7. action = "backup.restore" => Verb \in {"prepare", "replace"}
      BY <1>2, <3>2 DEF Rollback, action, Verb
    <3> QED
      BY <3>1, <3>2, <3>3, <3>4, <3>5, <3>6, <3>7
  <2>3. /\ SameCommand /\ OpOK' /\ op'.mode = "back" /\ op'.todo = undo(action) /\ ~Idle'
    BY <2>1, <2>2 DEF OpOK, SameCommand, Idle
  <2>4. IsSeq(undo(action)) /\ Len(undo(action)) \in Nat \ {0}
    BY <2>2, UndoSeq
  <2>5. Plan' = undo(action) /\ left' = Len(undo(action))
    BY <2>3 DEF Plan, action, SameCommand, left
  <2>6. OnPlan'
    BY <2>3, <2>4, <2>5 DEF OnPlan
  <2> QED
    BY <2>1, <2>2, <2>3, <2>5, <2>6, UndoSeq DEF Users
<1> QED
  BY <1>1, <1>2


-----------------------------------------------------------------------------
(* Steps that call docker or tar leave the files and the records alone. *)

Calls == {"tar", "check", "prepare", "replace", "docker", "stop", "restart", "relive",
          "remove"}
CallFrame == UNCHANGED <<disk, staged, history, copies, archive, meta, other, before>>
Forward == ~Idle' /\ SameCommand /\ op'.mode = op.mode /\ left' = left - 1

\* A call that touches no file keeps what holds of the files.
LEMMA FilesAside ==
  ASSUME CmdInv, OpOK, FileWork, ~Idle, Verb \in Calls, CallFrame, Forward,
         IF action = "backup.create" THEN plain'[PlainOf(op.cmd)] \in Snaps ELSE plain' = plain
  PROVE  FileWork'
<1>0. /\ UNCHANGED <<disk, history, copies, meta, before>>
      /\ action' = action /\ op'.cmd = op.cmd /\ op'.mode = op.mode /\ left' = left - 1
      /\ Id' = Id /\ UserFile' = UserFile
  BY DEF CallFrame, Forward, SameCommand, action, Id, UserFile
<1>1. /\ \A f \in Files : Same(f)' = Same(f) /\ Kept(f)' = Kept(f) /\ Returned(f)' = Returned(f)
      /\ Copied' = Copied
  BY <1>0 DEF Same, Kept, Returned, Copied
<1>2. PlainOf(op.cmd)' = PlainOf(op.cmd)
  BY <1>0
<1>3. left \in Nat \ {0} /\ op.mode \in {"run", "back"}
  BY Heads DEF OpOK, Idle
<1> USE DEF FileWork, CmdInv
<1>4. ProvisionFiles'
  <2> SUFFICES ASSUME action = "provision" PROVE ProvisionFiles'
    BY <1>0 DEF ProvisionFiles
  <2>1. op.mode = "run"
    BY <1>3 DEF CmdOK, Users
  <2> QED
    BY <1>0, <1>3, <2>1, ProvisionTable DEF ProvisionFiles, At, Calls
<1>5. ConfigFiles'
  <2> SUFFICES ASSUME action = "config.apply", op.mode = "run" PROVE ConfigFiles'
    BY <1>0 DEF ConfigFiles
  <2>1. left \in {10, 9, 8, 7, 6} => Verb \notin Calls
    BY ConfigTable DEF At, Calls
  <2> QED
    BY <1>0, <1>1, <1>3, <2>1 DEF ConfigFiles, Files
<1>6. ConfigBack'
  <2> SUFFICES ASSUME action = "config.apply", op.mode = "back" PROVE ConfigBack'
    BY <1>0 DEF ConfigBack
  <2>1. left \in {7, 6, 5} => Verb \notin Calls
    BY ConfigBackTable DEF At, Calls
  <2> QED
    BY <1>0, <1>1, <1>3, <2>1, ConfigBackTable DEF ConfigBack, Files
<1>7. UserFiles'
  <2> SUFFICES ASSUME action \in Users PROVE UserFiles'
    BY <1>0 DEF UserFiles
  <2>1. UserFile \in Files
    BY DEF UserFile, Files
  <2>2. CASE op.mode = "run"
    <3>1. left \in 1..5 /\ (left \in {5, 4} => Verb \notin Calls)
      BY <2>2, UserTable DEF At, Calls
    <3> QED
      BY <1>0, <1>1, <2>1, <2>2, <3>1 DEF UserFiles
  <2>3. CASE op.mode = "back"
    <3>1. left \in 1..3 /\ (left = 3 => Verb \notin Calls)
      BY <2>3, UserBackTable DEF At, Calls
    <3> QED
      BY <1>0, <1>1, <2>1, <2>3, <3>1 DEF UserFiles
  <2> QED
    BY <1>3, <2>2, <2>3
<1>8. RestoreFiles'
  <2> SUFFICES ASSUME action = "backup.restore" PROVE RestoreFiles'
    BY <1>0 DEF RestoreFiles
  <2>1. plain' = plain
    OBVIOUS
  <2>2. CASE op.mode = "run"
    <3>1. left \in 1..12 /\ (left \in {12, 10, 6, 5} => Verb \notin Calls)
      BY <2>2, RestoreTable DEF At, Calls
    <3> QED
      BY <1>0, <1>1, <1>2, <2>1, <2>2, <3>1 DEF RestoreFiles, Files
  <2>3. CASE op.mode = "back"
    <3>1. left \in 1..6 /\ (left \in {6, 5} => Verb \notin Calls)
      BY <2>3, RestoreBackTable DEF At, Calls
    <3> QED
      BY <1>0, <1>1, <1>2, <2>1, <2>3, <3>1 DEF RestoreFiles, Files
  <2> QED
    BY <1>3, <2>2, <2>3
<1>9. CreateFiles'
  BY <1>0, <1>2 DEF CreateFiles
<1> QED
  BY <1>4, <1>5, <1>6, <1>7, <1>8, <1>9


\* What a call may do to the containers: the Runtime keeps its port, loses it, or
\* gets the one of the command.
BoxStep ==
  /\ BoxOK'
  /\ \/ box'["runtime"].port = NoPort
     \/ box'["runtime"].port = op.port /\ action # "release.stage"
     \/ box'["runtime"].port = box["runtime"].port /\ meta.exists
     \/ box'["runtime"] = box["runtime"]
Counted == UNCHANGED used \/ Fault

\* What a call does to a container keeps off the other Agent's port.
LEMMA BoxPorts ==
  ASSUME Types, CmdOK, PortsInv, ~Idle, BoxStep, SameCommand, UNCHANGED <<meta, other>>
  PROVE  PortsInv'
<1> DEFINE port == box'["runtime"].port
<1>1. /\ meta' = meta /\ other' = other /\ op'.port = op.port /\ action' = action
  BY DEF SameCommand, action
<1>2. other.port # NoPort /\ (meta.exists \/ port # box["runtime"].port) =>
        port # other.port
  BY DEF BoxStep, CmdOK, PortsInv, PortsDiffer, Types, RecordsOK
<1>3. other.running => ~RunningOn(other.port)'
  <2> SUFFICES ASSUME other.running, box'["runtime"].state \in {"running", "paused"},
                      port = other.port
               PROVE  FALSE
    BY <1>1 DEF RunningOn
  <2>1. other.port # NoPort /\ ~RunningOn(other.port)
    BY DEF Types, RecordsOK, PortsInv, PortsDiffer, Ports, NoPort
  <2>2. ~meta.exists /\ port = box["runtime"].port
    BY <1>2, <2>1
  <2>3. CASE box'["runtime"] = box["runtime"]
    BY <2>1, <2>3 DEF RunningOn
  <2>4. CASE port = op.port /\ action # "release.stage"
    BY <2>1, <2>2, <2>4 DEF CmdOK
  <2>5. CASE port = NoPort
    BY <2>1, <2>5
  <2> QED
    BY <2>2, <2>3, <2>4, <2>5 DEF BoxStep
<1>4. other.port = NoPort => port \in {NoPort, First}
  BY DEF BoxStep, PortsInv, CmdOK
<1>5. other.port = NoPort /\ action = "provision" => op.port = First
  BY DEF PortsInv
<1> HIDE DEF port
<1>6. PortsDiffer'
  BY <1>1, <1>3 DEF PortsInv, PortsDiffer
<1>7. meta.exists /\ other.port # NoPort => port # other.port
  BY <1>2
<1> QED
  BY <1>1, <1>4, <1>5, <1>6, <1>7 DEF PortsInv, port

\* A call keeps the types.
LEMMA CallTypes ==
  ASSUME Types, CallFrame, BoxOK', OpOK', Counted,
         plain' \in [PlainIds -> Snaps \cup {None}]
  PROVE  Types' /\ used'.crashes = used.crashes
<1> USE DEF CallFrame
<1>1. FilesOK'
  BY DEF Types, FilesOK
<1>2. SnapsOK'
  BY DEF Types, SnapsOK
<1>3. used'.crashes = used.crashes /\ used'.writes = used.writes
  BY DEF Types, RecordsOK, Counted, Fault
<1>4. used' = [actions |-> used'.actions, commands |-> used'.commands,
               faults |-> used'.faults, crashes |-> used'.crashes,
               writes |-> used'.writes, restores |-> used'.restores]
  BY DEF Types, RecordsOK, Counted, Fault
<1>5. RecordsOK'
  BY <1>3, <1>4 DEF Types, RecordsOK
<1> QED
  BY <1>1, <1>2, <1>3, <1>5 DEF Types

\* The finally block removes the command's own archive.
LEMMA CleanupOK ==
  ASSUME SnapsOK
  PROVE  /\ Cleanup \in [PlainIds -> Snaps \cup {None}]
         /\ \A i \in PlainIds : Cleanup[i] = IF i = PlainOf(op.cmd) THEN None ELSE plain[i]
BY DEF SnapsOK, Cleanup

\* A call that fails.
LEMMA FailStep ==
  ASSUME IndInv, ~Idle, Verb \in Calls, Fail, CallFrame, BoxStep, Counted
  PROVE  IndInv'
<1> USE DEF IndInv
<1>1. /\ OpOK' /\ SameCommand /\ OnPlan'
      /\ \/ Idle' /\ op'.result = "failed" /\ plain' = Cleanup
         \/ /\ ~Idle' /\ op'.mode = "back" /\ plain' = plain /\ op.mode = "run"
            /\ \/ action = "config.apply" /\ left' = 7
               \/ action \in Users /\ left' = 3
               \/ action = "backup.restore" /\ Verb \in {"prepare", "replace"} /\ left' = 6
  BY Failing DEF Types
<1>2. plain' \in [PlainIds -> Snaps \cup {None}]
  BY <1>1, CleanupOK DEF Types, SnapsOK
<1>3. Types' /\ used'.crashes = used.crashes
  BY <1>1, <1>2, CallTypes DEF BoxStep
<1>4. PortsInv'
  BY <1>1, BoxPorts DEF CmdInv, CallFrame
<1>5. RollbackRestores' /\ SuccessInForce'
  BY <1>1 DEF RollbackRestores, SuccessInForce
<1>6. CASE Idle'
  <2>1. CmdInv' /\ FileWork' /\ BoxWork'
    BY <1>1, <1>6 DEF CmdInv, CmdOK, FileWork, BoxWork
  <2>2. plain' = Cleanup
    BY <1>1, <1>6
  <2>3. PlainInv'
    <3>1. SnapsOK
      BY DEF Types
    <3> SUFFICES ASSUME used.crashes = 0, NEW i \in PlainIds PROVE plain'[i] = None
      BY <1>3 DEF PlainInv
    <3> QED
      BY <2>2, <3>1, CleanupOK DEF PlainInv
  <2> QED
    BY <1>3, <1>4, <1>5, <2>1, <2>3
<1>7. CASE ~Idle'
  <2>0. /\ op'.cmd = op.cmd /\ action' = action /\ UserFile' = UserFile
        /\ UNCHANGED <<disk, history, copies, meta, other, before>>
        /\ op'.mode = "back" /\ plain' = plain /\ op.mode = "run"
    BY <1>1, <1>7 DEF SameCommand, action, UserFile, CallFrame
  <2>1. action \in {"config.apply", "backup.restore"} \cup Users
    BY <1>1, <1>7
  <2>2. CmdOK'
    BY <1>1, <2>0, <2>1 DEF CmdInv, CmdOK, SameCommand
  <2>3. /\ \A f \in Files : Same(f)' = Same(f) /\ Kept(f)' = Kept(f)
        /\ Copied' = Copied
    BY <2>0 DEF Same, Kept, Copied
  <2>4. FileWork'
    <3>1. CASE action = "config.apply"
      <4>1. left \in 1..5
        BY <2>0, <3>1, ConfigTable DEF At, Calls, CmdInv
      <4>2. Same("skills") /\ \A f \in {"env", "soul", "token"} : Kept(f)
        BY <2>0, <3>1, <4>1 DEF FileWork, ConfigFiles
      <4>3. ConfigBack'
        BY <1>1, <1>7, <2>0, <2>3, <3>1, <4>2 DEF ConfigBack, Files, Users
      <4> QED
        BY <2>0, <3>1, <4>3 DEF FileWork, ProvisionFiles, ConfigFiles, UserFiles,
                                RestoreFiles, CreateFiles, Users
    <3>2. CASE action \in Users
      <4>1. left \in 1..3 /\ UserFile \in {"soul", "skills"}
        BY <2>0, <3>2, UserTable DEF At, Calls, CmdInv
      <4>2. Kept(UserFile) /\ \A f \in Files \ {UserFile} : Same(f)
        BY <2>0, <3>2, <4>1 DEF FileWork, UserFiles
      <4>3. left' = 3
        BY <1>1, <1>7, <3>2 DEF Users
      <4>4. UserFiles'
        BY <2>0, <2>3, <3>2, <4>1, <4>2, <4>3 DEF UserFiles, Files
      <4> QED
        BY <2>0, <3>2, <4>4 DEF FileWork, ProvisionFiles, ConfigFiles, ConfigBack,
                                RestoreFiles, CreateFiles, Users
    <3>3. CASE action = "backup.restore"
      <4>1. left \in 1..4 /\ left' = 6
        <5>1. Verb \in {"prepare", "replace"} /\ left' = 6
          BY <1>1, <1>7, <3>3 DEF Users
        <5> QED
          BY <2>0, <3>3, <5>1, RestoreTable DEF At, CmdInv
      <4>2. Same("token") /\ Copied
        BY <2>0, <3>3, <4>1 DEF FileWork, RestoreFiles
      <4>3. RestoreFiles'
        BY <2>0, <2>3, <3>3, <4>1, <4>2 DEF RestoreFiles, Files
      <4> QED
        BY <2>0, <3>3, <4>3 DEF FileWork, ProvisionFiles, ConfigFiles, ConfigBack,
                                UserFiles, CreateFiles, Users
    <3> QED
      BY <2>1, <3>1, <3>2, <3>3
  <2>5. BoxWork'
    <3>1. left' \in {3, 6, 7} /\ (left' = 3 => action \in Users)
      BY <1>1, <1>7
    <3>2. After' = 0
      BY <2>0 DEF After
    <3> QED
      BY <2>0, <3>1, <3>2 DEF BoxWork, Replacing, Users
  <2>6. PlainInv'
    BY <1>3, <1>7, <2>0 DEF PlainInv
  <2> QED
    BY <1>1, <1>3, <1>4, <1>5, <2>2, <2>4, <2>5, <2>6 DEF CmdInv
<1> QED
  BY <1>6, <1>7


\* A call that succeeds.
LEMMA Onward ==
  ASSUME IndInv, ~Idle, Verb \in Calls, Proceed, CallFrame, BoxStep, Counted,
         plain' \in [PlainIds -> Snaps \cup {None}],
         \A i \in PlainIds : i # PlainOf(op.cmd) => plain'[i] = plain[i],
         left = 1 => plain' = Cleanup,
         left > 1 => IF action = "backup.create" THEN plain'[PlainOf(op.cmd)] \in Snaps
                     ELSE plain' = plain,
         Forward => BoxWork',
         left = 1 => RollbackRestores' /\ SuccessInForce'
  PROVE  IndInv'
<1> USE DEF IndInv
<1>1. /\ OpOK' /\ SameCommand /\ OnPlan'
      /\ left > 1 => ~Idle' /\ op'.mode = op.mode /\ left' = left - 1
      /\ left = 1 => Idle'
  BY Advance DEF Types
<1>2. left \in Nat \ {0}
  BY Heads DEF Types
<1>3. Types' /\ used'.crashes = used.crashes
  BY <1>1, CallTypes DEF BoxStep
<1>4. PortsInv'
  BY <1>1, BoxPorts DEF CmdInv, CallFrame
<1>5. CASE left = 1
  <2>1. CmdInv' /\ FileWork' /\ BoxWork'
    BY <1>1, <1>5 DEF CmdInv, CmdOK, FileWork, BoxWork
  <2>2. plain' = Cleanup
    BY <1>5
  <2>3. PlainInv'
    <3>1. SnapsOK
      BY DEF Types
    <3> SUFFICES ASSUME used.crashes = 0, NEW i \in PlainIds PROVE plain'[i] = None
      BY <1>3 DEF PlainInv
    <3> QED
      BY <2>2, <3>1, CleanupOK DEF PlainInv
  <2> QED
    BY <1>3, <1>4, <1>5, <2>1, <2>3
<1>6. CASE left > 1
  <2>1. Forward
    BY <1>1, <1>6 DEF Forward
  <2>2. CmdOK'
    BY <1>1, <2>1 DEF CmdInv, CmdOK, SameCommand, Forward, CallFrame, action
  <2>3. FileWork'
    BY <1>6, <2>1, FilesAside DEF Types
  <2>4. PlainInv'
    <3>1. PlainOf(op.cmd)' = PlainOf(op.cmd)
      BY <1>1 DEF SameCommand
    <3>2. ASSUME used.crashes = 0, NEW i \in PlainIds, i # PlainOf(op.cmd)
          PROVE  plain'[i] = None
      BY <3>2 DEF PlainInv
    <3> QED
      BY <1>3, <2>1, <3>1, <3>2 DEF PlainInv, Forward
  <2>5. RollbackRestores' /\ SuccessInForce'
    BY <2>1 DEF Forward, RollbackRestores, SuccessInForce
  <2> QED
    BY <1>1, <1>3, <1>4, <2>1, <2>2, <2>3, <2>4, <2>5 DEF CmdInv
<1> QED
  BY <1>2, <1>5, <1>6

\* A call that succeeds keeps the invariant if its containers do.
LEMMA SucceedStep ==
  ASSUME IndInv, ~Idle, Verb \in Calls \ {"tar"}, Proceed, CallFrame, BoxStep,
         Counted, plain' = IF left = 1 THEN Cleanup ELSE plain,
         Forward => BoxWork',
         left = 1 => RollbackRestores' /\ SuccessInForce'
  PROVE  IndInv'
<1>1. left \in Nat \ {0} /\ (left > 1 => action # "backup.create")
  BY Heads, CreateTable DEF IndInv, Types, CmdInv, OpOK, CmdOK, Idle, At, Calls, Users
<1>2. plain' \in [PlainIds -> Snaps \cup {None}]
  BY CleanupOK DEF IndInv, Types, SnapsOK
<1>3. \A i \in PlainIds : i # PlainOf(op.cmd) => plain'[i] = plain[i]
  BY CleanupOK DEF IndInv, Types
<1>4. left = 1 => plain' = Cleanup
  OBVIOUS
<1>5. left > 1 => IF action = "backup.create" THEN plain'[PlainOf(op.cmd)] \in Snaps
                  ELSE plain' = plain
  BY <1>1
<1> HIDE DEF IndInv
<1> QED
  BY <1>2, <1>3, <1>4, <1>5, Onward

Quiet == {"tar", "check", "prepare", "docker", "stop", "restart", "remove"}

\* Calls that replace no container are not the last step of a command that does.
LEMMA BoxAside ==
  ASSUME CmdInv, OpOK, ~Idle, Verb \in Quiet
  PROVE  /\ Forward => BoxWork'
         /\ left = 1 => op.mode = "run" /\ action \notin Replacing \cup Users
<1>1. action \in Replacing => left \in Nat /\ left > After + 3
  <2>1. Verb = "stop" /\ action = "backup.restore" => left \in {9, 8, 7} /\ op.mode = "run"
    BY RestoreTable, Heads DEF CmdInv, At, Mode
  <2>2. Verb = "tar" /\ action = "backup.restore" => left = 11 /\ op.mode = "run"
    BY RestoreTable, Heads DEF CmdInv, At, Mode
  <2>3. After \in {0, 1} /\ (action = "backup.restore" => After = 0)
    BY DEF After
  <2> QED
    BY <2>1, <2>2, <2>3, Heads DEF Quiet, Mode, Replacing
<1>2. action \notin Users
  BY Heads DEF Quiet, Mode, Users, Replacing
<1>3. left = 1 => op.mode = "run" /\ action \notin Replacing \cup Users
  <2>1. After \in {0, 1}
    BY DEF After
  <2>2. left = 1 => action \notin Replacing \cup Users
    BY <1>1, <1>2, <2>1
  <2> QED
    BY <2>2, Heads DEF Quiet, Mode, OpOK, Idle, CmdInv, CmdOK, Users, Replacing
<1>4. Forward => BoxWork'
  <2> SUFFICES ASSUME Forward PROVE BoxWork'
    OBVIOUS
  <2>1. action' = action /\ After' = After /\ left' = left - 1 /\ After \in {0, 1}
    BY DEF Forward, SameCommand, action, After
  <2> QED
    BY <1>1, <1>2, <2>1 DEF BoxWork
<1> QED
  BY <1>3, <1>4

\* Commands that neither replace containers nor write files promise nothing at
\* their end.
LEMMA EndAside ==
  ASSUME SameCommand, op.mode = "run", action \notin Replacing \cup Users,
         op'.result = "done"
  PROVE  RollbackRestores' /\ SuccessInForce'
BY DEF SameCommand, RollbackRestores, SuccessInForce, action, Replacing, Users

\* A call that replaces no container succeeds.
LEMMA QuietStep ==
  ASSUME IndInv, ~Idle, Verb \in Quiet \ {"tar"}, Proceed, CallFrame, BoxStep,
         Counted, plain' = IF left = 1 THEN Cleanup ELSE plain
  PROVE  IndInv'
<1>1. Verb \in Calls \ {"tar"}
  BY DEF Quiet, Calls
<1>2. Forward => BoxWork'
  BY BoxAside DEF IndInv, Types
<1>3. left = 1 => RollbackRestores' /\ SuccessInForce'
  BY BoxAside, Advance, EndAside DEF IndInv, Types
<1> QED
  BY <1>1, <1>2, <1>3, SucceedStep


-----------------------------------------------------------------------------
(* The calls, one by one. *)

\* The step that is due.
LEMMA NextVerb ==
  ASSUME NEW v, NextIs(v)
  PROVE  ~Idle /\ Verb = v
BY DEF NextIs, Verb

\* A call may leave the containers as they are.
LEMMA BoxUnmoved ==
  ASSUME IndInv, UNCHANGED box, network' \in BOOLEAN
  PROVE  BoxStep
BY DEF IndInv, Types, BoxOK, BoxStep

\* docker start, stop and restart change the state of a container only.
LEMMA DockerOK ==
  ASSUME IndInv, NEW verb, NEW xs, Docker(verb, xs), network' = network
  PROVE  /\ BoxOK' /\ box'["runtime"].port = box["runtime"].port
         /\ \A x \in Containers : /\ box'[x].env = box[x].env /\ box'[x].image = box[x].image
                                  /\ box'[x].state = IF x \in xs /\ DockerAccepts(verb, box[x].state)
                                                     THEN DockerState(verb) ELSE box[x].state
<1>1. box \in [Containers -> BoxRow]
  BY DEF IndInv, Types, BoxOK
<1>2. DockerState(verb) \in States
  BY DEF DockerState, States
<1>3. \A s : DockerAccepts(verb, s) => s # "absent"
  BY DEF DockerAccepts
<1>4. ASSUME NEW x \in Containers
      PROVE  /\ box'[x] \in BoxRow /\ box'[x].port = box[x].port
             /\ box'[x].env = box[x].env /\ box'[x].image = box[x].image
             /\ box'[x].state = IF x \in xs /\ DockerAccepts(verb, box[x].state)
                                THEN DockerState(verb) ELSE box[x].state
  <2>1. box'[x] = IF x \in xs /\ DockerAccepts(verb, box[x].state)
                  THEN [box[x] EXCEPT !.state = DockerState(verb)] ELSE box[x]
    BY DEF Docker
  <2>2. box[x] \in BoxRow
    BY <1>1
  <2> QED
    BY <1>2, <2>1, <2>2 DEF BoxRow
<1>5. box' \in [Containers -> BoxRow]
  BY <1>4 DEF Docker
<1>6. \A x \in Containers : /\ box'[x].state # "absent" => box'[x].env \in Revs
                            /\ x # "runtime" => box'[x].port = NoPort
  BY <1>3, <1>4 DEF IndInv, Types, BoxOK
<1>7. BoxOK'
  BY <1>5, <1>6 DEF IndInv, Types, BoxOK
<1>8. "runtime" \in Containers
  BY DEF Containers
<1> QED
  BY <1>4, <1>7, <1>8

\* What tar archives of a recorded instance is a snapshot.
LEMMA SnapshotOK ==
  ASSUME FilesOK, meta.exists
  PROVE  Snapshot \in Snaps
<1>1. disk \in [Paths -> Nat] /\ Archived \subseteq Paths
  BY DEF FilesOK, Archived, Data, Paths, Files
<1>2. Snapshot \in [Archived -> Nat] /\ \A f \in Archived : Snapshot[f] = disk[f]
  BY <1>1 DEF Snapshot
<1>3. Archived = {"soul", "skills", "memory", "env"}
  BY DEF Archived, Data
<1> QED
  BY <1>2, <1>3 DEF Snaps, FilesOK, Files

\* tar archives or extracts, or leaves a part behind when it fails.
LEMMA tarStep ==
  ASSUME IndInv, tar
  PROVE  IndInv'
<1> USE DEF IndInv, Types
<1>1. ~Idle /\ Verb = "tar" /\ Verb \in Calls
  BY NextVerb DEF tar, Calls
<1>2. left \in Nat /\ left > 1 /\ Mode("run", {"backup.create", "backup.restore"})
  BY <1>1, Heads
<1>3. CallFrame /\ BoxStep
  <2>1. UNCHANGED <<box, network>>
    BY DEF tar
  <2>2. network' \in BOOLEAN
    BY <2>1 DEF BoxOK
  <2> QED
    BY <2>1, <2>2, BoxUnmoved DEF tar, CallFrame
<1>4. CASE Fault /\ Fail
  BY <1>1, <1>3, <1>4, FailStep DEF Counted
<1>5. CASE Proceed /\ UNCHANGED used
           /\ plain' = IF Object = "create" THEN [plain EXCEPT ![PlainOf(op.cmd)] = Snapshot]
                       ELSE plain
  <2>1. Forward => BoxWork'
    BY <1>1, BoxAside DEF Quiet
  <2>2. CASE action = "backup.restore"
    <3>1. Object = "extract"
      BY <1>1, <1>2, <2>2, RestoreTable DEF At, Mode, CmdInv
    <3>2. plain' = plain
      BY <1>5, <3>1
    <3>3. plain' \in [PlainIds -> Snaps \cup {None}]
      BY <3>2 DEF SnapsOK
    <3>4. \A i \in PlainIds : i # PlainOf(op.cmd) => plain'[i] = plain[i]
      BY <3>2
    <3> HIDE DEF IndInv
    <3> QED
      BY <1>1, <1>2, <1>3, <1>5, <2>1, <2>2, <3>2, <3>3, <3>4, Onward DEF Counted
  <2>3. CASE action = "backup.create"
    <3>1. Object = "create"
      BY <1>1, <1>2, <2>3, CreateTable DEF At, Mode, CmdInv
    <3>2. Snapshot \in Snaps
      BY <1>1, <2>3, SnapshotOK DEF CmdInv, CmdOK
    <3>3. PlainOf(op.cmd) \in PlainIds
      BY <1>1, <2>3, CommandKinds DEF CmdInv, CmdOK, PlainOf, PlainIds, action
    <3>4. plain' = [plain EXCEPT ![PlainOf(op.cmd)] = Snapshot]
      BY <1>5, <3>1
    <3>5. plain' \in [PlainIds -> Snaps \cup {None}]
      BY <3>2, <3>4 DEF SnapsOK
    <3>6. \A i \in PlainIds : i # PlainOf(op.cmd) => plain'[i] = plain[i]
      BY <3>4 DEF SnapsOK
    <3>7. plain'[PlainOf(op.cmd)] \in Snaps
      BY <3>2, <3>3, <3>4 DEF SnapsOK
    <3> HIDE DEF IndInv
    <3> QED
      BY <1>1, <1>2, <1>3, <1>5, <2>1, <2>3, <3>5, <3>6, <3>7, Onward DEF Counted
  <2> QED
    BY <1>2, <2>2, <2>3 DEF Mode
<1> QED
  BY <1>4, <1>5 DEF tar

\* The plain archive after a call that succeeded.
LEMMA SucceedPlain ==
  ASSUME Succeed
  PROVE  Proceed /\ plain' = IF left = 1 THEN Cleanup ELSE plain
BY DEF Succeed, Ending, left

\* A check changes nothing.
LEMMA CheckStep ==
  ASSUME IndInv, Check
  PROVE  IndInv'
<1>1. ~Idle /\ Verb = "check"
  BY NextVerb DEF Check
<1>2. CallFrame /\ BoxStep
  <2>1. UNCHANGED <<box, network>>
    BY DEF Check
  <2>2. network' \in BOOLEAN
    BY <2>1 DEF IndInv, Types, BoxOK
  <2> QED
    BY <2>1, <2>2, BoxUnmoved DEF Check, CallFrame
<1>3. CASE Fault /\ Fail
  BY <1>1, <1>2, <1>3, FailStep DEF Counted, Calls
<1>4. CASE Succeed /\ UNCHANGED used
  BY <1>1, <1>2, <1>4, SucceedPlain, QuietStep DEF Quiet, Counted
<1> QED
  BY <1>3, <1>4 DEF Check

\* Preparing touches the network only.
LEMMA PrepareStep ==
  ASSUME IndInv, Prepare
  PROVE  IndInv'
<1>1. ~Idle /\ Verb = "prepare"
  BY NextVerb DEF Prepare
<1>2. CallFrame /\ BoxStep
  <2>1. UNCHANGED box
    BY DEF Prepare
  <2>2. network' \in BOOLEAN
    BY DEF Prepare, IndInv, Types, BoxOK
  <2> QED
    BY <2>1, <2>2, BoxUnmoved DEF Prepare, CallFrame
<1>3. CASE Fault /\ Fail
  BY <1>1, <1>2, <1>3, FailStep DEF Counted, Calls
<1>4. CASE Proceed /\ UNCHANGED <<plain, used>>
  <2>1. left # 1
    BY <1>1, Heads DEF IndInv, Types, After
  <2> QED
    BY <1>1, <1>2, <1>4, <2>1, QuietStep DEF Quiet, Counted
<1> QED
  BY <1>3, <1>4 DEF Prepare

\* A docker command that keeps the containers, on an Agent that has a record.
LEMMA DockerStep ==
  ASSUME IndInv, ~Idle, Verb \in {"docker", "stop", "restart", "relive"},
         NEW verb, NEW xs, Docker(verb, xs), network' = network
  PROVE  BoxStep
<1>1. action \notin {"provision", "release.stage"}
  BY Heads DEF IndInv, Types, Mode, Users
<1>2. meta.exists
  BY <1>1 DEF IndInv, CmdInv, CmdOK
<1> QED
  BY <1>2, DockerOK DEF BoxStep

\* The lifecycle calls.
LEMMA LifecycleStep ==
  ASSUME IndInv, LifecycleCall
  PROVE  IndInv'
<1>1. ~Idle /\ Verb = "docker"
  BY NextVerb DEF LifecycleCall
<1>2. CallFrame /\ network' = network
  BY DEF LifecycleCall, CallFrame
<1>3. CASE Fault /\ Fail /\ \E xs : Docker(Object, xs)
  <2>1. BoxStep
    BY <1>1, <1>2, <1>3, DockerStep
  <2> QED
    BY <1>1, <1>2, <1>3, <2>1, FailStep DEF Counted, Calls
<1>4. CASE Docker(Object, Containers) /\ UNCHANGED used /\ (Succeed \/ Fail)
  <2>1. BoxStep
    BY <1>1, <1>2, <1>4, DockerStep
  <2>2. CASE Fail
    BY <1>1, <1>2, <1>4, <2>1, <2>2, FailStep DEF Counted, Calls
  <2>3. CASE Succeed
    BY <1>1, <1>2, <1>4, <2>1, <2>3, SucceedPlain, QuietStep DEF Quiet, Counted
  <2> QED
    BY <1>4, <2>2, <2>3
<1> QED
  BY <1>3, <1>4 DEF LifecycleCall

\* Stopping and restarting single containers.
LEMMA ServiceStep ==
  ASSUME IndInv, ServiceCall
  PROVE  IndInv'
<1>1. ~Idle /\ Verb \in {"stop", "restart"}
  BY NextVerb DEF ServiceCall
<1>2. CallFrame /\ network' = network
  BY DEF ServiceCall, CallFrame
<1>3. CASE Fault /\ Fail /\ \E xs : Docker(Verb, xs)
  <2>1. BoxStep
    BY <1>1, <1>2, <1>3, DockerStep
  <2> QED
    BY <1>1, <1>2, <1>3, <2>1, FailStep DEF Counted, Calls
<1>4. CASE Docker(Verb, {Object}) /\ UNCHANGED used /\ (Succeed \/ Fail)
  <2>1. BoxStep
    BY <1>1, <1>2, <1>4, DockerStep
  <2>2. CASE Fail
    BY <1>1, <1>2, <1>4, <2>1, <2>2, FailStep DEF Counted, Calls
  <2>3. CASE Succeed
    BY <1>1, <1>2, <1>4, <2>1, <2>3, SucceedPlain, QuietStep DEF Quiet, Counted
  <2> QED
    BY <1>4, <2>2, <2>3
<1>5. CASE Fault /\ Succeed /\ UNCHANGED box
  <2>1. BoxStep
    BY <1>2, <1>5, BoxUnmoved DEF IndInv, Types, BoxOK
  <2> QED
    BY <1>1, <1>2, <1>5, <2>1, SucceedPlain, QuietStep DEF Quiet, Counted
<1> QED
  BY <1>3, <1>4, <1>5 DEF ServiceCall, Verb

\* Removing containers and network.
LEMMA RemoveStep ==
  ASSUME IndInv, Remove
  PROVE  IndInv'
<1>1. ~Idle /\ Verb = "remove" /\ Object \in Containers \cup {"network"}
  BY NextVerb, Heads DEF Remove, IndInv, Types
<1>2. CallFrame
  BY DEF Remove, CallFrame
<1> DEFINE gone == /\ box' = IF Object = "network" THEN box ELSE [box EXCEPT ![Object] = Absent]
                   /\ network' = (network /\ Object # "network")
<1>3. BoxStep
  <2>1. gone \/ UNCHANGED <<box, network>>
    BY DEF Remove
  <2>2. network' \in BOOLEAN
    BY <2>1 DEF IndInv, Types, BoxOK
  <2>3. CASE UNCHANGED box
    BY <2>2, <2>3, BoxUnmoved
  <2>4. CASE box' = [box EXCEPT ![Object] = Absent] /\ Object \in Containers
    <3>1. Absent \in BoxRow /\ Absent.state = "absent" /\ Absent.port = NoPort
      BY SupervisorAssumption DEF Absent, BoxRow, States, Versions
    <3>2. box' \in [Containers -> BoxRow]
      BY <2>4, <3>1 DEF IndInv, Types, BoxOK
    <3>3. \A x \in Containers : box'[x] = IF x = Object THEN Absent ELSE box[x]
      BY <2>4 DEF IndInv, Types, BoxOK
    <3>4. BoxOK'
      BY <2>2, <3>1, <3>2, <3>3 DEF IndInv, Types, BoxOK
    <3>5. box'["runtime"] \in {Absent, box["runtime"]}
      BY <3>3 DEF Containers
    <3> QED
      BY <3>1, <3>4, <3>5 DEF BoxStep
  <2> QED
    BY <1>1, <2>1, <2>3, <2>4
<1>4. CASE Fault /\ Fail
  BY <1>1, <1>2, <1>3, <1>4, FailStep DEF Counted, Calls
<1>5. CASE Succeed /\ Counted
  BY <1>1, <1>2, <1>3, <1>5, SucceedPlain, QuietStep DEF Quiet, Counted
<1> QED
  BY <1>4, <1>5 DEF Remove, Counted


\* The container that is made runs an environment that was written, an image of
\* the Agent and, if it is the Runtime, on the port of the command.
LEMMA CreatedOK ==
  ASSUME IndInv, ~Idle, Verb = "replace"
  PROVE  /\ Object \in Containers /\ action \in Replacing \cup Users
         /\ \A x \in Containers :
              /\ Created(x) \in BoxRow /\ Created(x).state = "running"
              /\ Created(x).env \in Revs
              /\ Created(x).port = IF x = "runtime" THEN op.port ELSE NoPort
<1> USE DEF IndInv, Types
<1>1. /\ Object \in Containers /\ action \in Replacing \cup Users
  <2>1. After \in {0, 1}
    BY DEF After
  <2> QED
    BY <2>1, Heads DEF Containers
<1>2. disk["env"] \in Revs
  <2>1. CASE action = "provision"
    <3>1. op.mode = "run"
      BY <2>1 DEF OpOK, Idle, CmdInv, CmdOK, Users
    <3>2. left \in 2..4
      BY <2>1, <3>1, ProvisionTable DEF At, CmdInv
    <3>3. disk["env"] = Id
      BY <2>1, <3>2 DEF FileWork, ProvisionFiles
    <3> QED
      BY <2>1, <3>3, CommandKinds DEF CmdInv, CmdOK, Id, action
  <2>2. CASE action # "provision"
    BY <1>1, <2>2 DEF CmdInv, CmdOK, FilesOK, Replacing, Users
  <2> QED
    BY <2>1, <2>2
<1>3. ImageFor \in Images
  <2>1. action = "release.apply" => Id \in Images
    BY CommandKinds DEF CmdInv, CmdOK, Id, action
  <2> QED
    BY <2>1, SupervisorAssumption DEF ImageFor, RecordsOK, action
<1>4. op.port \in Ports
  BY <1>1 DEF CmdInv, CmdOK, RecordsOK, Replacing, Users
<1> QED
  BY <1>1, <1>2, <1>3, <1>4 DEF Created, BoxRow, States, Versions

\* One container is set to a row of the kind a command may create.
LEMMA SetBox ==
  ASSUME IndInv, NEW x \in Containers, NEW row \in BoxRow,
         row.state # "absent" => row.env \in Revs,
         row.port = NoPort \/ (x = "runtime" /\ row.port = op.port) \/ row = box[x],
         action # "release.stage", box' = [box EXCEPT ![x] = row], network' = network
  PROVE  BoxStep
<1> USE DEF IndInv, Types
<1>1. box' \in [Containers -> BoxRow]
  BY DEF BoxOK
<1>2. \A y \in Containers : box'[y] = IF y = x THEN row ELSE box[y]
  BY DEF BoxOK
<1>3. \A y \in Containers : /\ box'[y].state # "absent" => box'[y].env \in Revs
                            /\ y # "runtime" => box'[y].port = NoPort
  BY <1>2 DEF BoxOK
<1>4. BoxOK'
  BY <1>1, <1>3 DEF BoxOK
<1>5. "runtime" \in Containers
  BY DEF Containers
<1> QED
  BY <1>2, <1>4, <1>5 DEF BoxStep

\* What a replacement leaves behind when it fails is such a row.
LEMMA LeftoverOK ==
  ASSUME IndInv, ~Idle, Verb = "replace", NEW row \in Leftovers(Object),
         box' = [box EXCEPT ![Object] = row], network' = network
  PROVE  BoxStep
<1> DEFINE made == Created(Object)
<1>0. Object \in Containers /\ action \in Replacing \cup Users
  BY CreatedOK
<1>1. /\ made \in BoxRow /\ made.env \in Revs
      /\ made.port = IF Object = "runtime" THEN op.port ELSE NoPort
  BY <1>0, CreatedOK
<1> HIDE DEF made
<1>2. [made EXCEPT !.state = "stopped"] \in BoxRow
  BY <1>1 DEF BoxRow, States
<1>3. /\ [made EXCEPT !.state = "stopped"].env = made.env
      /\ [made EXCEPT !.state = "stopped"].port = made.port
  BY <1>1 DEF BoxRow
<1>4. Absent \in BoxRow /\ Absent.state = "absent" /\ Absent.port = NoPort
  BY SupervisorAssumption DEF Absent, BoxRow, States, Versions
<1>5. row \in {box[Object], Absent, made, [made EXCEPT !.state = "stopped"]}
  BY DEF Leftovers, made
<1>6. /\ row \in BoxRow /\ (row.state # "absent" => row.env \in Revs)
      /\ row.port = NoPort \/ (Object = "runtime" /\ row.port = op.port) \/ row = box[Object]
  BY <1>0, <1>1, <1>2, <1>3, <1>4, <1>5 DEF IndInv, Types, BoxOK
<1>7. action # "release.stage"
  BY <1>0 DEF Replacing, Users
<1> QED
  BY <1>0, <1>6, <1>7, SetBox

\* One more container has been replaced.
LEMMA ReplaceWork ==
  ASSUME IndInv, ~Idle, Verb = "replace", CallFrame, Forward,
         box' = [box EXCEPT ![Object] = Created(Object)]
  PROVE  BoxWork'
<1> USE DEF IndInv, Types
<1>0. Object \in Containers /\ action \in Replacing \cup Users
  BY CreatedOK
<1>1. /\ action' = action /\ After' = After /\ left' = left - 1 /\ op'.mode = op.mode
      /\ After \in {0, 1} /\ left \in Nat
  BY Heads DEF Forward, SameCommand, action, After
<1>2. \A x \in Containers : Created(x)' = Created(x)
  BY DEF Created, ImageFor, Id, CallFrame, Forward, SameCommand
<1>3. \A x \in Containers : x = Object \/ Made(x) => Made(x)'
  BY <1>0, <1>2 DEF Made, BoxOK
<1>4. CASE action \in Replacing
  <2>1. /\ left \in 1..(After + 3) /\ left # After
        /\ left = After + 3 => Object = "hermes"
        /\ left = After + 2 => Object = "dashboard"
        /\ left = After + 1 => Object = "runtime"
    BY <1>4, Heads DEF Replacing, Users
  <2>2. /\ left <= After + 2 => Made("hermes")
        /\ left <= After + 1 => Made("dashboard")
        /\ left <= After => Made("runtime")
    BY <1>4 DEF BoxWork
  <2>3. /\ left' <= After + 2 => Made("hermes")'
        /\ left' <= After + 1 => Made("dashboard")'
        /\ left' <= After => Made("runtime")'
    BY <1>1, <1>3, <2>1, <2>2 DEF Containers
  <2> QED
    BY <1>1, <1>4, <2>3 DEF BoxWork, Replacing, Users
<1>5. CASE action \in Users
  <2>1. /\ Object = "hermes"
        /\ op.mode = "run" => left = 3
    BY <1>5, Heads, UserTable DEF Replacing, Users, CmdInv, At
  <2> QED
    BY <1>1, <1>3, <1>5, <2>1 DEF BoxWork, Replacing, Users, Containers
<1> QED
  BY <1>0, <1>4, <1>5

\* The last container has been replaced: a restore, or a roll-back, is complete.
LEMMA ReplaceEnds ==
  ASSUME IndInv, ~Idle, Verb = "replace", CallFrame, Proceed, left = 1,
         box' = [box EXCEPT ![Object] = Created(Object)]
  PROVE  RollbackRestores' /\ SuccessInForce'
<1> USE DEF IndInv, Types
<1>0. After \in {0, 1}
  BY DEF After
<1>1. action \in Replacing /\ After = 0 /\ Object = "runtime"
  <2>1. action \in Users => FALSE
    BY Heads DEF Replacing, Users
  <2> QED
    BY <1>0, <2>1, Heads
<1>2. Made("hermes") /\ Made("dashboard")
  BY <1>0, <1>1 DEF BoxWork
<1>3. \A x \in Containers : box'[x] = Created(x)
  BY <1>1, <1>2 DEF Made, BoxOK, Containers
<1>4. /\ action \in {"config.apply", "backup.restore"} /\ op.mode \in {"run", "back"}
      /\ op.mode = "run" => action = "backup.restore"
  BY <1>1 DEF After, Replacing, Users, CmdInv, CmdOK, OpOK, Idle
<1>5. ImageFor = meta.image
  BY <1>4 DEF ImageFor, action
<1>6. UNCHANGED <<disk, meta, before>>
  BY DEF CallFrame
<1>7. AllRun(disk["env"], meta.image)' /\ box'["runtime"].port = op.port
  BY <1>3, <1>5, <1>6 DEF AllRun, Created, Containers
<1>8. op.port = meta.port
  BY <1>4 DEF CmdInv, CmdOK
<1>9. SameCommand /\ op'.result = IF op.mode = "run" THEN "done" ELSE "rolledback"
  BY Advance
<1>10. op.mode = "back" => \A f \in Files : before.files[f] # 0 => disk[f] = before.files[f]
  <2>1. CASE action = "config.apply" /\ op.mode = "back"
    BY <2>1 DEF FileWork, ConfigBack, Returned, Same, Files
  <2>2. CASE action = "backup.restore" /\ op.mode = "back"
    BY <2>2 DEF FileWork, RestoreFiles, Same, Files
  <2> QED
    BY <1>4, <2>1, <2>2
<1>11. RollbackRestores'
  BY <1>4, <1>6, <1>7, <1>9, <1>10 DEF RollbackRestores, SameCommand, action
<1>12. SuccessInForce'
  BY <1>4, <1>6, <1>7, <1>8, <1>9 DEF SuccessInForce, SameCommand, action
<1> QED
  BY <1>11, <1>12

\* replaceContainer, whether it succeeds or fails on the way.
LEMMA ReplaceStep ==
  ASSUME IndInv, replaceContainer
  PROVE  IndInv'
<1>1. ~Idle /\ Verb = "replace" /\ Verb \in Calls \ {"tar"}
  BY NextVerb DEF replaceContainer, Calls
<1>2. CallFrame /\ network' = network
  BY DEF replaceContainer, CallFrame
<1>3. CASE Fail /\ Counted /\ \E row \in Leftovers(Object) : box' = [box EXCEPT ![Object] = row]
  <2>1. BoxStep
    BY <1>1, <1>2, <1>3, LeftoverOK
  <2> QED
    BY <1>1, <1>2, <1>3, <2>1, FailStep
<1>4. CASE Succeed /\ UNCHANGED used /\ box' = [box EXCEPT ![Object] = Created(Object)]
  <2>1. Created(Object) \in Leftovers(Object)
    BY DEF Leftovers
  <2>2. BoxStep
    BY <1>1, <1>2, <1>4, <2>1, LeftoverOK
  <2>3. Forward => BoxWork'
    BY <1>1, <1>2, <1>4, ReplaceWork
  <2>4. left = 1 => RollbackRestores' /\ SuccessInForce'
    BY <1>1, <1>2, <1>4, SucceedPlain, ReplaceEnds
  <2> QED
    BY <1>1, <1>2, <1>4, <2>2, <2>3, <2>4, SucceedPlain, SucceedStep DEF Counted
<1>5. ASSUME NEW row \in {Absent, [Created(Object) EXCEPT !.state = "stopped"]}
      PROVE  row \in Leftovers(Object)
  BY DEF Leftovers
<1> QED
  BY <1>3, <1>4, <1>5 DEF replaceContainer, Counted

\* A Hermes that was seen suspended or stopped is so again.
LEMMA ReliveStep ==
  ASSUME IndInv, restoreHermesLifecycle
  PROVE  IndInv'
<1>1. ~Idle /\ Verb = "relive" /\ Verb \in Calls \ {"tar"}
  BY NextVerb DEF restoreHermesLifecycle, Calls
<1>2. CallFrame /\ network' = network
  BY DEF restoreHermesLifecycle, CallFrame
<1>3. CASE Fault /\ Fail /\ \E xs : Docker(LifecycleVerb, xs)
  <2>1. BoxStep
    BY <1>1, <1>2, <1>3, DockerStep
  <2> QED
    BY <1>1, <1>2, <1>3, <2>1, FailStep DEF Counted
<1> DEFINE xs == IF LifecycleVerb = "none" THEN {} ELSE {"hermes"}
<1>4. CASE Docker(LifecycleVerb, xs) /\ Succeed /\ UNCHANGED used
  <2>1. BoxStep
    BY <1>1, <1>2, <1>4, DockerStep
  <2>2. action \in Users /\ left = IF op.mode = "run" THEN 2 ELSE 1
    BY <1>1, Heads DEF IndInv, Types
  <2>3. Made("hermes")
    BY <1>1, <2>2 DEF IndInv, BoxWork
  <2>4. /\ box["hermes"].state = "running" /\ box["hermes"].env = disk["env"]
        /\ box["hermes"].image = meta.image
    BY <2>2, <2>3 DEF Made, Created, ImageFor, action, Users
  <2>5. "hermes" \in Containers
    BY DEF Containers
  <2>6. /\ box'["hermes"].env = disk["env"] /\ box'["hermes"].image = meta.image
        /\ box'["hermes"].state = IF "hermes" \in xs /\ DockerAccepts(LifecycleVerb, box["hermes"].state)
                                  THEN DockerState(LifecycleVerb) ELSE box["hermes"].state
    BY <1>2, <1>4, <2>4, <2>5, DockerOK
  <2>7. box'["hermes"].state = IF op.was \in {"paused", "stopped"} THEN op.was ELSE "running"
    BY <2>4, <2>6 DEF DockerAccepts, DockerState, LifecycleVerb
  <2>8. op.was \in {before.hermes, "unknown"}
    BY <1>1 DEF IndInv, CmdInv, CmdOK
  <2>9. SameCommand /\ (left = 1 => op'.result = IF op.mode = "run" THEN "done" ELSE "rolledback")
    BY <1>1, <1>4, SucceedPlain, Advance DEF IndInv, Types
  <2>10. HermesRelived'
    BY <1>2, <2>7, <2>8, <2>9 DEF HermesRelived, SameCommand, CallFrame
  <2>11. Forward => BoxWork'
    BY <2>2, <2>10 DEF BoxWork, Forward, SameCommand, action, Users, Replacing
  <2>12. ASSUME left = 1 PROVE RollbackRestores' /\ SuccessInForce'
    <3>1. op.mode = "back" /\ op'.result = "rolledback"
      BY <1>1, <2>2, <2>9, <2>12 DEF IndInv, Types, OpOK, Idle
    <3>2. \A f \in Files : before.files[f] # 0 => disk[f] = before.files[f]
      BY <1>1, <2>2, <2>12, <3>1 DEF IndInv, FileWork, UserFiles, Returned, Same
    <3>3. UNCHANGED <<disk, meta, before>> /\ action' = action
      BY <1>2, <2>9 DEF CallFrame, SameCommand, action
    <3>4. RollbackRestores'
      BY <2>2, <2>6, <2>10, <3>1, <3>2, <3>3 DEF RollbackRestores, action, Users
    <3>5. SuccessInForce'
      BY <3>1 DEF SuccessInForce
    <3> QED
      BY <3>4, <3>5
  <2> QED
    BY <1>1, <1>2, <1>4, <2>1, <2>11, <2>12, SucceedPlain, SucceedStep DEF Counted
<1> QED
  BY <1>3, <1>4 DEF restoreHermesLifecycle


-----------------------------------------------------------------------------
(* Steps on files leave the containers alone. *)

Local == {"write", "back", "drop", "stage", "keep", "seal", "expire", "open", "copy", "swap",
          "return"}
HostFrame == UNCHANGED <<box, network, other, before, used>>

\* The containers are replaced after the files have been written.
LEMMA BoxBehind ==
  ASSUME CmdInv, OpOK, ~Idle, Verb \in Local, left > 1, Forward
  PROVE  BoxWork'
<1> USE DEF CmdInv
<1>1. action' = action /\ After' = After /\ left' = left - 1 /\ op'.mode = op.mode
  BY DEF Forward, SameCommand, action, After
<1>2. left \in Nat /\ op.mode \in {"run", "back"}
  BY Heads DEF OpOK, Idle
<1>3. action \in Replacing => left > After + 3
  <2>1. CASE action = "provision"
    <3>1. op.mode = "run"
      BY <1>2, <2>1 DEF CmdOK, Users
    <3> QED
      BY <2>1, <3>1, ProvisionTable DEF At, Local, After
  <2>2. CASE action = "config.apply" /\ op.mode = "run"
    BY <2>2, ConfigTable DEF At, Local, After
  <2>3. CASE action = "config.apply" /\ op.mode = "back"
    BY <2>3, ConfigBackTable DEF At, Local, After
  <2>4. CASE action = "backup.restore" /\ op.mode = "run"
    BY <2>4, RestoreTable DEF At, Local, After
  <2>5. CASE action = "backup.restore" /\ op.mode = "back"
    BY <2>5, RestoreBackTable DEF At, Local, After
  <2>6. CASE action = "release.apply"
    <3>1. op.mode = "run"
      BY <1>2, <2>6 DEF CmdOK, Users
    <3> QED
      BY <2>6, <3>1, ReleaseTable DEF At, Local
  <2> QED
    BY <1>2, <2>1, <2>2, <2>3, <2>4, <2>5, <2>6 DEF Replacing
<1>4. action \in Users => left \in (IF op.mode = "run" THEN {5, 4} ELSE {3})
  <2>1. action \in Users /\ op.mode = "run" => left \in {5, 4}
    BY UserTable DEF At, Local
  <2>2. action \in Users /\ op.mode = "back" => left = 3
    BY UserBackTable DEF At, Local
  <2> QED
    BY <1>2, <2>1, <2>2
<1>5. After \in {0, 1}
  BY DEF After
<1> QED
  BY <1>1, <1>2, <1>3, <1>4, <1>5 DEF BoxWork

\* A step that leaves the archives alone keeps PlainInv.
LEMMA PlainKept ==
  ASSUME IndInv, ~Idle, SameCommand, plain' = plain, used' = used,
         Idle' => action \notin {"backup.create", "backup.restore"}
  PROVE  PlainInv'
<1> SUFFICES ASSUME used.crashes = 0, NEW i \in PlainIds,
                    Idle' \/ i # PlainOf(op.cmd)
             PROVE  plain[i] = None
  BY DEF PlainInv, SameCommand
<1>1. i # PlainOf(op.cmd)
  BY DEF PlainIds, PlainOf, action
<1> QED
  BY <1>1 DEF IndInv, PlainInv

\* A step on files, given what it does to them.
LEMMA LocalStep ==
  ASSUME IndInv, ~Idle, Verb \in Local, Proceed, HostFrame, UNCHANGED meta,
         FilesOK', SnapsOK', PlainInv', left > 1 /\ Forward => FileWork'
  PROVE  IndInv'
<1> USE DEF IndInv
<1>1. /\ OpOK' /\ SameCommand /\ OnPlan'
      /\ left > 1 => ~Idle' /\ op'.mode = op.mode /\ left' = left - 1
      /\ left = 1 => /\ Idle'
                     /\ op'.result = IF op.mode = "run" THEN "done" ELSE "rolledback"
  BY Advance DEF Types
<1>2. left \in Nat \ {0}
  BY Heads DEF Types
<1>3. Types'
  <2>1. BoxOK'
    BY DEF Types, BoxOK, HostFrame
  <2>2. RecordsOK'
    BY DEF Types, RecordsOK, HostFrame
  <2> QED
    BY <1>1, <2>1, <2>2 DEF Types
<1>4. PortsInv'
  <2>1. BoxStep
    BY BoxUnmoved DEF HostFrame, Types, BoxOK
  <2> QED
    BY <1>1, <2>1, BoxPorts DEF CmdInv, HostFrame
<1>5. CASE left = 1
  <2>1. op.mode = "run" /\ action \notin Replacing \cup Users
    <3>1. CASE Verb \in {"stage", "seal", "expire"}
      BY <1>5, <3>1, Heads, ConfigTable DEF Types, Mode, Replacing, Users, CmdInv, At
    <3>2. CASE Verb \in {"write", "back", "drop", "keep", "open", "copy", "swap", "return"}
      <4>1. op.mode \in {"run", "back"}
        BY DEF Types, OpOK, Idle
      <4>2. Mode("run", {"provision"}) => Verb = "record"
        BY <1>5, ProvisionTable DEF Mode, At, CmdInv
      <4>3. Mode("run", {"config.apply"}) => Verb = "record"
        BY <1>5, ConfigTable DEF Mode, At, CmdInv
      <4>4. Mode("back", {"config.apply"}) => Verb = "replace"
        BY <1>5, ConfigBackTable DEF Mode, At, CmdInv
      <4>5. Mode("run", {"backup.restore"}) => Verb = "replace"
        BY <1>5, RestoreTable DEF Mode, At, CmdInv
      <4>6. Mode("back", {"backup.restore"}) => Verb = "replace"
        BY <1>5, RestoreBackTable DEF Mode, At, CmdInv
      <4>7. Mode("run", Users) => Verb = "record"
        BY <1>5, UserTable DEF Mode, At, CmdInv
      <4>8. Mode("back", Users) => Verb = "relive"
        BY <1>5, UserBackTable DEF Mode, At, CmdInv
      <4>9. Mode("run", {"credential.revoke"}) => Verb = "stop"
        BY <1>5, RevokeTable DEF Mode, At, CmdInv
      <4> QED
        BY <3>2, <4>1, <4>2, <4>3, <4>4, <4>5, <4>6, <4>7, <4>8, <4>9, Heads
        DEF Types, Mode
    <3> QED
      BY <3>1, <3>2 DEF Local
  <2>2. RollbackRestores' /\ SuccessInForce'
    BY <1>1, <1>5, <2>1, EndAside
  <2>3. CmdInv' /\ FileWork' /\ BoxWork'
    BY <1>1, <1>5 DEF CmdInv, CmdOK, FileWork, BoxWork
  <2> QED
    BY <1>3, <1>4, <2>2, <2>3
<1>6. CASE left > 1
  <2>1. Forward
    BY <1>1, <1>6 DEF Forward
  <2>2. CmdOK'
    BY <1>1, <2>1 DEF CmdInv, CmdOK, SameCommand, Forward, HostFrame, action
  <2>3. BoxWork'
    BY <1>6, <2>1, BoxBehind DEF Types
  <2>4. RollbackRestores' /\ SuccessInForce'
    BY <2>1 DEF Forward, RollbackRestores, SuccessInForce
  <2> QED
    BY <1>1, <1>3, <1>4, <1>6, <2>1, <2>2, <2>3, <2>4 DEF CmdInv
<1> QED
  BY <1>2, <1>5, <1>6

\* What a step on files sees of the command, before and after.
LEMMA ForwardOp ==
  ASSUME Forward
  PROVE  /\ op'.cmd = op.cmd /\ action' = action /\ Id' = Id /\ UserFile' = UserFile
         /\ op'.mode = op.mode /\ left' = left - 1
         /\ PlainOf(op.cmd)' = PlainOf(op.cmd)
BY DEF Forward, SameCommand, action, Id, UserFile


\* Versions of files are numbers.
LEMMA VersionsNat == Versions \subseteq Nat /\ 0 \in Versions /\ Revs \subseteq Versions
BY SupervisorAssumption DEF Versions

\* One file is written.
LEMMA WriteOne ==
  ASSUME FilesOK, NEW f \in Files, NEW v \in Versions, Write(One(f, v)),
         UNCHANGED <<staged, history, meta>>, f = "env" /\ meta.exists => v \in Revs
  PROVE  /\ FilesOK'
         /\ \A g \in Files : disk'[g] = IF g = f THEN v ELSE disk[g]
<1>1. disk \in [Paths -> Nat] /\ Files \subseteq Paths /\ "memory" \in Paths /\ "memory" \notin Files
  BY DEF FilesOK, Paths, Files
<1>2. DOMAIN disk = Paths /\ DOMAIN One(f, v) = {f} /\ One(f, v)[f] = v
  BY <1>1 DEF One
<1>3. disk' = [g \in Paths |-> IF g = f THEN v ELSE disk[g]]
  BY <1>2 DEF Write
<1>4. disk' \in [Paths -> Nat]
  BY <1>1, <1>3, VersionsNat
<1>5. \A g \in Files : disk'[g] = IF g = f THEN v ELSE disk[g]
  BY <1>1, <1>3
<1>6. disk'["memory"] = disk["memory"]
  BY <1>1, <1>3
<1>7. "env" \in Files
  BY DEF Files
<1>8. /\ \A g \in Files : disk'[g] \in Versions
      /\ meta'.exists => disk'["env"] \in Revs
  BY <1>5, <1>7 DEF FilesOK
<1> QED
  BY <1>4, <1>5, <1>6, <1>8 DEF FilesOK

\* Files of a snapshot are written.
LEMMA WriteSnap ==
  ASSUME FilesOK, NEW s \in Snaps, NEW S \in {Data, {"env"}}, Write(Only(s, S)),
         UNCHANGED <<staged, history, meta>>
  PROVE  /\ FilesOK'
         /\ \A g \in Files : disk'[g] = IF g \in S THEN s[g] ELSE disk[g]
<1>1. disk \in [Paths -> Nat] /\ Files \subseteq Paths /\ "memory" \in Paths /\ "memory" \notin Files
  BY DEF FilesOK, Paths, Files
<1>2. DOMAIN disk = Paths /\ DOMAIN Only(s, S) = S /\ \A g \in S : Only(s, S)[g] = s[g]
  BY <1>1 DEF Only
<1>3. disk' = [g \in Paths |-> IF g \in S THEN s[g] ELSE disk[g]]
  BY <1>2 DEF Write
<1>4. S \subseteq {"soul", "skills", "memory", "env"} /\ "token" \notin S
  BY DEF Data
<1>5. /\ s["env"] \in Revs /\ s["soul"] \in Versions /\ s["skills"] \in Versions
      /\ s["memory"] \in 0..MaxWrites
  BY DEF Snaps
<1>6. /\ \A g \in Files : disk'[g] = IF g \in S THEN s[g] ELSE disk[g]
      /\ disk'["memory"] = IF "memory" \in S THEN s["memory"] ELSE disk["memory"]
  BY <1>1, <1>3
<1>7. \A g \in Files : disk'[g] \in Versions
  BY <1>4, <1>5, <1>6, VersionsNat DEF FilesOK, Files
<1>8. disk'["memory"] \in 0..MaxWrites
  BY <1>5, <1>6 DEF FilesOK
<1>9. meta'.exists => disk'["env"] \in Revs
  BY <1>5, <1>6 DEF FilesOK, Files
<1>10. 0..MaxWrites \subseteq Nat
  BY SupervisorAssumption
<1>11. disk' \in [Paths -> Nat]
  <2>1. \A g \in Paths : disk'[g] \in Nat
    BY <1>7, <1>8, <1>10, VersionsNat DEF Paths
  <2> QED
    BY <1>3, <2>1
<1> QED
  BY <1>6, <1>7, <1>8, <1>9, <1>11 DEF FilesOK

\* Only a step that takes or drops an archive changes the snapshots.
FileFrame == UNCHANGED <<staged, history, copies, archive, meta, plain>>

\* Writing a file of the new revision.
LEMMA WriteStep ==
  ASSUME IndInv, ~Idle, Verb = "write", Proceed, HostFrame, FileFrame, Write(One(Object, Id))
  PROVE  IndInv'
<1> USE DEF IndInv, Types, CmdInv
<1>1. op.mode = "run" /\ action \in {"provision", "config.apply"} \cup Users
  BY Heads DEF Mode
<1>2. Id \in Revs /\ Id \in Versions
  BY <1>1, CommandKinds, VersionsNat DEF CmdOK, Id, action, Users
<1>3. Object \in Files
  <2>1. action = "provision" => Object \in Files
    BY <1>1, ProvisionTable DEF At, Files
  <2>2. action = "config.apply" => Object \in Files
    BY <1>1, ConfigTable DEF At, Files
  <2>3. action \in Users => Object \in Files
    BY <1>1, UserTable DEF At, Files
  <2> QED
    BY <1>1, <2>1, <2>2, <2>3
<1>4. FilesOK' /\ \A g \in Files : disk'[g] = IF g = Object THEN Id ELSE disk[g]
  BY <1>2, <1>3, WriteOne DEF FileFrame
<1>5. SnapsOK'
  BY DEF SnapsOK, FileFrame
<1>6. PlainInv'
  BY <1>1, Advance, PlainKept DEF FileFrame, HostFrame, Users
<1>7. ASSUME left > 1, Forward PROVE FileWork'
  <2>0. UNCHANGED <<history, copies, meta, before, plain>>
    BY DEF FileFrame, HostFrame
  <2>1. /\ op'.cmd = op.cmd /\ action' = action /\ Id' = Id /\ UserFile' = UserFile
        /\ op'.mode = "run" /\ left' = left - 1
    BY <1>1, <1>7, ForwardOp
  <2>2. /\ \A f \in Files : Kept(f)' = Kept(f)
        /\ \A f \in Files \ {Object} : Same(f)' = Same(f)
    BY <1>4, <2>0 DEF Kept, Same
  <2>3. CASE action = "provision"
    <3>1. ProvisionFiles'
      BY <1>1, <1>4, <2>1, <2>3, ProvisionTable DEF FileWork, ProvisionFiles, At, Files
    <3> QED
      BY <2>1, <2>3, <3>1 DEF FileWork, ConfigFiles, ConfigBack, UserFiles, RestoreFiles,
                              CreateFiles, Users
  <2>4. CASE action = "config.apply"
    <3>1. left \in {8, 7, 6} /\ At(8, "write", "env") /\ At(7, "write", "soul")
          /\ At(6, "write", "token")
      BY <1>1, <2>4, ConfigTable DEF At
    <3>2. ConfigFiles
      BY DEF FileWork
    <3>3. ConfigFiles'
      BY <1>1, <1>4, <2>1, <2>2, <2>4, <3>1, <3>2 DEF ConfigFiles, At, Files
    <3> QED
      BY <2>1, <2>4, <3>3 DEF FileWork, ProvisionFiles, ConfigBack, UserFiles, RestoreFiles,
                              CreateFiles, Users
  <2>5. CASE action \in Users
    <3>1. left = 4 /\ Object = UserFile
      BY <1>1, <2>5, UserTable DEF At
    <3>2. UserFiles'
      BY <1>1, <1>3, <2>1, <2>2, <2>5, <3>1 DEF FileWork, UserFiles
    <3> QED
      BY <2>1, <2>5, <3>2 DEF FileWork, ProvisionFiles, ConfigFiles, ConfigBack, RestoreFiles,
                              CreateFiles, Users
  <2> QED
    BY <1>1, <2>3, <2>4, <2>5
<1> HIDE DEF IndInv
<1>8. UNCHANGED meta /\ Verb \in Local
  BY DEF FileFrame, Local
<1> QED
  BY <1>4, <1>5, <1>6, <1>7, <1>8, LocalStep

\* Writing back a file from the history.
LEMMA BackStep ==
  ASSUME IndInv, ~Idle, Verb = "back", Proceed, HostFrame, FileFrame,
         Write(One(Object, IF action # "config.apply" /\ before.files[Object] = 0
                           THEN 0 ELSE history[meta.config][Object]))
  PROVE  IndInv'
<1> USE DEF IndInv, Types, CmdInv
<1> DEFINE v == IF action # "config.apply" /\ before.files[Object] = 0
                THEN 0 ELSE history[meta.config][Object]
<1>1. op.mode = "back" /\ action \in {"config.apply"} \cup Users
  BY Heads DEF Mode
<1>2. meta.exists /\ meta.config \in Revs /\ before.files["env"] \in Revs
  BY <1>1 DEF CmdOK, RecordsOK, Users
<1>3. /\ Object \in Files
      /\ action = "config.apply" => Object \in {"env", "soul", "token"}
      /\ action \in Users => Object = UserFile /\ left = 3 /\ Object # "env"
  <2>1. action = "config.apply" => Object \in {"env", "soul", "token"}
    BY <1>1, ConfigBackTable DEF At
  <2>2. action \in Users => /\ Object = UserFile /\ left = 3
                            /\ UserFile \in {"soul", "skills"}
    BY <1>1, UserBackTable DEF At
  <2> QED
    BY <1>1, <2>1, <2>2 DEF Files
<1>4. Kept(Object)
  BY <1>1, <1>3 DEF FileWork, ConfigBack, UserFiles
<1>5. v \in Versions /\ (before.files[Object] # 0 => v = before.files[Object])
  <2>1. history[meta.config][Object] \in Versions
    BY <1>2, <1>3 DEF FilesOK
  <2> QED
    BY <1>4, <2>1, VersionsNat DEF Kept
<1>6. Object = "env" => v \in Revs
  <2>1. Object = "env" => v = before.files["env"]
    BY <1>2, <1>5, SupervisorAssumption
  <2> QED
    BY <1>2, <2>1
<1> HIDE DEF v
<1>7. FilesOK' /\ \A g \in Files : disk'[g] = IF g = Object THEN v ELSE disk[g]
  <2>1. Write(One(Object, v))
    BY DEF v
  <2> QED
    BY <1>3, <1>5, <1>6, <2>1, WriteOne DEF FileFrame
<1>8. SnapsOK'
  BY DEF SnapsOK, FileFrame
<1>9. PlainInv'
  BY <1>1, Advance, PlainKept DEF FileFrame, HostFrame, Users
<1>10. ASSUME left > 1, Forward PROVE FileWork'
  <2>0. UNCHANGED <<history, copies, meta, before, plain>>
    BY DEF FileFrame, HostFrame
  <2>1. /\ op'.cmd = op.cmd /\ action' = action /\ Id' = Id /\ UserFile' = UserFile
        /\ op'.mode = "back" /\ left' = left - 1
    BY <1>1, <1>10, ForwardOp
  <2>2. /\ \A f \in Files : Kept(f)' = Kept(f)
        /\ \A f \in Files \ {Object} : Same(f)' = Same(f) /\ Returned(f)' = Returned(f)
    BY <1>7, <2>0 DEF Kept, Same, Returned
  <2>3. \A f \in Files : f = Object => Returned(f)'
    BY <1>5, <1>7, <2>0 DEF Returned, Same
  <2>4. CASE action = "config.apply"
    <3>1. left \in {7, 6, 5} /\ At(7, "back", "env") /\ At(6, "back", "soul")
          /\ At(5, "back", "token")
      BY <1>1, <2>4, ConfigBackTable DEF At
    <3>2. ConfigBack
      BY DEF FileWork
    <3>3. ConfigBack'
      BY <1>1, <2>1, <2>2, <2>3, <2>4, <3>1, <3>2 DEF ConfigBack, At, Files
    <3> QED
      BY <2>1, <2>4, <3>3 DEF FileWork, ProvisionFiles, ConfigFiles, UserFiles, RestoreFiles,
                              CreateFiles, Users
  <2>5. CASE action \in Users
    <3>1. UserFiles'
      BY <1>1, <1>3, <2>1, <2>2, <2>3, <2>5 DEF FileWork, UserFiles
    <3> QED
      BY <2>1, <2>5, <3>1 DEF FileWork, ProvisionFiles, ConfigFiles, ConfigBack, RestoreFiles,
                              CreateFiles, Users
  <2> QED
    BY <1>1, <2>4, <2>5
<1> HIDE DEF IndInv
<1>11. UNCHANGED meta /\ Verb \in Local
  BY DEF FileFrame, Local
<1> QED
  BY <1>7, <1>8, <1>9, <1>10, <1>11, LocalStep


\* Removing the token.
LEMMA DropStep ==
  ASSUME IndInv, ~Idle, Verb = "drop", Proceed, HostFrame, FileFrame, Write(One("token", 0))
  PROVE  IndInv'
<1> USE DEF IndInv, Types, CmdInv
<1>1. action = "credential.revoke"
  BY Heads DEF Mode
<1>2. FilesOK'
  <2>1. "token" \in Files /\ 0 \in Versions
    BY VersionsNat DEF Files
  <2> QED
    BY <2>1, WriteOne DEF FileFrame
<1>3. SnapsOK'
  BY DEF SnapsOK, FileFrame
<1>4. PlainInv'
  BY <1>1, Advance, PlainKept DEF FileFrame, HostFrame
<1>5. Forward => FileWork'
  BY <1>1, ForwardOp DEF FileWork, ProvisionFiles, ConfigFiles, ConfigBack, UserFiles,
                         RestoreFiles, CreateFiles, Users
<1> HIDE DEF IndInv
<1>6. UNCHANGED meta /\ Verb \in Local
  BY DEF FileFrame, Local
<1> QED
  BY <1>2, <1>3, <1>4, <1>5, <1>6, LocalStep

\* Staging a revision.
LEMMA StageStep ==
  ASSUME IndInv, ~Idle, Verb = "stage", Proceed, HostFrame, staged' = staged \cup {Id},
         UNCHANGED <<disk, history, copies, archive, meta, plain>>
  PROVE  IndInv'
<1> USE DEF IndInv, Types, CmdInv
<1>1. op.mode = "run" /\ action \in {"config.stage", "config.apply"}
  BY Heads DEF Mode
<1>2. FilesOK'
  <2>1. Id \in Revs
    BY <1>1, CommandKinds DEF CmdOK, Id, action
  <2> QED
    BY <2>1 DEF FilesOK
<1>3. SnapsOK'
  BY DEF SnapsOK
<1>4. PlainInv'
  BY <1>1, Advance, PlainKept DEF HostFrame
<1>5. ASSUME left > 1, Forward PROVE FileWork'
  <2>1. CASE action = "config.stage"
    BY <1>5, <2>1, ForwardOp DEF FileWork, ProvisionFiles, ConfigFiles, ConfigBack, UserFiles,
                                 RestoreFiles, CreateFiles, Users
  <2>2. CASE action = "config.apply"
    <3>1. left = 10
      BY <1>1, <2>2, ConfigTable DEF At
    <3>2. \A f \in Files : Same(f)' = Same(f)
      BY DEF Same, HostFrame
    <3>3. ConfigFiles'
      BY <1>1, <1>5, <2>2, <3>1, <3>2, ForwardOp DEF FileWork, ConfigFiles, Files
    <3> QED
      BY <1>1, <1>5, <2>2, <3>3, ForwardOp DEF FileWork, ProvisionFiles, ConfigBack, UserFiles,
                                     RestoreFiles, CreateFiles, Users
  <2> QED
    BY <1>1, <2>1, <2>2
<1> HIDE DEF IndInv
<1>6. Verb \in Local
  BY DEF Local
<1> QED
  BY <1>2, <1>3, <1>4, <1>5, <1>6, LocalStep

\* Keeping the present files in the history.
LEMMA KeepStep ==
  ASSUME IndInv, ~Idle, Verb = "keep", Proceed, HostFrame,
         Keep(IF Object = "all" THEN {"env", "soul", "token"} ELSE {Object}),
         UNCHANGED <<disk, staged, copies, archive, meta, plain>>
  PROVE  IndInv'
<1> USE DEF IndInv, Types, CmdInv
<1> DEFINE files == IF Object = "all" THEN {"env", "soul", "token"} ELSE {Object}
<1>1. op.mode = "run" /\ action \in {"config.apply"} \cup Users
  BY Heads DEF Mode
<1>2. meta.config \in Revs
  BY <1>1 DEF CmdOK, RecordsOK, Users
<1>3. history' = [history EXCEPT ![meta.config] =
                   [f \in Files |-> IF f \in files /\ disk[f] # 0 THEN disk[f] ELSE @[f]]]
  BY DEF Keep
<1> HIDE DEF files
<1>4. history'[meta.config] = [f \in Files |-> IF f \in files /\ disk[f] # 0 THEN disk[f]
                                               ELSE history[meta.config][f]]
  BY <1>2, <1>3 DEF FilesOK
<1>5. history' \in [Revs -> [Files -> Versions]]
  <2>1. [f \in Files |-> IF f \in files /\ disk[f] # 0 THEN disk[f]
                         ELSE history[meta.config][f]] \in [Files -> Versions]
    BY <1>2 DEF FilesOK
  <2> QED
    BY <1>2, <1>3, <2>1 DEF FilesOK
<1>6. FilesOK'
  BY <1>5 DEF FilesOK
<1>7. SnapsOK'
  BY DEF SnapsOK
<1>8. PlainInv'
  BY <1>1, Advance, PlainKept DEF HostFrame, Users
<1>9. ASSUME left > 1, Forward PROVE FileWork'
  <2>1. /\ op'.cmd = op.cmd /\ action' = action /\ Id' = Id /\ UserFile' = UserFile
        /\ op'.mode = "run" /\ left' = left - 1
    BY <1>1, <1>9, ForwardOp
  <2>2. \A f \in Files : Same(f)' = Same(f)
    BY DEF Same, HostFrame
  <2>3. \A f \in Files \cap files : Same(f) => Kept(f)'
    BY <1>4 DEF Kept, Same, HostFrame
  <2>4. CASE action = "config.apply"
    <3>1. left = 9 /\ files = {"env", "soul", "token"}
      BY <1>1, <2>4, ConfigTable DEF At, files
    <3>2. \A f \in Files : Same(f)
      BY <1>1, <2>4, <3>1 DEF FileWork, ConfigFiles
    <3>3. ConfigFiles'
      BY <2>1, <2>2, <2>3, <2>4, <3>1, <3>2 DEF ConfigFiles, Files
    <3> QED
      BY <2>1, <2>4, <3>3 DEF FileWork, ProvisionFiles, ConfigBack, UserFiles, RestoreFiles,
                              CreateFiles, Users
  <2>5. CASE action \in Users
    <3>1. left = 5 /\ files = {UserFile} /\ UserFile \in {"soul", "skills"}
      BY <1>1, <2>5, UserTable DEF At, files
    <3>2. Same(UserFile) /\ \A f \in Files \ {UserFile} : Same(f)
      BY <1>1, <2>5, <3>1 DEF FileWork, UserFiles
    <3>3. UserFiles'
      BY <2>1, <2>2, <2>3, <2>5, <3>1, <3>2 DEF UserFiles, Files
    <3> QED
      BY <2>1, <2>5, <3>3 DEF FileWork, ProvisionFiles, ConfigFiles, ConfigBack, RestoreFiles,
                              CreateFiles, Users
  <2> QED
    BY <1>1, <2>4, <2>5
<1> HIDE DEF IndInv
<1>10. Verb \in Local
  BY DEF Local
<1> QED
  BY <1>6, <1>7, <1>8, <1>9, <1>10, LocalStep

\* Removing an archive.
LEMMA ExpireStep ==
  ASSUME IndInv, ~Idle, Verb = "expire", Proceed, HostFrame,
         archive' = [archive EXCEPT ![Id] = None],
         UNCHANGED <<disk, staged, history, copies, meta, plain>>
  PROVE  IndInv'
<1> USE DEF IndInv, Types, CmdInv
<1>1. left = 1 /\ action = "backup.expire"
  BY Heads DEF Mode
<1>2. FilesOK'
  BY DEF FilesOK
<1>3. SnapsOK'
  BY DEF SnapsOK
<1>4. PlainInv'
  BY <1>1, Advance, PlainKept DEF HostFrame
<1> HIDE DEF IndInv
<1>5. Verb \in Local
  BY DEF Local
<1> QED
  BY <1>1, <1>2, <1>3, <1>4, <1>5, LocalStep

\* Encrypting the archive and removing the plain one.
LEMMA SealStep ==
  ASSUME IndInv, ~Idle, Verb = "seal", Proceed, HostFrame,
         archive' = [archive EXCEPT ![Id] = plain[PlainOf(op.cmd)]], plain' = Cleanup,
         UNCHANGED <<disk, staged, history, copies, meta>>
  PROVE  IndInv'
<1> USE DEF IndInv, Types, CmdInv
<1>1. left = 1 /\ action = "backup.create"
  BY Heads DEF Mode
<1>2. FilesOK'
  BY DEF FilesOK
<1>3. SnapsOK'
  <2>1. plain[PlainOf(op.cmd)] \in Snaps
    BY <1>1 DEF FileWork, CreateFiles
  <2>2. archive' \in [BackupIds -> Snaps \cup {None}]
    BY <2>1 DEF SnapsOK
  <2> QED
    BY <2>2, CleanupOK DEF SnapsOK
<1>4. PlainInv'
  <2>1. used'.crashes = used.crashes
    BY DEF HostFrame
  <2> SUFFICES ASSUME used.crashes = 0, NEW i \in PlainIds PROVE plain'[i] = None
    BY <2>1 DEF PlainInv
  <2> QED
    BY CleanupOK DEF PlainInv
<1> HIDE DEF IndInv
<1>5. Verb \in Local
  BY DEF Local
<1> QED
  BY <1>1, <1>2, <1>3, <1>4, <1>5, LocalStep

\* A restore: the archive is opened, the data is kept, replaced and, in the catch
\* block, put back.
LEMMA RestoreStep ==
  ASSUME IndInv, ~Idle, Verb \in {"open", "copy", "swap", "return"}, Forward, RestoreFiles'
  PROVE  FileWork'
<1>1. action = "backup.restore"
  BY Heads DEF IndInv, Types, Mode
<1> QED
  BY <1>1, ForwardOp DEF FileWork, ProvisionFiles, ConfigFiles, ConfigBack, UserFiles,
                         CreateFiles, Users

\* Decrypting the archive.
LEMMA OpenStep ==
  ASSUME IndInv, ~Idle, Verb = "open", Proceed, HostFrame,
         plain' = [plain EXCEPT ![PlainOf(op.cmd)] = archive[Id]],
         UNCHANGED <<disk, staged, history, copies, archive, meta>>
  PROVE  IndInv'
<1> USE DEF IndInv, Types, CmdInv
<1>1. op.mode = "run" /\ action = "backup.restore"
  BY Heads DEF Mode
<1>2. left = 12
  BY <1>1, RestoreTable DEF At
<1>3. archive[Id] \in Snaps /\ \A f \in Files : Same(f)
  BY <1>1, <1>2 DEF FileWork, RestoreFiles
<1>4. PlainOf(op.cmd) \in PlainIds
  BY <1>1, CommandKinds DEF CmdOK, PlainOf, PlainIds, action
<1>5. FilesOK' /\ SnapsOK'
  BY <1>3 DEF FilesOK, SnapsOK
<1>6. plain'[PlainOf(op.cmd)] \in Snaps
        /\ \A i \in PlainIds : i # PlainOf(op.cmd) => plain'[i] = plain[i]
  BY <1>3, <1>4 DEF SnapsOK
<1>7. PlainInv'
  <2>1. ~Idle' /\ SameCommand
    BY <1>2, Advance
  <2> QED
    BY <1>6, <2>1 DEF PlainInv, HostFrame, SameCommand
<1>8. ASSUME Forward PROVE FileWork'
  <2>1. \A f \in Files : Same(f)'
    BY <1>3 DEF Same, HostFrame
  <2>2. RestoreFiles'
    BY <1>1, <1>2, <1>6, <1>8, <2>1, ForwardOp DEF RestoreFiles, Files
  <2> QED
    BY <1>8, <2>2, RestoreStep
<1> HIDE DEF IndInv
<1>9. Verb \in Local
  BY DEF Local
<1> QED
  BY <1>5, <1>7, <1>8, <1>9, LocalStep

\* Copying the data aside before a restore.
LEMMA CopyStep ==
  ASSUME IndInv, ~Idle, Verb = "copy", Proceed, HostFrame, copyData,
         UNCHANGED <<disk, staged, history, archive, meta, plain>>
  PROVE  IndInv'
<1> USE DEF IndInv, Types, CmdInv
<1>1. op.mode = "run" /\ action = "backup.restore"
  BY Heads DEF Mode
<1>2. left = 10
  BY <1>1, RestoreTable DEF At
<1>3. /\ \A f \in Files : Same(f)
      /\ plain[PlainOf(op.cmd)] \in Snaps
  BY <1>1, <1>2 DEF FileWork, RestoreFiles
<1>4. op.cmd.restore \in RestoreIds /\ meta.exists
  BY <1>1, CommandKinds DEF CmdOK, action
<1>5. Snapshot \in Snaps /\ \A f \in {"env", "soul", "skills"} : Snapshot[f] = disk[f]
  BY <1>4, SnapshotOK DEF Snapshot, Archived, Data
<1>6. copies' = [copies EXCEPT ![op.cmd.restore] = Snapshot]
  BY DEF copyData
<1>7. copies'[op.cmd.restore] = Snapshot
  BY <1>4, <1>6 DEF SnapsOK
<1>8. FilesOK' /\ SnapsOK'
  BY <1>5, <1>6 DEF FilesOK, SnapsOK
<1>9. PlainInv'
  BY <1>2, Advance, PlainKept DEF HostFrame
<1>10. ASSUME Forward PROVE FileWork'
  <2>1. \A f \in Files : Same(f)'
    BY <1>3 DEF Same, HostFrame
  <2>2. Copied'
    BY <1>3, <1>5, <1>7, <1>10, ForwardOp DEF Copied, Same, HostFrame, Files
  <2>3. RestoreFiles'
    BY <1>1, <1>2, <1>3, <1>10, <2>1, <2>2, ForwardOp DEF RestoreFiles, Files
  <2> QED
    BY <1>10, <2>3, RestoreStep
<1> HIDE DEF IndInv
<1>11. Verb \in Local
  BY DEF Local
<1> QED
  BY <1>8, <1>9, <1>10, <1>11, LocalStep

\* Putting the data of the archive in place.
LEMMA SwapStep ==
  ASSUME IndInv, ~Idle, Verb = "swap", Proceed, HostFrame, FileFrame,
         Write(Only(plain[PlainOf(op.cmd)], IF Object = "data" THEN Data ELSE {"env"}))
  PROVE  IndInv'
<1> USE DEF IndInv, Types, CmdInv
<1>1. op.mode = "run" /\ action = "backup.restore"
  BY Heads DEF Mode
<1>2. left \in {6, 5}
  BY <1>1, RestoreTable DEF At
<1>3. plain[PlainOf(op.cmd)] \in Snaps /\ Same("token") /\ Copied
  BY <1>1, <1>2 DEF FileWork, RestoreFiles
<1>4. FilesOK' /\ disk'["token"] = disk["token"]
  <2> DEFINE S == IF Object = "data" THEN Data ELSE {"env"}
  <2>1. S \in {Data, {"env"}} /\ "token" \in Files /\ "token" \notin S
    BY DEF Data, Files
  <2>2. Write(Only(plain[PlainOf(op.cmd)], S))
    OBVIOUS
  <2> HIDE DEF S
  <2> QED
    BY <1>3, <2>1, <2>2, WriteSnap DEF FileFrame
<1>5. SnapsOK'
  BY DEF SnapsOK, FileFrame
<1>6. PlainInv'
  BY <1>2, Advance, PlainKept DEF HostFrame, FileFrame
<1>7. ASSUME Forward PROVE FileWork'
  <2>1. Same("token")' /\ Copied' /\ plain' = plain
    BY <1>3, <1>4, <1>7, ForwardOp DEF Same, Copied, HostFrame, FileFrame
  <2>2. RestoreFiles'
    BY <1>1, <1>2, <1>3, <1>7, <2>1, ForwardOp DEF RestoreFiles
  <2> QED
    BY <1>7, <2>2, RestoreStep
<1> HIDE DEF IndInv
<1>8. UNCHANGED meta /\ Verb \in Local
  BY DEF FileFrame, Local
<1> QED
  BY <1>4, <1>5, <1>6, <1>7, <1>8, LocalStep

\* Putting the copied data back.
LEMMA ReturnStep ==
  ASSUME IndInv, ~Idle, Verb = "return", Proceed, HostFrame, FileFrame,
         Write(Only(copies[op.cmd.restore], IF Object = "data" THEN Data ELSE {"env"}))
  PROVE  IndInv'
<1> USE DEF IndInv, Types, CmdInv
<1> DEFINE S == IF Object = "data" THEN Data ELSE {"env"}
           s == copies[op.cmd.restore]
<1>1. op.mode = "back" /\ action = "backup.restore"
  BY Heads DEF Mode
<1>2. left \in {6, 5} /\ S = IF left = 6 THEN Data ELSE {"env"}
  BY <1>1, RestoreBackTable DEF At
<1>3. Copied /\ Same("token") /\ (left = 5 => Same("soul") /\ Same("skills"))
  BY <1>1, <1>2 DEF FileWork, RestoreFiles
<1>4. /\ s \in Snaps
      /\ \A f \in {"env", "soul", "skills"} : s[f] = before.files[f]
  BY <1>3 DEF Copied
<1>5. FilesOK' /\ \A g \in Files : disk'[g] = IF g \in S THEN s[g] ELSE disk[g]
  <2>1. S \in {Data, {"env"}}
    OBVIOUS
  <2>2. Write(Only(s, S))
    OBVIOUS
  <2> HIDE DEF S, s
  <2> QED
    BY <1>4, <2>1, <2>2, WriteSnap DEF FileFrame
<1>6. SnapsOK'
  BY DEF SnapsOK, FileFrame
<1>7. PlainInv'
  BY <1>2, Advance, PlainKept DEF HostFrame, FileFrame
<1> HIDE DEF S, s
<1>8. ASSUME Forward PROVE FileWork'
  <2>1. Copied'
    BY <1>3, <1>8, ForwardOp DEF Copied, HostFrame, FileFrame
  <2>2. Same("token")'
    BY <1>2, <1>3, <1>5 DEF Same, HostFrame, Files, Data
  <2>3. left = 6 => Same("soul")' /\ Same("skills")'
    BY <1>2, <1>4, <1>5 DEF Same, HostFrame, Files, Data
  <2>4. left = 5 => Same("soul")' /\ Same("skills")' /\ Same("env")'
    BY <1>2, <1>3, <1>4, <1>5 DEF Same, HostFrame, Files
  <2>5. RestoreFiles'
    BY <1>1, <1>2, <1>8, <2>1, <2>2, <2>3, <2>4, ForwardOp DEF RestoreFiles
  <2> QED
    BY <1>8, <2>5, RestoreStep
<1> HIDE DEF IndInv
<1>9. UNCHANGED meta /\ Verb \in Local
  BY DEF FileFrame, Local
<1> QED
  BY <1>5, <1>6, <1>7, <1>8, <1>9, LocalStep


\* The instance record is written when everything it names is in force.
LEMMA RecordStep ==
  ASSUME IndInv, ~Idle, Verb = "record", Proceed, HostFrame, writeMetadata,
         UNCHANGED <<disk, staged, history, copies, archive, plain>>
  PROVE  IndInv'
<1> USE DEF IndInv, Types, CmdInv
<1>1. /\ left = 1 /\ op.mode = "run"
      /\ action \in {"provision", "config.apply", "release.apply"} \cup Users
  BY Heads DEF Mode
<1>2. Idle' /\ OpOK' /\ SameCommand /\ OnPlan' /\ op'.result = "done"
  BY <1>1, Advance
<1>3. meta' = CASE action = "provision" ->
                     [exists |-> TRUE, config |-> Id, image |-> 0, port |-> op.port,
                      key |-> KeyOf(op.cmd)]
                [] action = "release.apply" ->
                     [meta EXCEPT !.image = Id, !.key = KeyOf(op.cmd)]
                [] OTHER -> [meta EXCEPT !.config = Id, !.key = KeyOf(op.cmd)]
  BY DEF writeMetadata, action
<1>4. /\ action = "release.apply" => Id \in Images
      /\ action # "release.apply" => Id \in Revs
  BY <1>1, CommandKinds DEF CmdOK, Id, action, Users
<1>5. /\ action = "provision" => op.port \in Ports /\ op.port # other.port
      /\ action # "provision" => meta.exists /\ op.port = meta.port
  BY <1>1 DEF CmdOK, Users
<1>6. /\ meta' = [exists |-> meta'.exists, config |-> meta'.config, image |-> meta'.image,
                  port |-> meta'.port, key |-> meta'.key]
      /\ meta'.exists = TRUE /\ meta'.port = op.port /\ op.port \in Ports
  <2>1. CASE action = "provision"
    BY <1>3, <1>5, <2>1
  <2>2. CASE action = "release.apply"
    BY <1>3, <1>5, <2>2 DEF RecordsOK
  <2>3. CASE action \notin {"provision", "release.apply"}
    BY <1>3, <1>5, <2>3 DEF RecordsOK
  <2> QED
    BY <2>1, <2>2, <2>3
<1>7. /\ action = "provision" => meta'.config = Id /\ meta'.image = 0
      /\ action = "release.apply" => meta'.config = meta.config /\ meta'.image = Id
      /\ action \notin {"provision", "release.apply"} =>
           meta'.config = Id /\ meta'.image = meta.image
  <2>1. CASE action = "provision"
    BY <1>3, <2>1
  <2>2. CASE action = "release.apply"
    BY <1>3, <2>2 DEF RecordsOK
  <2>3. CASE action \notin {"provision", "release.apply"}
    BY <1>3, <2>3 DEF RecordsOK
  <2> QED
    BY <2>1, <2>2, <2>3
<1>8. meta'.config \in Revs /\ meta'.image \in Images
  BY <1>4, <1>5, <1>7, SupervisorAssumption DEF RecordsOK
<1>9. RecordsOK'
  <2>1. UNCHANGED <<other, before, used>>
    BY DEF HostFrame
  <2> QED
    BY <1>6, <1>8, <2>1 DEF RecordsOK
<1>10. action \in {"provision", "config.apply"} => disk["env"] = Id /\ disk["soul"] = Id
  BY <1>1 DEF FileWork, ProvisionFiles, ConfigFiles
<1>11. FilesOK'
  <2>1. disk["env"] \in Revs
    BY <1>4, <1>5, <1>10 DEF FilesOK
  <2> QED
    BY <2>1 DEF FilesOK
<1>12. SnapsOK' /\ BoxOK'
  BY DEF SnapsOK, BoxOK, HostFrame
<1>13. action \in Replacing =>
         /\ \A x \in Containers : box[x] = Created(x)
         /\ ImageFor = meta'.image
  <2>1. action \in Replacing => After = 1
    BY <1>1 DEF After, Replacing, Users
  <2>2. action \in Replacing => Made("hermes") /\ Made("dashboard") /\ Made("runtime")
    BY <1>1, <2>1 DEF BoxWork
  <2> QED
    BY <1>1, <1>7, <2>2 DEF Made, Containers, ImageFor, action, Replacing, Users
<1>14. action \in Replacing =>
         AllRun(disk["env"], meta.image)' /\ box'["runtime"].port = meta'.port
  <2>1. UNCHANGED <<box, disk>>
    BY DEF HostFrame
  <2> QED
    BY <1>6, <1>13, <2>1 DEF AllRun, Created, Containers
<1>15. PortsInv'
  <2>1. UNCHANGED <<box, other>>
    BY DEF HostFrame
  <2>2. op.port # other.port
    BY <1>5 DEF PortsInv, PortsDiffer
  <2>3. box["runtime"].port # other.port \/ other.port = NoPort
    BY <1>5, <1>6, <1>14, <2>1, <2>2 DEF PortsInv, Replacing
  <2>4. other.port = NoPort => op.port = First
    BY <1>5 DEF PortsInv
  <2> QED
    BY <1>2, <1>6, <2>1, <2>2, <2>3, <2>4 DEF PortsInv, PortsDiffer, RunningOn
<1>16. PlainInv'
  BY <1>1, <1>2, PlainKept DEF HostFrame, Users
<1>17. RollbackRestores'
  BY <1>2 DEF RollbackRestores
<1>18. SuccessInForce'
  <2>1. op'.cmd.action = action
    BY <1>2 DEF SameCommand, action
  <2>2. action \in {"provision", "config.apply"} => Id = meta'.config
    BY <1>7
  <2>3. UNCHANGED <<box, disk, before>> /\ op'.was = op.was
    BY <1>2 DEF HostFrame, SameCommand
  <2>4. action \in Users => HermesRelived
    BY <1>1 DEF BoxWork
  <2>5. action \in Users => HermesRelived'
    BY <2>3, <2>4 DEF HermesRelived
  <2>6. action # "backup.restore"
    BY <1>1 DEF Users
  <2> QED
    BY <1>10, <1>14, <2>1, <2>2, <2>3, <2>5, <2>6 DEF SuccessInForce, Replacing, Users
<1>19. CmdInv' /\ FileWork' /\ BoxWork'
  BY <1>2 DEF CmdOK, FileWork, BoxWork
<1> QED
  BY <1>2, <1>9, <1>11, <1>12, <1>15, <1>16, <1>17, <1>18, <1>19

\* Every step on files keeps the invariant.
LEMMA FileStepInv ==
  ASSUME IndInv, FileStep
  PROVE  IndInv'
<1>1. ~Idle /\ Proceed /\ HostFrame
  BY DEF FileStep, HostFrame
<1>2. CASE Verb = "write" /\ Write(One(Object, Id)) /\ FileFrame
  BY <1>1, <1>2, WriteStep
<1>3. CASE /\ Verb = "back"
           /\ Write(One(Object, IF action # "config.apply" /\ before.files[Object] = 0
                                THEN 0 ELSE history[meta.config][Object]))
           /\ FileFrame
  BY <1>1, <1>3, BackStep
<1>4. CASE Verb = "drop" /\ Write(One("token", 0)) /\ FileFrame
  BY <1>1, <1>4, DropStep
<1>5. CASE Verb = "stage" /\ staged' = staged \cup {Id}
           /\ UNCHANGED <<disk, history, copies, archive, meta, plain>>
  BY <1>1, <1>5, StageStep
<1>6. CASE Verb = "keep" /\ Keep(IF Object = "all" THEN {"env", "soul", "token"} ELSE {Object})
           /\ UNCHANGED <<disk, staged, copies, archive, meta, plain>>
  BY <1>1, <1>6, KeepStep
<1>7. CASE Verb = "record" /\ writeMetadata
           /\ UNCHANGED <<disk, staged, history, copies, archive, plain>>
  BY <1>1, <1>7, RecordStep
<1>8. CASE Verb = "seal" /\ archive' = [archive EXCEPT ![Id] = plain[PlainOf(op.cmd)]]
           /\ plain' = Cleanup /\ UNCHANGED <<disk, staged, history, copies, meta>>
  BY <1>1, <1>8, SealStep
<1>9. CASE Verb = "expire" /\ archive' = [archive EXCEPT ![Id] = None]
           /\ UNCHANGED <<disk, staged, history, copies, meta, plain>>
  BY <1>1, <1>9, ExpireStep
<1>10. CASE Verb = "open" /\ plain' = [plain EXCEPT ![PlainOf(op.cmd)] = archive[Id]]
            /\ UNCHANGED <<disk, staged, history, copies, archive, meta>>
  BY <1>1, <1>10, OpenStep
<1>11. CASE Verb = "copy" /\ copyData
            /\ UNCHANGED <<disk, staged, history, archive, meta, plain>>
  BY <1>1, <1>11, CopyStep
<1>12. CASE /\ Verb = "swap" /\ FileFrame
            /\ Write(Only(plain[PlainOf(op.cmd)], IF Object = "data" THEN Data ELSE {"env"}))
  BY <1>1, <1>12, SwapStep
<1>13. CASE /\ Verb = "return" /\ FileFrame
            /\ Write(Only(copies[op.cmd.restore], IF Object = "data" THEN Data ELSE {"env"}))
  BY <1>1, <1>13, ReturnStep
<1> QED
  BY <1>2, <1>3, <1>4, <1>5, <1>6, <1>7, <1>8, <1>9, <1>10, <1>11, <1>12, <1>13
  DEF FileStep, FileFrame, NextIs, Verb, action


-----------------------------------------------------------------------------
(* Ports. *)

\* A set of numbers that is not empty has a least one.
LEMMA Least ==
  ASSUME NEW T, T \subseteq Nat, T # {}
  PROVE  \E k \in T : \A j \in T : k <= j
<1>1. IsWellFoundedOn(OpToRel(<, Nat), Nat)
  BY NatLessThanWellFounded, Zenon
<1>2. PICK k \in T : \A j \in T : ~(<<j, k>> \in OpToRel(<, Nat))
  BY <1>1, WFMin, Zenon
<1>3. \A j \in T : ~(j < k)
  <2> SUFFICES ASSUME NEW j \in T, j < k PROVE FALSE
    OBVIOUS
  <2>1. <<j, k>> \in {ss \in Nat \X Nat : ss[1] < ss[2]}
    OBVIOUS
  <2> QED
    BY <1>2, <2>1 DEF OpToRel
<1> QED
  BY <1>3

\* The port that is allocated is free, and it is the first choice if that is free.
LEMMA Allocated ==
  ASSUME NEW start \in Ports, NEW taken
  PROVE  /\ allocatePort(start, taken) # NoPort =>
              allocatePort(start, taken) \in Ports \ taken
         /\ start \notin taken => allocatePort(start, taken) = start
<1> DEFINE offsets == {k \in 0 .. PortCount - 1 : (start + k) % PortCount \notin taken}
           first == CHOOSE k \in offsets : \A j \in offsets : k <= j
<1>0. PortCount \in Nat \ {0} /\ start \in 0 .. PortCount - 1
  BY SupervisorAssumption DEF Ports
<1>1. allocatePort(start, taken) = IF offsets = {} THEN NoPort
                                   ELSE (start + first) % PortCount
  BY DEF allocatePort
<1>2. offsets # {} => first \in offsets /\ \A j \in offsets : first <= j
  <2>1. offsets \subseteq Nat
    BY <1>0
  <2> HIDE DEF offsets
  <2>2. offsets # {} => \E k \in offsets : \A j \in offsets : k <= j
    BY <2>1, Least
  <2> QED
    BY <2>2, Zenon
<1> HIDE DEF first
<1>3. offsets # {} => (start + first) % PortCount \in Ports \ taken
  BY <1>0, <1>2 DEF Ports
<1>4. start \notin taken => offsets # {} /\ (start + first) % PortCount = start
  <2> SUFFICES ASSUME start \notin taken PROVE offsets # {} /\ (start + first) % PortCount = start
    OBVIOUS
  <2>1. (start + 0) % PortCount = start
    BY <1>0
  <2>2. 0 \in offsets
    BY <1>0, <2>1
  <2>3. first \in offsets /\ first <= 0
    BY <1>2, <2>2, Zenon
  <2>4. first = 0
    BY <1>0, <2>3
  <2> QED
    BY <2>1, <2>2, <2>4
<1> HIDE DEF offsets
<1> QED
  BY <1>1, <1>3, <1>4

-----------------------------------------------------------------------------
(* The daemon, the Agent and the other Agent. *)

\* A command starts with its whole program ahead of it.
LEMMA BeginStep ==
  ASSUME IndInv, NEW c \in Commands, NEW answered \in BOOLEAN, Begin(c, answered)
  PROVE  IndInv'
<1> USE DEF IndInv, Types
<1> DEFINE port == IF c.action = "provision" THEN allocatePort(First, {other.port}) ELSE meta.port
           was == IF answered THEN box["hermes"].state ELSE "unknown"
           ended == [cmd |-> c, mode |-> "idle", todo |-> <<>>, port |-> port,
                     was |-> was, result |-> "failed"]
           refused == \/ ~readMetadata(c) \/ ~readBackup(c)
                      \/ c.action = "provision" /\ port = NoPort
<1>1. /\ Idle /\ before' = [files |-> Only(disk, Files), hermes |-> box["hermes"].state]
      /\ UNCHANGED <<disk, staged, history, copies, archive, plain, box, network, meta, other>>
  BY DEF Begin
<1>2. op' = IF refused THEN ended
            ELSE IF answered /\ Replayed(c) THEN [ended EXCEPT !.result = "replayed"]
            ELSE [ended EXCEPT !.mode = "run", !.todo = execute(c), !.result = "none"]
  BY DEF Begin
<1>3. /\ before'.files \in [Files -> Versions] /\ before'.hermes = box["hermes"].state
      /\ \A f \in Files : before'.files[f] = disk[f]
      /\ before' = [files |-> before'.files, hermes |-> before'.hermes]
  BY <1>1 DEF Only, FilesOK
<1>4. /\ used'.crashes = used.crashes /\ used'.writes = used.writes
      /\ used' = [actions |-> used'.actions, commands |-> used'.commands,
                  faults |-> used'.faults, crashes |-> used'.crashes,
                  writes |-> used'.writes, restores |-> used'.restores]
  BY DEF Begin, RecordsOK
<1>5. FilesOK' /\ SnapsOK' /\ BoxOK'
  BY <1>1 DEF FilesOK, SnapsOK, BoxOK
<1>6. RecordsOK'
  BY <1>1, <1>3, <1>4 DEF RecordsOK
<1>7. PlainInv'
  BY <1>1, <1>4 DEF PlainInv
<1>8. /\ First \in Ports
      /\ other.port = NoPort => First \notin {other.port}
  BY SupervisorAssumption DEF Ports, NoPort
<1>9. c.action = "provision" =>
        /\ port # NoPort => port \in Ports /\ port # other.port
        /\ other.port = NoPort => port = First
  BY <1>8, Allocated
<1>10. CASE refused \/ (answered /\ Replayed(c))
  <2>1. /\ Idle' /\ OpOK' /\ op'.result \in {"failed", "replayed"}
    BY <1>2, <1>10 DEF OpOK, Idle
  <2>2. CmdInv' /\ FileWork' /\ BoxWork' /\ RollbackRestores' /\ SuccessInForce'
    BY <2>1 DEF CmdInv, OnPlan, CmdOK, FileWork, BoxWork, RollbackRestores, SuccessInForce
  <2>3. PortsInv'
    BY <1>1, <2>1 DEF PortsInv, PortsDiffer, RunningOn
  <2> QED
    BY <1>5, <1>6, <1>7, <2>1, <2>2, <2>3
<1>11. CASE ~refused /\ ~(answered /\ Replayed(c))
  <2>1. op' = [cmd |-> c, mode |-> "run", todo |-> execute(c), port |-> port,
               was |-> was, result |-> "none"]
    BY <1>2, <1>11
  <2> HIDE DEF port
  <2>2. /\ op'.cmd = c /\ op'.mode = "run" /\ op'.todo = execute(c) /\ op'.port = port
        /\ op'.was = was /\ op'.result = "none"
        /\ ~Idle' /\ OpOK' /\ action' = c.action /\ Id' = c.id
    BY <2>1 DEF OpOK, Idle, action, Id
  <2>3. /\ readMetadata(c) /\ readBackup(c)
        /\ c.action = "provision" => port # NoPort
    BY <1>11
  <2>4. Plan' = execute(c) /\ left' = Len(execute(c))
    BY <2>2 DEF Plan, left
  <2>5. OnPlan'
    BY <2>2, <2>4, ExecuteSeq DEF OnPlan
  <2>6. c.action \notin {"provision", "release.stage"} => meta.exists /\ port = meta.port
    BY <2>3 DEF readMetadata, port
  <2>7. CmdOK'
    <3>1. c.action \notin {"provision", "release.stage"} => before'.files["env"] \in Revs
      BY <1>3, <2>6 DEF FilesOK, Files
    <3> QED
      BY <1>1, <1>3, <1>9, <2>2, <2>3, <2>6, <3>1 DEF CmdOK
  <2>8. /\ c.action = "provision" => left' = 9
        /\ c.action = "config.apply" => left' = 10
        /\ c.action = "backup.restore" => left' = 12
        /\ c.action = "release.apply" => left' = 6
        /\ c.action = "backup.create" => left' = 2
        /\ c.action \in Users => left' = 5
    <3>1. c.action \in Users => execute(c) \in {applyUserConfiguration("soul"),
                                                applyUserConfiguration("skills")}
      BY DEF execute, Users
    <3>2. /\ Len(applyUserConfiguration("soul")) = 5
          /\ Len(applyUserConfiguration("skills")) = 5
      BY ProgramSeq, Zenon
    <3>3. /\ c.action = "provision" => execute(c) = provision
          /\ c.action = "config.apply" => execute(c) = applyConfiguration
          /\ c.action = "backup.restore" => execute(c) = restoreBackup
          /\ c.action = "release.apply" => execute(c) = applyRelease
          /\ c.action = "backup.create" => execute(c) = createBackup
      BY DEF execute
    <3>4. /\ Len(provision) = 9 /\ Len(applyConfiguration) = 10 /\ Len(restoreBackup) = 12
          /\ Len(applyRelease) = 6 /\ Len(createBackup) = 2
      BY ProgramSeq, Zenon
    <3> QED
      BY <2>4, <3>1, <3>2, <3>3, <3>4
  <2>9. FileWork'
    <3>1. \A f \in Files : Same(f)'
      BY <1>1, <1>3 DEF Same
    <3>2. c.action = "backup.restore" => archive[c.id] \in Snaps
      BY <2>3, CommandKinds DEF readBackup, SnapsOK
    <3>3. UserFile' \in Files
      BY DEF UserFile, Files
    <3>4. ProvisionFiles' /\ ConfigFiles' /\ ConfigBack' /\ CreateFiles'
      BY <2>2, <2>8, <3>1 DEF ProvisionFiles, ConfigFiles, ConfigBack, CreateFiles, Files
    <3>5. UserFiles'
      BY <2>2, <2>8, <3>1, <3>3 DEF UserFiles
    <3>6. RestoreFiles'
      BY <1>1, <2>2, <2>8, <3>1, <3>2 DEF RestoreFiles, Files
    <3> QED
      BY <3>4, <3>5, <3>6 DEF FileWork
  <2>10. BoxWork'
    <3>1. After' \in {0, 1}
      BY DEF After
    <3> QED
      BY <2>2, <2>8, <3>1 DEF BoxWork, Replacing
  <2>11. PortsInv'
    BY <1>1, <1>9, <2>2 DEF PortsInv, PortsDiffer, RunningOn
  <2>12. RollbackRestores' /\ SuccessInForce'
    BY <2>2 DEF RollbackRestores, SuccessInForce
  <2> QED
    BY <1>5, <1>6, <1>7, <2>2, <2>5, <2>7, <2>9, <2>10, <2>11, <2>12 DEF CmdInv
<1> QED
  BY <1>10, <1>11


\* A crash forgets the command; files and containers stay.
LEMMA CrashStep ==
  ASSUME IndInv, Crash
  PROVE  IndInv'
<1> USE DEF IndInv, Types
<1>1. /\ ~Idle /\ op' = [op EXCEPT !.mode = "idle", !.todo = <<>>, !.result = "crashed"]
      /\ UNCHANGED <<disk, staged, history, copies, archive, plain, network, meta, other,
                     before>>
  BY DEF Crash
<1>2. Idle' /\ OpOK' /\ op'.result = "crashed" /\ SameCommand
  BY <1>1 DEF OpOK, Idle, SameCommand
<1>3. /\ used'.crashes = used.crashes + 1 /\ used'.writes = used.writes
      /\ used' = [actions |-> used'.actions, commands |-> used'.commands,
                  faults |-> used'.faults, crashes |-> used'.crashes,
                  writes |-> used'.writes, restores |-> used'.restores]
  BY DEF Crash, RecordsOK
<1>4. used.crashes \in Nat
  BY DEF RecordsOK
<1>5. BoxStep
  <2>1. CASE UNCHANGED box
    BY <1>1, <2>1, BoxUnmoved DEF BoxOK
  <2>2. CASE Verb = "replace" /\ box' = [box EXCEPT ![Object] = Absent]
    BY <1>1, <2>2, LeftoverOK DEF Leftovers
  <2> QED
    BY <2>1, <2>2 DEF Crash, NextIs, Verb
<1>6. FilesOK' /\ SnapsOK' /\ RecordsOK'
  <2>1. FilesOK' /\ SnapsOK'
    BY <1>1 DEF FilesOK, SnapsOK
  <2>2. used'.crashes \in Nat
    BY <1>3, <1>4
  <2>3. RecordsOK'
    BY <1>1, <1>3, <2>2 DEF RecordsOK
  <2> QED
    BY <2>1, <2>3
<1>7. PortsInv'
  BY <1>1, <1>2, <1>5, BoxPorts DEF CmdInv
<1>8. PlainInv'
  BY <1>3, <1>4 DEF PlainInv
<1>9. CmdInv' /\ FileWork' /\ BoxWork' /\ RollbackRestores' /\ SuccessInForce'
  BY <1>2 DEF CmdInv, OnPlan, CmdOK, FileWork, BoxWork, RollbackRestores, SuccessInForce
<1> QED
  BY <1>2, <1>5, <1>6, <1>7, <1>8, <1>9 DEF BoxStep

\* The Agent writes its memory whenever its container runs.
LEMMA AgentStep ==
  ASSUME IndInv, AgentWrites
  PROVE  IndInv'
<1> USE DEF IndInv, Types
<1>1. /\ UNCHANGED <<staged, history, copies, archive, plain, box, network, meta, other, op,
                     before>>
      /\ used.writes < MaxWrites /\ used' = [used EXCEPT !.writes = @ + 1]
      /\ disk' = [disk EXCEPT !["memory"] = used.writes + 1]
  BY DEF AgentWrites
<1>2. disk \in [Paths -> Nat] /\ "memory" \in Paths /\ "memory" \notin Files /\ Files \subseteq Paths
  BY DEF FilesOK, Paths, Files
<1>3. \A f \in Files : disk'[f] = disk[f]
  BY <1>1, <1>2
<1>4. used.writes + 1 \in 0..MaxWrites
  BY <1>1, SupervisorAssumption DEF RecordsOK
<1>5. disk' \in [Paths -> Nat] /\ disk'["memory"] \in 0..MaxWrites
  BY <1>1, <1>2, <1>4
<1>6. "env" \in Files /\ "soul" \in Files
  BY DEF Files
<1>7. FilesOK' /\ SnapsOK' /\ BoxOK' /\ OpOK'
  <2>1. FilesOK'
    BY <1>1, <1>3, <1>5, <1>6 DEF FilesOK
  <2>2. SnapsOK' /\ BoxOK' /\ OpOK'
    BY <1>1 DEF SnapsOK, BoxOK, OpOK
  <2> QED
    BY <2>1, <2>2
<1>8. /\ used'.crashes = used.crashes /\ used'.writes \in 0..MaxWrites
      /\ used' = [actions |-> used'.actions, commands |-> used'.commands,
                  faults |-> used'.faults, crashes |-> used'.crashes,
                  writes |-> used'.writes, restores |-> used'.restores]
  BY <1>1, <1>4 DEF RecordsOK
<1>9. RecordsOK'
  BY <1>1, <1>8 DEF RecordsOK
<1>10. CmdInv'
  BY <1>1 DEF CmdInv, OnPlan, CmdOK, Idle, Plan, action, left
<1>11. FileWork'
  <2>0. action' = action /\ left' = left /\ Id' = Id /\ UserFile' = UserFile /\ Idle' = Idle
    BY <1>1 DEF action, left, Id, UserFile, Idle
  <2>1. /\ \A f \in Files : Same(f)' = Same(f) /\ Kept(f)' = Kept(f) /\ Returned(f)' = Returned(f)
        /\ Copied' = Copied
    BY <1>1, <1>3 DEF Same, Kept, Returned, Copied
  <2>2. UserFile \in Files
    BY DEF UserFile, Files
  <2>3. ProvisionFiles => ProvisionFiles'
    BY <1>3, <1>6, <2>0 DEF ProvisionFiles
  <2>4. ConfigFiles => ConfigFiles'
    BY <1>1, <1>3, <1>6, <2>0, <2>1 DEF ConfigFiles, Files
  <2>5. ConfigBack => ConfigBack'
    BY <1>1, <2>0, <2>1 DEF ConfigBack, Files
  <2>6. UserFiles => UserFiles'
    BY <1>1, <2>0, <2>1, <2>2 DEF UserFiles
  <2>7. RestoreFiles => RestoreFiles'
    BY <1>1, <2>0, <2>1 DEF RestoreFiles, Files
  <2>8. CreateFiles => CreateFiles'
    BY <1>1, <2>0 DEF CreateFiles
  <2> QED
    BY <2>0, <2>3, <2>4, <2>5, <2>6, <2>7, <2>8 DEF FileWork
<1>12. BoxWork'
  <2>1. \A x : Created(x)' = Created(x)
    BY <1>1, <1>3, <1>6 DEF Created, ImageFor, Id
  <2> QED
    BY <1>1, <2>1 DEF BoxWork, HermesRelived, Made, Idle, action, left, After
<1>13. PortsInv' /\ PlainInv'
  BY <1>1, <1>8 DEF PortsInv, PortsDiffer, RunningOn, PlainInv, Idle, action
<1>14. RollbackRestores' /\ SuccessInForce'
  BY <1>1, <1>3, <1>6 DEF RollbackRestores, SuccessInForce, HermesRelived, AllRun, Idle
<1> QED
  BY <1>7, <1>9, <1>10, <1>11, <1>12, <1>13, <1>14

\* The other Agent takes a port that is free.
LEMMA OtherStep ==
  ASSUME IndInv, OtherAgent
  PROVE  IndInv'
<1> USE DEF IndInv, Types
<1>1. /\ Idle
      /\ UNCHANGED <<disk, staged, history, copies, archive, plain, box, network, meta, op,
                     before, used>>
  BY DEF OtherAgent
<1>2. Idle'
  BY <1>1 DEF Idle
<1> DEFINE port == allocatePort(OtherFirst, {meta.port})
<1>3. \/ port # NoPort /\ ~RunningOn(port) /\ other' = [port |-> port, running |-> TRUE]
         /\ other.port = NoPort
      \/ other.running /\ other' = [other EXCEPT !.running = FALSE]
      \/ /\ other.port # NoPort /\ ~RunningOn(other.port)
         /\ other' = [other EXCEPT !.running = TRUE]
  BY DEF OtherAgent
<1>4. port # NoPort => port \in Ports /\ port # meta.port
  <2>1. OtherFirst \in Ports
    BY SupervisorAssumption DEF Ports
  <2> QED
    BY <2>1, Allocated
<1> HIDE DEF port
<1>5. /\ other' \in [port : Ports \cup {NoPort}, running : BOOLEAN]
      /\ other'.running => other'.port \in Ports /\ ~RunningOn(other'.port)
      /\ meta.exists => meta.port # other'.port
      /\ meta.exists /\ other'.port # NoPort => box["runtime"].port # other'.port
      /\ other'.port = NoPort => other.port = NoPort
  <2>1. CASE /\ port # NoPort /\ ~RunningOn(port) /\ other' = [port |-> port, running |-> TRUE]
             /\ other.port = NoPort
    <3>1. other'.port = port /\ other'.running = TRUE
      BY <2>1
    <3>2. meta.exists => meta.port = First /\ box["runtime"].port \in {NoPort, First}
      BY <2>1 DEF PortsInv
    <3> QED
      BY <1>4, <2>1, <3>1, <3>2
  <2>2. CASE other.running /\ other' = [other EXCEPT !.running = FALSE]
    <3>1. other'.port = other.port /\ other'.running = FALSE
      BY <2>2 DEF RecordsOK
    <3> QED
      BY <2>2, <3>1 DEF RecordsOK, PortsInv, PortsDiffer
  <2>3. CASE /\ other.port # NoPort /\ ~RunningOn(other.port)
             /\ other' = [other EXCEPT !.running = TRUE]
    <3>1. other'.port = other.port /\ other'.running = TRUE
      BY <2>3 DEF RecordsOK
    <3> QED
      BY <2>3, <3>1 DEF RecordsOK, PortsInv, PortsDiffer
  <2> QED
    BY <1>3, <2>1, <2>2, <2>3
<1>6. FilesOK' /\ SnapsOK' /\ BoxOK' /\ OpOK'
  BY <1>1 DEF FilesOK, SnapsOK, BoxOK, OpOK
<1>7. RecordsOK'
  BY <1>1, <1>5 DEF RecordsOK
<1>8. PortsInv'
  BY <1>1, <1>2, <1>5 DEF PortsInv, PortsDiffer, RunningOn
<1>9. CmdInv' /\ FileWork' /\ BoxWork'
  BY <1>2 DEF CmdInv, OnPlan, CmdOK, FileWork, BoxWork
<1>10. PlainInv' /\ RollbackRestores' /\ SuccessInForce'
  BY <1>1 DEF PlainInv, RollbackRestores, SuccessInForce, HermesRelived, AllRun, Idle
<1> QED
  BY <1>6, <1>7, <1>8, <1>9, <1>10

-----------------------------------------------------------------------------
(* The theorems. *)

\* An empty server.
LEMMA InitInv == Init => IndInv
<1> SUFFICES ASSUME Init PROVE IndInv
  OBVIOUS
<1>1. /\ Idle /\ op.result = "none" /\ OpOK
  BY DEF Init, Idle, OpOK
<1>2. CmdInv /\ FileWork /\ BoxWork /\ RollbackRestores /\ SuccessInForce
  BY <1>1 DEF CmdInv, OnPlan, CmdOK, FileWork, BoxWork, RollbackRestores, SuccessInForce
<1>3. PlainInv
  BY DEF Init, PlainInv
<1>4. First \in Ports /\ 0 \in Images /\ 1 \in Revs /\ 1 \in Versions /\ 0 \in Versions /\ 0 \in 0..MaxWrites
  BY SupervisorAssumption DEF Ports, Versions
<1>5. other = [port |-> NoPort, running |-> FALSE]
  BY DEF Init
<1>6. SnapsOK
  BY DEF Init, SnapsOK
<1>7. /\ disk \in [Paths -> Nat] /\ (\A f \in Files : disk[f] \in Versions) /\ disk["memory"] = 0
      /\ staged = {} /\ history \in [Revs -> [Files -> Versions]]
  BY <1>4 DEF Init, Paths, Files
<1>8. \/ /\ meta = [exists |-> FALSE, config |-> 0, image |-> 0, port |-> NoPort,
                    key |-> <<"provision", 0>>]
         /\ box = [x \in Containers |-> Absent] /\ network = FALSE
      \/ /\ meta = [exists |-> TRUE, config |-> 1, image |-> 0, port |-> First,
                    key |-> <<"provision", 1>>]
         /\ disk["env"] = 1 /\ network = TRUE
         /\ box = [x \in Containers |->
                    [Provisioned EXCEPT !.port = IF x = "runtime" THEN First ELSE NoPort]]
  BY DEF Init, Files
<1>9. FilesOK
  BY <1>4, <1>7, <1>8 DEF FilesOK
<1>10. \A x \in Containers :
         /\ box[x] \in BoxRow /\ (box[x].state # "absent" => box[x].env \in Revs)
         /\ x # "runtime" => box[x].port = NoPort
         /\ box[x].port \in {NoPort, First}
  <2>1. CASE box = [x \in Containers |-> Absent]
    BY <1>4, <2>1 DEF Absent, BoxRow, States
  <2>2. CASE box = [x \in Containers |->
                     [Provisioned EXCEPT !.port = IF x = "runtime" THEN First ELSE NoPort]]
    <3> SUFFICES ASSUME NEW x \in Containers
                 PROVE  /\ box[x] \in BoxRow /\ (box[x].state # "absent" => box[x].env \in Revs)
                        /\ x # "runtime" => box[x].port = NoPort
                        /\ box[x].port \in {NoPort, First}
      OBVIOUS
    <3>1. box[x] = [state |-> "running", env |-> 1, image |-> 0,
                    port |-> IF x = "runtime" THEN First ELSE NoPort]
      BY <2>2 DEF Provisioned
    <3> QED
      BY <1>4, <3>1 DEF BoxRow, States
  <2> QED
    BY <1>8, <2>1, <2>2
<1>11. BoxOK
  BY <1>8, <1>10 DEF BoxOK
<1>12. RecordsOK
  <2>1. /\ before = [files |-> before.files, hermes |-> before.hermes]
        /\ before.files \in [Files -> Versions]
    BY <1>7 DEF Init, Only
  <2>2. PICK w \in Workloads :
          used = [actions |-> w, commands |-> 0, faults |-> 0, crashes |-> 0, writes |-> 0,
                  restores |-> {}]
    BY DEF Init
  <2>3. /\ used = [actions |-> used.actions, commands |-> used.commands, faults |-> used.faults,
                   crashes |-> used.crashes, writes |-> used.writes, restores |-> used.restores]
        /\ used.crashes \in Nat /\ used.writes \in 0..MaxWrites
    BY <1>4, <2>2
  <2>4. /\ meta = [exists |-> meta.exists, config |-> meta.config, image |-> meta.image,
                   port |-> meta.port, key |-> meta.key]
        /\ meta.exists \in BOOLEAN /\ meta.image \in Images /\ meta.port \in Ports \cup {NoPort}
        /\ meta.exists => meta.config \in Revs /\ meta.port \in Ports
    <3>1. CASE meta = [exists |-> FALSE, config |-> 0, image |-> 0, port |-> NoPort,
                       key |-> <<"provision", 0>>]
      BY <1>4, <3>1
    <3>2. CASE meta = [exists |-> TRUE, config |-> 1, image |-> 0, port |-> First,
                       key |-> <<"provision", 1>>]
      BY <1>4, <3>2
    <3> QED
      BY <1>8, <3>1, <3>2
  <2> QED
    BY <1>5, <2>1, <2>3, <2>4 DEF RecordsOK
<1>13. PortsInv
  <2>1. "runtime" \in Containers
    BY DEF Containers
  <2>2. meta.exists => meta.port = First
    BY <1>8
  <2>3. First # NoPort
    BY <1>4 DEF Ports, NoPort
  <2> QED
    BY <1>1, <1>5, <1>10, <2>1, <2>2, <2>3 DEF PortsInv, PortsDiffer
<1> QED
  BY <1>1, <1>2, <1>3, <1>6, <1>9, <1>11, <1>12, <1>13 DEF IndInv, Types

\* Nothing changes.
LEMMA StutterInv ==
  ASSUME IndInv, UNCHANGED vars
  PROVE  IndInv'
<1> USE DEF vars
<1>1. Types'
  BY DEF IndInv, Types, FilesOK, SnapsOK, BoxOK, RecordsOK, OpOK
<1>2. CmdInv'
  BY DEF IndInv, CmdInv, OnPlan, CmdOK, Idle, Plan, action, left
<1>3. FileWork'
  BY DEF IndInv, FileWork, ProvisionFiles, ConfigFiles, ConfigBack, UserFiles, RestoreFiles,
         CreateFiles, Same, Kept, Returned, Copied, Idle, Id, action, left, UserFile
<1>4. BoxWork'
  BY DEF IndInv, BoxWork, HermesRelived, Made, Created, ImageFor, After, Idle, Id, action, left
<1>5. PortsInv' /\ PlainInv'
  BY DEF IndInv, PortsInv, PortsDiffer, RunningOn, PlainInv, Idle, action
<1>6. RollbackRestores' /\ SuccessInForce'
  BY DEF IndInv, RollbackRestores, SuccessInForce, HermesRelived, AllRun, Idle
<1> QED
  BY <1>1, <1>2, <1>3, <1>4, <1>5, <1>6 DEF IndInv

\* Every step keeps the inductive invariant.
LEMMA NextInv == IndInv /\ [Next]_vars => IndInv'
<1> SUFFICES ASSUME IndInv, [Next]_vars PROVE IndInv'
  OBVIOUS
<1>1. ASSUME NEW c \in Commands, NEW answered \in BOOLEAN, Begin(c, answered) PROVE IndInv'
  BY <1>1, BeginStep
<1>2. CASE FileStep
  BY <1>2, FileStepInv
<1>3. CASE tar
  BY <1>3, tarStep
<1>4. CASE Check
  BY <1>4, CheckStep
<1>5. CASE Prepare
  BY <1>5, PrepareStep
<1>6. CASE replaceContainer
  BY <1>6, ReplaceStep
<1>7. CASE LifecycleCall
  BY <1>7, LifecycleStep
<1>8. CASE ServiceCall
  BY <1>8, ServiceStep
<1>9. CASE restoreHermesLifecycle
  BY <1>9, ReliveStep
<1>10. CASE Remove
  BY <1>10, RemoveStep
<1>11. CASE Crash
  BY <1>11, CrashStep
<1>12. CASE AgentWrites
  BY <1>12, AgentStep
<1>13. CASE OtherAgent
  BY <1>13, OtherStep
<1>14. CASE UNCHANGED vars
  BY <1>14, StutterInv
<1> QED
  BY <1>1, <1>2, <1>3, <1>4, <1>5, <1>6, <1>7, <1>8, <1>9, <1>10, <1>11, <1>12, <1>13, <1>14
  DEF Next

\* The inductive invariant holds in every reachable state.
LEMMA Inductive == Spec => []IndInv
BY InitInv, NextInv, PTL DEF Spec

\* The inductive invariant implies the checked one.
LEMMA HostPart == IndInv => HostInv
<1> SUFFICES ASSUME IndInv PROVE HostInv
  OBVIOUS
<1> USE DEF IndInv, Types
<1>1. \A s \in Snaps \cup {None} : SnapshotType(s)
  BY DEF Snaps, SnapshotType
<1>2. /\ \A r \in RestoreIds : SnapshotType(copies[r])
      /\ \A b \in BackupIds : SnapshotType(archive[b])
      /\ \A i \in PlainIds : SnapshotType(plain[i])
  BY <1>1 DEF SnapsOK
<1>3. \A x \in Containers :
        /\ box[x].state \in States /\ box[x].image \in Images
        /\ box[x].state # "absent" => box[x].env \in Revs
        /\ box[x].port \in (IF x = "runtime" THEN Ports \cup {NoPort} ELSE {NoPort})
  BY DEF BoxOK, BoxRow
<1>4. TypeOK
  BY <1>2, <1>3 DEF TypeOK, FilesOK, RecordsOK, OpOK
<1>5. NoPlaintextLeft
  BY DEF PlainInv, NoPlaintextLeft
<1> QED
  BY <1>4, <1>5 DEF HostInv, PortsInv

\* HostInv: files, containers, instance records and archives keep their shape, two
\* Agents never have the same port, and no unencrypted archive outlives its command
\* unless the process died, through any failing steps, crashes and repeated commands.
THEOREM HostSound == Spec => []HostInv
BY Inductive, HostPart, PTL

\* RollbackRestores: when a catch block of applyConfiguration, applyUserConfiguration or
\* restoreBackup completes, the files the command found are back and the containers run
\* them, wherever the command failed.  A Hermes that config.apply-user found paused or
\* stopped is so again if docker told its status, and left running if it did not.
THEOREM RollbacksRestore == Spec => []RollbackRestores
BY Inductive, PTL DEF IndInv

\* SuccessInForce: a command that reports success has put in force what the instance
\* record says, whichever docker calls were not answered on the way; a Hermes whose
\* status config.apply-user could not read is running afterwards.
THEOREM SuccessesInForce == Spec => []SuccessInForce
BY Inductive, PTL DEF IndInv


=============================================================================
