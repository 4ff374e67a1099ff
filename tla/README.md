# Verification of the BaiRui cloud agent platform

TLA+ models of the parts of the platform in which several actors share state: the
control authority and its outbox, the server agents and their supervisor, the
platform's record of an Agent, the channel bridge and its adapters, the memory
projection, scenes and runs, sessions and machine credentials, and the chat page.
TLC checks small instances; TLAPS proves every invariant, action property and refinement
that the passing runs check, in all eleven models, for every value of their constants.
Liveness is left to TLC.

## The system

The platform keeps its state in PostgreSQL. Around the database there are
processes that fail independently and talk over HTTP, and browser tabs.

| Component | State | Operations | Hard behaviour |
| --- | --- | --- | --- |
| Control authority (`packages/db/control-authority-repository.mjs`, `packages/control-authority`) | desired revisions, observations, commands, approvals, leases, attempts, receipts, verifications, event log; releases, secret references, idempotency records, audit chain | put desired state, record observation, request command, decide approval, lease, expire leases, record receipt, verify; register release or secret | lease expiry racing late receipts; retry of work that may have started; approvals that expire; stale evidence; repeated requests; locks |
| Control outbox (same repository) | outbox rows, dead letters | append with every event, lease, settle | publishers that die or settle late; the attempts limit |
| Server agent (`server-agent/control-client.mjs`, `daemon.mjs`) and the control routes (`apps/web/routes/internal-control.mjs`) | the job of the current cycle, the in-memory replay cache | poll, accept, start, execute, observe, report | lost and late requests, timeouts, crash and restart in the middle of an execution, expiry between two awaits |
| Server supervisor (`server-agent/supervisor.mjs`) | files, staged and previous configurations, three containers, instance records, backups, restore history | provision, configuration, releases, lifecycle, backup, restore, expire, revoke, delete | failure or crash between two of its steps, roll-back, memory written meanwhile, ports |
| Platform repository (`packages/db/postgres-repository.mjs`) | Agents, Runtimes, deployments, configuration revisions, the older command path, backups, releases, alerts | provisioning, lifecycle, configuration, approvals, leases, receipts, sweeps, retention, heartbeats | late receipts of earlier attempts, superseded configurations, commands that expire |
| Channel bridge (`postgres-repository.mjs`, `packages/channels`, `apps/web/routes/internal-channels.mjs`) | inbox, outbox, receipts, dead letters | accept, lease, invoke Runtime, complete or fail, deliver, report | two workers with the same row, answers lost after the commit, the last attempt |
| Channel bindings and adapters (`packages/channels/worker.mjs`, `packages/channels/adapters`) | bindings, running adapters, connections, health | save and delete a binding, refresh the inventory, connect, reconnect, report health, callbacks | credentials saved during a refresh, stop during a start, reports out of order, repeated callbacks |
| Memory projection (`packages/memory`) | notes, projection jobs, the memory of Hermes | write, enqueue, claim, import, project, mark, complete, fail, release | a write or an entry of Hermes during a projection, leases shorter than calls, conflicts |
| Scenes and runs (`packages/scene`, `apps/web/routes/user-panels.mjs`, `user-runtime.mjs`, `apps/web/public/bairui-scene-bootstrap.js`) | scene revisions and events, tabs and their streams, run records | panel commands, intents, snapshots, patches, resynchronisation; start, stop, approve, retry, synchronise | late snapshots and answers, broken streams, concurrent writers |
| Chat page (`apps/web/public/bairui-bailongma.js`) | active stream, run, stop, approval dialog | send, read events, stop, decide, reload | checks before awaits, late answers, broken streams |
| Sessions and machine security (`packages/auth`, `packages/security`, `apps/web/routes/auth.mjs`, `app.mjs`) | login attempts, session tokens, roles, credentials, nonces | log in, change role, rotate, register, sign, claim a nonce | logins side by side, old tokens, replays, two replicas |
| Contracts, character cards, deployment bundles, scripts, administration pages, rendering | little or none | validation, packing, queries, presentation | not a state machine |

Interactions: users and operators call the authority through its service; each
change appends an event and an outbox row in the same transaction; publishers
drain the outbox; agents lease commands, hand them to the supervisor and report
receipts; a verifier closes completion candidates against observations. The older
command path of the platform repository works the same way with its own tables.
Vendor messages enter the inbox through an adapter, an ingress worker turns them
into replies, Channel Workers deliver the replies. Notes an owner writes are
projected into the memory of Hermes by the projection worker. Tabs follow scenes
over event streams and talk to Hermes through the platform's session and run routes.

## Modules

| Module | Models | Composition |
| --- | --- | --- |
| `CommandLifecycle` | abstract specification: the arrows one command may move along | implemented by `ControlAuthority` |
| `ControlAuthority` | the control authority of one deployment | - |
| `ControlOutbox` | outbox rows and publishers | - |
| `ControlLoop` | one server agent, the wire and the authority | extends `ControlAuthority`, implements it |
| `ControlProofs` | theorems about the authority, the loop and the outbox | extends `ControlLoop` and `ControlOutbox` |
| `Supervisor`, `SupervisorProofs` | the supervisor of one server at work on one Agent, beside a second Agent's port; theorems | the executor of `ControlLoop`'s commands |
| `AgentPlatform`, `AgentPlatformProofs` | the platform's record of one Agent, its server, its Runtime and the timers; theorems | - |
| `ChannelBridge` | inbox, ingress worker, outbox, Channel Worker | - |
| `ChannelBindings` | owner, Channel Worker, adapters, vendor, health reports, callbacks | starts the adapters that `ChannelBridge` delivers with |
| `ChannelProofs` | theorems about bindings and bridge | extends `ChannelBindings` and `ChannelBridge` |
| `MemoryProjection`, `MemoryProjectionProofs` | notes, projection outbox, workers, coordinator, Hermes's memory; theorems | - |
| `UserRuntime`, `UserRuntimeProofs` | scenes, their streams and tabs; run records; theorems | - |
| `PlatformAccess`, `PlatformAccessProofs` | logins and roles; machine credentials and requests; idempotent transactions; theorems | - |
| `ChatClient`, `ChatClientProofs` | the chat of one tab, the session routes and Hermes; theorems | - |
| `MC...` | instances for TLC | extend the above |

`ControlOutbox` calls the states of its rows `rowState` and its number of attempts
`OutboxAttempts`, and it and `ChannelBridge` name their specifications `OutboxSpec` and
`BridgeSpec`, so that one module can extend them together with their neighbour. The two
share no variable with it: a theorem about the outbox is about `OutboxSpec` alone.

### How the models correspond to the code

*Atomicity.* Each repository method runs in one transaction (`inTransaction`,
`transaction`) or one statement and locks the rows it changes: it is one action.
Where that is the question, `PlatformAccess` takes transactions apart into
statements, locks and commit. Between two `await`s of a client, worker or page
anything else may happen: each stretch between awaits is an action of its own. A
request the code rejects rolls back and is a disabled action; where the caller's
reaction to the refusal matters (`ControlLoop!HandleReceipt`,
`ChannelBridge!completeChannelIngress`) the refusal is part of the action. In
`ControlAuthority` a request under a used idempotency key is a stuttering step: every
operation looks the key up first, and then answers from the record or refuses and rolls
back. That an identical repeat is answered and not refused is
`PlatformAccess!RefusedWasDifferent`, for release manifests and secret references only.

*Time.* `ControlAuthority` and `ControlLoop` have one clock, `now`, that the
database, the web process and the agent all read; stamps that a caller supplies
(`observed_at`, `received_at`, `completed_at`) are inputs in its past.
`ControlOutbox` and `ChannelBridge` compare times only with the present, so they
count down to the expiry of leases and delays. `AgentPlatform` and
`MemoryProjection` keep for each command or job whether its lease has lapsed or its
expiry passed, and let that become true at any moment.

*Areas.* `AgentPlatform`, `ChannelBindings`, `UserRuntime` and `PlatformAccess`
choose an area of work at the start, `Supervisor` a workload and `MemoryProjection` a
scenario: operations that share no rows need not be interleaved with each other.

*Control authority.* A command is its state, its terms (expected observation
version, `not_before`, `expires_at`), its approval, its lease and attempt rows and its
verification row. Payloads, placements and wording are left out; the owner checks
hold for the one owner modelled. `usable` of an observation stands for "fresh and
with evidence". Lease tokens are random and new for each lease, so a lease's
attempt number stands for its token. `config.apply-user` belongs to the older
command path and is never leased by the authority.

*Control loop.* The service asks for one command per lease call (`limit: 1`), so a
cycle has at most one job. Requests are sets on the wire: they may stay there for
ever (lost), be handled after the agent gave up (late), and be handled in any
order; a request is handled once because its nonce is claimed. `Crash` ends the
cycle at any point and empties the replay cache.

*Supervisor.* A command is a program of named steps. A step that calls docker or tar
may fail, after which the catch block's program runs, and the `finally` steps always
do; a crash ends the program anywhere. `exists` and `containerStatus` swallow a failed
or timed-out inspection: `Begin` may find the status of Hermes unknown and the containers
of a repeated provision missing, and deleting, revoking or restoring may skip what is
there, and the command goes on. Containers write memory between any two
steps. Files are the revision they were written for.

*Agent platform.* Receipts may be late, repeated, or of an attempt whose lease has
lapsed; they are found by attempt number, as in `recordCommandReceipt`. Receipts'
side effects on backups, releases, configurations and the Runtime row are part of
the action, and so is the sweep that every poll of a server runs first.

*Channel bridge.* `deliver` separates what the vendor did from what the worker
learned: an exception is "retryable" whether or not the vendor took the reply.
`completeChannelIngress` may commit while its answer is lost, after which the
worker runs its catch block.

*Channel bindings.* A credential is the number of the save that stored it. The
refresh reads the inventory, drops adapters, resolves each binding and starts its
adapter in separate steps. Health reports are messages with the time they were made
at. QQ's gateway states (connecting, open, ready, waiting for the timer) are kept;
the vendor's frames are not. The WeChat callback is modelled with its replay memory,
its attempts to submit and the vendor's repetitions.

*Memory projection.* One clock numbers the writes of notes; the number stands for
the revision and for `updated_at`. The hash of an entry is the note and revision it
was projected from, so a note edited back to an earlier text is a new entry here. The
projection takes notes greedily, the important and then the new ones first: the model
says of a set of notes that it is the one this takes, note by note, instead of building
it. `OneProcess` says that a single server process runs (`distribution/compose.yaml`
starts one); `StatusInv` is stated for it, because beside a second process a late import
leaves a note pending without a job. `ProjectionInv` is stated for any number. A unique
violation (23505) of two concurrent inserts collapses into the second one finding the row.

*Scenes and runs.* A view is a count of navigations and the number of the hotspot
collection it shows. A call to the server takes a step to be processed and one to be
answered. Snapshot requests are assumed to succeed. A stream starts with a snapshot,
then sends the events after its cursor. Requests about runs read, call Hermes and
write in separate steps.

*Access.* A signature is the token it was made with, a request hash is the request.
Statements of a transaction are steps, and others see what it wrote after the
commit. The worker's token is fixed, a server's tokens are fresh. The login throttle is
modelled for one address: `attempts` is its entry in `loginAttempts`, and time passes in the
area `logins` only. `minute` is a witness, read by no action of the code: one minute, chosen
freely at the start, with the passwords checked and the logins that succeeded in it.

*Chat.* The page is one thread. Message i opens stream i and starts run i; a run asks
for at most one approval. `lost`, `aborted`, `told`, `asked` and `overlapped` record
what happened for the properties and are read by no action, except that an aborted
stream is read no further, and a run that was told to stop may end while it waits.

## Runs

| Run | Shows |
| --- | --- |
| `authority` | lease coherence, no second start, approval gating, refinement of the lifecycle, no progress after expiry, success only on a newer healthy observation; types, the event log, finality and the active desired revision are left to the theorems |
| `outbox` | exclusive leases, settlement by the delivering lease only, dead letters exactly once, no starvation |
| `loop` | at most one execution, owned executions, no outcome without execution, refinement of `ControlAuthority`, and every execution is settled |
| `bridge` | no late worker undoes a settlement, dead letters match, no starvation |
| `agents` | attempts and command agree on the outcome although late receipts are taken; nothing unapproved is leased; one lifecycle command; a superseded configuration is not in force; a backup that is expiring is pursued; restore runs end with their command; the offline alert becomes right again |
| `supervisor` | roll-backs restore files and containers; success means what the record says is in force; a suspended or stopped Hermes is left so whenever docker told its status; ports differ; no plaintext archive without a crash |
| `bindings` | the recorded generation is never ahead of the credential; one adapter in service per binding; reconnects never give up; the newest report decides; an acknowledged callback was accepted; adapters follow the bindings in the end |
| `projection` | the synchronised revision was applied; no entry of Hermes is overwritten; a pending note is visible; statuses are true when the last job is completed; the queue drains |
| `conflict_restored` | finds the counterexample to a statement of the docs (below) |
| `scene` | a tab's view is the one of its revision; guarded commands never take facts back; a following tab converges; only ended runs are retried |
| `access` | passwords checked in any minute are bounded by the limit and the logins that succeed; only a present administrator appoints; a signed request is served once; rotations revoke; only a different request under a used key is refused; transactions end |
| `chat` | no stop reaches a later message; the stream is aborted only after Hermes was told; a retained stop is sent; the composer becomes free |

The invariants of a module that belong together are checked as one conjunction of named
parts, the type invariant among them: `SettlementInv` (`ControlOutbox`), `ExecutionInv`
(`ControlLoop`), `BridgeInv` (`ChannelBridge`), `CommandInv` and `BackupInv`
(`AgentPlatform`), `HostInv` (`Supervisor`), `BindingsInv` (`ChannelBindings`),
`ProjectionInv` and `StatusInv` (`MemoryProjection`), `TabInv` (`UserRuntime`), `UsersInv`
and `MachinesInv` (`PlatformAccess`) and `PageInv` (`ChatClient`).

### Bounds

`authority` has two commands, one of them high-risk, two users, lease terms 1 and 2 and
lifetime 2 on a clock of 2 ticks, and two attempts: a command can be leased, lapse, be
requeued and be leased again with a lease cut at its own expiry, while the other is
approved or rejected, and its approval may lapse in between. One observation and one
desired revision may come before, during or after the execution they are to prove. The
loop has one command and two attempts; the second is enough for a stale receipt to meet a
newer lease. Degraded observations and a second desired revision are covered by the
theorems `SuccessWitnessed` and `DesiredIsCurrent` only. The outbox has two
rows and two publishers with two attempts each. The bridge has one message with three
attempts: rows of different messages share no state, while several workers may hold the
same row under different tokens.

`agents`: three commands for the lifecycle (one running, one replaced, one after it),
two elsewhere; two attempts where receipts of a lapsed attempt matter (configuration and
backup). `supervisor`: three commands, two faults, so that an inspection may fail before a
step does, and one crash in a behaviour, in five workloads of actions that share files, with
one memory write in the workload that has backups; two revisions, two images, two ports. `bindings`: a QQ and a Feishu binding, saved twice, three adapter objects, so
that an adapter being stopped, one in service and one being started coexist.
`projection`: two notes of which both do not fit together, one entry of Hermes, two
attempts, in three scenarios (a failing process, three edits of Hermes between two manual
synchronisations, two replicas whose leases lapse). `scene`: one tab with commands beside
a client of the unguarded intents route, two or three revisions, one broken stream;
three runs and two requests at a time.
`access`: a limit of two attempts, a minute of two ticks that may begin at any tick, at most
two logins that succeed in it (the bound of `Throttled` is tight: seven checks are reached),
two processes, one nonce that may arrive again at any
time within the skew, three credentials, one key with two different requests.
`chat`: two messages; each property that relates messages relates two.

The bounds end behaviours, so deadlock is not checked: a state in which all work is done
and a bound is reached is a proper end. Where that could make a liveness property
vacuous its statement names the bound (`TransactionsEnd`) or the bounded actions are
not needed for it.

### Fairness

`ControlLoop!LoopFairSpec`: time passes; the daemon takes its next step, because
every request has `AbortSignal.timeout` and an executor call returns or throws;
a lease request that stays on the wire is handled. Nothing is assumed of receipts
or answers, and crashes may happen at any time. `runControlDaemon` polls in an
endless loop, which is what releases abandoned commands: the authority has no
timer of its own. `OutboxFairSpec` and `BridgeFairSpec`: time
passes and polls keep coming with limits that cover what is ready; no worker is
obliged to settle what it holds. `AgentPlatform`: the evaluation timer fires.
`ChannelBindings`: the refresh loop runs, a process manager restarts the worker, and an
adapter that is started again and again starts at some point (strong fairness: the
vendor is not unreachable for ever). `MemoryProjection`: time passes and processes take
their steps. `UserRuntime`: the server answers, a tab handles what arrives and its timer
fires. `PlatformAccess`: strong fairness of a transaction's next statement, because
PostgreSQL queues the waiters of row and advisory locks. `ChatClient`: requests end,
because the platform's calls of Hermes have timeouts; events that were sent are read;
Hermes starts and ends runs. A stream has no timeout of its own: that the connection ends
is an assumption. Users owe nothing anywhere.

### A statement of the docs that the code does not keep

* `docs/18-hermes-obsidian-memory.md:51` (run `conflict_restored`): "Missing projected
  entries are marked `conflict` and excluded until the user reviews them; they are not
  silently restored or deleted." The projection that records a conflict also drops the
  note from the manifest; the next projection sees no conflict and materializes it again.

### Other differences met while modelling

These follow from the models and have no run of their own.

* `docs/16-control-command-delivery.md:22`: "expired commands do not" return to the
  queue. A lease is cut at the command's expiry, and `expireLeases` requeues a command
  whose lease lapsed there. It is never leased again, and never expired.
* `docs/11-control-plane-protocol.md:67`: success needs a "post-action observation".
  `verifyCommand` compares `received_at`, not `observed_at`, with the end of the action.
* `docs/11-control-plane-protocol.md:42`: "A command that expired before execution is
  never started." The expiry is checked before two receipts are awaited and not again.
* `docs/C00-03-POSTGRES-CONTROL-MODEL.md:107`: "retry at max attempts -> dead_letter". A
  publisher that dies on the last attempt leaves the row in `retry`.
* `docs/23-durable-channel-bridge.md:34`: exhausted failures enter
  `channel_dead_letters`. A worker that dies on the last attempt leaves the message leased.
* `docs/16-control-command-delivery.md:47`: a restore is leased "only for a verified
  backup". The backup is checked when the restore is requested and not when it is leased.
* `docs/13`, line 43: a restore copies the data to its history before it stops the
  containers, so memory written in between is lost (`supervisor.mjs:597`).
* `connected` is shown from any report newer than the last: one made by an adapter on the
  previous credential counts for the new one (`postgres-repository.mjs:1735`).
* The login throttle (`auth.mjs:25` to `39`) is not ten passwords a minute: its minutes begin
  with an attempt, so that any other minute meets two of them, and every login that succeeds
  forgets the count. `Throttled` states what does hold.
* `docs/20`, lines 61 to 64: "A stop clicked before run.started is retained". The answer
  of the stop of an earlier run clears it (`bairui-bailongma.js:699`). Stop is told to
  Hermes before the stream is aborted, unless two messages were sent while the first one
  still awaited its session.

Behaviour that no document speaks of:

* Accepted and running commands of the older path whose lease lapsed after `expires_at`
  never end; a restore that ran, was requeued and expired leaves its run `running`.
* `config.apply`, `release.apply` and `backup.restore` start the containers of a suspended
  Agent; `release.apply` has no roll-back; after `credential.revoke` a failing
  `config.apply` does not roll back, or brings back an old token.
* A docker inspection that fails or times out counts as an answer. `config.apply-user` then
  leaves a suspended or stopped Hermes running and reports success (`supervisor.mjs:159`,
  `312`, `463`); `deployment.delete`, `credential.revoke` and `backup.restore` skip a container
  or network that is there and report success too (lines 155, 375, 601 and 698).
* `verifyCommand` sets a missing `completed_at` to the present and hashes it
  (`service.mjs:317`), so that an identical repeat of such a request is refused as different.
* A transaction that appends events of several deployments (`expireLeases`, `leaseCommands`)
  keeps the audit lock while it waits for the next event lock
  (`control-authority-repository.mjs:223`). Two of them, or one beside a transaction on the other
  deployment, may deadlock; PostgreSQL aborts one, which is rolled back.
* Saving a binding without a new credential shows it as pending. An incomplete credential
  ends the refresh, and later bindings are not started.
* With two replicas a late import leaves a note pending without a job.
* The SSE event `scene` carries `rev` where the tab reads `revision`, so it sees a gap and
  loads a snapshot; a late answer of a command takes the tab back until the next patch; a
  failed load of a resynchronisation is not repeated.
* A run started in Hermes before its record is inserted is lost to the platform when the
  insert fails; a late synchronisation may clear `completed_at`.
* Two concurrent rotations leave two active credentials of a server; the last platform
  administrator can demote himself; sensitive access grants are stored and read by nobody.
* A chat stream that breaks after `run.started` leaves the composer blocked until the page is
  reloaded (`ComposerFreed` excepts it); the late answer of an approval or of a stop closes
  the dialog of another run.

## Proofs

Each proof module extends the modules it is about. For each of them it states an inductive
invariant, shows that the initial states satisfy it, has one lemma for each action that
preserves it, and concludes. The inductive invariants were checked by TLC on the runs'
instances first. The theorems rest on the named `ASSUME` of the component's module and on
nothing else.

| Module | Theorem | States | For every |
| --- | --- | --- | --- |
| `ControlProofs` | `LeasesCohere`, `StartsOnce`, `ApprovalGates`, `SuccessWitnessed` | `LeaseCoherence`, `AtMostOneStart`, `ApprovalGatesLease`, `SuccessIsWitnessed` | commands, users, durations, bounds |
| | `TypeCorrect`, `EventsReplay`, `DesiredIsCurrent` | types, event log, the active revision | |
| | `TerminalStays`, `NoProgressAfterExpiry` | finality, `ProgressBeforeExpiry` (action properties) | |
| | `Refinement` | `ImplementsLifecycle` | |
| | `AuthorityRefined`, `ExecutedOnce`, `ExecutionAccounted` | `ImplementsAuthority`, `ExecutesAtMostOnce`, `ExecutionInv` | as for the authority |
| | `SettledByItsLease`, `LeaseExclusive` | `SettlementInv`, `HolderUndisturbed` | messages, publishers, terms, delays, attempts |
| `SupervisorProofs` | `HostSound`, `RollbacksRestore`, `SuccessesInForce` | `HostInv`, `RollbackRestores`, `SuccessInForce` | revisions, images, backups, restores, ports, workloads, bounds |
| `AgentPlatformProofs` | `CommandsCohere`, `SupersededStaysOut`, `BackupsPursued` | `CommandInv`, `SupersededNotInForce`, `BackupInv` | bounds on commands and attempts |
| | `EndedCommandsStay` | finality of the older path's commands (action property) | |
| `ChannelProofs` | `BindingsSound`, `AcknowledgedSound` | `BindingsInv`, `AckedIsAccepted` | bindings and their vendors, slots, messages, bounds, attempts |
| | `MessagesAccounted`, `SettlementFinal` | `BridgeInv`, `SettledRowsStay` | messages, attempts, terms, back-offs |
| `MemoryProjectionProofs` | `ProjectionSound`, `StatusSound` | `ProjectionInv`, `StatusInv` | notes, processes, scenarios, sizes and limits, attempts |
| `UserRuntimeProofs` | `TabsCohere`, `RetriesSound`, `FactsMonotone` | `TabInv`, `RetryOfEnded`, `FactsNeverGoBack` | tabs, runs, requests, bounds |
| `PlatformAccessProofs` | `MachinesHeld`, `UsersHeld`, `RefusalsJustified`, `TransactionsSerial` | `MachinesInv`, `UsersInv`, `RefusedWasDifferent`, mutual exclusion of transactions | users, slots, keys, bounds |
| `ChatClientProofs` | `PageSound` | `PageInv` | numbers of messages |

None of the checked invariants is inductive alone. What each proof adds:

* **Authority.** `IndInv` ties the rows of a command together: only the last lease may be
  active and it is active exactly while the command is held (`LeaseInv`); an unaccepted attempt
  is not started, and a started one is the last (`StartInv`); an active lease expires no later
  than its command (`ExpiryInv`); leases exist only under an approval in force when they were
  issued (`ApprovalInv`); the last event determines the state (`EventInv`); the candidate
  completed after its attempt was leased, and a succeeded one names a witness (`WitnessInv`).
  Each action touches the rows of one command except the expiry of leases, which acts on every
  command on its own, so the step lemmas are stated for one command. `DesiredInv` is a separate,
  smaller invariant.
* **Outbox.** A grant a publisher remembers was made by `leaseOutbox` (`GrantsReal`) and no two
  grants share row and token (`GrantsUnique`); otherwise a late publisher could settle under a
  token of somebody else.
* **Bridge.** A Channel Worker that is about to report `delivered` saw the vendor accept the
  message under that lease (`ReportsReal`).
* **Bindings.** Two things have to agree although the refresh reads one and changes the other
  in between: the maps of the worker and the adapters alive. An adapter in the map belongs to its
  binding and was not told to stop (`MapInv`); once the refresh starts adapters, those still in
  the map are up to date (`StartInv`); the one that is starting has no rival in the map
  (`StartingInv`); and an adapter in service is in the map or the one that is starting
  (`ServiceInv`). That a generation is never ahead of the credential needs that what was listed of
  a binding never exceeds the row's generation (`RowsInv`). For the reports: each has a number of
  its own and one that was taken is not on the wire any more (`ReportsInv`), so the newest decides
  (`NewestInv`). A callback is remembered after the platform has it (`CallbackInv`).
* **Memory.** `IndInv` holds for any number of processes. The outbox has at most one job in
  processing and one queued, in that order (`JobsInv`); a revision marked as synchronised was in an
  applied projection (`NotesInv`); and what a process has read bounds what it may do (`WorkInv`):
  before it applies it has imported every entry of Hermes it saw, the digest refuses if others came,
  and what it marks was applied. `SoleInv` is for one process: it keeps its job whether or not the
  lease lapses, a note written since it read the notes is pending with a job of its own
  (`AsRead`), so when its job is completed the statuses are true or another job waits (`Settled`).
  The attempt to prove `NativeKept` found a run the first instance was too small for: the owner
  deletes an imported note while a synchronisation is under way, and Hermes removes its entry and
  writes the identical one again; the digest is one of contents, so the entry is taken for the
  deleted one. `WrittenAgain` names that case and the property excepts it.
* **Chat.** Only an open stream has unread events, no more than its run has emitted, the end of
  the run last (`StreamOrder`), so a page that shows a run has yet to read its end (`RunShown`).
  While a stop is asked for, whoever has an open stream has been asked about (`StopAsked`); and as
  long as no two messages were prepared at once, only one is under way, the one whose stream the
  page reads (`OneUnderWay`).
* **Loop.** `LoopInv` adds to the authority's invariant where the agent is (`AgentInv`), that
  its job is a lease that was granted and, from the answer to `running` on, started (`JobInv`),
  that receipts in flight report on granted leases (`ReceiptsInv`), and that what was executed
  was started (`ExecutedInv`). At most one execution then follows from the authority's
  `StartsOnce`: a started attempt is the last. `AuthorityRefined` maps each step of the loop to
  a step of `ControlAuthority` or a stutter.
* **Supervisor.** What is left to do is always the end of the program of the command, or of its
  catch block (`OnPlan`). With it, "how far the command is" is the number of steps left, and the
  rest says what holds from which step on: which files are still those the command found, which
  are kept in the history or copied, which are written or returned (`FileWork`), which containers
  have been replaced (`BoxWork`). `PortsInv` adds that a recorded instance stays off the other
  Agent's port even while it is stopped, and `PlainInv` that only the command in hand has an
  unencrypted archive. `RestoreFiles` needs that a snapshot always has an environment file, which
  holds because only an instance with a record is archived. A table lemma for each program says
  which step is due when so many are left; `Heads` says which commands a step belongs to.
* **Agents.** Each command row is consistent by itself (`RowOK`: never leased means queued,
  cancelled or expired; an attempt that ended, ended as its command did; a restore run is running
  only while an attempt is); lifecycle commands exclude one another in pairs (`OneOrdering`); a
  revision still approved or superseded is named neither by the runtime row nor by the
  environment of its container (`ConfigInv`), which is what a late heartbeat would bring back.
  An attempt that ended agrees with its command, so the late receipts that are taken repeat the
  outcome and `EndedCommandsStay` follows.
* **Scenes and runs.** Everything a tab knows, has in its stream or awaits is a revision of the
  scene (`TabOK`); a command under way has a view no older than the scene's as long as its base is
  current (`CallOK`), so the optimistic check suffices; what a request learnt of a run stays true
  while it waits, because ended runs stay ended (`RequestOK`).
* **Access.** The entry of the address ends no later than a minute from now. The minute that is
  watched meets at most two entries that end by themselves, and one more for each login that
  succeeds: while the entry reaches past its end, the checks so far are less than the limit for
  each entry before it, plus the count of the entry (`MinuteInv`). No two credentials share
  a token, so a claimed nonce belongs to one signature; a rotation under way still has in its rows
  what was active when it began (`RotationOK`); a transaction past its lock holds it and there is
  no record (`TransactionOK`).

The assumptions are on the types of the constants: bounds and durations are natural numbers
(durations and attempts positive where the code divides time by them or leases at least once),
areas are those of the module, and absence is not a value: `NoUser \notin Users`,
`NoCommand \notin Commands`, `"none" \notin Slots \union Hashes`. `LoopAssumption` lets an agent
send three receipts for an attempt, `BindingsAssumption` numbers the slots from one,
`ProjectionAssumption` keeps the entries of Hermes apart from the notes of the owner,
`SupervisorAssumption` has the first revision among `Revs`,
the first image among `Images` and both Agents start their search inside the port range.

Model-checked only: liveness, because the prover does neither fairness nor `ENABLED`. These are
`NoStarvation` (outbox and bridge), `WorkIsSettled`, `OfflineAlertSettles`, `AdapterFollows`,
`QueueDrains`, `Converges`, `TransactionsEnd`, `StopRetained` and `ComposerFreed`.

## Not modelled

* `packages/db/memory-repository.mjs`, a second implementation of the repository for
  development and tests: it has no transactions and one process.
* Row locks of leases and receipts, event locks, and aborts by PostgreSQL (a transaction that is
  aborted is a request that never happened); `TransactionsEnd` speaks of the locks of the key,
  the deployment and the audit chain only; a change of the worker's token during a rolling start; registration.
* Owner configuration beyond the revisions it creates, integrations, proxying, administration
  queries and telemetry: reads, or one write without a state machine.
* Server protocol, contracts and character cards: pure validation and conversion of JSON and
  PNG without state. Encryption, password hashing and licences: pure functions.
* Deployment bundles, distribution, scripts, infrastructure: run once by an operator; their
  effects are files.
* Rendering, forms, the administration pages and the vendored interface: presentation.
* The frames of vendor protocols beyond connection and acknowledgement.

## What may come next

All properties planned are modelled and checked, and those of safety are proved. Left to do:
action properties that follow from the inductive invariants at hand (files of an Agent change
only under a command; a committed rotation is final), and the browser's workspace and
administration pages, once they keep state of their own.
