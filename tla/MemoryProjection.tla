--------------------------- MODULE MemoryProjection ---------------------------
(* The memory of one Agent: the owner's notes and the projection outbox of the  *)
(* platform (postgres-repository.mjs), the worker that leases projection jobs   *)
(* (packages/memory/projection-worker.mjs), the synchronisation of the notes    *)
(* with the memory of Hermes (projection-coordinator.mjs, obsidian-note.mjs),   *)
(* and Hermes itself, external, which adds and removes entries of its own.      *)
(*                                                                              *)
(* Everything is per Agent, so one Agent is modelled.  One clock numbers all    *)
(* writes of notes: the number stands for the note's revision (equal numbers    *)
(* mean that nothing was written in between) and for its updated_at, and a row  *)
(* created after a deletion, which has another id, starts at a fresh number.    *)
(* An entry of Hermes is known by its hash: here, by the note and the revision  *)
(* it was projected from, or by the number 0 for what Hermes wrote itself.      *)
EXTENDS Naturals, Sequences, FiniteSetsExt

CONSTANTS
    Scenarios,      \* server processes that run together, and how often the owner
                    \* writes and asks for a synchronisation, Hermes changes its
                    \* memory, calls fail, processes crash and leases lapse under
                    \* their holder
    UserNotes,      \* notes the owner writes, by slug
    Natives,        \* entries Hermes writes, also the notes they are imported as
    Targets,        \* hermes_target values the owner chooses from
    Importances,    \* importance values the owner chooses from
    Size,           \* Size[n]: length of the projected entry of note n and a separator
    Limit,          \* Limit[t]: HERMES_MEMORY_LIMITS of target t and a separator
    MaxAttempts     \* BAIRUI_MEMORY_WORKER_MAX_ATTEMPTS

Events == {"writes", "manual", "hermes", "faults", "crashes", "lapses"}

ASSUME ProjectionAssumption ==
    /\ UserNotes \intersect Natives = {}
    /\ Targets \subseteq {"memory", "user", "none"} /\ Importances \subseteq 1 .. 5
    /\ MaxAttempts \in Nat \ {0}
    /\ \A c \in Scenarios : c.processes \subseteq Nat \ {0} /\ c.bounds \in [Events -> Nat]

VARIABLES
    scenario,   \* the scenario of this behaviour
    notes,      \* notes[n]: obsidian_notes
    clock,      \* number of the latest write
    jobs,       \* memory_projection_outbox, in the order of created_at
    worker,     \* worker[p]: the job process p works on and what it has read
    hermes,     \* entries and manifest (snapshot.projection) of Hermes' memory
    applied,    \* history: revisions that were in an applied projection
    atStake,    \* history: what Hermes wrote and nobody has deleted (but see WrittenAgain)
    used        \* how often each bounded event has happened

vars == <<scenario, notes, clock, jobs, worker, hermes, applied, atStake, used>>

Notes == UserNotes \union Natives
OneProcess == \E p \in scenario.processes : scenario.processes = {p}
Queued == {"pending", "retry"}
Active == Queued \union {"processing"}
Count(k) == /\ used[k] < scenario.bounds[k]
            /\ used' = [used EXCEPT ![k] = @ + 1]

-----------------------------------------------------------------------------
(* Notes and the projection outbox. *)

NoNote == [present |-> FALSE, revision |-> 0, born |-> 0, status |-> "pending",
           synced |-> 0, importance |-> 0, target |-> "none"]

\* The row after a save; an upsert by slug keeps the row that is there.
Saved(n, importance, target) ==
    [notes[n] EXCEPT !.present = TRUE, !.revision = clock + 1, !.status = "pending",
                     !.born = IF notes[n].present THEN @ ELSE clock + 1,
                     !.synced = IF notes[n].present THEN @ ELSE 0,
                     !.importance = importance, !.target = target]

NewJob == [state |-> "pending", attempts |-> 0, due |-> TRUE, holder |-> 0, lapsed |-> FALSE]

\* One queued job per Agent (unique index): a second request resets it.
enqueueMemoryProjectionWithClient ==
    IF \E i \in DOMAIN jobs : jobs[i].state \in Queued
    THEN [i \in DOMAIN jobs |-> IF jobs[i].state \in Queued THEN NewJob ELSE jobs[i]]
    ELSE Append(jobs, NewJob)

\* The row and the job are written in one transaction.
Write(n, importance, target) ==
    /\ Count("writes")
    /\ notes' = [notes EXCEPT ![n] = Saved(n, importance, target)]
    /\ clock' = clock + 1
    /\ jobs' = enqueueMemoryProjectionWithClient
    /\ UNCHANGED <<scenario, worker, hermes, applied, atStake>>

createObsidianNote(n, importance, target) == n \in UserNotes /\ Write(n, importance, target)

\* PATCH of a note, an imported one too.
updateObsidianNote(n, importance, target) == notes[n].present /\ Write(n, importance, target)

deleteObsidianNote(n) ==
    /\ notes[n].present
    /\ Count("writes")
    /\ notes' = [notes EXCEPT ![n] = NoNote]
    /\ jobs' = enqueueMemoryProjectionWithClient
    /\ atStake' = atStake \ {n}
    /\ UNCHANGED <<scenario, clock, worker, hermes, applied>>

\* POST /memory-sync
enqueueMemoryProjection ==
    /\ Count("manual")
    /\ jobs' = enqueueMemoryProjectionWithClient
    /\ UNCHANGED <<scenario, notes, clock, worker, hermes, applied, atStake>>

\* What the owner is shown: an active job, else the newest one.
getMemoryProjectionStatus ==
    LET active == {i \in DOMAIN jobs : jobs[i].state \in Active} IN
    IF jobs = <<>> THEN "idle"
    ELSE IF active # {} THEN jobs[Max(active)].state ELSE jobs[Len(jobs)].state

-----------------------------------------------------------------------------
(* Leases. *)

Idle == [pc |-> "idle", job |-> 0, snapshot |-> [entries |-> {}, manifest |-> {}],
         known |-> {}, revisions |-> [n \in Notes |-> 0], included |-> {}]

\* A lapsed job gives way to a queued one, or is queued again.
Recovered ==
    LET newer == \E i \in DOMAIN jobs : jobs[i].state \in Queued IN
    [i \in DOMAIN jobs |->
        IF ~jobs[i].lapsed THEN jobs[i]
        ELSE [jobs[i] EXCEPT !.state = IF newer THEN "completed" ELSE "retry",
                             !.due = TRUE, !.holder = 0, !.lapsed = FALSE]]

\* Mutant: only pending jobs are candidates.
PendingOnlyLease(p) ==
    /\ worker[p].pc = "idle"
    /\ \A i \in DOMAIN jobs : jobs[i].state = "processing" => jobs[i].lapsed
    /\ \E i \in DOMAIN jobs :
         /\ Recovered[i].state = "pending"
         /\ jobs' = [Recovered EXCEPT ![i].state = "processing", ![i].holder = p,
                                      ![i].attempts = @ + 1]
         /\ worker' = [worker EXCEPT ![p].pc = "snapshot", ![p].job = i]
    /\ UNCHANGED <<scenario, notes, clock, hermes, applied, atStake, used>>

\* tick of process p: one lease transaction, and no other tick while it runs.
\* The holder stands for the lease token: a process has one lease at a time.
leaseMemoryProjectionJobs(p) ==
    /\ worker[p].pc = "idle"
    /\ \A i \in DOMAIN jobs : jobs[i].state = "processing" => jobs[i].lapsed
    /\ \E i \in DOMAIN jobs :
         /\ Recovered[i].state \in Queued /\ Recovered[i].due
         /\ jobs' = [Recovered EXCEPT ![i].state = "processing", ![i].holder = p,
                                      ![i].attempts = @ + 1]
         /\ worker' = [worker EXCEPT ![p].pc = "snapshot", ![p].job = i]
    /\ UNCHANGED <<scenario, notes, clock, hermes, applied, atStake, used>>

\* The lease of 90 s is shorter than the 125 s a call to the Runtime may take: it
\* may lapse while its holder is at work.
LeaseExpires(i) ==
    /\ jobs[i].state = "processing" /\ ~jobs[i].lapsed
    /\ IF worker[jobs[i].holder].pc = "idle" THEN UNCHANGED used ELSE Count("lapses")
    /\ jobs' = [jobs EXCEPT ![i].lapsed = TRUE]
    /\ UNCHANGED <<scenario, notes, clock, worker, hermes, applied, atStake>>

RetryDelayPasses(i) ==
    /\ ~jobs[i].due
    /\ jobs' = [jobs EXCEPT ![i].due = TRUE]
    /\ UNCHANGED <<scenario, notes, clock, worker, hermes, applied, atStake, used>>

-----------------------------------------------------------------------------
(* synchronizeAgentMemory, one action per call it awaits. *)

At(p, step) == worker[p].pc = step
Go(p, step) == [worker[p] EXCEPT !.pc = step]
Present == {n \in Notes : notes[n].present}

\* memory.snapshot: the digest stands for what was read.
Snapshot(p) ==
    /\ At(p, "snapshot")
    /\ worker' = [worker EXCEPT ![p] = [Go(p, "list") EXCEPT !.snapshot = hermes]]
    /\ UNCHANGED <<scenario, notes, clock, jobs, hermes, applied, atStake, used>>

\* The first list: which native entries are notes already.
ListNotes(p) ==
    /\ At(p, "list")
    /\ worker' = [worker EXCEPT ![p] = [Go(p, "import") EXCEPT !.known = Present \intersect Natives]]
    /\ UNCHANGED <<scenario, notes, clock, jobs, hermes, applied, atStake, used>>

\* Entries of the snapshot that no projection wrote and no note is known for.
Unimported(p) ==
    {e.note : e \in worker[p].snapshot.entries \ worker[p].snapshot.manifest} \ worker[p].known

\* queueProjection: false, importance 4, the target the entry was read from.
ImportEntry(p) ==
    /\ At(p, "import")
    /\ \E n \in Unimported(p) :
         /\ notes' = [notes EXCEPT ![n] = Saved(n, 4, "memory")]
         /\ worker' = [worker EXCEPT ![p].known = @ \union {n}]
    /\ clock' = clock + 1
    /\ UNCHANGED <<scenario, jobs, hermes, applied, atStake, used>>

\* Notes whose entry of the last projection is gone from Hermes.
Conflicts(p) ==
    LET missing == worker[p].snapshot.manifest \ worker[p].snapshot.entries IN
    {n \in Notes : \E e \in missing : e.note = n /\ e.revision >= notes[n].born}

Before(a, b) ==
    \/ notes[a].importance > notes[b].importance
    \/ notes[a].importance = notes[b].importance /\ notes[a].revision > notes[b].revision

\* What the loop over the sorted candidates keeps: a note is in iff it fits beside
\* the ones before it that are in.  Before is a strict order (no two notes have a
\* revision in common), so there is one such set.
buildHermesMemoryProjection(candidates, kept) ==
    \A n \in candidates :
        LET taken == {k \in kept : Before(k, n) /\ notes[k].target = notes[n].target} IN
        n \in kept <=>
            /\ notes[n].target # "none"
            /\ MapThenSumSet(LAMBDA k : Size[k], taken) + Size[n] <= Limit[notes[n].target]

\* The second list, with the revisions, and the projection built from it.
ListAgain(p) ==
    /\ At(p, "import") /\ Unimported(p) = {}
    /\ \E kept \in SUBSET (Present \ Conflicts(p)) :
         /\ buildHermesMemoryProjection(Present \ Conflicts(p), kept)
         /\ worker' = [worker EXCEPT ![p] = [Go(p, "apply") EXCEPT
              !.revisions = [n \in Notes |-> IF notes[n].present THEN notes[n].revision ELSE 0],
              !.included = kept]]
    /\ UNCHANGED <<scenario, notes, clock, jobs, hermes, applied, atStake, used>>

\* Mutant: the entries that did not fit are sent as well.
UncappedProjection(p) ==
    {[note |-> n, revision |-> worker[p].revisions[n]] :
        n \in {m \in Notes \ Conflicts(p) : worker[p].revisions[m] # 0}}

\* The entries of the projection that is sent.
Projection(p) == {[note |-> n, revision |-> worker[p].revisions[n]] : n \in worker[p].included}

\* Mutant: the digest is read again just before it is sent.
FreshDigest(p) == hermes

\* The digest sent as expected_digest.
Expected(p) == worker[p].snapshot

\* memory.apply: rejected when the digest has changed; the answer may be lost.
Apply(p) ==
    /\ At(p, "apply")
    /\ IF Expected(p) = hermes
       THEN /\ hermes' = [entries |-> Projection(p), manifest |-> Projection(p)]
            /\ applied' = applied \union Projection(p)
            /\ \/ worker' = [worker EXCEPT ![p] = Go(p, "mark")] /\ UNCHANGED used
               \/ worker' = [worker EXCEPT ![p] = Go(p, "failed")] /\ Count("faults")
       ELSE worker' = [worker EXCEPT ![p] = Go(p, "failed")] /\ UNCHANGED <<hermes, applied, used>>
    /\ UNCHANGED <<scenario, notes, clock, jobs, atStake>>

\* Only rows that still have the revision that was read.
Unchanged(p, n) == notes[n].present /\ notes[n].revision = worker[p].revisions[n]

markObsidianProjection(p) ==
    /\ At(p, "mark")
    /\ notes' = [n \in Notes |->
         IF ~Unchanged(p, n) THEN notes[n]
         ELSE IF n \in Conflicts(p) THEN [notes[n] EXCEPT !.status = "conflict"]
         ELSE IF n \in worker[p].included
              THEN [notes[n] EXCEPT !.status = "materialized", !.synced = notes[n].revision]
         ELSE [notes[n] EXCEPT !.status = "excluded"]]
    /\ worker' = [worker EXCEPT ![p] = Go(p, "complete")]
    /\ UNCHANGED <<scenario, clock, jobs, hermes, applied, atStake, used>>

-----------------------------------------------------------------------------
(* process: what becomes of the job. *)

Holds(p) == LET i == worker[p].job IN jobs[i].state = "processing" /\ jobs[i].holder = p
Ended(job, state) == [job EXCEPT !.state = state, !.holder = 0, !.lapsed = FALSE]
Done(p) == worker' = [worker EXCEPT ![p] = Idle]

completeMemoryProjectionJob(p) ==
    /\ At(p, "complete")
    /\ jobs' = IF Holds(p) THEN [jobs EXCEPT ![worker[p].job] = Ended(@, "completed")] ELSE jobs
    /\ Done(p)
    /\ UNCHANGED <<scenario, notes, clock, hermes, applied, atStake, used>>

\* A call fails, the Runtime's or the database's: process() catches the error.
CallFails(p) ==
    /\ worker[p].pc \in {"snapshot", "list", "import", "apply", "mark", "complete"}
    /\ Count("faults")
    /\ worker' = [worker EXCEPT ![p] = Go(p, "failed")]
    /\ UNCHANGED <<scenario, notes, clock, jobs, hermes, applied, atStake>>

\* A queued job supersedes this one; without one the attempts are counted.
AfterFailure(job) ==
    IF \E i \in DOMAIN jobs : jobs[i].state \in Queued THEN Ended(job, "completed")
    ELSE IF job.attempts >= MaxAttempts THEN Ended(job, "dead")
    ELSE [Ended(job, "retry") EXCEPT !.due = FALSE]

retryMemoryProjectionJob(p) ==
    LET i == worker[p].job IN
    /\ At(p, "failed")
    /\ IF ~Holds(p) THEN UNCHANGED jobs /\ Done(p)
       ELSE /\ jobs' = [jobs EXCEPT ![i] = AfterFailure(@)]
            /\ worker' = [worker EXCEPT ![p] = IF AfterFailure(jobs[i]).state = "dead"
                                               THEN Go(p, "dead") ELSE Idle]
    /\ UNCHANGED <<scenario, notes, clock, hermes, applied, atStake, used>>

markObsidianProjectionFailed(p) ==
    /\ At(p, "dead")
    /\ notes' = IF \E i \in DOMAIN jobs : jobs[i].state \in Active THEN notes
                ELSE [n \in Notes |-> IF notes[n].present /\ notes[n].status = "pending"
                                      THEN [notes[n] EXCEPT !.status = "failed"] ELSE notes[n]]
    /\ Done(p)
    /\ UNCHANGED <<scenario, clock, jobs, hermes, applied, atStake, used>>

\* The inner catch of process(): the lease is left to lapse.
PersistenceFails(p) ==
    /\ worker[p].pc \in {"failed", "dead"}
    /\ Count("faults")
    /\ Done(p)
    /\ UNCHANGED <<scenario, notes, clock, jobs, hermes, applied, atStake>>

Crash(p) ==
    /\ worker[p].pc # "idle"
    /\ Count("crashes")
    /\ Done(p)
    /\ UNCHANGED <<scenario, notes, clock, jobs, hermes, applied, atStake>>

-----------------------------------------------------------------------------
(* Hermes (external) writes and removes entries of its memory. *)

Native(n) == [note |-> n, revision |-> 0]

\* The digest is one of contents.  A synchronisation under way has imported the
\* entry, the owner has deleted the note, and Hermes has removed its entry and
\* writes the same one again: nothing tells it from the one the owner deleted.
WrittenAgain(n) ==
    /\ ~notes[n].present
    /\ \E p \in scenario.processes : /\ worker[p].pc \in {"import", "apply"}
                                     /\ n \in worker[p].known
                                     /\ Native(n) \in worker[p].snapshot.entries

HermesAdds(n) ==
    /\ Native(n) \notin hermes.entries
    /\ Count("hermes")
    /\ hermes' = [hermes EXCEPT !.entries = @ \union {Native(n)}]
    /\ atStake' = IF WrittenAgain(n) THEN atStake ELSE atStake \union {n}
    /\ UNCHANGED <<scenario, notes, clock, jobs, worker, applied>>

HermesRemoves(e) ==
    /\ Count("hermes")
    /\ hermes' = [hermes EXCEPT !.entries = @ \ {e}]
    /\ atStake' = atStake \ {e.note}
    /\ UNCHANGED <<scenario, notes, clock, jobs, worker, applied>>

-----------------------------------------------------------------------------
Init ==
    /\ scenario \in Scenarios
    /\ notes = [n \in Notes |-> NoNote] /\ clock = 0
    /\ jobs = <<>>
    /\ worker = [p \in scenario.processes |-> Idle]
    /\ hermes = Idle.snapshot
    /\ applied = {} /\ atStake = {}
    /\ used = [k \in Events |-> 0]

Owner ==
    \/ \E n \in Notes, i \in Importances, t \in Targets :
         createObsidianNote(n, i, t) \/ updateObsidianNote(n, i, t)
    \/ \E n \in Notes : deleteObsidianNote(n)
    \/ enqueueMemoryProjection

Hermes == (\E n \in Natives : HermesAdds(n)) \/ (\E e \in hermes.entries : HermesRemoves(e))

Step(p) ==
    \/ leaseMemoryProjectionJobs(p) \/ Snapshot(p) \/ ListNotes(p) \/ ImportEntry(p)
    \/ ListAgain(p) \/ Apply(p) \/ markObsidianProjection(p) \/ completeMemoryProjectionJob(p)
    \/ retryMemoryProjectionJob(p) \/ markObsidianProjectionFailed(p)

Time == \E i \in DOMAIN jobs : LeaseExpires(i) \/ RetryDelayPasses(i)

Next ==
    \/ Owner
    \/ Hermes
    \/ Time
    \/ \E p \in scenario.processes : Step(p) \/ CallFails(p) \/ PersistenceFails(p) \/ Crash(p)

\* The worker's interval timer runs, calls end or time out, and leases lapse.
Fairness == WF_vars(Time) /\ \A p \in UNION {c.processes : c \in Scenarios} :
                                      WF_vars(p \in scenario.processes /\ Step(p))

Spec == Init /\ [][Next]_vars /\ Fairness

-----------------------------------------------------------------------------
\* One queued job, one job in processing; a lease belongs to the job in processing.
TypeOK ==
    /\ \A n \in Notes :
         /\ notes[n].status \in {"pending", "materialized", "excluded", "conflict", "failed"}
         /\ notes[n].synced <= notes[n].revision /\ notes[n].revision <= clock
    /\ \A i \in DOMAIN jobs :
         /\ jobs[i].state \in Active \union {"completed", "dead"}
         /\ jobs[i].state = "processing" <=> jobs[i].holder # 0
         /\ jobs[i].lapsed => jobs[i].state = "processing"
    /\ \A i, k \in DOMAIN jobs : i # k =>
         /\ ~(jobs[i].state \in Queued /\ jobs[k].state \in Queued)
         /\ ~(jobs[i].state = "processing" /\ jobs[k].state = "processing")

\* hermes_synced_revision names a revision that was in a projection Hermes has
\* accepted, whatever was written while the projection was on its way.
SyncedWasApplied ==
    \A n \in Notes : notes[n].synced # 0 => [note |-> n, revision |-> notes[n].synced] \in applied

\* What Hermes wrote itself is in its memory or in a note until the owner or
\* Hermes deletes it: no projection overwrites an entry that was not imported.
\* The one exception is WrittenAgain.
NativeKept == \A n \in atStake : Native(n) \in hermes.entries \/ notes[n].present

\* With one server process the owner is never told that the memory is
\* synchronised while a note is still pending: a job is under way, or dead.
PendingIsVisible ==
    OneProcess /\ (\E n \in Notes : notes[n].present /\ notes[n].status = "pending")
        => getMemoryProjectionStatus \in Active \union {"dead"}

\* With one server process, and when the owner is told that the last job is
\* completed, the statuses say what the last projection holds: a materialized
\* note is there in its current revision, an excluded or conflicting one is not.
StatusIsTruth ==
    OneProcess /\ getMemoryProjectionStatus = "completed" =>
    \A n \in Notes : notes[n].present =>
         /\ notes[n].status = "materialized" =>
              [note |-> n, revision |-> notes[n].revision] \in hermes.manifest
         /\ notes[n].status \in {"excluded", "conflict"} =>
              \A e \in hermes.manifest : e.note = n => e.revision < notes[n].born

\* Every job ends: leases lapse, failing jobs die, and no lease is left behind.
QueueDrains == <>[](\A i \in DOMAIN jobs : jobs[i].state \notin Active)

\* What the documentation says of a note in conflict: it stays out of Hermes,
\* and in conflict, until the owner has reviewed it.
ConflictStaysOut ==
    [][\A n \in Notes : notes[n].status = "conflict" /\ notes'[n].revision = notes[n].revision
         => notes'[n].status = "conflict"]_vars

\* Together: no projection loses what Hermes or the owner wrote while it was under
\* way, with leases that lapse under their holder.
ProjectionInv == TypeOK /\ SyncedWasApplied /\ NativeKept

\* Together: what the owner is told of the synchronisation is true.
StatusInv == PendingIsVisible /\ StatusIsTruth
==============================================================================
