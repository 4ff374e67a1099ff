----------------------- MODULE MemoryProjectionProofs -----------------------
(* Proofs about MemoryProjection for every set of notes, every number of server *)
(* processes and every bound on the events.                                     *)
EXTENDS MemoryProjection, SequenceTheorems, TLAPS

-----------------------------------------------------------------------------
(* The inductive invariant. *)

NoteStatuses == {"pending", "materialized", "excluded", "conflict", "failed"}
Note == [present : BOOLEAN, revision : Nat, born : Nat, status : NoteStatuses,
         synced : Nat, importance : Nat, target : {"memory", "user", "none"}]
JobStates == Active \union {"completed", "dead"}
Job == [state : JobStates, attempts : Nat, due : BOOLEAN, holder : Nat, lapsed : BOOLEAN]
Entry == [note : Notes, revision : Nat]
Memory == [entries : SUBSET Entry, manifest : SUBSET Entry]
Working == {"snapshot", "list", "import", "apply", "mark", "complete", "failed"}
Process == [pc : Working \union {"idle", "dead"}, job : Nat, snapshot : Memory,
            known : SUBSET Notes, revisions : [Notes -> Nat], included : SUBSET Notes]

Types ==
    /\ scenario \in Scenarios
    /\ notes \in [Notes -> Note] /\ clock \in Nat
    /\ jobs \in Seq(Job)
    /\ worker \in [scenario.processes -> Process]
    /\ hermes \in Memory /\ applied \subseteq Entry /\ atStake \subseteq Notes

\* A revision is the number of a write; one that was marked was projected.
NotesInv ==
    \A n \in Notes :
        /\ notes[n].synced <= notes[n].revision /\ notes[n].revision <= clock
        /\ notes[n].present => notes[n].revision # 0
        /\ notes[n].synced # 0 => [note |-> n, revision |-> notes[n].synced] \in applied

\* Only a job in processing has a holder, and after a job that is active there is
\* nothing but the queued one: it is in processing, and the newest is queued.
JobsInv ==
    /\ \A i \in DOMAIN jobs : /\ jobs[i].state = "processing" <=> jobs[i].holder # 0
                              /\ jobs[i].lapsed => jobs[i].state = "processing"
    /\ \A i, k \in DOMAIN jobs : i < k /\ jobs[i].state \in Active =>
         jobs[i].state = "processing" /\ jobs[k].state \in Queued

\* What a synchronisation has read.  Before it applies, it has imported what
\* Hermes wrote itself; after that, what it sent was applied.
Work(p) ==
    /\ worker[p].pc # "idle" => worker[p].job \in DOMAIN jobs
    /\ \A n \in Notes : worker[p].revisions[n] <= clock
    /\ \A e \in worker[p].snapshot.manifest : e.revision # 0
    /\ worker[p].pc = "apply" =>
         Unimported(p) = {} /\ \A n \in worker[p].included : worker[p].revisions[n] # 0
    /\ worker[p].pc \in {"import", "apply"} =>
         \A n \in worker[p].known \intersect atStake :
             Native(n) \in worker[p].snapshot.entries => notes[n].present
    /\ worker[p].pc = "mark" => Projection(p) \subseteq applied

WorkInv == \A p \in scenario.processes : Work(p)

HermesInv == NativeKept /\ \A e \in hermes.manifest : e.revision # 0

\* For every number of processes.
IndInv == Types /\ NotesInv /\ JobsInv /\ WorkInv /\ HermesInv

HasQueued == \E i \in DOMAIN jobs : jobs[i].state \in Queued

\* The status of a note says what the last projection holds.
Truthful(n) ==
    /\ notes[n].status # "pending"
    /\ notes[n].status = "materialized" =>
         [note |-> n, revision |-> notes[n].revision] \in hermes.manifest
    /\ notes[n].status \in {"excluded", "conflict"} =>
         \A e \in hermes.manifest : e.note = n => e.revision < notes[n].born

AllTruthful == \A n \in Notes : notes[n].present => Truthful(n)

\* When the newest job is completed nothing is left to say; before the first job
\* there is no note.
Settled ==
    /\ jobs = <<>> => \A n \in Notes : ~notes[n].present
    /\ jobs # <<>> /\ jobs[Len(jobs)].state = "completed" => AllTruthful

\* The notes as the only process has read them: one that was written since is
\* pending and has a job of its own.
AsRead(p) ==
    \A n \in Notes :
        /\ notes[n].present =>
             Unchanged(p, n) \/ (notes[n].status = "pending" /\ HasQueued)
        /\ n \in worker[p].included /\ Unchanged(p, n) => n \notin Conflicts(p)

\* The only process keeps its job, whether or not its lease has lapsed.
SoleWorker(p) ==
    /\ worker[p].pc \in Working => Holds(p)
    /\ worker[p].pc \in {"apply", "mark"} => AsRead(p)
    /\ worker[p].pc = "mark" => hermes.manifest = Projection(p)
    /\ worker[p].pc = "complete" => HasQueued \/ AllTruthful

\* With one server process.
SoleInv == OneProcess => Settled /\ \A p \in scenario.processes : SoleWorker(p)

-----------------------------------------------------------------------------
(* The outbox. *)

\* A function on the first n numbers is a sequence.
LEMMA SeqForm ==
    ASSUME NEW S, NEW n \in Nat, NEW f \in [1 .. n -> S]
    PROVE  f \in Seq(S) /\ Len(f) = n /\ DOMAIN f = 1 .. n
<1>1. f \in Seq(S)
  BY SeqDef
<1>2. QED  BY <1>1

\* The jobs and their numbers.
LEMMA JobForm ==
    ASSUME Types
    PROVE  /\ DOMAIN jobs = 1 .. Len(jobs) /\ Len(jobs) \in Nat
           /\ \A i \in DOMAIN jobs : jobs[i] \in Job /\ i \in Nat
           /\ jobs \in [1 .. Len(jobs) -> Job]
  BY DEF Types

\* When some job is active the newest one is, and when one is queued it is that.
LEMMA LastOf ==
    ASSUME NEW js \in Seq(Job),
           \A i, k \in DOMAIN js : i < k /\ js[i].state \in Active =>
               js[i].state = "processing" /\ js[k].state \in Queued
    PROVE  /\ \A i \in DOMAIN js : js[i].state \in Active =>
                  js # <<>> /\ js[Len(js)].state \in Active
           /\ (\E i \in DOMAIN js : js[i].state \in Queued) => js # <<>> /\ js[Len(js)].state \in Queued
<1>1. ASSUME NEW i \in DOMAIN js, js[i].state \in Active
      PROVE  /\ js # <<>> /\ Len(js) \in DOMAIN js
             /\ i # Len(js) => js[i].state = "processing" /\ js[Len(js)].state \in Queued
  <2>1. i \in 1 .. Len(js) /\ Len(js) \in Nat /\ DOMAIN js = 1 .. Len(js)
    OBVIOUS
  <2>2. Len(js) \in DOMAIN js /\ js # <<>>
    BY <2>1
  <2>3. i # Len(js) => i < Len(js)
    BY <2>1
  <2>4. QED  BY <1>1, <2>2, <2>3
<1>2. QED  BY <1>1 DEF Active, Queued

\* The same of the outbox: its newest row tells whether work is left.
LEMMA LastActive ==
    ASSUME Types, JobsInv
    PROVE  /\ \A i \in DOMAIN jobs : jobs[i].state \in Active =>
                  jobs # <<>> /\ jobs[Len(jobs)].state \in Active
           /\ HasQueued => jobs # <<>> /\ jobs[Len(jobs)].state \in Queued
  BY LastOf DEF Types, JobsInv, HasQueued

\* One job changes: its state stays, or it ends, or it is queued as the only one.
LEMMA OneJob ==
    ASSUME Types, JobsInv, NEW i \in DOMAIN jobs, NEW j \in Job, jobs' = [jobs EXCEPT ![i] = j],
           j.state = "processing" <=> j.holder # 0, j.lapsed => j.state = "processing",
           \/ j.state = jobs[i].state
           \/ /\ jobs[i].state = "processing"
              /\ j.state \in {"completed", "dead"} \/ (j.state = "retry" /\ ~HasQueued)
    PROVE  /\ jobs' \in Seq(Job) /\ DOMAIN jobs' = DOMAIN jobs /\ Len(jobs') = Len(jobs)
           /\ jobs'[i] = j /\ \A k \in DOMAIN jobs : k # i => jobs'[k] = jobs[k]
           /\ JobsInv'
<1>1. /\ DOMAIN jobs = 1 .. Len(jobs) /\ Len(jobs) \in Nat
      /\ jobs \in [1 .. Len(jobs) -> Job]
  BY JobForm
<1>2. jobs' \in [1 .. Len(jobs) -> Job]
  BY <1>1
<1>3. jobs' \in Seq(Job) /\ DOMAIN jobs' = DOMAIN jobs /\ Len(jobs') = Len(jobs)
  BY <1>1, <1>2, SeqForm
<1>4. jobs'[i] = j /\ \A k \in DOMAIN jobs : k # i => jobs'[k] = jobs[k]
  BY <1>1
<1>5. ASSUME NEW a \in DOMAIN jobs, NEW b \in DOMAIN jobs, a < b, jobs'[a].state \in Active
      PROVE  jobs'[a].state = "processing" /\ jobs'[b].state \in Queued
  <2>1. jobs[a].state \in Active
    BY <1>4, <1>5 DEF Active, Queued
  <2>2. jobs[a].state = "processing" /\ jobs[b].state \in Queued
    BY <1>5, <2>1 DEF JobsInv
  <2>3. HasQueued
    BY <2>2 DEF HasQueued
  <2>4. QED  BY <1>4, <1>5, <2>2, <2>3 DEF Active, Queued
<1>6. JobsInv'
  BY <1>3, <1>4, <1>5 DEF JobsInv
<1>7. QED  BY <1>3, <1>4, <1>6

\* A request leaves a queued job behind and no other job is touched.
LEMMA EnqueueStep ==
    ASSUME Types, JobsInv, jobs' = enqueueMemoryProjectionWithClient
    PROVE  /\ jobs' \in Seq(Job) /\ JobsInv' /\ HasQueued' /\ DOMAIN jobs \subseteq DOMAIN jobs'
           /\ \A i \in DOMAIN jobs : jobs[i].state = "processing" => jobs'[i] = jobs[i]
<1>1. /\ DOMAIN jobs = 1 .. Len(jobs) /\ Len(jobs) \in Nat
      /\ \A i \in DOMAIN jobs : jobs[i] \in Job /\ i \in Nat
  BY JobForm
<1>2. NewJob \in Job /\ NewJob.state = "pending" /\ NewJob.holder = 0 /\ ~NewJob.lapsed
  BY DEF NewJob, Job, JobStates, Active, Queued
<1>3. CASE HasQueued
  <2>1. jobs' = [i \in DOMAIN jobs |-> IF jobs[i].state \in Queued THEN NewJob ELSE jobs[i]]
    BY <1>3 DEF enqueueMemoryProjectionWithClient, HasQueued
  <2>2. jobs' \in [1 .. Len(jobs) -> Job]
    BY <1>1, <1>2, <2>1
  <2>3. jobs' \in Seq(Job) /\ DOMAIN jobs' = DOMAIN jobs
    BY <1>1, <2>2, SeqForm
  <2>4. \A i \in DOMAIN jobs : jobs'[i] = IF jobs[i].state \in Queued THEN NewJob ELSE jobs[i]
    BY <2>1
  <2>5. HasQueued'
    BY <1>2, <1>3, <2>3, <2>4 DEF HasQueued, Queued
  <2>6. JobsInv'
    BY <1>1, <1>2, <2>3, <2>4 DEF JobsInv, Active, Queued
  <2>7. QED  BY <2>3, <2>4, <2>5, <2>6 DEF Queued
<1>4. CASE ~HasQueued
  <2>1. jobs' = Append(jobs, NewJob)
    BY <1>4 DEF enqueueMemoryProjectionWithClient, HasQueued
  <2>2. /\ jobs' \in Seq(Job) /\ DOMAIN jobs' = 1 .. Len(jobs) + 1
        /\ \A i \in DOMAIN jobs : jobs'[i] = jobs[i]
        /\ jobs'[Len(jobs) + 1] = NewJob
    BY <1>1, <1>2, <2>1 DEF Types
  <2>3. \A i \in DOMAIN jobs' : i \in DOMAIN jobs \/ i = Len(jobs) + 1
    BY <1>1, <2>2
  <2>4. HasQueued'
    <3>1. Len(jobs) + 1 \in DOMAIN jobs'
      BY <1>1, <2>2
    <3>2. QED  BY <1>2, <2>2, <3>1 DEF HasQueued, Queued
  <2>5. \A i \in DOMAIN jobs' : /\ jobs'[i].state = "processing" <=> jobs'[i].holder # 0
                                /\ jobs'[i].lapsed => jobs'[i].state = "processing"
    BY <1>2, <2>2, <2>3 DEF JobsInv
  <2>6. ASSUME NEW a \in DOMAIN jobs', NEW b \in DOMAIN jobs', a < b, jobs'[a].state \in Active
        PROVE  jobs'[a].state = "processing" /\ jobs'[b].state \in Queued
    <3>1. a \in DOMAIN jobs
      BY <1>1, <2>2, <2>6
    <3>2. jobs[a].state = "processing"
      BY <1>4, <2>2, <2>6, <3>1 DEF HasQueued, Active
    <3>3. QED  BY <1>2, <2>2, <2>3, <2>6, <3>1, <3>2 DEF JobsInv, Queued
  <2>7. QED  BY <1>1, <2>2, <2>4, <2>5, <2>6 DEF JobsInv
<1>5. QED  BY <1>3, <1>4

\* The job that is leased is the newest one, and no other is active.
LEMMA LeaseStep ==
    ASSUME Types, JobsInv, NEW p \in Nat \ {0}, NEW i \in DOMAIN jobs,
           \A k \in DOMAIN jobs : jobs[k].state = "processing" => jobs[k].lapsed,
           Recovered[i].state \in Queued,
           jobs' = [Recovered EXCEPT ![i].state = "processing", ![i].holder = p,
                                     ![i].attempts = @ + 1]
    PROVE  /\ jobs' \in Seq(Job) /\ JobsInv' /\ DOMAIN jobs' = DOMAIN jobs
           /\ Len(jobs') = Len(jobs) /\ i = Len(jobs)
           /\ jobs'[i].state = "processing" /\ jobs'[i].holder = p
<1>1. /\ DOMAIN jobs = 1 .. Len(jobs) /\ Len(jobs) \in Nat
      /\ \A k \in DOMAIN jobs : jobs[k] \in Job /\ k \in Nat
  BY JobForm
<1> DEFINE r(k) == [jobs[k] EXCEPT !.state = IF HasQueued THEN "completed" ELSE "retry",
                                   !.due = TRUE, !.holder = 0, !.lapsed = FALSE]
<1>2. /\ DOMAIN Recovered = DOMAIN jobs
      /\ \A k \in DOMAIN jobs : Recovered[k] = IF ~jobs[k].lapsed THEN jobs[k] ELSE r(k)
  BY DEF Recovered, HasQueued
<1>3. ASSUME NEW k \in DOMAIN jobs
      PROVE  /\ r(k) \in Job /\ r(k).holder = 0 /\ ~r(k).lapsed
             /\ r(k).state = IF HasQueued THEN "completed" ELSE "retry"
  BY <1>1 DEF Job, JobStates, Active, Queued
<1> HIDE DEF r
<1>4. ASSUME NEW k \in DOMAIN jobs
      PROVE  /\ Recovered[k] \in Job /\ Recovered[k].state # "processing"
             /\ Recovered[k].holder = 0 /\ ~Recovered[k].lapsed
  <2>1. jobs[k].state = "processing" <=> jobs[k].lapsed
    BY DEF JobsInv
  <2>2. jobs[k].state # "processing" => jobs[k].holder = 0
    BY DEF JobsInv
  <2>3. QED  BY <1>1, <1>2, <1>3, <2>1, <2>2
<1>5. \A k \in DOMAIN jobs : Recovered[k].state \in Active => jobs[k].state \in Active
  BY <1>2, <1>3 DEF JobsInv, Active
<1>6. ASSUME NEW k \in DOMAIN jobs, k > i PROVE FALSE
  <2>1. jobs[i].state \in Active
    BY <1>5 DEF Active
  <2>2. jobs[i].state = "processing" /\ jobs[k].state \in Queued
    BY <1>1, <1>6, <2>1 DEF JobsInv
  <2>3. HasQueued /\ jobs[i].lapsed
    BY <2>2 DEF HasQueued
  <2>4. QED  BY <1>2, <1>3, <2>3 DEF Queued
<1>7. i = Len(jobs)
  <2>1. Len(jobs) \in DOMAIN jobs /\ (i = Len(jobs) \/ Len(jobs) > i)
    BY <1>1
  <2>2. QED  BY <1>6, <2>1
<1> DEFINE j == [Recovered[i] EXCEPT !.state = "processing", !.holder = p, !.attempts = @ + 1]
<1>8. j \in Job /\ j.state = "processing" /\ j.holder = p
  <2>1. PICK n \in Nat : n = Recovered[i].attempts + 1
    BY <1>4 DEF Job
  <2>2. j = [Recovered[i] EXCEPT !.state = "processing", !.holder = p, !.attempts = n]
    BY <2>1
  <2>3. "processing" \in JobStates /\ p \in Nat
    BY DEF JobStates, Active
  <2> HIDE DEF j
  <2>4. QED  BY ONLY <1>4, <2>1, <2>2, <2>3 DEF Job
<1> HIDE DEF j
<1>9. jobs' = [Recovered EXCEPT ![i] = j]
  BY <1>2 DEF j
<1>10. Recovered \in [1 .. Len(jobs) -> Job]
  BY <1>1, <1>2, <1>4 DEF Recovered
<1>11. /\ jobs' \in [1 .. Len(jobs) -> Job] /\ jobs'[i] = j
       /\ \A k \in DOMAIN jobs : k # i => jobs'[k] = Recovered[k]
  BY <1>1, <1>8, <1>9, <1>10
<1>12. jobs' \in Seq(Job) /\ DOMAIN jobs' = DOMAIN jobs /\ Len(jobs') = Len(jobs)
  BY ONLY <1>1, <1>11, SeqForm
<1>13. ASSUME NEW a \in DOMAIN jobs, NEW b \in DOMAIN jobs, a < b
       PROVE  jobs'[a].state \notin Active
  <2>1. a # i
    BY <1>1, <1>7, <1>13
  <2>2. jobs'[a] = Recovered[a]
    BY <1>11, <2>1
  <2> SUFFICES ASSUME Recovered[a].state \in Active PROVE FALSE
    BY <2>2
  <2>3. a < i /\ jobs[a].state \in Active
    BY <1>1, <1>5, <1>7, <2>1
  <2>4. jobs[a].state = "processing" /\ jobs[i].state \in Queued
    BY <2>3 DEF JobsInv
  <2>5. HasQueued /\ jobs[a].lapsed
    BY <2>4 DEF HasQueued
  <2>6. QED  BY <1>2, <1>3, <2>5 DEF Active, Queued
<1>14. JobsInv'
  BY <1>4, <1>8, <1>11, <1>12, <1>13 DEF JobsInv
<1>15. QED  BY <1>7, <1>8, <1>11, <1>12, <1>14

-----------------------------------------------------------------------------
(* Notes and processes. *)

\* A save gives the note a new revision and nothing else changes.
LEMMA SavedStep ==
    ASSUME Types, NotesInv, NEW n \in Notes, NEW i \in Nat, NEW t \in {"memory", "user", "none"},
           notes' = [notes EXCEPT ![n] = Saved(n, i, t)], clock' = clock + 1, applied' = applied
    PROVE  /\ notes' \in [Notes -> Note] /\ clock' \in Nat /\ NotesInv'
           /\ notes'[n].present /\ notes'[n].status = "pending" /\ notes'[n].revision = clock + 1
           /\ \A m \in Notes : m # n => notes'[m] = notes[m]
<1>1. notes \in [Notes -> Note] /\ notes[n] \in Note /\ clock \in Nat
  BY DEF Types
<1> DEFINE s == Saved(n, i, t)
<1>2. /\ s \in Note /\ s.present /\ s.status = "pending" /\ s.revision = clock + 1
      /\ s.synced \in {notes[n].synced, 0}
  <2> DEFINE b == IF notes[n].present THEN notes[n].born ELSE clock + 1
             y == IF notes[n].present THEN notes[n].synced ELSE 0
             c == clock + 1
  <2>1. b \in Nat /\ y \in Nat /\ c \in Nat /\ y \in {notes[n].synced, 0}
    BY <1>1 DEF Note
  <2>2. s = [notes[n] EXCEPT !.present = TRUE, !.revision = c, !.status = "pending",
                             !.born = b, !.synced = y, !.importance = i, !.target = t]
    BY DEF Saved
  <2>3. "pending" \in NoteStatuses
    BY DEF NoteStatuses
  <2> HIDE DEF b, y, c, s
  <2>4. /\ s \in Note /\ s.present /\ s.status = "pending" /\ s.revision = c /\ s.synced = y
    BY <1>1, <2>1, <2>2, <2>3 DEF Note
  <2>5. QED  BY <2>1, <2>4 DEF c
<1> HIDE DEF s
<1>3. /\ notes' \in [Notes -> Note] /\ notes'[n] = s
      /\ \A m \in Notes : m # n => notes'[m] = notes[m]
  BY <1>1, <1>2 DEF s
<1>4. \A m \in Notes : notes[m].revision \in Nat /\ notes[m].synced \in Nat
  BY <1>1 DEF Note
<1>5. NotesInv'
  BY <1>1, <1>2, <1>3, <1>4 DEF NotesInv
<1>6. QED  BY <1>1, <1>2, <1>3, <1>5

\* What a process has read does not become wrong by what others do.
LEMMA KeepWork ==
    ASSUME Types, NEW p \in scenario.processes, Work(p), worker'[p] = worker[p],
           DOMAIN jobs \subseteq DOMAIN jobs', clock' \in Nat, clock <= clock',
           applied \subseteq applied',
           \A n \in atStake' : n \in atStake /\ (notes[n].present => notes'[n].present)
    PROVE  Work(p)'
<1>1. \A n \in Notes : worker[p].revisions[n] \in Nat /\ clock \in Nat
  BY DEF Types, Process
<1>2. \A n \in Notes : worker'[p].revisions[n] <= clock'
  BY <1>1 DEF Work
<1>3. QED  BY <1>2 DEF Work, Unimported, Projection

\* A process that knows nothing.
LEMMA IdleForm ==
    /\ Idle \in Process /\ Idle.pc = "idle" /\ Idle.snapshot.manifest = {}
    /\ \A n \in Notes : Idle.revisions[n] = 0
<1>1. [n \in Notes |-> 0] \in [Notes -> Nat] /\ [entries |-> {}, manifest |-> {}] \in Memory
  BY DEF Memory
<1>2. QED  BY <1>1 DEF Idle, Process

\* A step of process p, as far as the others and the rest are concerned.
LEMMA ProcessStep ==
    ASSUME IndInv, NEW p \in scenario.processes, NEW w \in Process,
           worker' = [worker EXCEPT ![p] = w], UNCHANGED <<scenario, atStake>>,
           notes' \in [Notes -> Note], NotesInv', clock' \in Nat, clock <= clock',
           \A n \in Notes : notes[n].present => notes'[n].present,
           applied' \subseteq Entry, applied \subseteq applied',
           jobs' \in Seq(Job), JobsInv', DOMAIN jobs \subseteq DOMAIN jobs',
           hermes' \in Memory, HermesInv', worker'[p] = w => Work(p)'
    PROVE  IndInv' /\ worker'[p] = w
<1>1. worker \in [scenario.processes -> Process] /\ atStake \subseteq Notes
  BY DEF IndInv, Types
<1>2. /\ worker' \in [scenario'.processes -> Process] /\ worker'[p] = w
      /\ \A q \in scenario.processes : q # p => worker'[q] = worker[q]
  BY <1>1
<1>3. Types'
  BY <1>1, <1>2 DEF IndInv, Types
<1>4. ASSUME NEW q \in scenario.processes, q # p PROVE Work(q)'
  BY <1>1, <1>2, <1>4, KeepWork DEF IndInv, WorkInv
<1>5. WorkInv'
  BY <1>2, <1>4 DEF WorkInv
<1>6. QED  BY <1>2, <1>3, <1>5 DEF IndInv

\* Such a step that changes nothing but the process.
LEMMA QuietStep ==
    ASSUME IndInv, NEW p \in scenario.processes, NEW w \in Process,
           worker' = [worker EXCEPT ![p] = w],
           UNCHANGED <<scenario, notes, clock, jobs, hermes, applied, atStake>>,
           worker'[p] = w => Work(p)'
    PROVE  IndInv' /\ worker'[p] = w
<1>1. /\ notes' \in [Notes -> Note] /\ clock' \in Nat /\ clock <= clock'
      /\ applied' \subseteq Entry /\ jobs' \in Seq(Job) /\ hermes' \in Memory
      /\ applied \subseteq applied' /\ DOMAIN jobs \subseteq DOMAIN jobs'
      /\ \A n \in Notes : notes[n].present => notes'[n].present
  BY DEF IndInv, Types
<1>2. NotesInv' /\ JobsInv' /\ HermesInv'
  BY DEF IndInv, NotesInv, JobsInv, HermesInv, NativeKept
<1>3. QED  BY <1>1, <1>2, ProcessStep

\* A process that goes on without having read anything.
LEMMA GoForm ==
    ASSUME IndInv, NEW p \in scenario.processes, NEW s \in Working \union {"dead"}
    PROVE  LET w == [worker[p] EXCEPT !.pc = s] IN
           /\ w \in Process /\ w.pc = s /\ w.job = worker[p].job
           /\ w.snapshot = worker[p].snapshot /\ w.known = worker[p].known
           /\ w.revisions = worker[p].revisions /\ w.included = worker[p].included
<1>1. worker[p] \in Process
  BY DEF IndInv, Types
<1>2. QED  BY <1>1 DEF Process

\* What becomes of a process that has nothing more to read.
LEMMA GoWork ==
    ASSUME IndInv, NEW p \in scenario.processes, worker[p].pc # "idle",
           NEW s \in {"complete", "failed", "dead"},
           worker'[p] = [worker[p] EXCEPT !.pc = s], DOMAIN jobs \subseteq DOMAIN jobs',
           clock' = clock
    PROVE  Work(p)'
<1>1. s \in Working \union {"dead"}
  BY DEF Working
<1>2. /\ worker'[p].pc = s /\ worker'[p].job = worker[p].job
      /\ worker'[p].snapshot = worker[p].snapshot
      /\ worker'[p].revisions = worker[p].revisions
  BY <1>1, GoForm
<1>3. Work(p)
  BY DEF IndInv, WorkInv
<1>4. QED  BY <1>2, <1>3 DEF Work

\* An idle process owes nothing.
LEMMA IdleWork ==
    ASSUME NEW p, worker'[p] = Idle, clock' \in Nat
    PROVE  Work(p)'
  BY IdleForm DEF Work

-----------------------------------------------------------------------------
(* The owner, Hermes and time. *)

\* The owner's three operations: a job is queued, and what is written is pending
\* or gone.
OwnerWrites ==
    /\ jobs' = enqueueMemoryProjectionWithClient
    /\ UNCHANGED <<scenario, worker, hermes, applied>>
    /\ \A n \in Notes :
         \/ notes'[n] = notes[n]
         \/ ~notes'[n].present
         \/ notes'[n].present /\ notes'[n].status = "pending" /\ notes'[n].revision = clock + 1

\* Whatever the owner does is a write or a request of OwnerWrites.
LEMMA OwnerForm ==
    ASSUME IndInv, Owner
    PROVE  IndInv' /\ OwnerWrites
<1>1. ASSUME jobs' = enqueueMemoryProjectionWithClient, UNCHANGED <<scenario, worker, hermes, applied>>,
             notes' \in [Notes -> Note], clock' \in Nat, clock <= clock', NotesInv',
             atStake' \subseteq atStake,
             \A n \in atStake' : notes[n].present => notes'[n].present
      PROVE  IndInv'
  <2>1. /\ jobs' \in Seq(Job) /\ JobsInv' /\ DOMAIN jobs \subseteq DOMAIN jobs'
    BY <1>1, EnqueueStep DEF IndInv
  <2>2. Types'
    BY <1>1, <2>1 DEF IndInv, Types
  <2>3. WorkInv'
    <3>1. \A q \in scenario.processes : Work(q)'
      BY <1>1, <2>1, KeepWork DEF IndInv, WorkInv
    <3>2. QED  BY <1>1, <3>1 DEF WorkInv
  <2>4. HermesInv'
    BY <1>1 DEF IndInv, HermesInv, NativeKept
  <2>5. QED  BY <1>1, <2>1, <2>2, <2>3, <2>4 DEF IndInv
<1>2. ASSUME NEW n \in Notes, NEW i \in Importances, NEW t \in Targets, Write(n, i, t)
      PROVE  IndInv' /\ OwnerWrites
  <2>1. /\ notes' = [notes EXCEPT ![n] = Saved(n, i, t)] /\ clock' = clock + 1
        /\ jobs' = enqueueMemoryProjectionWithClient
        /\ UNCHANGED <<scenario, worker, hermes, applied, atStake>>
    BY <1>2 DEF Write
  <2>2. i \in Nat /\ t \in {"memory", "user", "none"}
    BY ProjectionAssumption
  <2>3. /\ notes' \in [Notes -> Note] /\ clock' \in Nat /\ NotesInv'
        /\ notes'[n].present /\ notes'[n].status = "pending" /\ notes'[n].revision = clock + 1
        /\ \A m \in Notes : m # n => notes'[m] = notes[m]
    BY <2>1, <2>2, SavedStep DEF IndInv
  <2>4. clock <= clock' /\ \A m \in Notes : notes[m].present => notes'[m].present
    BY <2>1, <2>3 DEF IndInv, Types
  <2>5. atStake \subseteq Notes
    BY DEF IndInv, Types
  <2>6. QED  BY <1>1, <2>1, <2>3, <2>4, <2>5 DEF OwnerWrites
<1>3. ASSUME NEW n \in Notes, deleteObsidianNote(n)
      PROVE  IndInv' /\ OwnerWrites
  <2>1. /\ notes' = [notes EXCEPT ![n] = NoNote] /\ atStake' = atStake \ {n}
        /\ jobs' = enqueueMemoryProjectionWithClient
        /\ UNCHANGED <<scenario, clock, worker, hermes, applied>>
    BY <1>3 DEF deleteObsidianNote
  <2>2. NoNote \in Note /\ ~NoNote.present /\ NoNote.synced = 0 /\ NoNote.revision = 0
    BY DEF NoNote, Note, NoteStatuses
  <2>3. /\ notes' \in [Notes -> Note] /\ notes'[n] = NoNote
        /\ \A m \in Notes : m # n => notes'[m] = notes[m]
    BY <2>1, <2>2 DEF IndInv, Types
  <2>4. NotesInv' /\ clock' \in Nat /\ clock <= clock' /\ atStake \subseteq Notes
    BY <2>1, <2>2, <2>3 DEF IndInv, Types, NotesInv
  <2>5. QED  BY <1>1, <2>1, <2>2, <2>3, <2>4 DEF OwnerWrites
<1>4. ASSUME enqueueMemoryProjection
      PROVE  IndInv' /\ OwnerWrites
  <2>1. /\ jobs' = enqueueMemoryProjectionWithClient
        /\ UNCHANGED <<scenario, notes, clock, worker, hermes, applied, atStake>>
    BY <1>4 DEF enqueueMemoryProjection
  <2>2. NotesInv' /\ clock' \in Nat /\ clock <= clock' /\ notes' \in [Notes -> Note]
    BY <2>1 DEF IndInv, Types, NotesInv
  <2>3. QED  BY <1>1, <2>1, <2>2 DEF OwnerWrites
<1>5. QED
  BY <1>2, <1>3, <1>4 DEF Owner, createObsidianNote, updateObsidianNote

\* Hermes changes its entries, never the manifest.
LEMMA HermesStep ==
    ASSUME IndInv, Hermes
    PROVE  IndInv' /\ hermes'.manifest = hermes.manifest
           /\ UNCHANGED <<scenario, notes, clock, jobs, worker, applied>>
<1>1. hermes \in Memory /\ atStake \subseteq Notes /\ clock \in Nat
  BY DEF IndInv, Types
<1>2. ASSUME UNCHANGED <<scenario, notes, clock, jobs, worker, applied>>, hermes' \in Memory,
             hermes'.manifest = hermes.manifest, atStake' \subseteq Notes, NativeKept',
             \A q \in scenario.processes : Work(q)'
      PROVE  IndInv'
  BY <1>2 DEF IndInv, Types, NotesInv, JobsInv, WorkInv, HermesInv
<1>3. ASSUME NEW n \in Natives, HermesAdds(n)
      PROVE  IndInv' /\ hermes'.manifest = hermes.manifest
             /\ UNCHANGED <<scenario, notes, clock, jobs, worker, applied>>
  <2>1. /\ hermes' = [hermes EXCEPT !.entries = @ \union {Native(n)}]
        /\ atStake' = IF WrittenAgain(n) THEN atStake ELSE atStake \union {n}
        /\ UNCHANGED <<scenario, notes, clock, jobs, worker, applied>>
    BY <1>3 DEF HermesAdds
  <2>2. n \in Notes /\ Native(n) \in Entry
    BY DEF Notes, Native, Entry
  <2>3. /\ hermes' \in Memory /\ hermes'.manifest = hermes.manifest
        /\ hermes'.entries = hermes.entries \union {Native(n)}
    BY <1>1, <2>1, <2>2 DEF Memory
  <2>4. NativeKept'
    BY <2>1, <2>3 DEF IndInv, HermesInv, NativeKept, Native
  <2>5. ASSUME NEW q \in scenario.processes PROVE Work(q)'
    <3>1. Work(q)
      BY DEF IndInv, WorkInv
    <3>2. ASSUME worker[q].pc \in {"import", "apply"}, NEW m \in worker[q].known \intersect atStake',
                 Native(m) \in worker[q].snapshot.entries
          PROVE  notes[m].present
      BY <2>1, <3>1, <3>2 DEF Work, WrittenAgain
    <3>3. QED  BY <2>1, <3>1, <3>2 DEF Work, Unimported, Projection, Native
  <2>6. QED  BY <1>1, <1>2, <2>1, <2>2, <2>3, <2>4, <2>5
<1>4. ASSUME NEW e \in hermes.entries, HermesRemoves(e)
      PROVE  IndInv' /\ hermes'.manifest = hermes.manifest
             /\ UNCHANGED <<scenario, notes, clock, jobs, worker, applied>>
  <2>1. /\ hermes' = [hermes EXCEPT !.entries = @ \ {e}] /\ atStake' = atStake \ {e.note}
        /\ UNCHANGED <<scenario, notes, clock, jobs, worker, applied>>
    BY <1>4 DEF HermesRemoves
  <2>2. /\ hermes' \in Memory /\ hermes'.manifest = hermes.manifest
        /\ hermes'.entries = hermes.entries \ {e}
    BY <1>1, <2>1 DEF Memory
  <2>3. NativeKept'
    <3>1. \A n \in atStake' : Native(n) # e
      BY <2>1 DEF Native
    <3>2. QED  BY <2>1, <2>2, <3>1 DEF IndInv, HermesInv, NativeKept, Native
  <2>4. \A q \in scenario.processes : Work(q)'
    BY <1>1, <2>1, KeepWork DEF IndInv, WorkInv
  <2>5. QED  BY <1>1, <1>2, <2>1, <2>2, <2>3, <2>4
<1>5. QED  BY <1>3, <1>4 DEF Hermes

\* Time passes: no job changes its state or its holder.
LEMMA TimeStep ==
    ASSUME IndInv, Time
    PROVE  /\ IndInv' /\ UNCHANGED <<scenario, notes, clock, worker, hermes, applied>>
           /\ DOMAIN jobs' = DOMAIN jobs /\ Len(jobs') = Len(jobs)
           /\ \A i \in DOMAIN jobs : jobs'[i].state = jobs[i].state /\ jobs'[i].holder = jobs[i].holder
<1>1. PICK i \in DOMAIN jobs : LeaseExpires(i) \/ RetryDelayPasses(i)
  BY DEF Time
<1>2. UNCHANGED <<scenario, notes, clock, worker, hermes, applied, atStake>>
  BY <1>1 DEF LeaseExpires, RetryDelayPasses
<1>3. jobs[i] \in Job
  BY JobForm DEF IndInv
<1>4. PICK j \in Job : /\ jobs' = [jobs EXCEPT ![i] = j] /\ j.state = jobs[i].state
                       /\ j.holder = jobs[i].holder
                       /\ j.lapsed => jobs[i].lapsed \/ jobs[i].state = "processing"
  <2>1. CASE LeaseExpires(i)
    <3> DEFINE j == [jobs[i] EXCEPT !.lapsed = TRUE]
    <3>1. jobs' = [jobs EXCEPT ![i] = j] /\ jobs[i].state = "processing"
      BY <2>1 DEF LeaseExpires
    <3>2. j \in Job /\ j.state = jobs[i].state /\ j.holder = jobs[i].holder
      BY <1>3 DEF Job
    <3> HIDE DEF j
    <3>3. QED  BY <3>1, <3>2
  <2>2. CASE RetryDelayPasses(i)
    <3> DEFINE j == [jobs[i] EXCEPT !.due = TRUE]
    <3>1. jobs' = [jobs EXCEPT ![i] = j]
      BY <2>2 DEF RetryDelayPasses
    <3>2. j \in Job /\ j.state = jobs[i].state /\ j.holder = jobs[i].holder
          /\ (j.lapsed => jobs[i].lapsed)
      BY <1>3 DEF Job
    <3> HIDE DEF j
    <3>3. QED  BY <3>1, <3>2
  <2>3. QED  BY <1>1, <2>1, <2>2
<1>5. /\ jobs[i].state = "processing" <=> jobs[i].holder # 0
      /\ jobs[i].lapsed => jobs[i].state = "processing"
  BY DEF IndInv, JobsInv
<1>6. /\ jobs' \in Seq(Job) /\ DOMAIN jobs' = DOMAIN jobs /\ Len(jobs') = Len(jobs)
      /\ jobs'[i] = j /\ \A k \in DOMAIN jobs : k # i => jobs'[k] = jobs[k]
      /\ JobsInv'
  BY <1>4, <1>5, OneJob DEF IndInv
<1>7. Types'
  BY <1>2, <1>6 DEF IndInv, Types
<1>8. NotesInv' /\ HermesInv'
  BY <1>2 DEF IndInv, NotesInv, HermesInv, NativeKept, Native
<1>9. WorkInv'
  <2>1. clock' \in Nat /\ clock <= clock'
    BY <1>2 DEF IndInv, Types
  <2>2. \A q \in scenario.processes : Work(q)'
    BY <1>2, <1>6, <2>1, KeepWork DEF IndInv, WorkInv
  <2>3. QED  BY <1>2, <2>2 DEF WorkInv
<1>10. QED  BY <1>2, <1>4, <1>6, <1>7, <1>8, <1>9 DEF IndInv

-----------------------------------------------------------------------------
(* The steps of a process, for every number of processes. *)

\* leaseMemoryProjectionJobs: the process starts on the newest job.
LEMMA LeaseInd ==
    ASSUME IndInv, NEW p \in scenario.processes, leaseMemoryProjectionJobs(p)
    PROVE  /\ IndInv' /\ UNCHANGED <<scenario, notes, hermes>>
           /\ worker'[p].pc = "snapshot" /\ Holds(p)'
           /\ jobs' # <<>> /\ jobs'[Len(jobs')].state = "processing"
<1>1. PICK i \in DOMAIN jobs :
         /\ Recovered[i].state \in Queued
         /\ jobs' = [Recovered EXCEPT ![i].state = "processing", ![i].holder = p,
                                      ![i].attempts = @ + 1]
         /\ worker' = [worker EXCEPT ![p].pc = "snapshot", ![p].job = i]
  BY DEF leaseMemoryProjectionJobs
<1>2. /\ \A k \in DOMAIN jobs : jobs[k].state = "processing" => jobs[k].lapsed
      /\ UNCHANGED <<scenario, notes, clock, hermes, applied, atStake>>
  BY DEF leaseMemoryProjectionJobs
<1>3. p \in Nat \ {0}
  BY ProjectionAssumption DEF IndInv, Types
<1>4. /\ jobs' \in Seq(Job) /\ JobsInv' /\ DOMAIN jobs' = DOMAIN jobs
      /\ Len(jobs') = Len(jobs) /\ i = Len(jobs)
      /\ jobs'[i].state = "processing" /\ jobs'[i].holder = p
  BY <1>1, <1>2, <1>3, LeaseStep DEF IndInv
<1>5. worker[p] \in Process /\ i \in Nat /\ worker \in [scenario.processes -> Process]
  BY JobForm DEF IndInv, Types
<1> DEFINE w == [worker[p] EXCEPT !.pc = "snapshot", !.job = i]
<1>6. w \in Process /\ w.pc = "snapshot" /\ w.job = i
      /\ w.snapshot = worker[p].snapshot /\ w.revisions = worker[p].revisions
  BY <1>5 DEF Process, Working
<1>7. worker' = [worker EXCEPT ![p] = w]
  BY <1>1, <1>5
<1> HIDE DEF w
<1>8. worker'[p] = w
  BY <1>5, <1>7
<1>9. Work(p)'
  <2>1. Work(p)
    BY DEF IndInv, WorkInv
  <2>2. QED  BY <1>2, <1>4, <1>6, <1>8, <2>1 DEF Work
<1>10. IndInv'
  <2>1. /\ notes' \in [Notes -> Note] /\ clock' \in Nat /\ clock <= clock'
        /\ applied' \subseteq Entry /\ hermes' \in Memory
    BY <1>2 DEF IndInv, Types
  <2>2. NotesInv' /\ HermesInv'
    BY <1>2 DEF IndInv, NotesInv, HermesInv, NativeKept, Native
  <2>3. QED  BY <1>2, <1>4, <1>6, <1>7, <1>9, <2>1, <2>2, ProcessStep
<1>11. jobs' # <<>>
  BY <1>4
<1>12. Holds(p)'
  BY <1>4, <1>6, <1>8 DEF Holds
<1>13. QED  BY <1>2, <1>4, <1>6, <1>8, <1>10, <1>11, <1>12

\* The calls that only read.
LEMMA SnapshotInd ==
    ASSUME IndInv, NEW p \in scenario.processes, Snapshot(p)
    PROVE  IndInv' /\ worker'[p].pc = "list" /\ worker'[p].job = worker[p].job
<1> DEFINE w == [Go(p, "list") EXCEPT !.snapshot = hermes]
<1>1. /\ worker[p].pc = "snapshot" /\ worker' = [worker EXCEPT ![p] = w]
      /\ UNCHANGED <<scenario, notes, clock, jobs, hermes, applied, atStake>>
  BY DEF Snapshot, At
<1>2. worker[p] \in Process /\ hermes \in Memory
  BY DEF IndInv, Types
<1>3. w \in Process /\ w.pc = "list" /\ w.job = worker[p].job /\ w.snapshot = hermes
      /\ w.revisions = worker[p].revisions
  BY <1>2 DEF Process, Working, Go
<1> HIDE DEF w
<1>4. ASSUME worker'[p] = w PROVE Work(p)'
  <2>1. Work(p) /\ \A e \in hermes.manifest : e.revision # 0
    BY DEF IndInv, WorkInv, HermesInv
  <2>2. QED  BY <1>1, <1>3, <1>4, <2>1 DEF Work
<1>5. QED  BY <1>1, <1>3, <1>4, QuietStep

\* nativeSources is a list of notes that exist.
LEMMA ListInd ==
    ASSUME IndInv, NEW p \in scenario.processes, ListNotes(p)
    PROVE  IndInv' /\ worker'[p].pc = "import" /\ worker'[p].job = worker[p].job
<1> DEFINE w == [Go(p, "import") EXCEPT !.known = Present \intersect Natives]
<1>1. /\ worker[p].pc = "list" /\ worker' = [worker EXCEPT ![p] = w]
      /\ UNCHANGED <<scenario, notes, clock, jobs, hermes, applied, atStake>>
  BY DEF ListNotes, At
<1>2. worker[p] \in Process /\ Present \intersect Natives \in SUBSET Notes
  BY DEF IndInv, Types, Present
<1>3. w \in Process /\ w.pc = "import" /\ w.job = worker[p].job
      /\ w.known = Present \intersect Natives /\ w.snapshot = worker[p].snapshot
      /\ w.revisions = worker[p].revisions
  BY <1>2 DEF Process, Working, Go
<1> HIDE DEF w
<1>4. ASSUME worker'[p] = w PROVE Work(p)'
  <2>1. Work(p)
    BY DEF IndInv, WorkInv
  <2>2. QED  BY <1>1, <1>3, <1>4, <2>1 DEF Work, Present
<1>5. QED  BY <1>1, <1>3, <1>4, QuietStep

\* An entry of Hermes becomes a note.
LEMMA ImportInd ==
    ASSUME IndInv, NEW p \in scenario.processes, ImportEntry(p)
    PROVE  /\ IndInv' /\ UNCHANGED <<scenario, jobs, hermes>>
           /\ worker'[p].pc = "import" /\ worker'[p].job = worker[p].job
<1>1. PICK n \in Unimported(p) : /\ notes' = [notes EXCEPT ![n] = Saved(n, 4, "memory")]
                                 /\ worker' = [worker EXCEPT ![p].known = @ \union {n}]
  BY DEF ImportEntry
<1>2. /\ worker[p].pc = "import" /\ clock' = clock + 1
      /\ UNCHANGED <<scenario, jobs, hermes, applied, atStake>>
  BY DEF ImportEntry, At
<1>3. /\ worker[p] \in Process /\ worker \in [scenario.processes -> Process] /\ clock \in Nat
      /\ jobs \in Seq(Job) /\ hermes \in Memory /\ applied \subseteq Entry /\ atStake \subseteq Notes
  BY DEF IndInv, Types
<1>4. n \in Notes
  <2>1. worker[p].snapshot.entries \subseteq Entry
    BY <1>3 DEF Process, Memory
  <2>2. QED  BY <2>1 DEF Unimported, Entry
<1>5. /\ notes' \in [Notes -> Note] /\ clock' \in Nat /\ NotesInv' /\ notes'[n].present
      /\ \A m \in Notes : m # n => notes'[m] = notes[m]
  BY <1>1, <1>2, <1>4, SavedStep DEF IndInv
<1> DEFINE w == [worker[p] EXCEPT !.known = @ \union {n}]
<1>6. w \in Process /\ w.pc = "import" /\ w.job = worker[p].job
      /\ w.known = worker[p].known \union {n} /\ w.snapshot = worker[p].snapshot
      /\ w.revisions = worker[p].revisions
  BY <1>2, <1>3, <1>4 DEF Process
<1>7. worker' = [worker EXCEPT ![p] = w]
  BY <1>1, <1>3
<1> HIDE DEF w
<1>8. ASSUME worker'[p] = w PROVE Work(p)'
  <2>1. Work(p)
    BY DEF IndInv, WorkInv
  <2>2. \A m \in Notes : worker[p].revisions[m] \in Nat /\ worker[p].revisions[m] <= clock
    BY <1>3, <2>1 DEF Process, Work
  <2>3. \A m \in Notes : worker'[p].revisions[m] <= clock'
    BY <1>2, <1>3, <1>6, <1>8, <2>2
  <2>4. \A m \in worker'[p].known \intersect atStake' :
            Native(m) \in worker'[p].snapshot.entries => notes'[m].present
    BY <1>2, <1>3, <1>5, <1>6, <1>8, <2>1 DEF Work
  <2>5. QED  BY <1>2, <1>6, <1>8, <2>1, <2>3, <2>4 DEF Work, Native
<1>9. clock <= clock' /\ \A m \in Notes : notes[m].present => notes'[m].present
  BY <1>2, <1>3, <1>5
<1>10. JobsInv' /\ HermesInv'
  BY <1>2, <1>3, <1>9 DEF IndInv, JobsInv, HermesInv, NativeKept, Native
<1>11. IndInv' /\ worker'[p] = w
  BY <1>2, <1>3, <1>5, <1>6, <1>7, <1>8, <1>9, <1>10, ProcessStep
<1>12. QED  BY <1>2, <1>6, <1>11

\* The projection is built from the second list, without the conflicts.
LEMMA ListAgainInd ==
    ASSUME IndInv, NEW p \in scenario.processes, ListAgain(p)
    PROVE  /\ IndInv' /\ UNCHANGED <<scenario, notes, jobs, hermes>>
           /\ worker'[p].pc = "apply" /\ worker'[p].job = worker[p].job
           /\ worker'[p].snapshot = worker[p].snapshot
           /\ \A n \in Notes : notes[n].present => worker'[p].revisions[n] = notes[n].revision
           /\ worker'[p].included \intersect Conflicts(p) = {}
<1> DEFINE r == [n \in Notes |-> IF notes[n].present THEN notes[n].revision ELSE 0]
<1>1. /\ worker[p].pc = "import" /\ Unimported(p) = {}
      /\ UNCHANGED <<scenario, notes, clock, jobs, hermes, applied, atStake>>
  BY DEF ListAgain, At
<1>2. PICK kept \in SUBSET (Present \ Conflicts(p)) :
         worker' = [worker EXCEPT ![p] = [Go(p, "apply") EXCEPT !.revisions = r, !.included = kept]]
  BY DEF ListAgain
<1>3. worker[p] \in Process /\ clock \in Nat /\ notes \in [Notes -> Note]
  BY DEF IndInv, Types
<1>4. r \in [Notes -> Nat] /\ \A n \in Notes : r[n] <= clock /\ (notes[n].present => r[n] = notes[n].revision)
  <2>1. \A n \in Notes : notes[n].revision \in Nat /\ notes[n].revision <= clock
    BY <1>3 DEF IndInv, NotesInv, Note
  <2>2. r \in [Notes -> Nat]
    BY <2>1
  <2>3. QED  BY <1>3, <2>1, <2>2
<1>5. kept \in SUBSET Notes /\ \A n \in kept : r[n] # 0
  BY <1>2 DEF Present, IndInv, NotesInv
<1> HIDE DEF r
<1> DEFINE w == [Go(p, "apply") EXCEPT !.revisions = r, !.included = kept]
<1>6. w \in Process /\ w.pc = "apply" /\ w.job = worker[p].job
      /\ w.known = worker[p].known /\ w.snapshot = worker[p].snapshot
      /\ w.revisions = r /\ w.included = kept
  BY <1>3, <1>4, <1>5 DEF Process, Working, Go
<1> HIDE DEF w
<1>7. ASSUME worker'[p] = w PROVE Work(p)'
  <2>1. Work(p)
    BY DEF IndInv, WorkInv
  <2>2. Unimported(p)' = {}
    BY <1>1, <1>6, <1>7 DEF Unimported
  <2>3. QED  BY <1>1, <1>4, <1>5, <1>6, <1>7, <2>1, <2>2 DEF Work, Native
<1>8. IndInv' /\ worker'[p] = w
  BY <1>1, <1>2, <1>6, <1>7, QuietStep DEF w
<1>9. QED  BY <1>1, <1>2, <1>4, <1>6, <1>8

\* An answered projection was applied, and so was one whose answer was lost: what
\* Hermes had written itself was in notes before.
LEMMA ApplyInd ==
    ASSUME IndInv, NEW p \in scenario.processes, Apply(p)
    PROVE  /\ IndInv' /\ UNCHANGED <<scenario, notes, jobs>>
           /\ worker'[p].pc \in {"mark", "failed"} /\ worker'[p].job = worker[p].job
           /\ worker'[p].pc = "mark" =>
                /\ worker'[p].snapshot = worker[p].snapshot
                /\ worker'[p].revisions = worker[p].revisions
                /\ worker'[p].included = worker[p].included
                /\ hermes'.manifest = Projection(p)
<1>1. worker[p].pc = "apply" /\ UNCHANGED <<scenario, notes, clock, jobs, atStake>>
  BY DEF Apply, At
<1>2. PICK s \in {"mark", "failed"} :
         /\ worker' = [worker EXCEPT ![p] = Go(p, s)]
         /\ \/ /\ worker[p].snapshot = hermes
               /\ hermes' = [entries |-> Projection(p), manifest |-> Projection(p)]
               /\ applied' = applied \union Projection(p)
            \/ s = "failed" /\ UNCHANGED <<hermes, applied>>
  BY DEF Apply, Expected
<1> DEFINE w == Go(p, s)
<1>3. /\ w \in Process /\ w.pc = s /\ w.job = worker[p].job /\ w.snapshot = worker[p].snapshot
      /\ w.known = worker[p].known /\ w.revisions = worker[p].revisions
      /\ w.included = worker[p].included
  <2>1. s \in Working \union {"dead"}
    BY DEF Working
  <2>2. QED  BY <2>1, GoForm DEF Go
<1> HIDE DEF w
<1>4. /\ worker[p] \in Process /\ jobs \in Seq(Job) /\ clock \in Nat
      /\ notes \in [Notes -> Note] /\ applied \subseteq Entry /\ hermes \in Memory
      /\ atStake \subseteq Notes /\ Work(p)
  BY DEF IndInv, Types, WorkInv
<1>5. Projection(p) \subseteq Entry /\ \A e \in Projection(p) : e.revision # 0
  BY <1>1, <1>4 DEF Projection, Entry, Process, Work
<1>6. applied' \subseteq Entry /\ applied \subseteq applied' /\ hermes' \in Memory
  BY <1>2, <1>4, <1>5 DEF Memory
<1>7. HermesInv'
  <2>1. CASE UNCHANGED hermes
    BY <1>1, <2>1 DEF IndInv, HermesInv, NativeKept, Native
  <2>2. CASE /\ worker[p].snapshot = hermes
             /\ hermes' = [entries |-> Projection(p), manifest |-> Projection(p)]
    <3>1. ASSUME NEW n \in atStake PROVE notes[n].present
      <4> SUFFICES ASSUME Native(n) \in hermes.entries PROVE notes[n].present
        BY DEF IndInv, HermesInv, NativeKept
      <4>1. Native(n) \in worker[p].snapshot.entries \ worker[p].snapshot.manifest
        BY <1>4, <2>2 DEF Work, Native
      <4>2. n \in worker[p].known
        <5>1. Native(n).note = n
          BY DEF Native
        <5>2. n \in {e.note : e \in worker[p].snapshot.entries \ worker[p].snapshot.manifest}
          BY <4>1, <5>1
        <5>3. Unimported(p) = {}
          BY <1>1, <1>4 DEF Work
        <5>4. QED  BY <5>2, <5>3 DEF Unimported
      <4>3. QED  BY <1>1, <1>4, <4>1, <4>2 DEF Work
    <3>2. NativeKept'
      BY <1>1, <3>1 DEF NativeKept
    <3>3. \A e \in hermes'.manifest : e.revision # 0
      BY <1>5, <2>2
    <3>4. QED  BY <3>2, <3>3 DEF HermesInv
  <2>3. QED  BY <1>2, <2>1, <2>2
<1>8. ASSUME worker'[p] = w PROVE Work(p)'
  <2>1. Projection(p)' = Projection(p)
    BY <1>3, <1>8 DEF Projection
  <2>2. QED  BY <1>1, <1>2, <1>3, <1>4, <1>8, <2>1 DEF Work
<1>9. NotesInv' /\ JobsInv'
  <2>1. NotesInv'
    BY <1>1, <1>6 DEF IndInv, NotesInv
  <2>2. QED  BY <1>1, <2>1 DEF IndInv, JobsInv
<1>10. clock <= clock'
  BY <1>1, <1>4
<1>11. IndInv' /\ worker'[p] = w
  BY <1>1, <1>2, <1>3, <1>4, <1>6, <1>7, <1>8, <1>9, <1>10, ProcessStep DEF w
<1>12. QED  BY <1>1, <1>2, <1>3, <1>11

\* A note that was not written since is marked; what is marked was applied.
LEMMA MarkInd ==
    ASSUME IndInv, NEW p \in scenario.processes, markObsidianProjection(p)
    PROVE  /\ IndInv' /\ worker'[p].pc = "complete" /\ worker'[p].job = worker[p].job
<1> DEFINE m(n) == IF ~Unchanged(p, n) THEN notes[n]
                   ELSE IF n \in Conflicts(p) THEN [notes[n] EXCEPT !.status = "conflict"]
                   ELSE IF n \in worker[p].included
                        THEN [notes[n] EXCEPT !.status = "materialized", !.synced = notes[n].revision]
                   ELSE [notes[n] EXCEPT !.status = "excluded"]
<1>1. /\ worker[p].pc = "mark" /\ notes' = [n \in Notes |-> m(n)]
      /\ worker' = [worker EXCEPT ![p] = Go(p, "complete")]
      /\ UNCHANGED <<scenario, clock, jobs, hermes, applied, atStake>>
  BY DEF markObsidianProjection, At
<1>2. /\ notes \in [Notes -> Note] /\ jobs \in Seq(Job) /\ clock \in Nat
      /\ applied \subseteq Entry /\ hermes \in Memory /\ Work(p)
  BY DEF IndInv, Types, WorkInv
<1>3. ASSUME NEW n \in Notes
      PROVE  /\ m(n) \in Note /\ m(n).present = notes[n].present
             /\ m(n).revision = notes[n].revision
             /\ \/ m(n).synced = notes[n].synced
                \/ /\ m(n).synced = notes[n].revision
                   /\ [note |-> n, revision |-> notes[n].revision] \in applied
  <2>1. notes[n] \in Note
    BY <1>2
  <2>2. ASSUME NEW s \in NoteStatuses
        PROVE  LET x == [notes[n] EXCEPT !.status = s] IN
               /\ x \in Note /\ x.present = notes[n].present /\ x.revision = notes[n].revision
               /\ x.synced = notes[n].synced
    BY <2>1 DEF Note
  <2>3. LET x == [notes[n] EXCEPT !.status = "materialized", !.synced = notes[n].revision] IN
        /\ x \in Note /\ x.present = notes[n].present /\ x.revision = notes[n].revision
        /\ x.synced = notes[n].revision
    BY <2>1 DEF Note, NoteStatuses
  <2>4. Unchanged(p, n) /\ n \in worker[p].included
          => [note |-> n, revision |-> notes[n].revision] \in applied
    BY <1>1, <1>2 DEF Work, Projection, Unchanged
  <2>5. "conflict" \in NoteStatuses /\ "excluded" \in NoteStatuses
    BY DEF NoteStatuses
  <2>6. QED  BY <2>1, <2>2, <2>3, <2>4, <2>5
<1> HIDE DEF m
<1>4. notes' \in [Notes -> Note] /\ \A n \in Notes : notes'[n] = m(n)
  BY <1>1, <1>3
<1>5. NotesInv'
  <2>1. \A n \in Notes : notes[n].revision \in Nat /\ notes[n].synced \in Nat
    BY <1>2 DEF Note
  <2>2. ASSUME NEW n \in Notes
        PROVE  /\ notes'[n].synced <= notes'[n].revision /\ notes'[n].revision <= clock
               /\ notes'[n].present => notes'[n].revision # 0
               /\ notes'[n].synced # 0 => [note |-> n, revision |-> notes'[n].synced] \in applied
    <3>1. /\ notes[n].synced <= notes[n].revision /\ notes[n].revision <= clock
          /\ notes[n].present => notes[n].revision # 0
          /\ notes[n].synced # 0 => [note |-> n, revision |-> notes[n].synced] \in applied
      BY DEF IndInv, NotesInv
    <3>2. notes'[n].present = notes[n].present /\ notes'[n].revision = notes[n].revision
      BY <1>3, <1>4
    <3>3. CASE notes'[n].synced = notes[n].synced
      BY <3>1, <3>2, <3>3
    <3>4. CASE /\ notes'[n].synced = notes[n].revision
               /\ [note |-> n, revision |-> notes[n].revision] \in applied
      BY <2>1, <3>1, <3>2, <3>4
    <3>5. QED  BY <1>3, <1>4, <3>3, <3>4
  <2>3. QED  BY <1>1, <2>2 DEF NotesInv
<1>6. \A n \in Notes : notes[n].present => notes'[n].present
  BY <1>3, <1>4
<1>7. JobsInv' /\ HermesInv'
  <2>1. atStake \subseteq Notes
    BY DEF IndInv, Types
  <2>2. QED  BY <1>1, <1>6, <2>1 DEF IndInv, JobsInv, HermesInv, NativeKept, Native
<1> DEFINE w == [worker[p] EXCEPT !.pc = "complete"]
<1>8. w \in Process /\ w.pc = "complete" /\ w.job = worker[p].job
  BY GoForm DEF Working
<1>9. worker' = [worker EXCEPT ![p] = w]
  BY <1>1 DEF Go
<1>10. worker'[p] = w => Work(p)'
  BY <1>1, GoWork
<1> HIDE DEF w
<1>11. clock <= clock'
  BY <1>1, <1>2
<1>12. IndInv' /\ worker'[p] = w
  BY <1>1, <1>2, <1>4, <1>5, <1>6, <1>7, <1>8, <1>9, <1>10, <1>11, ProcessStep
<1>13. QED  BY <1>8, <1>12

\* A job that ends has no holder; one that failed dies or is queued again only
\* when no other job is queued.
LEMMA EndForm ==
    ASSUME NEW x \in Job
    PROVE  /\ \A s \in JobStates : /\ Ended(x, s) \in Job /\ Ended(x, s).state = s
                                   /\ Ended(x, s).holder = 0 /\ ~Ended(x, s).lapsed
           /\ AfterFailure(x) \in Job /\ AfterFailure(x).holder = 0 /\ ~AfterFailure(x).lapsed
           /\ AfterFailure(x).state \in {"completed", "dead", "retry"}
           /\ AfterFailure(x).state = "completed" <=> HasQueued
<1>1. ASSUME NEW s \in JobStates
      PROVE  /\ Ended(x, s) \in Job /\ Ended(x, s).state = s
             /\ Ended(x, s).holder = 0 /\ ~Ended(x, s).lapsed
  BY DEF Ended, Job
<1>2. "completed" \in JobStates /\ "dead" \in JobStates /\ "retry" \in JobStates
  BY DEF JobStates, Active, Queued
<1> DEFINE y == [Ended(x, "retry") EXCEPT !.due = FALSE]
<1>3. y \in Job /\ y.state = "retry" /\ y.holder = 0 /\ ~y.lapsed
  BY <1>1, <1>2 DEF Job
<1> HIDE DEF y
<1>4. AfterFailure(x) = IF HasQueued THEN Ended(x, "completed")
                        ELSE IF x.attempts >= MaxAttempts THEN Ended(x, "dead") ELSE y
  BY DEF AfterFailure, HasQueued, y
<1>5. QED  BY <1>1, <1>2, <1>3, <1>4

\* The process gives up its job: it ends or stays as it is.
LEMMA LetGo ==
    ASSUME IndInv, NEW p \in scenario.processes, worker[p].pc # "idle",
           NEW w \in Process, worker' = [worker EXCEPT ![p] = w], worker'[p] = w => Work(p)',
           UNCHANGED <<scenario, notes, clock, hermes, applied, atStake>>,
           \/ jobs' = jobs
           \/ /\ Holds(p)
              /\ jobs' = [jobs EXCEPT ![worker[p].job] = Ended(@, "completed")]
           \/ /\ Holds(p)
              /\ jobs' = [jobs EXCEPT ![worker[p].job] = AfterFailure(@)]
    PROVE  IndInv' /\ DOMAIN jobs' = DOMAIN jobs /\ Len(jobs') = Len(jobs)
           /\ worker[p].job \in DOMAIN jobs /\ worker'[p] = w
           /\ \A k \in DOMAIN jobs : k # worker[p].job => jobs'[k] = jobs[k]
<1> DEFINE i == worker[p].job
<1>1. i \in DOMAIN jobs /\ jobs[i] \in Job
  BY JobForm DEF IndInv, WorkInv, Work
<1>2. /\ jobs' \in Seq(Job) /\ JobsInv' /\ DOMAIN jobs' = DOMAIN jobs /\ Len(jobs') = Len(jobs)
      /\ \A k \in DOMAIN jobs : k # i => jobs'[k] = jobs[k]
  <2>1. CASE jobs' = jobs
    BY <2>1 DEF IndInv, Types, JobsInv
  <2>2. CASE Holds(p) /\ jobs' = [jobs EXCEPT ![i] = Ended(@, "completed")]
    <3> DEFINE j == Ended(jobs[i], "completed")
    <3>1. jobs[i].state = "processing" /\ jobs' = [jobs EXCEPT ![i] = j]
      BY <2>2 DEF Holds
    <3>2. j \in Job /\ j.state = "completed" /\ j.holder = 0 /\ ~j.lapsed
      BY <1>1, EndForm DEF JobStates
    <3> HIDE DEF i, j
    <3>3. QED  BY <1>1, <3>1, <3>2, OneJob DEF IndInv
  <2>3. CASE Holds(p) /\ jobs' = [jobs EXCEPT ![i] = AfterFailure(@)]
    <3> DEFINE j == AfterFailure(jobs[i])
    <3>1. jobs[i].state = "processing" /\ jobs' = [jobs EXCEPT ![i] = j]
      BY <2>3 DEF Holds
    <3>2. /\ j \in Job /\ j.holder = 0 /\ ~j.lapsed /\ j.state \in {"completed", "dead", "retry"}
          /\ j.state = "completed" <=> HasQueued
      BY <1>1, EndForm
    <3> HIDE DEF i, j
    <3>3. QED  BY <1>1, <3>1, <3>2, OneJob DEF IndInv
  <2>4. QED  BY <2>1, <2>2, <2>3
<1>3. /\ notes' \in [Notes -> Note] /\ clock' \in Nat /\ clock <= clock'
      /\ applied' \subseteq Entry /\ hermes' \in Memory
  BY DEF IndInv, Types
<1>4. NotesInv' /\ HermesInv'
  BY DEF IndInv, NotesInv, HermesInv, NativeKept, Native
<1>5. IndInv' /\ worker'[p] = w
  BY <1>2, <1>3, <1>4, ProcessStep
<1>6. QED  BY <1>1, <1>2, <1>5

\* completeMemoryProjectionJob touches the job of the process only.
LEMMA CompleteInd ==
    ASSUME IndInv, NEW p \in scenario.processes, completeMemoryProjectionJob(p)
    PROVE  /\ IndInv' /\ UNCHANGED <<scenario, notes, hermes>> /\ worker'[p].pc = "idle"
           /\ worker[p].job \in DOMAIN jobs /\ Len(jobs') = Len(jobs)
           /\ \A k \in DOMAIN jobs : k # worker[p].job => jobs'[k] = jobs[k]
<1>1. /\ worker[p].pc = "complete" /\ worker' = [worker EXCEPT ![p] = Idle]
      /\ UNCHANGED <<scenario, notes, clock, hermes, applied, atStake>>
      /\ \/ jobs' = jobs
         \/ /\ Holds(p)
            /\ jobs' = [jobs EXCEPT ![worker[p].job] = Ended(@, "completed")]
  BY DEF completeMemoryProjectionJob, At, Done
<1>2. ASSUME worker'[p] = Idle PROVE Work(p)'
  BY <1>1, <1>2, IdleWork DEF IndInv, Types
<1>3. QED  BY <1>1, <1>2, IdleForm, LetGo

\* retryMemoryProjectionJob completes a job only when another one is queued.
LEMMA RetryInd ==
    ASSUME IndInv, NEW p \in scenario.processes, retryMemoryProjectionJob(p)
    PROVE  /\ IndInv' /\ UNCHANGED <<scenario, notes, hermes>> /\ worker'[p].pc \in {"idle", "dead"}
           /\ worker[p].job \in DOMAIN jobs /\ Len(jobs') = Len(jobs)
           /\ \A k \in DOMAIN jobs : k # worker[p].job => jobs'[k] = jobs[k]
           /\ Holds(p) /\ jobs'[worker[p].job].state = "completed" => HasQueued
<1> DEFINE i == worker[p].job
<1>1. /\ worker[p].pc = "failed"
      /\ UNCHANGED <<scenario, notes, clock, hermes, applied, atStake>>
  BY DEF retryMemoryProjectionJob, At
<1>2. clock' \in Nat /\ i \in DOMAIN jobs /\ jobs[i] \in Job /\ DOMAIN jobs = 1 .. Len(jobs)
  BY <1>1, JobForm DEF IndInv, Types, WorkInv, Work
<1>3. CASE ~Holds(p)
  <2>1. jobs' = jobs /\ worker' = [worker EXCEPT ![p] = Idle]
    BY <1>3 DEF retryMemoryProjectionJob, Done
  <2>2. ASSUME worker'[p] = Idle PROVE Work(p)'
    BY <1>2, <2>2, IdleWork
  <2>3. QED  BY <1>1, <1>3, <2>1, <2>2, IdleForm, LetGo
<1>4. CASE Holds(p)
  <2> DEFINE w == IF AfterFailure(jobs[i]).state = "dead" THEN Go(p, "dead") ELSE Idle
  <2>1. jobs' = [jobs EXCEPT ![i] = AfterFailure(@)] /\ worker' = [worker EXCEPT ![p] = w]
    BY <1>4 DEF retryMemoryProjectionJob
  <2>2. w \in {Idle, [worker[p] EXCEPT !.pc = "dead"]}
    BY DEF Go
  <2>3. [worker[p] EXCEPT !.pc = "dead"] \in Process /\ [worker[p] EXCEPT !.pc = "dead"].pc = "dead"
    BY GoForm
  <2>4. w \in Process /\ w.pc \in {"idle", "dead"}
    BY <2>2, <2>3, IdleForm
  <2> HIDE DEF w
  <2>5. DOMAIN jobs' = DOMAIN jobs /\ jobs'[i] = AfterFailure(jobs[i])
    BY <1>2, <2>1
  <2>6. ASSUME worker'[p] = w PROVE Work(p)'
    <3>1. CASE w = Idle
      BY <1>2, <2>6, <3>1, IdleWork
    <3>2. CASE w = [worker[p] EXCEPT !.pc = "dead"]
      BY <1>1, <2>5, <2>6, <3>2, GoWork
    <3>3. QED  BY <2>2, <3>1, <3>2
  <2>7. jobs'[i].state = "completed" => HasQueued
    BY <1>2, <2>5, EndForm
  <2>8. QED  BY <1>1, <1>4, <2>1, <2>4, <2>6, <2>7, LetGo
<1>5. QED  BY <1>3, <1>4

\* A process that is gone, or whose error could not be recorded.
LEMMA GoneInd ==
    ASSUME IndInv, NEW p \in scenario.processes, PersistenceFails(p) \/ Crash(p)
    PROVE  /\ IndInv' /\ UNCHANGED <<scenario, notes, jobs, hermes>> /\ worker'[p].pc = "idle"
<1>1. /\ worker' = [worker EXCEPT ![p] = Idle]
      /\ UNCHANGED <<scenario, notes, clock, jobs, hermes, applied, atStake>>
  BY DEF PersistenceFails, Crash, Done
<1>2. ASSUME worker'[p] = Idle PROVE Work(p)'
  BY <1>1, <1>2, IdleWork DEF IndInv, Types
<1>3. QED  BY <1>1, <1>2, IdleForm, QuietStep

\* A call that fails leaves everything but the process where it was.
LEMMA CallFailsInd ==
    ASSUME IndInv, NEW p \in scenario.processes, CallFails(p)
    PROVE  /\ IndInv' /\ UNCHANGED <<scenario, notes, jobs, hermes>> /\ worker'[p].pc = "failed"
           /\ worker'[p].job = worker[p].job /\ worker[p].pc \in Working
<1> DEFINE w == [worker[p] EXCEPT !.pc = "failed"]
<1>1. /\ worker' = [worker EXCEPT ![p] = w]
      /\ worker[p].pc \in Working /\ worker[p].pc # "idle"
      /\ UNCHANGED <<scenario, notes, clock, jobs, hermes, applied, atStake>>
  BY DEF CallFails, Go, Working
<1>2. ASSUME worker'[p] = w PROVE Work(p)'
  BY <1>1, <1>2, GoWork
<1>3. w \in Process /\ w.pc = "failed" /\ w.job = worker[p].job
  BY GoForm DEF Working
<1> HIDE DEF w
<1>4. QED  BY <1>1, <1>2, <1>3, QuietStep

\* The dead job's pending notes are shown as failed.
LEMMA MarkFailedInd ==
    ASSUME IndInv, NEW p \in scenario.processes, markObsidianProjectionFailed(p)
    PROVE  /\ IndInv' /\ UNCHANGED <<scenario, jobs, hermes>> /\ worker'[p].pc = "idle"
           /\ \A n \in Notes :
                /\ (notes'[n].present => notes[n].present)
                /\ notes[n].status # "pending" => notes'[n] = notes[n]
<1>1. /\ worker' = [worker EXCEPT ![p] = Idle]
      /\ UNCHANGED <<scenario, clock, jobs, hermes, applied, atStake>>
      /\ \/ notes' = notes
         \/ notes' = [n \in Notes |-> IF notes[n].present /\ notes[n].status = "pending"
                                      THEN [notes[n] EXCEPT !.status = "failed"] ELSE notes[n]]
  BY DEF markObsidianProjectionFailed, Done
<1>2. /\ notes \in [Notes -> Note] /\ jobs \in Seq(Job) /\ clock \in Nat
      /\ applied \subseteq Entry /\ hermes \in Memory /\ atStake \subseteq Notes
  BY DEF IndInv, Types
<1>3. ASSUME NEW n \in Notes
      PROVE  LET x == [notes[n] EXCEPT !.status = "failed"] IN
             /\ x \in Note /\ x.present = notes[n].present /\ x.revision = notes[n].revision
             /\ x.synced = notes[n].synced
  BY <1>2 DEF Note, NoteStatuses
<1>4. notes' \in [Notes -> Note]
  BY <1>1, <1>2, <1>3
<1>5. \A n \in Notes : /\ notes'[n].present = notes[n].present
                       /\ notes'[n].revision = notes[n].revision
                       /\ notes'[n].synced = notes[n].synced
                       /\ notes[n].status # "pending" => notes'[n] = notes[n]
  BY <1>1, <1>3
<1>6. NotesInv' /\ JobsInv' /\ HermesInv'
  <2>1. NotesInv'
    BY <1>1, <1>5 DEF IndInv, NotesInv
  <2>2. JobsInv'
    BY <1>1 DEF IndInv, JobsInv
  <2>3. HermesInv'
    BY <1>1, <1>2, <1>5 DEF IndInv, HermesInv, NativeKept, Native
  <2>4. QED  BY <2>1, <2>2, <2>3
<1>7. ASSUME worker'[p] = Idle PROVE Work(p)'
  BY <1>1, <1>2, <1>7, IdleWork
<1>8. clock <= clock'
  BY <1>1, <1>2
<1>9. IndInv' /\ worker'[p] = Idle
  BY <1>1, <1>2, <1>4, <1>5, <1>6, <1>7, <1>8, IdleForm, ProcessStep
<1>10. QED  BY <1>1, <1>5, <1>9, IdleForm

-----------------------------------------------------------------------------
(* The invariant holds in every state, for every number of processes. *)

\* Without notes, jobs and entries everything holds.
LEMMA InitInd == Init => IndInv
<1> SUFFICES ASSUME Init PROVE IndInv
  OBVIOUS
<1>1. /\ scenario \in Scenarios /\ notes = [n \in Notes |-> NoNote] /\ clock = 0 /\ jobs = <<>>
      /\ worker = [p \in scenario.processes |-> Idle] /\ hermes = Idle.snapshot
      /\ applied = {} /\ atStake = {}
  BY DEF Init
<1>2. NoNote \in Note /\ ~NoNote.present /\ NoNote.synced = 0 /\ NoNote.revision = 0
  BY DEF NoNote, Note, NoteStatuses
<1>3. Idle.snapshot \in Memory
  BY IdleForm DEF Process
<1>4. Types
  BY <1>1, <1>2, <1>3, IdleForm DEF Types
<1>5. NotesInv
  BY <1>1, <1>2 DEF NotesInv
<1>6. JobsInv
  BY <1>1 DEF JobsInv
<1>7. WorkInv
  BY <1>1, IdleForm DEF WorkInv, Work
<1>8. HermesInv
  BY <1>1, IdleForm DEF HermesInv, NativeKept
<1>9. QED  BY <1>4, <1>5, <1>6, <1>7, <1>8 DEF IndInv

\* Every step keeps the inductive invariant.
LEMMA NextInd == IndInv /\ [Next]_vars => IndInv'
<1> SUFFICES ASSUME IndInv, [Next]_vars PROVE IndInv'
  OBVIOUS
<1>1. CASE Owner
  BY <1>1, OwnerForm
<1>2. CASE Hermes
  BY <1>2, HermesStep
<1>3. CASE Time
  BY <1>3, TimeStep
<1>4. ASSUME NEW p \in scenario.processes, Step(p) PROVE IndInv'
  BY <1>4, LeaseInd, SnapshotInd, ListInd, ImportInd, ListAgainInd, ApplyInd, MarkInd,
     CompleteInd, RetryInd, MarkFailedInd DEF Step
<1>5. ASSUME NEW p \in scenario.processes, CallFails(p) \/ PersistenceFails(p) \/ Crash(p)
      PROVE  IndInv'
  BY <1>5, CallFailsInd, GoneInd
<1>6. CASE UNCHANGED vars
  BY <1>6 DEF vars, IndInv, Types, NotesInv, JobsInv, WorkInv, Work, Unimported, Projection,
              HermesInv, NativeKept, Native
<1>7. QED  BY <1>1, <1>2, <1>3, <1>4, <1>5, <1>6 DEF Next

\* The inductive invariant implies the checked one.
LEMMA ProjectionFromInd == IndInv => ProjectionInv
<1> SUFFICES ASSUME IndInv PROVE ProjectionInv
  OBVIOUS
<1>1. TypeOK
  <2>1. \A n \in Notes :
         /\ notes[n].status \in {"pending", "materialized", "excluded", "conflict", "failed"}
         /\ notes[n].synced <= notes[n].revision /\ notes[n].revision <= clock
    BY DEF IndInv, Types, Note, NoteStatuses, NotesInv
  <2>2. \A i \in DOMAIN jobs : /\ jobs[i].state \in Active \union {"completed", "dead"}
                               /\ i \in Nat
    BY JobForm DEF IndInv, Job, JobStates
  <2>3. ASSUME NEW i \in DOMAIN jobs, NEW k \in DOMAIN jobs, i # k
        PROVE  /\ ~(jobs[i].state \in Queued /\ jobs[k].state \in Queued)
               /\ ~(jobs[i].state = "processing" /\ jobs[k].state = "processing")
    <3>1. i < k \/ k < i
      BY <2>2, <2>3
    <3>2. QED  BY <3>1 DEF IndInv, JobsInv, Active, Queued
  <2>4. QED  BY <2>1, <2>2, <2>3 DEF TypeOK, IndInv, JobsInv
<1>2. SyncedWasApplied
  BY DEF SyncedWasApplied, IndInv, NotesInv
<1>3. QED  BY <1>1, <1>2 DEF ProjectionInv, IndInv, HermesInv

\* For every number of server processes, with leases that lapse under their
\* holders, lost answers, failures and crashes: a note marked as synchronised was
\* in a projection Hermes has accepted, and no projection overwrites what Hermes
\* wrote itself before it is a note (synchronizeAgentMemory imports before it
\* applies, and applies under the digest of what it imported from).
THEOREM ProjectionSound == Spec => []ProjectionInv
<1>1. Spec => []IndInv
  BY InitInd, NextInd, PTL DEF Spec
<1>2. QED  BY <1>1, ProjectionFromInd, PTL

-----------------------------------------------------------------------------
(* One server process. *)

\* What a process at work says of the outbox.
LEMMA HoldsLast ==
    ASSUME IndInv, NEW p \in scenario.processes, worker[p].pc # "idle", Holds(p)
    PROVE  jobs # <<>> /\ jobs[Len(jobs)].state \in Active
<1>1. worker[p].job \in DOMAIN jobs /\ jobs[worker[p].job].state \in Active
  BY DEF IndInv, WorkInv, Work, Holds, Active
<1>2. QED  BY <1>1, LastActive DEF IndInv

\* "completed" is no active state.
LEMMA ActiveForm == "completed" \notin Active /\ Queued \subseteq Active /\ "processing" \in Active
                    /\ "dead" \notin Active
  BY DEF Active, Queued

\* A write leaves the newest job queued; a process at work keeps its job, and has
\* not read what is written.
LEMMA OwnerSole ==
    ASSUME IndInv, IndInv', OwnerWrites, NEW p, scenario.processes = {p}, Settled, SoleWorker(p)
    PROVE  Settled' /\ SoleWorker(p)'
<1>1. /\ HasQueued' /\ DOMAIN jobs \subseteq DOMAIN jobs'
      /\ \A i \in DOMAIN jobs : jobs[i].state = "processing" => jobs'[i] = jobs[i]
  BY EnqueueStep DEF IndInv, OwnerWrites
<1>2. jobs' # <<>> /\ jobs'[Len(jobs')].state \in Queued
  <2>1. jobs' \in Seq(Job)
    BY DEF IndInv, Types
  <2>2. QED  BY <1>1, <2>1, LastOf DEF IndInv, JobsInv, HasQueued
<1>3. worker' = worker /\ hermes' = hermes /\ p \in scenario.processes
  BY DEF OwnerWrites
<1>4. Settled'
  BY <1>2, ActiveForm DEF Settled
<1>5. ASSUME worker[p].pc \in Working PROVE Holds(p)'
  <2>1. Holds(p) /\ worker[p].job \in DOMAIN jobs
    BY <1>3, <1>5 DEF SoleWorker, IndInv, WorkInv, Work, Working
  <2>2. QED  BY <1>1, <1>3, <2>1 DEF Holds
<1>6. ASSUME AsRead(p) PROVE AsRead(p)'
  <2> SUFFICES ASSUME NEW n \in Notes
               PROVE  /\ notes'[n].present =>
                            Unchanged(p, n)' \/ (notes'[n].status = "pending" /\ HasQueued')
                      /\ n \in worker'[p].included /\ Unchanged(p, n)' => n \notin Conflicts(p)'
    BY DEF AsRead
  <2>1. worker[p].revisions[n] <= clock /\ clock \in Nat /\ worker[p].revisions[n] \in Nat
    BY <1>3 DEF IndInv, WorkInv, Work, Types, Process
  <2>2. CASE notes'[n] = notes[n]
    <3>1. Unchanged(p, n)' = Unchanged(p, n)
      BY <1>3, <2>2 DEF Unchanged
    <3>2. n \in Conflicts(p)' <=> n \in Conflicts(p)
      BY <1>3, <2>2 DEF Conflicts
    <3>3. QED  BY <1>1, <1>3, <1>6, <2>2, <3>1, <3>2 DEF AsRead
  <2>3. CASE ~notes'[n].present
    BY <2>3 DEF Unchanged
  <2>4. CASE notes'[n].present /\ notes'[n].status = "pending" /\ notes'[n].revision = clock + 1
    BY <1>1, <1>3, <2>1, <2>4 DEF Unchanged
  <2>5. QED  BY <2>2, <2>3, <2>4 DEF OwnerWrites
<1>7. Projection(p)' = Projection(p)
  BY <1>3 DEF Projection
<1>8. SoleWorker(p)'
  BY <1>1, <1>3, <1>5, <1>6, <1>7 DEF SoleWorker
<1>9. QED  BY <1>4, <1>8

\* While the process works on its job nothing is settled.
LEMMA AtWork ==
    ASSUME IndInv, NEW p \in scenario.processes, worker[p].pc # "idle", Holds(p),
           jobs' = jobs, worker'[p].job = worker[p].job
    PROVE  Settled' /\ Holds(p)' /\ HasQueued' = HasQueued
<1>1. jobs # <<>> /\ jobs[Len(jobs)].state # "completed"
  BY HoldsLast, ActiveForm
<1>2. Settled'
  BY <1>1 DEF Settled
<1>3. Holds(p)'
  BY DEF Holds
<1>4. QED  BY <1>2, <1>3 DEF HasQueued

\* The second list reads every note as it is; the projection leaves out the conflicts.
LEMMA ListAgainSole ==
    ASSUME IndInv, NEW p, scenario.processes = {p}, SoleWorker(p), ListAgain(p)
    PROVE  Settled' /\ SoleWorker(p)'
<1>1. p \in scenario.processes /\ worker[p].pc = "import"
  BY DEF ListAgain, At
<1>2. /\ UNCHANGED <<scenario, notes, jobs, hermes>>
      /\ worker'[p].pc = "apply" /\ worker'[p].job = worker[p].job
      /\ worker'[p].snapshot = worker[p].snapshot
      /\ \A n \in Notes : notes[n].present => worker'[p].revisions[n] = notes[n].revision
      /\ worker'[p].included \intersect Conflicts(p) = {}
  BY <1>1, ListAgainInd
<1>3. Settled' /\ Holds(p)'
  BY <1>1, <1>2, AtWork DEF SoleWorker, Working
<1>4. Conflicts(p)' = Conflicts(p)
  BY <1>2 DEF Conflicts
<1>5. AsRead(p)'
  BY <1>2, <1>4 DEF AsRead, Unchanged
<1>6. QED  BY <1>2, <1>3, <1>5 DEF SoleWorker

\* What the only process applies is what its notes as read call for.
LEMMA ApplySole ==
    ASSUME IndInv, NEW p, scenario.processes = {p}, SoleWorker(p), Apply(p)
    PROVE  Settled' /\ SoleWorker(p)'
<1>1. p \in scenario.processes /\ worker[p].pc = "apply"
  BY DEF Apply, At
<1>2. /\ UNCHANGED <<scenario, notes, jobs>>
      /\ worker'[p].pc \in {"mark", "failed"} /\ worker'[p].job = worker[p].job
      /\ worker'[p].pc = "mark" =>
           /\ worker'[p].snapshot = worker[p].snapshot
           /\ worker'[p].revisions = worker[p].revisions
           /\ worker'[p].included = worker[p].included
           /\ hermes'.manifest = Projection(p)
  BY <1>1, ApplyInd
<1>3. Settled' /\ Holds(p)' /\ HasQueued' = HasQueued /\ AsRead(p)
  BY <1>1, <1>2, AtWork DEF SoleWorker, Working
<1>4. CASE worker'[p].pc = "mark"
  <2>1. Projection(p)' = Projection(p)
    BY <1>2, <1>4 DEF Projection
  <2>2. Conflicts(p)' = Conflicts(p)
    BY <1>2, <1>4 DEF Conflicts
  <2>3. \A n \in Notes : Unchanged(p, n)' <=> Unchanged(p, n)
    BY <1>2, <1>4 DEF Unchanged
  <2>4. AsRead(p)'
    BY <1>2, <1>3, <1>4, <2>2, <2>3 DEF AsRead
  <2>5. QED  BY <1>2, <1>3, <1>4, <2>1, <2>4 DEF SoleWorker
<1>5. CASE worker'[p].pc = "failed"
  BY <1>3, <1>5 DEF SoleWorker
<1>6. QED  BY <1>2, <1>4, <1>5

\* Every note that was read is marked with what became of it.
LEMMA MarkSole ==
    ASSUME IndInv, NEW p, scenario.processes = {p}, SoleWorker(p), markObsidianProjection(p)
    PROVE  Settled' /\ SoleWorker(p)'
<1>1. p \in scenario.processes /\ worker[p].pc = "mark"
  BY DEF markObsidianProjection, At
<1>2. /\ notes' = [n \in Notes |->
           IF ~Unchanged(p, n) THEN notes[n]
           ELSE IF n \in Conflicts(p) THEN [notes[n] EXCEPT !.status = "conflict"]
           ELSE IF n \in worker[p].included
                THEN [notes[n] EXCEPT !.status = "materialized", !.synced = notes[n].revision]
           ELSE [notes[n] EXCEPT !.status = "excluded"]]
      /\ UNCHANGED <<scenario, jobs, hermes>>
  BY DEF markObsidianProjection
<1>3. worker'[p].pc = "complete" /\ worker'[p].job = worker[p].job
  BY <1>1, MarkInd
<1>4. Settled' /\ Holds(p)' /\ HasQueued' = HasQueued /\ AsRead(p) /\ hermes.manifest = Projection(p)
  BY <1>1, <1>2, <1>3, AtWork DEF SoleWorker, Working
<1>5. ASSUME ~HasQueued PROVE AllTruthful'
  <2> SUFFICES ASSUME NEW n \in Notes, notes'[n].present PROVE Truthful(n)'
    BY DEF AllTruthful
  <2>1. notes[n] \in Note /\ \A e \in Projection(p) : e.note \in worker[p].included
    BY DEF IndInv, Types, Projection
  <2>2. CASE ~Unchanged(p, n)
    <3>1. notes'[n] = notes[n]
      BY <1>2, <2>2
    <3>2. QED  BY <1>4, <1>5, <2>2, <3>1 DEF AsRead
  <2>3. CASE Unchanged(p, n) /\ n \in Conflicts(p)
    <3>1. n \notin worker[p].included
      BY <1>4, <2>3 DEF AsRead
    <3>2. notes'[n].status = "conflict"
      BY <1>2, <2>1, <2>3 DEF Note
    <3>3. \A e \in hermes'.manifest : e.note # n
      BY <1>2, <1>4, <2>1, <3>1
    <3>4. QED  BY <3>2, <3>3 DEF Truthful
  <2>4. CASE Unchanged(p, n) /\ n \notin Conflicts(p) /\ n \in worker[p].included
    <3>1. notes'[n].status = "materialized" /\ notes'[n].revision = notes[n].revision
      BY <1>2, <2>1, <2>4 DEF Note
    <3>2. [note |-> n, revision |-> notes[n].revision] \in hermes'.manifest
      BY <1>2, <1>4, <2>4 DEF Projection, Unchanged
    <3>3. QED  BY <3>1, <3>2 DEF Truthful
  <2>5. CASE Unchanged(p, n) /\ n \notin Conflicts(p) /\ n \notin worker[p].included
    <3>1. notes'[n].status = "excluded"
      BY <1>2, <2>1, <2>5 DEF Note
    <3>2. \A e \in hermes'.manifest : e.note # n
      BY <1>2, <1>4, <2>1, <2>5
    <3>3. QED  BY <3>1, <3>2 DEF Truthful
  <2>6. QED  BY <2>2, <2>3, <2>4, <2>5
<1>6. QED  BY <1>3, <1>4, <1>5 DEF SoleWorker

\* The job is completed: what was written meanwhile has queued another one.
LEMMA CompleteSole ==
    ASSUME IndInv, NEW p, scenario.processes = {p}, SoleWorker(p), completeMemoryProjectionJob(p)
    PROVE  Settled' /\ SoleWorker(p)'
<1>1. p \in scenario.processes /\ worker[p].pc = "complete"
  BY DEF completeMemoryProjectionJob, At
<1>2. /\ UNCHANGED <<scenario, notes, hermes>> /\ worker'[p].pc = "idle"
      /\ worker[p].job \in DOMAIN jobs /\ Len(jobs') = Len(jobs)
      /\ \A k \in DOMAIN jobs : k # worker[p].job => jobs'[k] = jobs[k]
  BY <1>1, CompleteInd
<1>3. Holds(p) /\ (HasQueued \/ AllTruthful)
  BY <1>1 DEF SoleWorker, Working
<1>4. DOMAIN jobs = 1 .. Len(jobs) /\ Len(jobs) \in Nat
  BY JobForm DEF IndInv
<1>5. jobs' # <<>> /\ Len(jobs) \in DOMAIN jobs
  BY <1>2, <1>4
<1>6. ASSUME jobs'[Len(jobs')].state = "completed" PROVE AllTruthful'
  <2>1. CASE HasQueued
    <3>1. jobs[Len(jobs)].state \in Queued
      BY <2>1, LastActive DEF IndInv
    <3>2. Len(jobs) # worker[p].job
      BY <1>3, <3>1 DEF Holds, Queued
    <3>3. QED  BY <1>2, <1>5, <1>6, <3>1, <3>2 DEF Queued
  <2>2. CASE AllTruthful
    BY <1>2, <2>2 DEF AllTruthful, Truthful
  <2>3. QED  BY <1>3, <2>1, <2>2
<1>7. QED  BY <1>2, <1>5, <1>6 DEF Settled, SoleWorker, Working

\* The job fails: it is queued again or dead, unless another one is queued.
LEMMA RetrySole ==
    ASSUME IndInv, NEW p, scenario.processes = {p}, SoleWorker(p), retryMemoryProjectionJob(p)
    PROVE  Settled' /\ SoleWorker(p)'
<1>1. p \in scenario.processes /\ worker[p].pc = "failed"
  BY DEF retryMemoryProjectionJob, At
<1>2. Holds(p)
  BY <1>1 DEF SoleWorker, Working
<1>3. /\ UNCHANGED <<scenario, notes, hermes>> /\ worker'[p].pc \in {"idle", "dead"}
      /\ worker[p].job \in DOMAIN jobs /\ Len(jobs') = Len(jobs)
      /\ \A k \in DOMAIN jobs : k # worker[p].job => jobs'[k] = jobs[k]
      /\ jobs'[worker[p].job].state = "completed" => HasQueued
  BY <1>1, <1>2, RetryInd
<1>4. DOMAIN jobs = 1 .. Len(jobs) /\ Len(jobs) \in Nat
  BY JobForm DEF IndInv
<1>5. jobs' # <<>> /\ Len(jobs) \in DOMAIN jobs
  BY <1>3, <1>4
<1>6. jobs'[Len(jobs')].state # "completed"
  <2>1. CASE worker[p].job = Len(jobs)
    <3>1. jobs[Len(jobs)].state = "processing"
      BY <1>2, <2>1 DEF Holds
    <3>2. ~HasQueued
      BY <3>1, LastActive DEF IndInv, Queued
    <3>3. QED  BY <1>3, <2>1, <3>2
  <2>2. CASE worker[p].job # Len(jobs)
    <3>1. jobs[Len(jobs)].state \in Active
      BY <1>1, <1>2, HoldsLast
    <3>2. QED  BY <1>3, <1>5, <2>2, <3>1, ActiveForm
  <2>3. QED  BY <2>1, <2>2
<1>7. QED  BY <1>3, <1>5, <1>6 DEF Settled, SoleWorker, Working

\* markObsidianProjectionFailed leaves the failing notes to the retry.
LEMMA MarkFailedSole ==
    ASSUME IndInv, NEW p, scenario.processes = {p}, Settled, markObsidianProjectionFailed(p)
    PROVE  Settled' /\ SoleWorker(p)'
<1>1. p \in scenario.processes
  OBVIOUS
<1>2. /\ UNCHANGED <<scenario, jobs, hermes>> /\ worker'[p].pc = "idle"
      /\ \A n \in Notes : /\ (notes'[n].present => notes[n].present)
                          /\ notes[n].status # "pending" => notes'[n] = notes[n]
  BY <1>1, MarkFailedInd
<1>3. ASSUME AllTruthful, NEW n \in Notes, notes'[n].present PROVE Truthful(n)'
  <2>1. Truthful(n) /\ notes'[n] = notes[n]
    BY <1>2, <1>3 DEF AllTruthful, Truthful
  <2>2. QED  BY <1>2, <2>1 DEF Truthful
<1>4. AllTruthful => AllTruthful'
  BY <1>3 DEF AllTruthful
<1>5. Settled'
  BY <1>2, <1>4 DEF Settled
<1>6. QED  BY <1>2, <1>5 DEF SoleWorker, Working

\* Steps that touch neither the notes nor the manifest, and no job's state.
LEMMA StillSole ==
    ASSUME Settled, UNCHANGED <<notes, jobs>>, hermes'.manifest = hermes.manifest
    PROVE  Settled' /\ AllTruthful' = AllTruthful
<1>1. AllTruthful' = AllTruthful
  BY DEF AllTruthful, Truthful
<1>2. QED  BY <1>1 DEF Settled

\* No job and no note: settled.
LEMMA SoleInit == Init => SoleInv
<1> SUFFICES ASSUME Init PROVE SoleInv
  OBVIOUS
<1>1. /\ jobs = <<>> /\ \A n \in Notes : ~notes[n].present
      /\ worker = [p \in scenario.processes |-> Idle]
  BY DEF Init, NoNote
<1>2. Settled /\ \A p \in scenario.processes : SoleWorker(p)
  BY <1>1, IdleForm DEF Settled, SoleWorker, Working
<1>3. QED  BY <1>2 DEF SoleInv

\* With one process every step keeps SoleInv.
LEMMA SoleNext == IndInv /\ SoleInv /\ [Next]_vars => SoleInv'
<1> SUFFICES ASSUME IndInv, SoleInv, [Next]_vars, OneProcess' PROVE SoleInv'
  BY DEF SoleInv
<1>1. IndInv'
  BY NextInd
<1>2. scenario' = scenario
  BY OwnerForm, HermesStep, TimeStep, LeaseInd, ImportInd, ListAgainInd, ApplyInd, CompleteInd,
     RetryInd, MarkFailedInd, CallFailsInd, GoneInd
     DEF Next, OwnerWrites, Step, Snapshot, ListNotes, markObsidianProjection, vars
<1>3. PICK p \in scenario.processes : scenario.processes = {p}
  BY <1>2 DEF OneProcess
<1>4. Settled /\ SoleWorker(p)
  BY <1>3 DEF SoleInv, OneProcess
<1> SUFFICES Settled' /\ SoleWorker(p)'
  BY <1>2, <1>3 DEF SoleInv
<1>5. CASE Owner
  BY <1>1, <1>3, <1>4, <1>5, OwnerForm, OwnerSole
<1>6. CASE Hermes
  <2>1. hermes'.manifest = hermes.manifest /\ UNCHANGED <<notes, jobs, worker>>
    BY <1>6, HermesStep
  <2>2. Settled' /\ AllTruthful' = AllTruthful
    BY <1>4, <2>1, StillSole
  <2>3. /\ Holds(p)' = Holds(p) /\ AsRead(p)' = AsRead(p) /\ Projection(p)' = Projection(p)
        /\ HasQueued' = HasQueued
    BY <2>1 DEF Holds, AsRead, Projection, HasQueued, Unchanged, Conflicts
  <2>4. QED  BY <1>4, <2>1, <2>2, <2>3 DEF SoleWorker
<1>7. CASE Time
  <2>1. /\ UNCHANGED <<notes, worker, hermes>>
        /\ DOMAIN jobs' = DOMAIN jobs /\ Len(jobs') = Len(jobs)
        /\ \A i \in DOMAIN jobs : jobs'[i].state = jobs[i].state /\ jobs'[i].holder = jobs[i].holder
    BY <1>7, TimeStep
  <2>2. AllTruthful' = AllTruthful /\ Projection(p)' = Projection(p)
    BY <2>1 DEF AllTruthful, Truthful, Projection
  <2>3. HasQueued' = HasQueued
    BY <2>1 DEF HasQueued
  <2>4. AsRead(p)' = AsRead(p)
    BY <2>1, <2>3 DEF AsRead, Unchanged, Conflicts
  <2>5. Settled'
    <3>1. DOMAIN jobs = 1 .. Len(jobs) /\ Len(jobs) \in Nat /\ (jobs # <<>> => Len(jobs) # 0)
          /\ (jobs' = <<>> => jobs = <<>>)
      BY <2>1 DEF IndInv, Types
    <3>2. jobs # <<>> => jobs'[Len(jobs')].state = jobs[Len(jobs)].state
      BY <2>1, <3>1
    <3>3. QED  BY <1>4, <2>1, <2>2, <3>1, <3>2 DEF Settled
  <2>6. ASSUME worker[p].pc \in Working PROVE Holds(p)'
    <3>1. worker[p].job \in DOMAIN jobs /\ Holds(p)
      BY <1>4, <2>6 DEF IndInv, WorkInv, Work, SoleWorker, Working
    <3>2. QED  BY <2>1, <3>1 DEF Holds
  <2>7. QED  BY <1>4, <2>1, <2>2, <2>3, <2>4, <2>5, <2>6 DEF SoleWorker
<1>8. CASE leaseMemoryProjectionJobs(p)
  <2>1. /\ worker'[p].pc = "snapshot" /\ Holds(p)' /\ jobs' # <<>>
        /\ jobs'[Len(jobs')].state = "processing"
    BY <1>8, LeaseInd
  <2>2. QED  BY <2>1 DEF Settled, SoleWorker
<1>9. CASE Snapshot(p) \/ ListNotes(p) \/ ImportEntry(p) \/ CallFails(p)
  <2>1. /\ worker[p].pc \in Working /\ jobs' = jobs /\ worker'[p].job = worker[p].job
        /\ worker'[p].pc \in {"list", "import", "failed"}
    BY <1>9, SnapshotInd, ListInd, ImportInd, CallFailsInd
       DEF Snapshot, ListNotes, ImportEntry, At, Working
  <2>2. Settled' /\ Holds(p)'
    BY <1>4, <2>1, AtWork DEF SoleWorker, Working
  <2>3. QED  BY <2>1, <2>2 DEF SoleWorker
<1>10. CASE PersistenceFails(p) \/ Crash(p)
  <2>1. UNCHANGED <<notes, jobs, hermes>> /\ worker'[p].pc = "idle"
    BY <1>10, GoneInd
  <2>2. QED  BY <1>4, <2>1, StillSole DEF SoleWorker, Working
<1>11. CASE UNCHANGED vars
  <2>1. UNCHANGED <<notes, jobs, hermes, worker>>
    BY <1>11 DEF vars
  <2>2. QED
    BY <1>4, <2>1 DEF Settled, SoleWorker, AllTruthful, Truthful, Holds, AsRead, HasQueued,
                      Unchanged, Conflicts, Projection
<1>12. QED
  BY <1>3, <1>4, <1>5, <1>6, <1>7, <1>8, <1>9, <1>10, <1>11, ListAgainSole, ApplySole, MarkSole,
     CompleteSole, RetrySole, MarkFailedSole DEF Next, Step

\* The owner is shown the state of the newest job.
LEMMA StatusForm ==
    ASSUME IndInv, jobs # <<>>
    PROVE  getMemoryProjectionStatus = jobs[Len(jobs)].state
<1> DEFINE active == {i \in DOMAIN jobs : jobs[i].state \in Active}
<1>1. DOMAIN jobs = 1 .. Len(jobs) /\ Len(jobs) \in Nat
  BY JobForm DEF IndInv
<1>2. CASE active = {}
  BY <1>2 DEF getMemoryProjectionStatus
<1>3. CASE active # {}
  <2>1. jobs[Len(jobs)].state \in Active
    BY <1>3, LastActive DEF IndInv
  <2>2. Len(jobs) \in active /\ \A i \in active : i \in Nat /\ Len(jobs) >= i
    BY <1>1, <2>1
  <2>3. Max(active) = Len(jobs)
    BY <2>2 DEF Max
  <2>4. QED  BY <1>3, <2>3 DEF getMemoryProjectionStatus
<1>4. QED  BY <1>2, <1>3

\* With one process the invariants imply the checked one.
LEMMA StatusFromInd == IndInv /\ SoleInv => StatusInv
<1> SUFFICES ASSUME IndInv, SoleInv, OneProcess
             PROVE  StatusInv
  BY DEF StatusInv, PendingIsVisible, StatusIsTruth
<1>1. Settled
  BY DEF SoleInv
<1>2. CASE jobs = <<>>
  BY <1>1, <1>2 DEF Settled, StatusInv, PendingIsVisible, StatusIsTruth, getMemoryProjectionStatus
<1>3. CASE jobs # <<>>
  <2>1. getMemoryProjectionStatus = jobs[Len(jobs)].state
    BY <1>3, StatusForm
  <2>2. jobs[Len(jobs)].state \in Active \union {"completed", "dead"}
    <3>1. Len(jobs) \in DOMAIN jobs
      BY <1>3 DEF IndInv, Types
    <3>2. QED  BY <3>1, JobForm DEF IndInv, Job, JobStates
  <2>3. QED
    BY <1>1, <1>3, <2>1, <2>2 DEF Settled, AllTruthful, Truthful, StatusInv, PendingIsVisible,
                                  StatusIsTruth
<1>4. QED  BY <1>2, <1>3

\* With one server process, whatever the owner and Hermes write, whichever calls
\* fail and whenever the process crashes: a note that is pending is never behind
\* a job that is shown as completed, and when it is shown the statuses say what
\* Hermes' memory holds (a write while a job is in processing queues another one).
THEOREM StatusSound == Spec => []StatusInv
<1>1. Spec => []IndInv
  BY InitInd, NextInd, PTL DEF Spec
<1>2. Spec => [](IndInv /\ SoleInv)
  BY <1>1, SoleInit, SoleNext, PTL DEF Spec
<1>3. QED  BY <1>2, StatusFromInd, PTL
=============================================================================
