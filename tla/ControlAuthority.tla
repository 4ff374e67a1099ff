--------------------------- MODULE ControlAuthority ---------------------------
(* The PostgreSQL control authority for one deployment: desired states,       *)
(* observations, commands, approvals, leases, receipts and verification, as   *)
(* packages/db/control-authority-repository.mjs keeps them behind             *)
(* packages/control-authority/service.mjs.                                    *)
(*                                                                            *)
(* Every repository method runs in one transaction that locks the rows it     *)
(* changes, so each is one atomic action here.  A request the code rejects    *)
(* rolls back and leaves no trace: it is a disabled action.  A request that   *)
(* repeats an idempotency key returns the stored result and changes nothing:  *)
(* it is a stuttering step.  Timestamps are values of one clock; the stamps   *)
(* of a caller (observed_at, received_at, completed_at) are inputs that lie   *)
(* in its past.                                                               *)
EXTENDS Naturals, Sequences, FiniteSets

CONSTANTS
    Commands,           \* command ids a caller may submit
    ApprovalCommands,   \* those whose action is in APPROVAL_ACTIONS
    Users,              \* identities that may sign an approval decision
    Owner,              \* the agent's owner, who requests every command
    NoUser,             \* decided_by of an undecided approval
    LeaseTerms,         \* lease_seconds a server may ask for, after clamping
    CommandTTLs,        \* expires_at - created_at of a command
    StartDelays,        \* not_before - created_at of a command
    ApprovalTTLs,       \* expires_at - created_at of an approval
    ObservationLags,    \* ages of the stamps an observation carries
    ObservationStatuses,\* statuses an observation may report
    MaxFreshness,       \* max_freshness_seconds of a verification
    MaxTime,            \* bound: last instant of the clock
    MaxDesired,         \* bound: desired-state revisions
    MaxObservation,     \* bound: observation versions
    MaxAttempts,        \* bound: leases granted for one command
    MaxReceiptSeq       \* bound: event_sequence of a receipt

ASSUME CommandsAssumption == ApprovalCommands \subseteq Commands
ASSUME UsersAssumption == Owner \in Users /\ NoUser \notin Users
ASSUME DurationsAssumption ==
    /\ LeaseTerms \subseteq Nat \ {0}
    /\ CommandTTLs \subseteq Nat \ {0}
    /\ StartDelays \subseteq Nat
    /\ ApprovalTTLs \subseteq Nat \ {0}
    /\ ObservationLags \subseteq Nat
    /\ MaxFreshness \in Nat
ASSUME StatusesAssumption ==
    ObservationStatuses \subseteq {"healthy", "degraded", "unhealthy", "unknown"}
ASSUME BoundsAssumption ==
    /\ MaxTime \in Nat
    /\ MaxDesired \in Nat
    /\ MaxObservation \in Nat
    /\ MaxAttempts \in Nat
    /\ MaxReceiptSeq \in Nat

VARIABLES
    now,                \* the database clock
    desired,            \* desired[v]: lifecycle_status of revision v
    desiredVersion,     \* control_deployments.desired_state_version
    observations,       \* rows of the observations table
    observedVersion,    \* control_deployments.observed_state_version
    deploymentStatus,   \* control_deployments.status
    state,              \* state[c]: control_commands.state, "none" if no row
    verification,       \* verification[c]: control_commands.verification_state
    terms,              \* terms[c]: what the command row fixes at its creation
    approval,           \* approval[c]: its control_approvals row
    leases,             \* leases[c][a]: lease and attempt rows of attempt a
    candidate,          \* candidate[c]: its command_verifications row
    lastEvent           \* lastEvent[c]: state of c's latest control_events row

vars == <<now, desired, desiredVersion, observations, observedVersion,
          deploymentStatus, state, verification, terms, approval, leases,
          candidate, lastEvent>>

-------------------------------------------------------------------------------
(* The values the tables hold.                                                *)

\* "proposed" stands for every lifecycle_status that is neither active nor
\* superseded: the code treats proposed, accepted and rejected alike.
Lifecycles == {"proposed", "active", "superseded"}

CommandStates == {"none", "queued", "leased", "accepted", "running",
                  "verifying", "succeeded", "failed", "cancelled", "expired"}

VerificationStates ==
    {"pending", "checking", "verified", "failed", "stale", "blocked"}

TerminalStates == {"succeeded", "failed", "cancelled", "expired"}

\* States of a command some server holds a lease for.
HeldStates == {"leased", "accepted", "running"}

ReceiptStates == {"accepted", "running", "executing", "completion_candidate",
                  "failed", "cancelled", "expired"}

AttemptStates == {"leased", "accepted", "running", "succeeded", "failed",
                  "cancelled", "expired"}

EventStates == CommandStates \cup {"approved", "rejected", "executing"}

DeploymentStatuses == {"enrolling", "active", "degraded"}

\* "usable" stands for freshness = "fresh" and at least one evidence reference.
Observation == [version : Nat, desired : Nat, status : ObservationStatuses,
                usable : BOOLEAN, observedAt : Nat, receivedAt : Nat]

Terms == [expected : Nat, notBefore : Nat, expiresAt : Nat]

NoTerms == [expected |-> 0, notBefore |-> 0, expiresAt |-> 0]

Approval == [decision : {"none", "pending", "approved", "rejected"},
             decidedBy : Users \cup {NoUser}, expiresAt : Nat]

NoApproval == [decision |-> "none", decidedBy |-> NoUser, expiresAt |-> 0]

\* One lease row with its command_attempts row: "started" is started_at set,
\* "seq" the largest event_sequence among the receipts of the attempt.
Lease == [state : {"active", "consumed", "expired"}, issuedAt : Nat,
          expiresAt : Nat, attempt : AttemptStates, started : BOOLEAN,
          seq : Nat]

\* "claims" is the observation_version of the completion receipt (0 for NULL),
\* "witness" the version of the observation the verifier names (0 before).
Candidate == [claims : Nat, completedAt : Nat, evidence : BOOLEAN,
              witness : Nat]

NoCandidate == [claims |-> 0, completedAt |-> 0, evidence |-> FALSE,
                witness |-> 0]

Init ==
    /\ now = 0
    /\ desired = << >>
    /\ desiredVersion = 0
    /\ observations = {}
    /\ observedVersion = 0
    /\ deploymentStatus = "enrolling"
    /\ state = [c \in Commands |-> "none"]
    /\ verification = [c \in Commands |-> "pending"]
    /\ terms = [c \in Commands |-> NoTerms]
    /\ approval = [c \in Commands |-> NoApproval]
    /\ leases = [c \in Commands |-> << >>]
    /\ candidate = [c \in Commands |-> NoCandidate]
    /\ lastEvent = [c \in Commands |-> "none"]

commandVars == <<state, verification, terms, approval, leases, candidate,
                 lastEvent>>
deploymentVars == <<desired, desiredVersion, observations, observedVersion,
                    deploymentStatus>>

-------------------------------------------------------------------------------
(* Desired states and observations.                                           *)

\* The revisions an insert leaves behind: a new active one supersedes the old.
Superseded(status) ==
    [v \in DOMAIN desired |->
        IF status = "active" /\ desired[v] = "active"
        THEN "superseded" ELSE desired[v]]

\* The next revision; only an active one becomes the deployment's version.
createDesiredState(status) ==
    /\ Len(desired) < MaxDesired
    /\ desired' = Append(Superseded(status), status)
    /\ desiredVersion' = IF status = "active" THEN Len(desired) + 1
                         ELSE desiredVersion
    /\ UNCHANGED <<now, observations, observedVersion, deploymentStatus,
                   commandVars>>

\* A newer observation of a desired state that exists; it sets the deployment's
\* observed version and, unless its status is unknown, the deployment's status.
recordObservation(v, d, status, usable, observed, received) ==
    /\ v > observedVersion
    /\ d <= desiredVersion
    /\ observed <= received /\ received <= now
    /\ observations' = observations \cup
         {[version |-> v, desired |-> d, status |-> status, usable |-> usable,
           observedAt |-> observed, receivedAt |-> received]}
    /\ observedVersion' = v
    /\ deploymentStatus' = IF status = "healthy" THEN "active"
                           ELSE IF status = "unknown" THEN deploymentStatus
                           ELSE "degraded"
    /\ UNCHANGED <<now, desired, desiredVersion, commandVars>>

-------------------------------------------------------------------------------
(* Commands and approvals.                                                    *)

\* requestCommand and createCommand: queued against the current observed
\* version, with a pending approval exactly if the action needs one.
createCommand(c, delay, ttl, approvalTTL) ==
    /\ state[c] = "none"
    /\ now + ttl <= MaxTime
    /\ state' = [state EXCEPT ![c] = "queued"]
    /\ terms' = [terms EXCEPT ![c] = [expected |-> observedVersion,
                                      notBefore |-> now + delay,
                                      expiresAt |-> now + ttl]]
    /\ approval' = [approval EXCEPT ![c] =
                      IF c \in ApprovalCommands
                      THEN [decision |-> "pending", decidedBy |-> NoUser,
                            expiresAt |-> now + approvalTTL]
                      ELSE @]
    /\ lastEvent' = [lastEvent EXCEPT ![c] = "queued"]
    /\ UNCHANGED <<now, deploymentVars, verification, leases, candidate>>

\* Fault: no separation of duties.
MayDecide_Anyone(u, decision) == TRUE

\* Who may decide: anyone may reject, the requester may not approve.
MayDecide(u, decision) == decision = "approved" => u # Owner

\* A pending, unexpired approval is decided once; a rejection cancels a command
\* that is still queued.
decideApproval(c, u, decision) ==
    /\ approval[c].decision = "pending"
    /\ now < approval[c].expiresAt
    /\ MayDecide(u, decision)
    /\ approval' = [approval EXCEPT ![c].decision = decision,
                                    ![c].decidedBy = u]
    /\ IF decision = "rejected" /\ state[c] = "queued"
       THEN /\ state' = [state EXCEPT ![c] = "cancelled"]
            /\ verification' = [verification EXCEPT ![c] = "blocked"]
       ELSE UNCHANGED <<state, verification>>
    /\ lastEvent' = [lastEvent EXCEPT ![c] = decision]
    /\ UNCHANGED <<now, deploymentVars, terms, leases, candidate>>

-------------------------------------------------------------------------------
(* Leases.                                                                    *)

Lapsed(l) == l.state = "active" /\ l.expiresAt <= now

HasLapsed(c) == \E a \in DOMAIN leases[c] : Lapsed(leases[c][a])

\* Fault: whatever a silent server held is queued again.
safeToRetry_Started(c) == state[c] \in HeldStates

\* Only a command no server has accepted goes back to the queue.
safeToRetry(c) == state[c] = "leased"

\* expireLeases: the command, its verification, its lease and attempt rows and
\* its last event once every lapsed lease has been expired.
ExpiredState(c) ==
    IF HasLapsed(c) THEN IF safeToRetry(c) THEN "queued" ELSE "expired"
    ELSE state[c]

ExpiredVerification(c) ==
    IF HasLapsed(c) /\ ~safeToRetry(c) THEN "blocked" ELSE verification[c]

ExpiredLeases(c) ==
    [a \in DOMAIN leases[c] |->
        IF Lapsed(leases[c][a])
        THEN [leases[c][a] EXCEPT !.state = "expired", !.attempt = "expired"]
        ELSE leases[c][a]]

ExpiredEvent(c) == IF HasLapsed(c) THEN ExpiredState(c) ELSE lastEvent[c]

\* The approval an action of APPROVAL_ACTIONS needs before it may be leased.
Approved(c) ==
    c \in ApprovalCommands =>
        approval[c].decision = "approved" /\ now < approval[c].expiresAt

\* The WHERE clause of leaseCommands, after expireLeases.
Leasable(c) ==
    /\ ExpiredState(c) = "queued"
    /\ terms[c].notBefore <= now
    /\ now < terms[c].expiresAt
    /\ Approved(c)

\* Fault: the lease is not cut at the command's expiry.
leaseExpiresAt_Full(c, term) == now + term

\* A lease never outlives its command.
leaseExpiresAt(c, term) ==
    IF now + term < terms[c].expiresAt THEN now + term ELSE terms[c].expiresAt

NewLease(c, term) ==
    [state |-> "active", issuedAt |-> now, expiresAt |-> leaseExpiresAt(c, term),
     attempt |-> "leased", started |-> FALSE, seq |-> 0]

\* leaseCommands with a free row: expire what has lapsed, then lease c.  Any
\* leasable row may be the one chosen, since SKIP LOCKED passes over rows that
\* a concurrent transaction holds.
leaseCommand(c, term) ==
    /\ Leasable(c)
    /\ Len(leases[c]) < MaxAttempts
    /\ state' = [[d \in Commands |-> ExpiredState(d)] EXCEPT ![c] = "leased"]
    /\ verification' = [d \in Commands |-> ExpiredVerification(d)]
    /\ leases' = [[d \in Commands |-> ExpiredLeases(d)] EXCEPT ![c] =
                    Append(@, NewLease(c, term))]
    /\ lastEvent' = [[d \in Commands |-> ExpiredEvent(d)] EXCEPT ![c] = "leased"]
    /\ UNCHANGED <<now, deploymentVars, terms, approval, candidate>>

\* Fault: a poll that finds no command expires nothing.
leaseNothing_Never == FALSE

\* leaseCommands that returns no command of this deployment still expires every
\* lapsed lease: expireLeases is not limited to the caller's scope.
leaseNothing ==
    /\ \E c \in Commands : HasLapsed(c)
    /\ state' = [c \in Commands |-> ExpiredState(c)]
    /\ verification' = [c \in Commands |-> ExpiredVerification(c)]
    /\ leases' = [c \in Commands |-> ExpiredLeases(c)]
    /\ lastEvent' = [c \in Commands |-> ExpiredEvent(c)]
    /\ UNCHANGED <<now, deploymentVars, terms, approval, candidate>>

-------------------------------------------------------------------------------
(* Receipts and verification.                                                 *)

transitions(s) ==
    CASE s = "leased"   -> {"accepted"}
      [] s = "accepted" -> {"running", "executing", "failed", "cancelled",
                            "expired"}
      [] s = "running"  -> ReceiptStates \ {"accepted"}
      [] OTHER          -> {}

\* Fault: a completion candidate keeps its lease.
terminal_Candidate(s) == s \in {"failed", "cancelled", "expired"}

terminal(s) == s \in {"completion_candidate", "failed", "cancelled", "expired"}

authorityState(s) == CASE s = "completion_candidate" -> "verifying"
                       [] s = "executing"            -> "running"
                       [] OTHER                      -> s

attemptState(s) == CASE s = "completion_candidate" -> "succeeded"
                     [] s = "executing"            -> "running"
                     [] OTHER                      -> s

verificationState(s) == CASE s = "completion_candidate"      -> "checking"
                          [] s = "failed"                    -> "failed"
                          [] s \in {"cancelled", "expired"}  -> "blocked"
                          [] OTHER                           -> "pending"

eventState(s) == IF s = "completion_candidate" THEN "verifying" ELSE s

\* The lease checks of recordReceipt: still active, not lapsed, a newer event.
LeaseAccepts(l, seq) ==
    /\ l.state = "active"
    /\ now < l.expiresAt
    /\ l.seq < seq

\* The lease and attempt rows after a receipt: a terminal one consumes the lease.
ReceiptLease(l, s, seq) ==
    [l EXCEPT !.state = IF terminal(s) THEN "consumed" ELSE @,
              !.attempt = attemptState(s),
              !.started = @ \/ ~terminal(s),
              !.seq = seq]

\* A receipt s of attempt a.  "done" is its completed_at, "claims" its
\* observation_version and "evidence" whether it carries evidence references.
recordReceipt(c, a, s, seq, done, claims, evidence) ==
    /\ a \in DOMAIN leases[c]
    /\ LeaseAccepts(leases[c][a], seq)
    /\ s \in transitions(state[c])
    /\ state' = [state EXCEPT ![c] = authorityState(s)]
    /\ verification' = [verification EXCEPT ![c] = verificationState(s)]
    /\ leases' = [leases EXCEPT ![c] =
                    [@ EXCEPT ![a] = ReceiptLease(leases[c][a], s, seq)]]
    /\ candidate' = [candidate EXCEPT ![c] =
                       IF s = "completion_candidate"
                       THEN [claims |-> claims, completedAt |-> done,
                             evidence |-> evidence, witness |-> 0]
                       ELSE @]
    /\ lastEvent' = [lastEvent EXCEPT ![c] = eventState(s)]
    /\ UNCHANGED <<now, deploymentVars, terms, approval>>

\* Fault: any observation the receipt names will do, an old one included.
Proves_AnyVersion(o, c, done) ==
    /\ o.status = "healthy" /\ o.usable
    /\ o.version = candidate[c].claims
    /\ o.desired = desiredVersion
    /\ candidate[c].evidence

\* What verifyCommand demands of the observation before it accepts "verified";
\* "done" is the completed_at the verifier stamps.
Proves(o, c, done) ==
    /\ o.status = "healthy" /\ o.usable
    /\ o.version = candidate[c].claims
    /\ o.version > terms[c].expected
    /\ o.desired = desiredVersion
    /\ o.receivedAt >= candidate[c].completedAt
    /\ done <= o.observedAt + MaxFreshness
    /\ candidate[c].evidence

\* The verifier closes a candidate, naming an observation of the deployment.
verifyCommand(c, o, verdict, done) ==
    /\ state[c] = "verifying"
    /\ verification[c] = "checking"
    /\ verdict = "verified" => Proves(o, c, done)
    /\ state' = [state EXCEPT ![c] =
                   IF verdict = "verified" THEN "succeeded" ELSE "failed"]
    /\ verification' = [verification EXCEPT ![c] = verdict]
    /\ candidate' = [candidate EXCEPT ![c] =
                       [@ EXCEPT !.witness = o.version]]
    /\ lastEvent' = [lastEvent EXCEPT ![c] =
                       IF verdict = "verified" THEN "succeeded" ELSE "failed"]
    /\ UNCHANGED <<now, deploymentVars, terms, approval, leases>>

-------------------------------------------------------------------------------
(* The system: the clock, the operators and servers that call the service.    *)

Tick ==
    /\ now < MaxTime
    /\ now' = now + 1
    /\ UNCHANGED <<deploymentVars, commandVars>>

RequestCommand(c) ==
    \E delay \in StartDelays, ttl \in CommandTTLs, approvalTTL \in ApprovalTTLs :
        createCommand(c, delay, ttl, approvalTTL)

DecideApproval(c) ==
    \E u \in Users, decision \in {"approved", "rejected"} :
        decideApproval(c, u, decision)

\* completed_at is stamped by the server between its lease and the receipt; the
\* completion fields are read for a completion candidate only.
RecordReceipt(c) ==
    \E a \in DOMAIN leases[c], s \in ReceiptStates, seq \in 1..MaxReceiptSeq :
        IF s = "completion_candidate"
        THEN \E done \in leases[c][a].issuedAt .. now,
                claims \in 0..MaxObservation, evidence \in BOOLEAN :
                 recordReceipt(c, a, s, seq, done, claims, evidence)
        ELSE recordReceipt(c, a, s, seq, now, 0, FALSE)

\* The verifier finishes after the server did.
VerifyCommand(c) ==
    \E o \in observations, verdict \in {"verified", "failed", "stale", "blocked"},
       done \in candidate[c].completedAt .. now :
        verifyCommand(c, o, verdict, done)

LeaseCommands ==
    \/ \E c \in Commands, term \in LeaseTerms : leaseCommand(c, term)
    \/ leaseNothing

PutDesiredState ==
    \E status \in {"proposed", "active"} : createDesiredState(status)

RecordObservation ==
    \E v \in 1..MaxObservation, d \in 0..MaxDesired,
       status \in ObservationStatuses, usable \in BOOLEAN,
       age, lag \in ObservationLags :
        /\ age + lag <= now
        /\ recordObservation(v, d, status, usable, now - (age + lag), now - age)

Next ==
    \/ Tick
    \/ PutDesiredState
    \/ RecordObservation
    \/ LeaseCommands
    \/ \E c \in Commands :
         \/ RequestCommand(c)
         \/ DecideApproval(c)
         \/ RecordReceipt(c)
         \/ VerifyCommand(c)

Spec == Init /\ [][Next]_vars

\* Time passes and every server keeps polling for leases (runControlDaemon).
FairSpec == Spec /\ WF_vars(Tick) /\ WF_vars(LeaseCommands)

-------------------------------------------------------------------------------
(* Properties.                                                                *)

\* Every variable holds the values its table allows.
TypeOK ==
    /\ now \in Nat
    /\ desired \in Seq(Lifecycles)
    /\ desiredVersion \in Nat
    /\ observations \subseteq Observation
    /\ observedVersion \in Nat
    /\ deploymentStatus \in DeploymentStatuses
    /\ state \in [Commands -> CommandStates]
    /\ verification \in [Commands -> VerificationStates]
    /\ terms \in [Commands -> Terms]
    /\ approval \in [Commands -> Approval]
    /\ leases \in [Commands -> Seq(Lease)]
    /\ candidate \in [Commands -> Candidate]
    /\ lastEvent \in [Commands -> EventStates]

\* The deployment's desired version is the one active revision, whatever the
\* order of proposals and activations (createDesiredState, the trigger of
\* migration 021 and its partial unique index).
ActiveDesiredIsCurrent ==
    \A v \in DOMAIN desired : desired[v] = "active" <=> v = desiredVersion

\* A command is held by a server exactly while one lease of it is active, and
\* that lease is its latest attempt: no expiry, receipt or new lease leaves an
\* active lease behind or a held command without one.
LeaseCoherence ==
    \A c \in Commands :
        /\ \A a \in DOMAIN leases[c] :
             leases[c][a].state = "active" => a = Len(leases[c])
        /\ state[c] \in HeldStates <=>
             \E a \in DOMAIN leases[c] : leases[c][a].state = "active"

\* Once a server has accepted a command no other attempt of it is ever handed
\* out: expireLeases requeues only what nobody started.
AtMostOneStart ==
    \A c \in Commands : \A a \in DOMAIN leases[c] :
        leases[c][a].started => a = Len(leases[c])

\* A high-risk command reaches a server only while an approval by somebody other
\* than its requester is in force, and a rejected one never does.
ApprovalGatesLease ==
    \A c \in ApprovalCommands :
        /\ \A a \in DOMAIN leases[c] :
             /\ approval[c].decision = "approved"
             /\ approval[c].decidedBy # Owner
             /\ leases[c][a].issuedAt < approval[c].expiresAt
        /\ approval[c].decision = "rejected" => state[c] = "cancelled"

\* A succeeded command rests on a healthy observation that is newer than the one
\* it was requested against and is stamped as received after the attempt that ran
\* it was leased.
SuccessIsWitnessed ==
    \A c \in Commands : state[c] = "succeeded" =>
        \E o \in observations :
            /\ o.version = candidate[c].witness
            /\ o.status = "healthy"
            /\ o.version > terms[c].expected
            /\ o.receivedAt >= leases[c][Len(leases[c])].issuedAt

\* Replaying a command's event log gives its state: every transaction that moves
\* the command appends the event that says so (appendEvent).
Replay(e) == CASE e = "approved"  -> "queued"
               [] e = "rejected"  -> "cancelled"
               [] e = "executing" -> "running"
               [] OTHER           -> e

EventLogReplays == \A c \in Commands : state[c] = Replay(lastEvent[c])

\* A command that reached a terminal state keeps it, and its verdict with it,
\* through late receipts, lapsed leases and repeated verifications.
TerminalIsFinal ==
    [][\A c \in Commands : state[c] \in TerminalStates =>
          /\ state'[c] = state[c]
          /\ verification'[c] = verification[c]
          /\ leases'[c] = leases[c]]_vars

\* No receipt moves a command forward after its expires_at: recordReceipt checks
\* the lease only, and the lease never outlives the command.
ProgressBeforeExpiry ==
    [][\A c \in Commands :
          state'[c] \in {"accepted", "running", "verifying"}
          /\ state'[c] # state[c] => now < terms[c].expiresAt]_vars

\* The phase of a command in the abstract lifecycle.
PhaseOf(s) == CASE s = "none"                               -> "absent"
                [] s = "queued"                             -> "waiting"
                [] s = "leased"                             -> "claimed"
                [] s \in {"accepted", "running"}            -> "started"
                [] s = "verifying"                          -> "judging"
                [] s = "succeeded"                          -> "succeeded"
                [] OTHER                                    -> "abandoned"

Lifecycle == INSTANCE CommandLifecycle
             WITH phase <- [c \in Commands |-> PhaseOf(state[c])]

\* The authority implements the abstract lifecycle: however leases, receipts,
\* approvals and the clock interleave, a command moves only along its arrows.
ImplementsLifecycle == Lifecycle!Spec

===============================================================================
