---------------------------- MODULE ControlProofs -----------------------------
(* Proofs about the control plane, for every value of the constants: the       *)
(* control authority (ControlAuthority), one server agent composed with it     *)
(* (ControlLoop, which extends ControlAuthority), and the control outbox       *)
(* (ControlOutbox).                                                            *)
EXTENDS ControlLoop, ControlOutbox, SequenceTheorems, TLAPS

(* THE CONTROL AUTHORITY.                                                     *)
(* What the ledger of leases holds once a lease is appended to it.            *)

\* The row a grant appends to a command's leases is the last one.
LEMMA AppendedLast ==
    ASSUME NEW Rows, NEW rows \in Seq(Rows), NEW row \in Rows,
           NEW n, n = Len(rows)
    PROVE  /\ n + 1 \in DOMAIN Append(rows, row)
           /\ Append(rows, row)[n + 1] = row
<1>1. Len(rows) \in Nat
  BY LenProperties
<1>2. /\ Append(rows, row) \in Seq(Rows)
      /\ Len(Append(rows, row)) = Len(rows) + 1
      /\ Append(rows, row)[Len(rows) + 1] = row
  BY AppendProperties
<1>3. DOMAIN Append(rows, row) = 1..Len(Append(rows, row))
  BY <1>2, LenProperties
<1>4. QED  BY <1>1, <1>2, <1>3

(* What expireLeases computes for one command.                                *)

\* Expiring lapsed leases keeps every row well formed and adds or drops none.
LEMMA ExpiryType ==
    ASSUME TypeOK, NEW c \in Commands
    PROVE  /\ ExpiredState(c) \in CommandStates
           /\ ExpiredVerification(c) \in VerificationStates
           /\ ExpiredEvent(c) \in EventStates
           /\ ExpiredLeases(c) \in Seq(Lease)
           /\ Len(ExpiredLeases(c)) = Len(leases[c])
           /\ DOMAIN ExpiredLeases(c) = DOMAIN leases[c]
<1>1. state[c] \in CommandStates /\ verification[c] \in VerificationStates
      /\ lastEvent[c] \in EventStates /\ leases[c] \in Seq(Lease)
  BY DEF TypeOK
<1>2. ExpiredState(c) \in CommandStates
  BY <1>1 DEF ExpiredState, CommandStates
<1>3. ExpiredVerification(c) \in VerificationStates
  BY <1>1 DEF ExpiredVerification, VerificationStates
<1>4. ExpiredEvent(c) \in EventStates
  BY <1>1, <1>2 DEF ExpiredEvent, EventStates
<1>5. ASSUME NEW a \in DOMAIN leases[c]
      PROVE  /\ leases[c][a] \in Lease
             /\ [leases[c][a] EXCEPT !.state = "expired", !.attempt = "expired"]
                  \in Lease
  <2>1. leases[c][a] \in Lease
    BY <1>1
  <2>2. QED  BY <2>1 DEF Lease, AttemptStates
<1>6. /\ ExpiredLeases(c) \in Seq(Lease)
      /\ Len(ExpiredLeases(c)) = Len(leases[c])
      /\ DOMAIN ExpiredLeases(c) = DOMAIN leases[c]
  <2>1. DOMAIN leases[c] = 1..Len(leases[c]) /\ Len(leases[c]) \in Nat
    BY <1>1
  <2>2. ExpiredLeases(c) \in [1..Len(leases[c]) -> Lease]
    BY <1>5, <2>1 DEF ExpiredLeases
  <2>3. ExpiredLeases(c) \in Seq(Lease)
    BY <2>1, <2>2, SeqDef
  <2>4. QED  BY <2>1, <2>2, <2>3, LenProperties
<1>7. QED  BY <1>2, <1>3, <1>4, <1>6

\* A granted lease is a well-formed lease row (NewLease).
LEMMA NewLeaseType ==
    ASSUME TypeOK, NEW c \in Commands, NEW term \in LeaseTerms
    PROVE  NewLease(c, term) \in Lease
<1>1. terms[c].expiresAt \in Nat /\ now \in Nat /\ now + term \in Nat
  BY DurationsAssumption DEF TypeOK, Terms
<1>2. leaseExpiresAt(c, term) \in Nat
  BY <1>1 DEF leaseExpiresAt
<1>3. QED  BY <1>1, <1>2 DEF NewLease, Lease, AttemptStates

\* A receipt leaves a well-formed lease row (ReceiptLease).
LEMMA ReceiptLeaseType ==
    ASSUME NEW l \in Lease, NEW s \in ReceiptStates, NEW seq \in Nat
    PROVE  ReceiptLease(l, s, seq) \in Lease
<1>1. attemptState(s) \in AttemptStates
  BY DEF attemptState, AttemptStates, ReceiptStates
<1>2. (l.started \/ ~terminal(s)) \in BOOLEAN
  BY DEF Lease
<1>3. QED  BY <1>1, <1>2 DEF ReceiptLease, Lease

-------------------------------------------------------------------------------
(* Type correctness.                                                          *)

\* The empty tables have their types.
LEMMA InitType == Init => TypeOK
<1> SUFFICES ASSUME Init PROVE TypeOK
  OBVIOUS
<1>1. NoApproval \in Approval /\ NoTerms \in Terms /\ NoCandidate \in Candidate
  BY UsersAssumption
  DEF NoApproval, Approval, NoTerms, Terms, NoCandidate, Candidate
<1>2. QED
  BY <1>1 DEF Init, TypeOK, Lifecycles, DeploymentStatuses, CommandStates,
              VerificationStates, EventStates

\* Desired states, observations and the clock keep the types.
LEMMA DeploymentStepType ==
    ASSUME TypeOK, PutDesiredState \/ RecordObservation
    PROVE  TypeOK'
<1>1. CASE PutDesiredState
  <2>1. PICK status \in {"proposed", "active"} : createDesiredState(status)
    BY <1>1 DEF PutDesiredState
  <2>2. desired \in Seq(Lifecycles) /\ Len(desired) \in Nat
        /\ DOMAIN desired = 1..Len(desired)
    BY DEF TypeOK
  <2>3. Superseded(status) \in [1..Len(desired) -> Lifecycles]
    BY <2>2 DEF Superseded, Lifecycles
  <2>4. Superseded(status) \in Seq(Lifecycles)
    BY <2>2, <2>3, SeqDef
  <2>5. desired' \in Seq(Lifecycles)
    BY <2>1, <2>4, AppendProperties DEF createDesiredState, Lifecycles
  <2>6. QED
    BY <2>1, <2>2, <2>5 DEF createDesiredState, TypeOK, commandVars
<1>2. CASE RecordObservation
  <2>1. PICK v \in 1..MaxObservation, d \in 0..MaxDesired,
             status \in ObservationStatuses, usable \in BOOLEAN,
             age, lag \in ObservationLags :
               /\ age + lag <= now
               /\ recordObservation(v, d, status, usable, now - (age + lag),
                                    now - age)
    BY <1>2 DEF RecordObservation
  <2>2. /\ now - (age + lag) \in Nat /\ now - age \in Nat
       /\ v \in Nat /\ d \in Nat
    BY <2>1, DurationsAssumption, BoundsAssumption DEF recordObservation, TypeOK
  <2>3. observations' \subseteq Observation
    BY <2>1, <2>2 DEF recordObservation, TypeOK, Observation
  <2>4. deploymentStatus' \in DeploymentStatuses
    BY <2>1 DEF recordObservation, TypeOK, DeploymentStatuses
  <2>5. QED
    BY <2>1, <2>2, <2>3, <2>4 DEF recordObservation, TypeOK, commandVars
<1>3. QED  BY <1>1, <1>2

\* Requesting a command or deciding its approval keeps the types.
LEMMA RequestStepType ==
    ASSUME TypeOK, NEW c \in Commands, RequestCommand(c) \/ DecideApproval(c)
    PROVE  TypeOK'
<1>1. CASE RequestCommand(c)
  <2>1. PICK delay \in StartDelays, ttl \in CommandTTLs, approvalTTL \in ApprovalTTLs :
          createCommand(c, delay, ttl, approvalTTL)
    BY <1>1 DEF RequestCommand
  <2>2. /\ now + delay \in Nat /\ now + ttl \in Nat /\ now + approvalTTL \in Nat
        /\ observedVersion \in Nat
    BY DurationsAssumption DEF TypeOK
  <2>3. [expected |-> observedVersion, notBefore |-> now + delay,
         expiresAt |-> now + ttl] \in Terms
    BY <2>2 DEF Terms
  <2>4. [decision |-> "pending", decidedBy |-> NoUser,
         expiresAt |-> now + approvalTTL] \in Approval
    BY <2>2 DEF Approval
  <2>5. terms' \in [Commands -> Terms]
    BY <2>1, <2>3 DEF createCommand, TypeOK
  <2>6. approval' \in [Commands -> Approval]
    BY <2>1, <2>4 DEF createCommand, TypeOK
  <2>7. state' \in [Commands -> CommandStates] /\ lastEvent' \in [Commands -> EventStates]
    BY <2>1 DEF createCommand, TypeOK, CommandStates, EventStates
  <2>8. QED
    BY <2>1, <2>5, <2>6, <2>7 DEF createCommand, TypeOK, deploymentVars
<1>2. CASE DecideApproval(c)
  <2>1. PICK u \in Users, decision \in {"approved", "rejected"} :
          decideApproval(c, u, decision)
    BY <1>2 DEF DecideApproval
  <2>2. approval' \in [Commands -> Approval]
    BY <2>1 DEF decideApproval, TypeOK, Approval
  <2>3. state' \in [Commands -> CommandStates]
        /\ verification' \in [Commands -> VerificationStates]
        /\ lastEvent' \in [Commands -> EventStates]
    BY <2>1 DEF decideApproval, TypeOK, CommandStates, VerificationStates, EventStates
  <2>4. QED
    BY <2>1, <2>2, <2>3 DEF decideApproval, TypeOK, deploymentVars
<1>3. QED  BY <1>1, <1>2

\* Recording a receipt or a verification keeps the types.
LEMMA ReceiptStepType ==
    ASSUME TypeOK, NEW c \in Commands, RecordReceipt(c) \/ VerifyCommand(c)
    PROVE  TypeOK'
<1>1. CASE RecordReceipt(c)
  <2>1. PICK a \in DOMAIN leases[c], s \in ReceiptStates,
             seq \in 1..MaxReceiptSeq, done \in Nat, claims \in Nat,
             evidence \in BOOLEAN :
               recordReceipt(c, a, s, seq, done, claims, evidence)
    <3>1. PICK a \in DOMAIN leases[c], s \in ReceiptStates, seq \in 1..MaxReceiptSeq :
            IF s = "completion_candidate"
            THEN \E done \in leases[c][a].issuedAt .. now,
                    claims \in 0..MaxObservation, evidence \in BOOLEAN :
                     recordReceipt(c, a, s, seq, done, claims, evidence)
            ELSE recordReceipt(c, a, s, seq, now, 0, FALSE)
      BY <1>1 DEF RecordReceipt
    <3>2. leases[c] \in Seq(Lease) /\ now \in Nat
      BY DEF TypeOK
    <3>3. leases[c][a] \in Lease
      BY <3>2
    <3>4. leases[c][a].issuedAt \in Nat
      BY <3>3 DEF Lease
    <3>5. CASE s = "completion_candidate"
      <4>1. PICK done \in leases[c][a].issuedAt .. now,
                 claims \in 0..MaxObservation, evidence \in BOOLEAN :
                   recordReceipt(c, a, s, seq, done, claims, evidence)
        BY <3>1, <3>5
      <4>2. done \in Nat /\ claims \in Nat
        BY <3>2, <3>4, BoundsAssumption
      <4>3. QED  BY <4>1, <4>2
    <3>6. CASE s # "completion_candidate"
      BY <3>1, <3>2, <3>6
    <3>7. QED  BY <3>5, <3>6
  <2>2. seq \in Nat
    BY BoundsAssumption
  <2>3. leases[c] \in Seq(Lease)
    BY DEF TypeOK
  <2>4. leases[c][a] \in Lease /\ a \in 1..Len(leases[c])
    BY <2>3
  <2>5. ReceiptLease(leases[c][a], s, seq) \in Lease
    BY <2>2, <2>4, ReceiptLeaseType
  <2>6. leases' = [leases EXCEPT ![c] =
                     [leases[c] EXCEPT ![a] = ReceiptLease(leases[c][a], s, seq)]]
    BY <2>1 DEF recordReceipt
  <2>7. [leases[c] EXCEPT ![a] = ReceiptLease(leases[c][a], s, seq)] \in Seq(Lease)
    BY <2>3, <2>4, <2>5, ExceptSeq
  <2>8. leases' \in [Commands -> Seq(Lease)]
    BY <2>6, <2>7 DEF TypeOK
  <2>9. authorityState(s) \in CommandStates
    BY DEF authorityState, ReceiptStates, CommandStates
  <2>10. verificationState(s) \in VerificationStates
    BY DEF verificationState, ReceiptStates, VerificationStates
  <2>11. eventState(s) \in EventStates
    BY DEF eventState, ReceiptStates, EventStates, CommandStates
  <2>12. [claims |-> claims, completedAt |-> done, evidence |-> evidence,
          witness |-> 0] \in Candidate
    BY DEF Candidate
  <2>13. candidate' \in [Commands -> Candidate]
    BY <2>1, <2>12 DEF recordReceipt, TypeOK
  <2>14. /\ state' \in [Commands -> CommandStates]
         /\ verification' \in [Commands -> VerificationStates]
         /\ lastEvent' \in [Commands -> EventStates]
    BY <2>1, <2>9, <2>10, <2>11 DEF recordReceipt, TypeOK
  <2>15. QED
    BY <2>1, <2>8, <2>13, <2>14 DEF recordReceipt, TypeOK, deploymentVars
<1>2. CASE VerifyCommand(c)
  <2>1. PICK o \in observations, verdict \in {"verified", "failed", "stale", "blocked"},
              done \in candidate[c].completedAt .. now :
          verifyCommand(c, o, verdict, done)
    BY <1>2 DEF VerifyCommand
  <2>2. o.version \in Nat /\ now \in Nat
    BY DEF TypeOK, Observation
  <2>3. candidate[c] \in Candidate
    BY DEF TypeOK
  <2>4. [candidate[c] EXCEPT !.witness = o.version] \in Candidate
    BY <2>2, <2>3 DEF Candidate
  <2>5. candidate' \in [Commands -> Candidate]
    BY <2>1, <2>4 DEF verifyCommand, TypeOK
  <2>6. /\ state' \in [Commands -> CommandStates]
        /\ verification' \in [Commands -> VerificationStates]
        /\ lastEvent' \in [Commands -> EventStates]
    BY <2>1 DEF verifyCommand, TypeOK, CommandStates, VerificationStates, EventStates
  <2>7. QED
    BY <2>1, <2>5, <2>6 DEF verifyCommand, TypeOK, deploymentVars
<1>3. QED  BY <1>1, <1>2

\* leaseCommands with its two outcomes: c is leased for a term, or nothing is.
LEMMA LeaseStepType ==
    ASSUME TypeOK, LeaseCommands
    PROVE  TypeOK'
<1>1. \A d \in Commands : /\ ExpiredState(d) \in CommandStates
                          /\ ExpiredVerification(d) \in VerificationStates
                          /\ ExpiredEvent(d) \in EventStates
                          /\ ExpiredLeases(d) \in Seq(Lease)
  BY ExpiryType
<1>2. CASE leaseNothing
  BY <1>1, <1>2 DEF leaseNothing, TypeOK, deploymentVars
<1>3. ASSUME NEW c \in Commands, NEW term \in LeaseTerms, leaseCommand(c, term)
      PROVE  TypeOK'
  <2>1. NewLease(c, term) \in Lease
    BY NewLeaseType
  <2>2. Append(ExpiredLeases(c), NewLease(c, term)) \in Seq(Lease)
    BY <1>1, <2>1, AppendProperties
  <2>3. leases' = [[d \in Commands |-> ExpiredLeases(d)] EXCEPT ![c] =
                     Append(ExpiredLeases(c), NewLease(c, term))]
    BY <1>3 DEF leaseCommand
  <2>4. leases' \in [Commands -> Seq(Lease)]
    BY <1>1, <2>2, <2>3
  <2>5. /\ state' \in [Commands -> CommandStates]
        /\ verification' \in [Commands -> VerificationStates]
        /\ lastEvent' \in [Commands -> EventStates]
    BY <1>1, <1>3 DEF leaseCommand, CommandStates, EventStates
  <2>6. QED
    BY <1>3, <2>4, <2>5 DEF leaseCommand, TypeOK, deploymentVars
<1>4. QED  BY <1>2, <1>3 DEF LeaseCommands

\* Every step of the authority keeps the types.
LEMMA NextType == TypeOK /\ [Next]_vars => TypeOK'
<1> SUFFICES ASSUME TypeOK, [Next]_vars PROVE TypeOK'
  OBVIOUS
<1>1. CASE Tick
  BY <1>1 DEF Tick, TypeOK, deploymentVars, commandVars
<1>2. CASE PutDesiredState \/ RecordObservation
  BY <1>2, DeploymentStepType
<1>3. CASE LeaseCommands
  BY <1>3, LeaseStepType
<1>4. ASSUME NEW c \in Commands, RequestCommand(c) \/ DecideApproval(c)
      PROVE  TypeOK'
  BY <1>4, RequestStepType
<1>5. ASSUME NEW c \in Commands, RecordReceipt(c) \/ VerifyCommand(c)
      PROVE  TypeOK'
  BY <1>5, ReceiptStepType
<1>6. CASE UNCHANGED vars
  BY <1>6 DEF vars, TypeOK
<1>7. QED  BY <1>1, <1>2, <1>3, <1>4, <1>5, <1>6 DEF Next

\* Every variable keeps its type: the tables never hold a value the schema forbids.
THEOREM TypeCorrect == Spec => []TypeOK
<1>1. QED  BY InitType, NextType, PTL DEF Spec

-------------------------------------------------------------------------------
(* The inductive invariant.  Each property of the commands is inductive only  *)
(* together with what it silently relies on: a command that may be leased has *)
(* no started attempt, a lease is capped by its command's expiry, an approval *)
(* still open belongs to a queued command nobody leased, and a completion is  *)
(* dated after its lease.                                                     *)

LeaseInv(c) ==
    /\ \A a \in DOMAIN leases[c] :
         leases[c][a].state = "active" => a = Len(leases[c])
    /\ state[c] \in HeldStates <=>
         \E a \in DOMAIN leases[c] : leases[c][a].state = "active"
    /\ state[c] = "none" => Len(leases[c]) = 0

StartInv(c) ==
    \A a \in DOMAIN leases[c] : leases[c][a].started =>
        /\ a = Len(leases[c])
        /\ state[c] \notin {"none", "queued", "leased"}

ExpiryInv(c) ==
    \A a \in DOMAIN leases[c] : leases[c][a].expiresAt <= terms[c].expiresAt

ApprovalInv(c) ==
    /\ approval[c].decision = "pending" =>
         state[c] = "queued" /\ Len(leases[c]) = 0
    /\ approval[c].decision = "rejected" =>
         state[c] = "cancelled" /\ Len(leases[c]) = 0
    /\ approval[c].decision = "approved" => approval[c].decidedBy # Owner
    /\ c \notin ApprovalCommands => approval[c].decision = "none"
    /\ c \in ApprovalCommands =>
         \A a \in DOMAIN leases[c] :
            /\ approval[c].decision = "approved"
            /\ leases[c][a].issuedAt < approval[c].expiresAt

EventInv(c) == state[c] = Replay(lastEvent[c])

WitnessInv(c) ==
    /\ state[c] \in {"verifying", "succeeded"} =>
         /\ Len(leases[c]) > 0
         /\ candidate[c].completedAt >= leases[c][Len(leases[c])].issuedAt
    /\ state[c] = "succeeded" =>
         \E o \in observations :
            /\ o.version = candidate[c].witness
            /\ o.status = "healthy"
            /\ o.version > terms[c].expected
            /\ o.receivedAt >= leases[c][Len(leases[c])].issuedAt

CommandInv(c) == /\ LeaseInv(c) /\ StartInv(c) /\ ExpiryInv(c)
                 /\ ApprovalInv(c) /\ EventInv(c) /\ WitnessInv(c)

IndInv == TypeOK /\ \A c \in Commands : CommandInv(c)

\* The empty tables satisfy the inductive invariant.
LEMMA InitInv == Init => IndInv
<1> SUFFICES ASSUME Init PROVE IndInv
  OBVIOUS
<1>1. ASSUME NEW c \in Commands PROVE CommandInv(c)
  <2>1. /\ state[c] = "none" /\ leases[c] = << >> /\ lastEvent[c] = "none"
        /\ approval[c].decision = "none"
    BY DEF Init, NoApproval
  <2>2. Len(leases[c]) = 0 /\ DOMAIN leases[c] = {}
    BY <2>1
  <2>3. QED
    BY <2>1, <2>2 DEF CommandInv, LeaseInv, StartInv, ExpiryInv, ApprovalInv,
                      EventInv, WitnessInv, HeldStates, Replay
<1>2. QED  BY <1>1, InitType DEF IndInv

\* A command none of whose rows changes keeps its invariant: observations are
\* never removed.
LEMMA UntouchedKeeps ==
    ASSUME NEW d \in Commands, CommandInv(d),
           state'[d] = state[d], leases'[d] = leases[d], terms'[d] = terms[d],
           approval'[d] = approval[d], candidate'[d] = candidate[d],
           lastEvent'[d] = lastEvent[d], observations \subseteq observations'
    PROVE  CommandInv(d)'
<1>1. LeaseInv(d)' /\ StartInv(d)' /\ ExpiryInv(d)'
  BY DEF CommandInv, LeaseInv, StartInv, ExpiryInv
<1>2. ApprovalInv(d)' /\ EventInv(d)'
  BY DEF CommandInv, ApprovalInv, EventInv
<1>3. WitnessInv(d)'
  BY DEF CommandInv, WitnessInv
<1>4. QED  BY <1>1, <1>2, <1>3 DEF CommandInv

\* What expireLeases does to one lease row.
LEMMA ExpiredRow ==
    ASSUME TypeOK, NEW c \in Commands, NEW a \in DOMAIN leases[c]
    PROVE  /\ ExpiredLeases(c)[a].issuedAt = leases[c][a].issuedAt
           /\ ExpiredLeases(c)[a].expiresAt = leases[c][a].expiresAt
           /\ ExpiredLeases(c)[a].started = leases[c][a].started
           /\ ExpiredLeases(c)[a].state = IF Lapsed(leases[c][a]) THEN "expired"
                                          ELSE leases[c][a].state
<1>1. leases[c] \in Seq(Lease)
  BY DEF TypeOK
<1>2. leases[c][a] \in Lease
  BY <1>1
<1>3. QED  BY <1>2 DEF ExpiredLeases, Lease

\* A command whose leases did not lapse keeps its state and its active lease; one
\* whose lease lapsed has no active lease left.
LEMMA ExpiryOutcome ==
    ASSUME TypeOK, NEW d \in Commands, LeaseInv(d)
    PROVE  /\ ~HasLapsed(d) =>
                /\ ExpiredState(d) = state[d]
                /\ \A a \in DOMAIN leases[d] :
                     ExpiredLeases(d)[a].state = leases[d][a].state
           /\ HasLapsed(d) =>
                /\ state[d] \in HeldStates
                /\ ExpiredState(d) \in {"queued", "expired"}
                /\ ExpiredState(d) = "queued" <=> state[d] = "leased"
                /\ \A a \in DOMAIN leases[d] : ExpiredLeases(d)[a].state # "active"
<1>1. CASE ~HasLapsed(d)
  BY <1>1, ExpiredRow DEF HasLapsed, ExpiredState
<1>2. CASE HasLapsed(d)
  <2>1. PICK b \in DOMAIN leases[d] : Lapsed(leases[d][b])
    BY <1>2 DEF HasLapsed
  <2>2. leases[d][b].state = "active" /\ b = Len(leases[d]) /\ state[d] \in HeldStates
    BY <2>1 DEF Lapsed, LeaseInv
  <2>3. ASSUME NEW a \in DOMAIN leases[d]
        PROVE  ExpiredLeases(d)[a].state # "active"
    <3>1. CASE a = b
      BY <2>1, <3>1, ExpiredRow
    <3>2. CASE a # b
      <4>1. leases[d][a].state # "active"
        BY <2>2, <3>2 DEF LeaseInv
      <4>2. QED  BY <4>1, ExpiredRow
    <3>3. QED  BY <3>1, <3>2
  <2>4. QED  BY <1>2, <2>2, <2>3 DEF ExpiredState, safeToRetry
<1>3. QED  BY <1>1, <1>2

\* expireLeases keeps the invariant of every command it visits.
LEMMA ExpiryKeeps ==
    ASSUME TypeOK, NEW d \in Commands, CommandInv(d),
           state'[d] = ExpiredState(d), leases'[d] = ExpiredLeases(d),
           lastEvent'[d] = ExpiredEvent(d), terms'[d] = terms[d],
           approval'[d] = approval[d], candidate'[d] = candidate[d],
           observations' = observations
    PROVE  CommandInv(d)'
<1>1. /\ Len(ExpiredLeases(d)) = Len(leases[d])
      /\ DOMAIN ExpiredLeases(d) = DOMAIN leases[d]
      /\ DOMAIN leases[d] = 1..Len(leases[d]) /\ Len(leases[d]) \in Nat
  BY ExpiryType DEF TypeOK
<1>2. LeaseInv(d)'
  BY <1>1, ExpiryOutcome DEF CommandInv, LeaseInv, HeldStates
<1>3. StartInv(d)'
  BY <1>1, ExpiryOutcome, ExpiredRow DEF CommandInv, StartInv, HeldStates
<1>4. ExpiryInv(d)'
  BY <1>1, ExpiredRow DEF CommandInv, ExpiryInv
<1>5. ApprovalInv(d)'
  <2>1. Len(leases[d]) = 0 => ~HasLapsed(d)
    BY <1>1 DEF HasLapsed
  <2>2. QED
    BY <1>1, <2>1, ExpiryOutcome, ExpiredRow DEF CommandInv, ApprovalInv
<1>6. EventInv(d)'
  BY ExpiryOutcome DEF CommandInv, EventInv, ExpiredEvent, Replay
<1>7. WitnessInv(d)'
  <2>1. state'[d] \in {"verifying", "succeeded"} => state'[d] = state[d]
    BY ExpiryOutcome DEF CommandInv
  <2>2. Len(leases[d]) > 0 =>
          ExpiredLeases(d)[Len(leases[d])].issuedAt = leases[d][Len(leases[d])].issuedAt
    BY <1>1, ExpiredRow
  <2>3. QED  BY <1>1, <2>1, <2>2 DEF CommandInv, WitnessInv
<1>8. QED  BY <1>2, <1>3, <1>4, <1>5, <1>6, <1>7 DEF CommandInv

\* Granting a lease: the command was queued, so no attempt of it had started.
LEMMA LeaseKeeps ==
    ASSUME TypeOK, NEW c \in Commands, NEW term \in LeaseTerms, CommandInv(c),
           leaseCommand(c, term)
    PROVE  CommandInv(c)'
<1> DEFINE old == ExpiredLeases(c)
           n == Len(leases[c])
<1>1. /\ n \in Nat /\ DOMAIN leases[c] = 1..n /\ old \in Seq(Lease) /\ Len(old) = n
  BY ExpiryType DEF TypeOK
<1>2. NewLease(c, term) \in Lease
  BY NewLeaseType
<1>3. /\ leases'[c] = Append(old, NewLease(c, term))
      /\ state'[c] = "leased" /\ lastEvent'[c] = "leased"
      /\ terms'[c] = terms[c] /\ approval'[c] = approval[c]
      /\ candidate'[c] = candidate[c]
  BY DEF leaseCommand, TypeOK
<1>4. /\ Len(leases'[c]) = n + 1 /\ DOMAIN leases'[c] = 1..(n + 1)
      /\ leases'[c][n + 1] = NewLease(c, term)
      /\ \A a \in 1..n : leases'[c][a] = old[a]
  BY <1>1, <1>2, <1>3, AppendProperties, LenProperties
<1>5. /\ NewLease(c, term).state = "active" /\ NewLease(c, term).started = FALSE
      /\ NewLease(c, term).issuedAt = now
      /\ NewLease(c, term).expiresAt = leaseExpiresAt(c, term)
  BY DEF NewLease
<1>6. ExpiredState(c) = "queued"
  BY DEF leaseCommand, Leasable
<1>7. \A a \in 1..n : /\ old[a].state # "active"
                      /\ ~old[a].started
                      /\ old[a].expiresAt = leases[c][a].expiresAt
                      /\ old[a].issuedAt = leases[c][a].issuedAt
  BY <1>1, <1>6, ExpiryOutcome, ExpiredRow
  DEF CommandInv, LeaseInv, StartInv, HeldStates
<1>8. LeaseInv(c)'
  <2>1. \A a \in DOMAIN leases'[c] : leases'[c][a].state = "active" => a = n + 1
    BY <1>1, <1>4, <1>7
  <2>2. n + 1 \in DOMAIN leases'[c] /\ leases'[c][n + 1].state = "active"
    BY <1>1, <1>4, <1>5
  <2>3. QED  BY <1>3, <1>4, <2>1, <2>2 DEF LeaseInv, HeldStates
<1>9. StartInv(c)'
  <2>1. \A a \in DOMAIN leases'[c] : ~leases'[c][a].started
    BY <1>1, <1>4, <1>5, <1>7
  <2>2. QED  BY <2>1 DEF StartInv
<1>10. ExpiryInv(c)'
  <2>1. leaseExpiresAt(c, term) <= terms[c].expiresAt
    BY DurationsAssumption DEF leaseExpiresAt, TypeOK, Terms
  <2>2. QED  BY <1>1, <1>3, <1>4, <1>5, <1>7, <2>1 DEF CommandInv, ExpiryInv
<1>11. ApprovalInv(c)'
  <2>1. Approved(c)
    BY DEF leaseCommand, Leasable
  <2>2. state[c] \in {"queued", "leased"}
    BY <1>6, ExpiryOutcome DEF CommandInv
  <2>3. c \in ApprovalCommands =>
          approval[c].decision = "approved" /\ now < approval[c].expiresAt
    BY <2>1 DEF Approved
  <2>4. approval[c].decision \notin {"pending", "rejected"}
    BY <2>3 DEF CommandInv, ApprovalInv
  <2>5. c \in ApprovalCommands =>
          \A a \in DOMAIN leases'[c] : leases'[c][a].issuedAt < approval[c].expiresAt
    BY <1>1, <1>4, <1>5, <1>7, <2>3 DEF CommandInv, ApprovalInv
  <2>6. QED
    BY <1>3, <2>3, <2>4, <2>5 DEF CommandInv, ApprovalInv
<1>12. EventInv(c)'
  BY <1>3 DEF EventInv, Replay
<1>13. WitnessInv(c)'
  BY <1>3 DEF WitnessInv
<1>14. QED  BY <1>8, <1>9, <1>10, <1>11, <1>12, <1>13 DEF CommandInv

\* A requested command starts with no lease, event "queued" and its approval.
LEMMA RequestKeeps ==
    ASSUME TypeOK, NEW c \in Commands, CommandInv(c), RequestCommand(c)
    PROVE  CommandInv(c)'
<1>1. PICK delay \in StartDelays, ttl \in CommandTTLs, approvalTTL \in ApprovalTTLs :
        createCommand(c, delay, ttl, approvalTTL)
  BY DEF RequestCommand
<1>2. /\ state[c] = "none" /\ state'[c] = "queued" /\ lastEvent'[c] = "queued"
      /\ leases'[c] = leases[c]
      /\ approval'[c].decision = IF c \in ApprovalCommands THEN "pending"
                                 ELSE approval[c].decision
  BY <1>1 DEF createCommand, TypeOK
<1>3. Len(leases[c]) = 0 /\ DOMAIN leases[c] = {}
  BY <1>2 DEF CommandInv, LeaseInv, TypeOK
<1>4. LeaseInv(c)' /\ StartInv(c)' /\ ExpiryInv(c)'
  BY <1>2, <1>3 DEF LeaseInv, StartInv, ExpiryInv, HeldStates
<1>5. ApprovalInv(c)'
  BY <1>2, <1>3 DEF CommandInv, ApprovalInv
<1>6. EventInv(c)' /\ WitnessInv(c)'
  BY <1>2 DEF EventInv, Replay, WitnessInv
<1>7. QED  BY <1>4, <1>5, <1>6 DEF CommandInv

\* A decision touches an unexpired pending approval: nothing is leased yet.
LEMMA DecideKeeps ==
    ASSUME TypeOK, NEW c \in Commands, CommandInv(c), DecideApproval(c)
    PROVE  CommandInv(c)'
<1>1. PICK u \in Users, decision \in {"approved", "rejected"} :
        decideApproval(c, u, decision)
  BY DEF DecideApproval
<1>2. /\ approval[c].decision = "pending" /\ state[c] = "queued"
      /\ Len(leases[c]) = 0 /\ DOMAIN leases[c] = {}
      /\ c \in ApprovalCommands
  BY <1>1 DEF decideApproval, CommandInv, ApprovalInv, TypeOK
<1>3. /\ state'[c] = IF decision = "rejected" THEN "cancelled" ELSE "queued"
      /\ lastEvent'[c] = decision
      /\ leases'[c] = leases[c]
  BY <1>1, <1>2 DEF decideApproval, TypeOK
<1>4. approval[c] \in Approval
  BY DEF TypeOK
<1>5. approval'[c].decision = decision /\ approval'[c].decidedBy = u
  BY <1>1, <1>4 DEF decideApproval, TypeOK, Approval
<1>6. decision = "approved" => u # Owner
  BY <1>1 DEF decideApproval, MayDecide
<1>7. LeaseInv(c)' /\ StartInv(c)' /\ ExpiryInv(c)'
  BY <1>2, <1>3 DEF LeaseInv, StartInv, ExpiryInv, HeldStates
<1>8. ApprovalInv(c)'
  BY <1>2, <1>3, <1>5, <1>6 DEF ApprovalInv
<1>9. EventInv(c)' /\ WitnessInv(c)'
  BY <1>3 DEF EventInv, Replay, WitnessInv
<1>10. QED  BY <1>7, <1>8, <1>9 DEF CommandInv

\* A receipt is accepted for the active lease only, which is the latest one.
LEMMA ReceiptKeeps ==
    ASSUME TypeOK, NEW c \in Commands, CommandInv(c), RecordReceipt(c)
    PROVE  CommandInv(c)'
<1>1. PICK a \in DOMAIN leases[c], s \in ReceiptStates, seq \in 1..MaxReceiptSeq :
        \E done, claims, evidence :
            /\ recordReceipt(c, a, s, seq, done, claims, evidence)
            /\ s = "completion_candidate" => done \in leases[c][a].issuedAt .. now
  BY DEF RecordReceipt
<1>2. PICK done, claims, evidence :
            /\ recordReceipt(c, a, s, seq, done, claims, evidence)
            /\ s = "completion_candidate" => done \in leases[c][a].issuedAt .. now
  BY <1>1
<1>3. leases[c] \in Seq(Lease)
  BY DEF TypeOK
<1>4. leases[c][a] \in Lease /\ DOMAIN leases[c] = 1..Len(leases[c])
      /\ Len(leases[c]) \in Nat
  BY <1>3
<1>5. leases[c][a].state = "active" /\ a = Len(leases[c]) /\ state[c] \in HeldStates
  BY <1>2 DEF recordReceipt, LeaseAccepts, CommandInv, LeaseInv
<1>6. /\ leases'[c] = [leases[c] EXCEPT ![a] = ReceiptLease(leases[c][a], s, seq)]
      /\ state'[c] = authorityState(s) /\ lastEvent'[c] = eventState(s)
      /\ terms'[c] = terms[c] /\ approval'[c] = approval[c]
      /\ s \in transitions(state[c])
  BY <1>2 DEF recordReceipt, TypeOK
<1>7. /\ ReceiptLease(leases[c][a], s, seq).issuedAt = leases[c][a].issuedAt
      /\ ReceiptLease(leases[c][a], s, seq).expiresAt = leases[c][a].expiresAt
      /\ ReceiptLease(leases[c][a], s, seq).state =
            IF terminal(s) THEN "consumed" ELSE "active"
  BY <1>4, <1>5 DEF ReceiptLease, Lease
<1>8. /\ DOMAIN leases'[c] = DOMAIN leases[c] /\ Len(leases'[c]) = Len(leases[c])
      /\ leases'[c][a] = ReceiptLease(leases[c][a], s, seq)
      /\ \A b \in DOMAIN leases[c] : b # a => leases'[c][b] = leases[c][b]
  <2>1. seq \in Nat
    BY BoundsAssumption
  <2>2. ReceiptLease(leases[c][a], s, seq) \in Lease
    BY <1>4, <2>1, ReceiptLeaseType
  <2>3. QED  BY <1>3, <1>4, <1>6, <2>2, ExceptSeq
<1>9. /\ authorityState(s) \notin {"none", "queued", "leased", "succeeded"}
      /\ authorityState(s) \in HeldStates <=> ~terminal(s)
      /\ authorityState(s) = "verifying" <=> s = "completion_candidate"
      /\ authorityState(s) = Replay(eventState(s))
  BY DEF authorityState, eventState, ReceiptStates, HeldStates, terminal, Replay
<1>10. LeaseInv(c)'
  <2>1. \A b \in DOMAIN leases'[c] :
          leases'[c][b].state = "active" <=> (b = a /\ ~terminal(s))
    BY <1>5, <1>7, <1>8 DEF CommandInv, LeaseInv
  <2>2. QED  BY <1>5, <1>6, <1>8, <1>9, <2>1 DEF LeaseInv
<1>11. StartInv(c)'
  BY <1>5, <1>6, <1>8, <1>9 DEF CommandInv, StartInv
<1>12. ExpiryInv(c)'
  BY <1>6, <1>7, <1>8 DEF CommandInv, ExpiryInv
<1>13. ApprovalInv(c)'
  <2>1. Len(leases[c]) # 0
    BY <1>4, <1>5
  <2>2. QED  BY <1>6, <1>7, <1>8, <2>1 DEF CommandInv, ApprovalInv
<1>14. EventInv(c)'
  BY <1>6, <1>9 DEF EventInv
<1>15. WitnessInv(c)'
  <2>1. s = "completion_candidate" => candidate'[c].completedAt = done
    BY <1>2 DEF recordReceipt, TypeOK
  <2>2. s = "completion_candidate" => done >= leases[c][a].issuedAt
    BY <1>2, <1>4 DEF Lease, TypeOK
  <2>3. QED
    BY <1>4, <1>5, <1>6, <1>7, <1>8, <1>9, <2>1, <2>2 DEF WitnessInv
<1>16. QED  BY <1>10, <1>11, <1>12, <1>13, <1>14, <1>15 DEF CommandInv

\* A verdict closes a candidate and names the observation it rests on.
LEMMA VerifyKeeps ==
    ASSUME TypeOK, NEW c \in Commands, CommandInv(c), VerifyCommand(c)
    PROVE  CommandInv(c)'
<1>1. PICK o \in observations, verdict \in {"verified", "failed", "stale", "blocked"},
              done \in candidate[c].completedAt .. now :
        verifyCommand(c, o, verdict, done)
  BY DEF VerifyCommand
<1>2. /\ state[c] = "verifying"
      /\ state'[c] = IF verdict = "verified" THEN "succeeded" ELSE "failed"
      /\ lastEvent'[c] = state'[c]
      /\ leases'[c] = leases[c] /\ terms'[c] = terms[c]
      /\ approval'[c] = approval[c] /\ observations' = observations
  BY <1>1 DEF verifyCommand, TypeOK, deploymentVars
<1>3. candidate[c] \in Candidate /\ leases[c] \in Seq(Lease) /\ o \in Observation
  BY DEF TypeOK
<1>4. /\ candidate'[c].witness = o.version
      /\ candidate'[c].completedAt = candidate[c].completedAt
  BY <1>1, <1>3 DEF verifyCommand, TypeOK, Candidate
<1>5. LeaseInv(c)' /\ StartInv(c)' /\ ExpiryInv(c)'
  BY <1>2 DEF CommandInv, LeaseInv, StartInv, ExpiryInv, HeldStates
<1>6. ApprovalInv(c)' /\ EventInv(c)'
  BY <1>2 DEF CommandInv, ApprovalInv, EventInv, Replay
<1>7. WitnessInv(c)'
  <2>1. /\ Len(leases[c]) > 0
        /\ candidate[c].completedAt >= leases[c][Len(leases[c])].issuedAt
    BY <1>2 DEF CommandInv, WitnessInv
  <2>2. CASE verdict = "verified"
    <3>1. /\ o.status = "healthy" /\ o.version > terms[c].expected
          /\ o.receivedAt >= candidate[c].completedAt
      BY <1>1, <2>2 DEF verifyCommand, Proves
    <3>2. /\ o.receivedAt \in Nat /\ candidate[c].completedAt \in Nat
          /\ leases[c][Len(leases[c])] \in Lease
      BY <1>3, <2>1 DEF Observation, Candidate
    <3>3. leases[c][Len(leases[c])].issuedAt \in Nat
      BY <3>2 DEF Lease
    <3>4. o.receivedAt >= leases[c][Len(leases[c])].issuedAt
      BY <2>1, <3>1, <3>2, <3>3
    <3>5. QED  BY <1>2, <1>4, <2>1, <3>1, <3>4 DEF WitnessInv
  <2>3. CASE verdict # "verified"
    BY <1>2, <2>3 DEF WitnessInv
  <2>4. QED  BY <2>2, <2>3
<1>8. QED  BY <1>5, <1>6, <1>7 DEF CommandInv

\* Steps of one command leave the rows of every other command alone.
LEMMA OthersUntouched ==
    ASSUME TypeOK, NEW c \in Commands, NEW d \in Commands, d # c,
           \/ RequestCommand(c) \/ DecideApproval(c)
           \/ RecordReceipt(c) \/ VerifyCommand(c)
    PROVE  /\ state'[d] = state[d] /\ leases'[d] = leases[d]
           /\ terms'[d] = terms[d] /\ approval'[d] = approval[d]
           /\ candidate'[d] = candidate[d] /\ lastEvent'[d] = lastEvent[d]
           /\ observations' = observations
<1>1. CASE RequestCommand(c)
  BY <1>1 DEF RequestCommand, createCommand, TypeOK, deploymentVars
<1>2. CASE DecideApproval(c)
  BY <1>2 DEF DecideApproval, decideApproval, TypeOK, deploymentVars
<1>3. CASE RecordReceipt(c)
  BY <1>3 DEF RecordReceipt, recordReceipt, TypeOK, deploymentVars
<1>4. CASE VerifyCommand(c)
  BY <1>4 DEF VerifyCommand, verifyCommand, TypeOK, deploymentVars
<1>5. QED  BY <1>1, <1>2, <1>3, <1>4

\* Every step of the authority preserves the inductive invariant.
LEMMA NextInv == IndInv /\ [Next]_vars => IndInv'
<1> SUFFICES ASSUME IndInv, [Next]_vars, NEW d \in Commands
             PROVE  CommandInv(d)'
  BY NextType DEF IndInv
<1>1. TypeOK /\ CommandInv(d)
  BY DEF IndInv
<1>2. CASE Tick \/ PutDesiredState \/ RecordObservation \/ UNCHANGED vars
  <2>1. /\ state' = state /\ leases' = leases /\ terms' = terms
        /\ approval' = approval /\ candidate' = candidate
        /\ lastEvent' = lastEvent /\ observations \subseteq observations'
    BY <1>2 DEF Tick, PutDesiredState, createDesiredState, RecordObservation,
                recordObservation, vars, commandVars, deploymentVars
  <2>2. QED  BY <1>1, <2>1, UntouchedKeeps
<1>3. CASE leaseNothing
  <2>1. /\ state'[d] = ExpiredState(d) /\ leases'[d] = ExpiredLeases(d)
        /\ lastEvent'[d] = ExpiredEvent(d) /\ terms'[d] = terms[d]
        /\ approval'[d] = approval[d] /\ candidate'[d] = candidate[d]
        /\ observations' = observations
    BY <1>3 DEF leaseNothing, deploymentVars
  <2>2. QED  BY <1>1, <2>1, ExpiryKeeps
<1>4. ASSUME NEW c \in Commands, NEW term \in LeaseTerms, leaseCommand(c, term)
      PROVE  CommandInv(d)'
  <2>1. CASE d = c
    BY <1>1, <1>4, <2>1, LeaseKeeps
  <2>2. CASE d # c
    <3>1. /\ state'[d] = ExpiredState(d) /\ leases'[d] = ExpiredLeases(d)
          /\ lastEvent'[d] = ExpiredEvent(d) /\ terms'[d] = terms[d]
          /\ approval'[d] = approval[d] /\ candidate'[d] = candidate[d]
          /\ observations' = observations
      BY <1>4, <2>2 DEF leaseCommand, deploymentVars
    <3>2. QED  BY <1>1, <3>1, ExpiryKeeps
  <2>3. QED  BY <2>1, <2>2
<1>5. ASSUME NEW c \in Commands,
             \/ RequestCommand(c) \/ DecideApproval(c)
             \/ RecordReceipt(c) \/ VerifyCommand(c)
      PROVE  CommandInv(d)'
  <2>1. CASE d = c
    BY <1>1, <1>5, <2>1, RequestKeeps, DecideKeeps, ReceiptKeeps, VerifyKeeps
  <2>2. CASE d # c
    BY <1>1, <1>5, <2>2, OthersUntouched, UntouchedKeeps
  <2>3. QED  BY <2>1, <2>2
<1>6. QED  BY <1>2, <1>3, <1>4, <1>5 DEF Next, LeaseCommands

\* The inductive invariant holds in every reachable state.
LEMMA InvariantHolds == Spec => []IndInv
<1>1. QED  BY InitInv, NextInv, PTL DEF Spec

-------------------------------------------------------------------------------
(* The properties.                                                            *)

\* A command is held exactly while its latest lease is the one active lease.
THEOREM LeasesCohere == Spec => []LeaseCoherence
<1>1. IndInv => LeaseCoherence
  BY DEF IndInv, CommandInv, LeaseInv, LeaseCoherence
<1>2. QED  BY <1>1, InvariantHolds, PTL

\* The authority hands out no further attempt once one has been accepted.
THEOREM StartsOnce == Spec => []AtMostOneStart
<1>1. IndInv => AtMostOneStart
  BY DEF IndInv, CommandInv, StartInv, AtMostOneStart
<1>2. QED  BY <1>1, InvariantHolds, PTL

\* A high-risk command is leased only under an approval in force that somebody
\* other than its requester gave; a rejected one is cancelled.
THEOREM ApprovalGates == Spec => []ApprovalGatesLease
<1>1. IndInv => ApprovalGatesLease
  BY CommandsAssumption DEF IndInv, CommandInv, ApprovalInv, ApprovalGatesLease
<1>2. QED  BY <1>1, InvariantHolds, PTL

\* Success rests on a healthy, newer observation received after the lease.
THEOREM SuccessWitnessed == Spec => []SuccessIsWitnessed
<1>1. IndInv => SuccessIsWitnessed
  BY DEF IndInv, CommandInv, WitnessInv, SuccessIsWitnessed
<1>2. QED  BY <1>1, InvariantHolds, PTL

\* The event log of a command replays to its state.
THEOREM EventsReplay == Spec => []EventLogReplays
<1>1. IndInv => EventLogReplays
  BY DEF IndInv, CommandInv, EventInv, EventLogReplays
<1>2. QED  BY <1>1, InvariantHolds, PTL

\* How one step may change the state and the leases of one command.
LEMMA StepOfCommand ==
    ASSUME IndInv, [Next]_vars, NEW d \in Commands
    PROVE  \/ /\ state'[d] = state[d] /\ verification'[d] = verification[d]
              /\ leases'[d] = leases[d]
           \/ state[d] = "none" /\ state'[d] = "queued"
           \/ state[d] = "queued" /\ state'[d] \in {"queued", "leased", "cancelled"}
           \/ state[d] = "leased" /\ state'[d] \in {"queued", "leased"}
           \/ state[d] \in {"accepted", "running"} /\ state'[d] = "expired"
           \/ /\ state[d] \in HeldStates
              /\ \E s \in ReceiptStates : /\ s \in transitions(state[d])
                                          /\ state'[d] = authorityState(s)
              /\ now < terms[d].expiresAt
           \/ state[d] = "verifying" /\ state'[d] \in {"succeeded", "failed"}
<1>1. TypeOK /\ CommandInv(d) /\ state[d] \in CommandStates
  BY DEF IndInv, TypeOK
<1>2. CASE Tick \/ PutDesiredState \/ RecordObservation \/ UNCHANGED vars
  BY <1>2 DEF Tick, PutDesiredState, createDesiredState, RecordObservation,
              recordObservation, vars, commandVars, deploymentVars
<1>3. ASSUME state'[d] = ExpiredState(d), leases'[d] = ExpiredLeases(d),
             verification'[d] = ExpiredVerification(d)
      PROVE  \/ /\ state'[d] = state[d] /\ verification'[d] = verification[d]
                /\ leases'[d] = leases[d]
             \/ state[d] = "leased" /\ state'[d] = "queued"
             \/ state[d] \in {"accepted", "running"} /\ state'[d] = "expired"
  <2>1. CASE HasLapsed(d)
    BY <1>1, <1>3, <2>1, ExpiryOutcome DEF CommandInv, HeldStates
  <2>2. CASE ~HasLapsed(d)
    <3>1. leases[d] \in Seq(Lease)
      BY <1>1 DEF TypeOK
    <3>2. ExpiredLeases(d) = leases[d]
      <4>1. \A a \in DOMAIN leases[d] : ExpiredLeases(d)[a] = leases[d][a]
        BY <2>2 DEF ExpiredLeases, HasLapsed
      <4>2. QED  BY <1>1, <3>1, <4>1, ExpiryType, SeqEqual
    <3>3. QED  BY <1>3, <2>2, <3>2 DEF ExpiredState, ExpiredVerification
  <2>3. QED  BY <2>1, <2>2
<1>4. CASE leaseNothing
  <2>1. /\ state'[d] = ExpiredState(d) /\ leases'[d] = ExpiredLeases(d)
        /\ verification'[d] = ExpiredVerification(d)
    BY <1>4 DEF leaseNothing
  <2>2. QED  BY <1>3, <2>1
<1>5. ASSUME NEW c \in Commands, NEW term \in LeaseTerms, leaseCommand(c, term)
      PROVE  \/ /\ state'[d] = state[d] /\ verification'[d] = verification[d]
                /\ leases'[d] = leases[d]
             \/ state[d] = "queued" /\ state'[d] = "leased"
             \/ state[d] = "leased" /\ state'[d] \in {"queued", "leased"}
             \/ state[d] \in {"accepted", "running"} /\ state'[d] = "expired"
  <2>1. CASE d = c
    <3>1. state'[d] = "leased" /\ ExpiredState(d) = "queued"
      BY <1>5, <2>1 DEF leaseCommand, Leasable
    <3>2. state[d] \in {"queued", "leased"}
      BY <1>1, <3>1, ExpiryOutcome DEF CommandInv
    <3>3. QED  BY <3>1, <3>2
  <2>2. CASE d # c
    <3>1. /\ state'[d] = ExpiredState(d) /\ leases'[d] = ExpiredLeases(d)
          /\ verification'[d] = ExpiredVerification(d)
      BY <1>5, <2>2 DEF leaseCommand
    <3>2. QED  BY <1>3, <3>1
  <2>3. QED  BY <2>1, <2>2
<1>6. ASSUME NEW c \in Commands, d # c,
             \/ RequestCommand(c) \/ DecideApproval(c)
             \/ RecordReceipt(c) \/ VerifyCommand(c)
      PROVE  /\ state'[d] = state[d] /\ verification'[d] = verification[d]
             /\ leases'[d] = leases[d]
  <2>1. verification'[d] = verification[d]
    <3>1. CASE RequestCommand(c)
      BY <3>1 DEF RequestCommand, createCommand
    <3>2. CASE DecideApproval(c)
      BY <1>1, <1>6, <3>2 DEF DecideApproval, decideApproval, TypeOK
    <3>3. CASE RecordReceipt(c)
      BY <1>1, <1>6, <3>3 DEF RecordReceipt, recordReceipt, TypeOK
    <3>4. CASE VerifyCommand(c)
      BY <1>1, <1>6, <3>4 DEF VerifyCommand, verifyCommand, TypeOK
    <3>5. QED  BY <1>6, <3>1, <3>2, <3>3, <3>4
  <2>2. QED  BY <1>1, <1>6, <2>1, OthersUntouched
<1>7. CASE RequestCommand(d)
  BY <1>1, <1>7 DEF RequestCommand, createCommand, TypeOK
<1>8. CASE DecideApproval(d)
  BY <1>1, <1>8 DEF DecideApproval, decideApproval, TypeOK, CommandInv, ApprovalInv
<1>9. CASE RecordReceipt(d)
  <2>1. PICK a \in DOMAIN leases[d], s \in ReceiptStates, seq \in 1..MaxReceiptSeq :
          \E done, claims, evidence :
              recordReceipt(d, a, s, seq, done, claims, evidence)
    BY <1>9 DEF RecordReceipt
  <2>2. /\ s \in transitions(state[d]) /\ state'[d] = authorityState(s)
        /\ leases[d][a].state = "active" /\ now < leases[d][a].expiresAt
    BY <1>1, <2>1 DEF recordReceipt, LeaseAccepts, TypeOK
  <2>3. leases[d] \in Seq(Lease) /\ now \in Nat /\ terms[d] \in Terms
    BY <1>1 DEF TypeOK
  <2>4. leases[d][a] \in Lease
    BY <2>3
  <2>5. leases[d][a].expiresAt \in Nat /\ terms[d].expiresAt \in Nat
    BY <2>3, <2>4 DEF Lease, Terms
  <2>6. state[d] \in HeldStates /\ leases[d][a].expiresAt <= terms[d].expiresAt
    BY <1>1, <2>2 DEF CommandInv, LeaseInv, ExpiryInv
  <2>7. QED  BY <2>2, <2>3, <2>5, <2>6
<1>10. CASE VerifyCommand(d)
  BY <1>1, <1>10 DEF VerifyCommand, verifyCommand, TypeOK
<1>11. QED
  BY <1>2, <1>4, <1>5, <1>6, <1>7, <1>8, <1>9, <1>10 DEF Next, LeaseCommands

\* A terminal command keeps its state, its verdict and its leases.
THEOREM TerminalStays == Spec => TerminalIsFinal
<1>1. ASSUME IndInv, [Next]_vars
      PROVE  [\A c \in Commands : state[c] \in TerminalStates =>
                /\ state'[c] = state[c]
                /\ verification'[c] = verification[c]
                /\ leases'[c] = leases[c]]_vars
  <2>1. ASSUME NEW c \in Commands, state[c] \in TerminalStates
        PROVE  /\ state'[c] = state[c] /\ verification'[c] = verification[c]
               /\ leases'[c] = leases[c]
    BY <1>1, <2>1, StepOfCommand DEF TerminalStates, HeldStates
  <2>2. QED  BY <2>1
<1>2. QED  BY <1>1, InvariantHolds, PTL DEF Spec, TerminalIsFinal

\* A receipt never moves a command forward at or after its expires_at.
THEOREM NoProgressAfterExpiry == Spec => ProgressBeforeExpiry
<1>1. ASSUME IndInv, [Next]_vars
      PROVE  [\A c \in Commands :
                state'[c] \in {"accepted", "running", "verifying"}
                /\ state'[c] # state[c] => now < terms[c].expiresAt]_vars
  <2>1. ASSUME NEW c \in Commands, state'[c] \in {"accepted", "running", "verifying"},
               state'[c] # state[c]
        PROVE  now < terms[c].expiresAt
    BY <1>1, <2>1, StepOfCommand
  <2>2. QED  BY <2>1
<1>2. QED  BY <1>1, InvariantHolds, PTL DEF Spec, ProgressBeforeExpiry

\* Every step of the authority is a step of the abstract lifecycle or leaves the
\* phases alone: the authority implements it.
THEOREM Refinement == Spec => ImplementsLifecycle
<1>1. Init => Lifecycle!Init
  BY DEF Init, Lifecycle!Init, PhaseOf
<1>2. ASSUME IndInv, [Next]_vars
      PROVE  [Lifecycle!Next]_([c \in Commands |-> PhaseOf(state[c])])
  <2>1. ASSUME NEW c \in Commands
        PROVE  /\ PhaseOf(state'[c]) \in Lifecycle!Phases
               /\ PhaseOf(state'[c]) # PhaseOf(state[c]) =>
                    <<PhaseOf(state[c]), PhaseOf(state'[c])>> \in Lifecycle!Moves
    <3>1. PhaseOf(state'[c]) \in Lifecycle!Phases
      BY DEF PhaseOf, Lifecycle!Phases
    <3>2. ASSUME state[c] \in HeldStates, NEW s \in transitions(state[c])
          PROVE  \/ state[c] = "leased" /\ authorityState(s) = "accepted"
                 \/ /\ state[c] \in {"accepted", "running"}
                    /\ authorityState(s) \in {"running", "verifying", "failed",
                                              "cancelled", "expired"}
      BY <3>2 DEF HeldStates, transitions, authorityState, ReceiptStates
    <3>3. QED
      BY <1>2, <3>1, <3>2, StepOfCommand DEF PhaseOf, Lifecycle!Moves
  <2>2. QED  BY <2>1 DEF Lifecycle!Next
<1>3. QED
  BY <1>1, <1>2, InvariantHolds, PTL DEF Spec, ImplementsLifecycle, Lifecycle!Spec

-------------------------------------------------------------------------------
(* Desired states.                                                            *)

DesiredInv == TypeOK /\ ActiveDesiredIsCurrent /\ desiredVersion <= Len(desired)

\* The deployment's desired version is always its one active revision.
THEOREM DesiredIsCurrent == Spec => []ActiveDesiredIsCurrent
<1>1. Init => DesiredInv
  BY InitType DEF Init, DesiredInv, ActiveDesiredIsCurrent
<1>2. DesiredInv /\ [Next]_vars => DesiredInv'
  <2> SUFFICES ASSUME DesiredInv, [Next]_vars PROVE DesiredInv'
    OBVIOUS
  <2>1. TypeOK /\ TypeOK'
    BY NextType DEF DesiredInv
  <2>2. CASE PutDesiredState
    <3>1. PICK status \in {"proposed", "active"} : createDesiredState(status)
      BY <2>2 DEF PutDesiredState
    <3> DEFINE n == Len(desired)
    <3>2. desired \in Seq(Lifecycles) /\ n \in Nat /\ DOMAIN desired = 1..n
          /\ desiredVersion \in Nat /\ desiredVersion <= n
      BY <2>1 DEF TypeOK, DesiredInv
    <3>3. Superseded(status) \in [1..n -> Lifecycles]
      BY <3>2 DEF Superseded, Lifecycles
    <3>4. Superseded(status) \in Seq(Lifecycles) /\ Len(Superseded(status)) = n
      BY <3>2, <3>3, SeqDef, LenProperties
    <3>5. /\ Len(desired') = n + 1 /\ DOMAIN desired' = 1..(n + 1)
          /\ desired'[n + 1] = status
          /\ \A v \in 1..n : desired'[v] = Superseded(status)[v]
      BY <3>1, <3>4, AppendProperties, LenProperties DEF createDesiredState, Lifecycles
    <3>6. \A v \in 1..n : Superseded(status)[v] = "active" <=>
                            (v = desiredVersion /\ status # "active")
      BY <3>2 DEF Superseded, DesiredInv, ActiveDesiredIsCurrent
    <3>7. desiredVersion' = IF status = "active" THEN n + 1 ELSE desiredVersion
      BY <3>1 DEF createDesiredState
    <3>8. QED
      BY <2>1, <3>2, <3>5, <3>6, <3>7 DEF DesiredInv, ActiveDesiredIsCurrent
  <2>3. CASE ~PutDesiredState
    <3>1. UNCHANGED <<desired, desiredVersion>>
      <4>1. CASE Tick \/ RecordObservation \/ UNCHANGED vars
        BY <4>1 DEF Tick, RecordObservation, recordObservation, vars, deploymentVars
      <4>2. CASE LeaseCommands
        BY <4>2 DEF LeaseCommands, leaseCommand, leaseNothing, deploymentVars
      <4>3. ASSUME NEW c \in Commands, RequestCommand(c) \/ DecideApproval(c)
            PROVE  UNCHANGED <<desired, desiredVersion>>
        BY <4>3 DEF RequestCommand, createCommand, DecideApproval, decideApproval,
                    deploymentVars
      <4>4. ASSUME NEW c \in Commands, RecordReceipt(c) \/ VerifyCommand(c)
            PROVE  UNCHANGED <<desired, desiredVersion>>
        <5>1. CASE RecordReceipt(c)
          BY <5>1 DEF RecordReceipt, recordReceipt, deploymentVars
        <5>2. CASE VerifyCommand(c)
          BY <5>2 DEF VerifyCommand, verifyCommand, deploymentVars
        <5>3. QED  BY <4>4, <5>1, <5>2
      <4>5. QED  BY <2>3, <4>1, <4>2, <4>3, <4>4 DEF Next
    <3>2. QED  BY <2>1, <3>1 DEF DesiredInv, ActiveDesiredIsCurrent
  <2>4. QED  BY <2>2, <2>3
<1>3. QED  BY <1>1, <1>2, PTL DEF Spec, DesiredInv

-------------------------------------------------------------------------------
(* ONE SERVER AGENT AND THE AUTHORITY: the composition implements             *)
(* ControlAuthority, and the agent executes a command at most once.           *)
(* What any step of the authority leaves standing.                            *)

\* Lease rows are never removed, keep their issue time and stay started.
LEMMA LeasesGrow ==
    ASSUME IndInv, [Next]_vars, NEW c \in Commands, NEW a \in DOMAIN leases[c]
    PROVE  /\ a \in DOMAIN leases'[c]
           /\ leases'[c][a].issuedAt = leases[c][a].issuedAt
           /\ leases[c][a].started => leases'[c][a].started
<1>1. /\ TypeOK /\ leases[c] \in Seq(Lease) /\ Len(leases[c]) \in Nat
      /\ DOMAIN leases[c] = 1..Len(leases[c])
  BY DEF IndInv, TypeOK
<1>2. leases[c][a] \in Lease
  BY <1>1
<1>3. CASE leases'[c] = leases[c]
  BY <1>3
<1>4. CASE leases'[c] = ExpiredLeases(c)
  BY <1>1, <1>4, ExpiryType, ExpiredRow
<1>5. ASSUME NEW term \in LeaseTerms, leaseCommand(c, term)
      PROVE  /\ a \in DOMAIN leases'[c]
             /\ leases'[c][a].issuedAt = leases[c][a].issuedAt
             /\ leases[c][a].started => leases'[c][a].started
  <2>1. leases'[c] = Append(ExpiredLeases(c), NewLease(c, term))
    BY <1>1, <1>5 DEF leaseCommand, TypeOK
  <2>2. /\ ExpiredLeases(c) \in Seq(Lease) /\ NewLease(c, term) \in Lease
        /\ Len(ExpiredLeases(c)) = Len(leases[c])
    BY <1>1, ExpiryType, NewLeaseType
  <2>3. a \in DOMAIN leases'[c] /\ leases'[c][a] = ExpiredLeases(c)[a]
    BY <1>1, <2>1, <2>2, AppendProperties, LenProperties
  <2>4. QED  BY <1>1, <2>3, ExpiredRow
<1>6. CASE RecordReceipt(c)
  <2>1. PICK b \in DOMAIN leases[c], s \in ReceiptStates, seq \in 1..MaxReceiptSeq :
          \E done, claims, evidence :
              recordReceipt(c, b, s, seq, done, claims, evidence)
    BY <1>6 DEF RecordReceipt
  <2>2. leases'[c] = [leases[c] EXCEPT ![b] = ReceiptLease(leases[c][b], s, seq)]
    BY <1>1, <2>1 DEF recordReceipt, TypeOK
  <2>3. leases[c][b] \in Lease
    BY <1>1
  <2>4. /\ ReceiptLease(leases[c][b], s, seq).issuedAt = leases[c][b].issuedAt
        /\ leases[c][b].started => ReceiptLease(leases[c][b], s, seq).started
    BY <2>3 DEF ReceiptLease, Lease
  <2>5. QED  BY <1>1, <2>2, <2>4
<1>7. CASE \E d \in Commands : d # c /\ RecordReceipt(d)
  BY <1>1, <1>3, <1>7, OthersUntouched
<1>8. CASE \E d \in Commands : d # c /\ \E term \in LeaseTerms : leaseCommand(d, term)
  BY <1>1, <1>4, <1>8 DEF leaseCommand, TypeOK
<1>9. CASE leaseNothing
  BY <1>4, <1>9 DEF leaseNothing
<1>10. CASE \/ Tick \/ PutDesiredState \/ RecordObservation \/ UNCHANGED vars
            \/ \E d \in Commands :
                 RequestCommand(d) \/ DecideApproval(d) \/ VerifyCommand(d)
  <2>1. CASE Tick \/ PutDesiredState \/ RecordObservation \/ UNCHANGED vars
    BY <1>3, <2>1 DEF Tick, PutDesiredState, createDesiredState, RecordObservation,
                      recordObservation, vars, commandVars
  <2>2. CASE \E d \in Commands : RequestCommand(d)
    BY <1>3, <2>2 DEF RequestCommand, createCommand
  <2>3. CASE \E d \in Commands : DecideApproval(d)
    BY <1>3, <2>3 DEF DecideApproval, decideApproval
  <2>4. CASE \E d \in Commands : VerifyCommand(d)
    BY <1>3, <2>4 DEF VerifyCommand, verifyCommand
  <2>5. QED  BY <1>10, <2>1, <2>2, <2>3, <2>4
<1>11. QED
  BY <1>5, <1>6, <1>7, <1>8, <1>9, <1>10 DEF Next, LeaseCommands

\* The clock never goes back.
LEMMA TimeGrows ==
    ASSUME TypeOK, [Next]_vars
    PROVE  now' \in Nat /\ now <= now'
<1>1. now \in Nat
  BY DEF TypeOK
<1>2. CASE Tick
  BY <1>1, <1>2 DEF Tick
<1>3. CASE PutDesiredState \/ RecordObservation \/ UNCHANGED vars
  BY <1>1, <1>3 DEF PutDesiredState, createDesiredState, RecordObservation,
                    recordObservation, vars
<1>4. CASE LeaseCommands
  BY <1>1, <1>4 DEF LeaseCommands, leaseCommand, leaseNothing
<1>5. CASE \E c \in Commands : RequestCommand(c) \/ DecideApproval(c)
  BY <1>1, <1>5 DEF RequestCommand, createCommand, DecideApproval, decideApproval
<1>6. CASE \E c \in Commands : RecordReceipt(c)
  BY <1>1, <1>6 DEF RecordReceipt, recordReceipt
<1>7. CASE \E c \in Commands : VerifyCommand(c)
  BY <1>1, <1>7 DEF VerifyCommand, verifyCommand
<1>8. QED  BY <1>2, <1>3, <1>4, <1>5, <1>6, <1>7 DEF Next

\* Only a receipt brings a command before the verifier.
LEMMA OutcomeNeedsReceipt ==
    ASSUME TypeOK, NEW c \in Commands,
           \/ Tick \/ PutDesiredState \/ RecordObservation \/ leaseNothing
           \/ UNCHANGED vars
           \/ \E d \in Commands, term \in LeaseTerms : leaseCommand(d, term)
           \/ \E d \in Commands :
                RequestCommand(d) \/ DecideApproval(d) \/ VerifyCommand(d),
           state'[c] \in {"verifying", "succeeded"}
    PROVE  state[c] \in {"verifying", "succeeded"}
<1>1. CASE Tick \/ PutDesiredState \/ RecordObservation \/ UNCHANGED vars
  BY <1>1 DEF Tick, PutDesiredState, createDesiredState, RecordObservation,
              recordObservation, vars, commandVars
<1>2. CASE leaseNothing
  BY <1>2 DEF leaseNothing, ExpiredState
<1>3. CASE \E d \in Commands, term \in LeaseTerms : leaseCommand(d, term)
  BY <1>3 DEF leaseCommand, ExpiredState
<1>4. CASE \E d \in Commands : RequestCommand(d) \/ DecideApproval(d)
  BY <1>4 DEF RequestCommand, createCommand, DecideApproval, decideApproval, TypeOK
<1>5. CASE \E d \in Commands : VerifyCommand(d)
  BY <1>5 DEF VerifyCommand, verifyCommand, TypeOK
<1>6. QED  BY <1>1, <1>2, <1>3, <1>4, <1>5

-------------------------------------------------------------------------------
(* The inductive invariant of the composition.                                *)

\* Where the agent is tells what it holds and what it waits for: an answer to a
\* lease request reaches an agent without a job, and no receipt's answer is taken
\* for another's.
AgentInv ==
    /\ "awaited" \in polls => phase = "leasing" /\ reply = "none" /\ job = NoJob
    /\ phase = "idle" => job = NoJob /\ reply = "none"
    /\ phase \notin {"idle", "leasing"} => job # NoJob
    /\ phase \in {"idle", "leasing", "checking", "ready", "executing", "observing"} =>
         awaits = "none"
    /\ phase = "accepting" => awaits = "accepted"
    /\ phase = "starting" => awaits = "running"

\* The agent's job is a lease the authority granted; it has not been executed
\* before "executing", and from the answer to "running" on it is started.
JobInv ==
    job # NoJob =>
        /\ job.attempt \in DOMAIN leases[job.command]
        /\ leases[job.command][job.attempt].issuedAt <= now
        /\ phase \in {"leasing", "checking", "accepting", "starting", "ready"} =>
             executions[job.command] = 0
        /\ phase \in {"executing", "observing"} => executions[job.command] = 1
        /\ \/ phase \in {"ready", "executing", "observing"}
           \/ phase = "starting" /\ reply = "ok"
           => leases[job.command][job.attempt].started

\* A receipt in flight reports on a granted lease, is dated after its grant, and
\* claims a completion only of what was executed.
ReceiptsInv ==
    \A r \in receipts :
        /\ r.attempt \in DOMAIN leases[r.command]
        /\ leases[r.command][r.attempt].issuedAt <= r.done
        /\ r.done <= now
        /\ r.claims <= MaxObservation
        /\ r.state = "completion_candidate" => executions[r.command] = 1

\* What was executed once was started, so that it is never granted again.
ExecutedInv ==
    \A c \in Commands :
        /\ executions[c] \in {0, 1}
        /\ executions[c] = 1 => \E a \in DOMAIN leases[c] : leases[c][a].started
        /\ state[c] \in {"verifying", "succeeded"} => executions[c] = 1

LoopInv == /\ IndInv /\ LoopTypeOK /\ AgentInv /\ JobInv /\ ReceiptsInv
           /\ ExecutedInv

\* Nothing is leased, in flight or executed at the start.
LEMMA LoopInitInv == LoopInit => LoopInv
<1> SUFFICES ASSUME LoopInit PROVE LoopInv
  OBVIOUS
<1>1. IndInv
  BY InitInv DEF LoopInit
<1>2. LoopTypeOK
  BY DEF LoopInit, LoopTypeOK, Phases
<1>3. AgentInv /\ JobInv /\ ReceiptsInv
  BY DEF LoopInit, AgentInv, JobInv, ReceiptsInv
<1>4. ExecutedInv
  BY DEF LoopInit, Init, ExecutedInv
<1>5. QED  BY <1>1, <1>2, <1>3, <1>4 DEF LoopInv

\* The job and the receipts are real names of commands.
LEMMA RealNames ==
    ASSUME LoopTypeOK
    PROVE  /\ \A r \in receipts : /\ r.command \in Commands /\ r.attempt \in Nat
                                  /\ r.state \in ReceiptStates /\ r.seq \in 1..3
                                  /\ r.done \in Nat /\ r.claims \in Nat
           /\ job # NoJob => job \in Job /\ job.command \in Commands
                             /\ job.attempt \in Nat \ {0}
           /\ job = NoJob => job.command \notin Commands
           /\ "none" \notin ReceiptStates
<1>1. \A r \in receipts : r \in Receipt
  BY DEF LoopTypeOK
<1>2. job # NoJob => job \in Job
  BY DEF LoopTypeOK
<1>3. QED  BY <1>1, <1>2, LoopAssumption DEF Receipt, Job, NoJob, ReceiptStates

-------------------------------------------------------------------------------
(* Steps of the agent: the authority does not move.                           *)

\* A cycle that ends, normally, by a timeout or by a crash, forgets the job and
\* leaves receipts and a lease request on the wire.
LEMMA EndCycleKeeps ==
    ASSUME LoopInv, EndCycle, UNCHANGED <<vars, receipts, executions>>,
           seenLeaseIds' \subseteq seenLeaseIds
    PROVE  LoopInv'
<1>1. UNCHANGED vars /\ UNCHANGED <<receipts, executions>>
  OBVIOUS
<1>2. UNCHANGED <<now, leases, state>>
  BY <1>1 DEF vars
<1>3. IndInv'
  BY <1>1, NextInv DEF LoopInv
<1>4. LoopTypeOK'
  BY <1>1 DEF LoopInv, LoopTypeOK, EndCycle, Phases
<1>5. AgentInv' /\ JobInv'
  BY DEF EndCycle, AgentInv, JobInv
<1>6. ReceiptsInv' /\ ExecutedInv'
  BY <1>1, <1>2 DEF LoopInv, ReceiptsInv, ExecutedInv
<1>7. QED  BY <1>3, <1>4, <1>5, <1>6 DEF LoopInv

\* A receipt the agent sends is dated now, under the lease it works on; it claims
\* a completion only after the execution.
LEMMA SendKeeps ==
    ASSUME LoopInv, NEW s \in ReceiptStates, NEW seq \in 1..3,
           NEW claims \in 0..MaxObservation, NEW next \in Phases,
           phase \notin {"idle", "leasing"},
           Send(s, seq, claims, next), UNCHANGED executions,
           \/ next = "accepting" /\ s = "accepted" /\ phase = "checking"
           \/ next = "starting" /\ s = "running" /\ phase = "accepting"
           \/ next \in {"closing", "expiring"},
           s = "completion_candidate" => phase = "observing"
    PROVE  LoopInv'
<1> DEFINE r == [command |-> job.command, attempt |-> job.attempt, state |-> s,
                 seq |-> seq, done |-> now, claims |-> claims]
<1>1. /\ UNCHANGED vars /\ UNCHANGED <<job, polls, seenLeaseIds>>
      /\ receipts' = receipts \cup {r}
      /\ phase' = next /\ awaits' = s /\ reply' = "none"
  BY DEF Send
<1>2. UNCHANGED <<now, leases, state>>
  BY <1>1 DEF vars
<1>3. job # NoJob /\ job \in Job /\ job.command \in Commands
      /\ job.attempt \in Nat \ {0} /\ now \in Nat
  BY RealNames DEF LoopInv, AgentInv, IndInv, TypeOK
<1>4. r \in Receipt
  BY <1>3, BoundsAssumption DEF Receipt
<1>5. /\ r.command = job.command /\ r.attempt = job.attempt /\ r.state = s
      /\ r.done = now /\ r.claims = claims
  OBVIOUS
<1> HIDE DEF r
<1>6. IndInv'
  BY <1>1, NextInv DEF LoopInv
<1>7. LoopTypeOK'
  BY <1>1, <1>4 DEF LoopInv, LoopTypeOK
<1>8. AgentInv'
  BY <1>1 DEF LoopInv, AgentInv
<1>9. JobInv'
  BY <1>1, <1>2 DEF LoopInv, JobInv
<1>10. ReceiptsInv'
  <2>1. /\ r.attempt \in DOMAIN leases[r.command]
        /\ leases[r.command][r.attempt].issuedAt <= now
        /\ s = "completion_candidate" => executions[r.command] = 1
    BY <1>3, <1>5 DEF LoopInv, JobInv
  <2>2. r.done <= now /\ r.claims <= MaxObservation
    BY <1>3, <1>5, BoundsAssumption
  <2>3. QED  BY <1>1, <1>2, <1>5, <2>1, <2>2 DEF LoopInv, ReceiptsInv
<1>11. ExecutedInv'
  BY <1>2 DEF LoopInv, ExecutedInv
<1>12. QED  BY <1>6, <1>7, <1>8, <1>9, <1>10, <1>11 DEF LoopInv

\* The steps of a cycle that send no receipt and do not end it.
LEMMA AdvanceKeeps ==
    ASSUME LoopInv,
           \/ Poll
           \/ phase' = "checking" /\ ReceiveLease
           \/ StartedOk
           \/ Execute
           \/ /\ phase = "executing" /\ phase' = "observing"
              /\ UNCHANGED <<vars, job, polls, receipts, awaits, reply, seenLeaseIds>>
              /\ UNCHANGED executions
    PROVE  LoopInv'
<1>1. /\ UNCHANGED vars /\ UNCHANGED <<job, receipts>> /\ phase' \in Phases
  BY DEF Poll, ReceiveLease, EndCycle, StartedOk, Execute, Phases
<1>2. UNCHANGED <<now, leases, state>>
  BY <1>1 DEF vars
<1>3. IndInv'
  BY <1>1, NextInv DEF LoopInv
<1>4. /\ LoopTypeOK /\ AgentInv /\ JobInv /\ ReceiptsInv /\ ExecutedInv
      /\ job # NoJob => job.command \in Commands /\ job.attempt \in Nat \ {0}
  BY RealNames DEF LoopInv
<1>5. CASE Poll
  <2>1. /\ phase = "idle" /\ phase' = "leasing" /\ polls' = polls \cup {"awaited"}
        /\ UNCHANGED <<awaits, reply, seenLeaseIds, executions>>
    BY <1>5 DEF Poll
  <2>2. LoopTypeOK'
    BY <1>1, <1>4, <2>1 DEF LoopTypeOK
  <2>3. AgentInv' /\ JobInv'
    BY <1>1, <1>4, <2>1 DEF AgentInv, JobInv
  <2>4. ReceiptsInv' /\ ExecutedInv'
    BY <1>1, <1>2, <1>4, <2>1 DEF ReceiptsInv, ExecutedInv
  <2>5. QED  BY <1>3, <2>2, <2>3, <2>4 DEF LoopInv
<1>6. CASE phase' = "checking" /\ ReceiveLease
  <2>1. /\ phase = "leasing" /\ reply = "ok" /\ Binds
        /\ phase' = "checking" /\ reply' = "none"
        /\ seenLeaseIds' = seenLeaseIds \cup {<<job.command, job.attempt>>}
        /\ UNCHANGED <<polls, awaits, executions>>
    BY <1>6 DEF ReceiveLease, EndCycle
  <2>2. job # NoJob
    BY <2>1 DEF Binds
  <2>3. LoopTypeOK'
    BY <1>1, <1>4, <2>1, <2>2 DEF LoopTypeOK
  <2>4. AgentInv' /\ JobInv'
    BY <1>1, <1>2, <1>4, <2>1, <2>2 DEF AgentInv, JobInv
  <2>5. ReceiptsInv' /\ ExecutedInv'
    BY <1>1, <1>2, <1>4, <2>1 DEF ReceiptsInv, ExecutedInv
  <2>6. QED  BY <1>3, <2>3, <2>4, <2>5 DEF LoopInv
<1>7. CASE StartedOk
  <2>1. /\ phase = "starting" /\ reply = "ok" /\ phase' = "ready"
        /\ awaits' = "none" /\ reply' = "none"
        /\ UNCHANGED <<polls, seenLeaseIds, executions>>
    BY <1>7 DEF StartedOk
  <2>2. LoopTypeOK'
    BY <1>1, <1>4, <2>1 DEF LoopTypeOK
  <2>3. AgentInv' /\ JobInv'
    BY <1>1, <1>2, <1>4, <2>1 DEF AgentInv, JobInv
  <2>4. ReceiptsInv' /\ ExecutedInv'
    BY <1>1, <1>2, <1>4, <2>1 DEF ReceiptsInv, ExecutedInv
  <2>5. QED  BY <1>3, <2>2, <2>3, <2>4 DEF LoopInv
<1>8. CASE Execute
  <2>1. /\ phase = "ready" /\ phase' = "executing"
        /\ executions' = [executions EXCEPT ![job.command] = @ + 1]
        /\ UNCHANGED <<polls, awaits, reply, seenLeaseIds>>
    BY <1>8 DEF Execute
  <2>2. /\ job # NoJob /\ job.command \in Commands /\ executions[job.command] = 0
        /\ job.attempt \in DOMAIN leases[job.command]
        /\ leases[job.command][job.attempt].started
    BY <1>4, <2>1 DEF AgentInv, JobInv
  <2>3. /\ executions'[job.command] = 1
        /\ \A c \in Commands : c # job.command => executions'[c] = executions[c]
    BY <1>4, <2>1, <2>2 DEF LoopTypeOK
  <2>4. LoopTypeOK'
    BY <1>1, <1>4, <2>1, <2>2 DEF LoopTypeOK
  <2>5. AgentInv'
    BY <1>1, <1>4, <2>1 DEF AgentInv
  <2>6. JobInv'
    BY <1>1, <1>2, <1>4, <2>1, <2>2, <2>3 DEF JobInv
  <2>7. ReceiptsInv'
    BY <1>1, <1>2, <1>4, <2>3, RealNames DEF ReceiptsInv
  <2>8. ExecutedInv'
    BY <1>2, <1>4, <2>2, <2>3 DEF ExecutedInv
  <2>9. QED  BY <1>3, <2>4, <2>5, <2>6, <2>7, <2>8 DEF LoopInv
<1>9. CASE /\ phase = "executing" /\ phase' = "observing"
           /\ UNCHANGED <<vars, job, polls, receipts, awaits, reply, seenLeaseIds>>
           /\ UNCHANGED executions
  <2>1. LoopTypeOK'
    BY <1>1, <1>4, <1>9 DEF LoopTypeOK
  <2>2. AgentInv' /\ JobInv'
    BY <1>1, <1>2, <1>4, <1>9 DEF AgentInv, JobInv
  <2>3. ReceiptsInv' /\ ExecutedInv'
    BY <1>1, <1>2, <1>4, <1>9 DEF ReceiptsInv, ExecutedInv
  <2>4. QED  BY <1>3, <2>1, <2>2, <2>3 DEF LoopInv
<1>10. QED  BY <1>5, <1>6, <1>7, <1>8, <1>9

\* Every step of the daemon, and its crash, keep the invariant.
LEMMA AgentStepKeeps ==
    ASSUME LoopInv, AgentStep \/ Crash
    PROVE  LoopInv' /\ UNCHANGED vars
<1> USE DEF ReceiptStates, Phases
<1>1. CASE Poll \/ StartedOk \/ Execute
  BY <1>1, AdvanceKeeps DEF Poll, StartedOk, Execute
<1>2. CASE ReceiveLease
  <2>1. CASE Binds
    BY <1>2, <2>1, AdvanceKeeps DEF ReceiveLease
  <2>2. CASE ~Binds
    BY <1>2, <2>2, EndCycleKeeps DEF ReceiveLease
  <2>3. QED  BY <2>1, <2>2
<1>3. CASE CheckLease
  <2>1. phase = "checking" /\ UNCHANGED executions
    BY <1>3 DEF CheckLease
  <2>2. CASE JobExpired
    BY <1>3, <2>1, <2>2, SendKeeps, BoundsAssumption DEF CheckLease, Send
  <2>3. CASE ~JobExpired
    BY <1>3, <2>1, <2>3, SendKeeps, BoundsAssumption DEF CheckLease, Send
  <2>4. QED  BY <2>2, <2>3
<1>4. CASE AcceptedOk
  BY <1>4, SendKeeps, BoundsAssumption DEF AcceptedOk, Send
<1>5. CASE ResolveFails \/ ExecuteThrows \/ ExpiryUnreported
  BY <1>5, SendKeeps, BoundsAssumption DEF ResolveFails, ExecuteThrows, ExpiryUnreported, Send
<1>6. CASE ExecuteReturns
  <2>1. phase = "executing" /\ UNCHANGED executions
    BY <1>6 DEF ExecuteReturns
  <2>2. CASE JobExpired
    BY <1>6, <2>1, <2>2, SendKeeps, BoundsAssumption DEF ExecuteReturns, Send
  <2>3. CASE ~JobExpired
    BY <1>6, <2>1, <2>3, AdvanceKeeps DEF ExecuteReturns
  <2>4. QED  BY <2>2, <2>3
<1>7. CASE Observed
  <2>1. phase = "observing" /\ UNCHANGED executions
    BY <1>7 DEF Observed
  <2>2. CASE \E claims \in 1..MaxObservation :
               Send("completion_candidate", 3, claims, "closing")
    <3>1. PICK claims \in 1..MaxObservation :
            Send("completion_candidate", 3, claims, "closing")
      BY <2>2
    <3>2. claims \in 0..MaxObservation
      BY BoundsAssumption
    <3>3. QED  BY <2>1, <3>1, <3>2, SendKeeps DEF Send
  <2>3. CASE Send("failed", 3, 0, "closing")
    BY <2>1, <2>3, SendKeeps, BoundsAssumption DEF Send
  <2>4. QED  BY <1>7, <2>2, <2>3 DEF Observed
<1>8. CASE CycleOver \/ TimeOut
  BY <1>8, EndCycleKeeps DEF CycleOver, TimeOut
<1>9. CASE Crash
  BY <1>9, EndCycleKeeps DEF Crash
<1>10. QED
  BY <1>1, <1>2, <1>3, <1>4, <1>5, <1>6, <1>7, <1>8, <1>9 DEF AgentStep

-------------------------------------------------------------------------------
(* Steps of the authority and of the rest of the world.                       *)

\* What is said of receipts and executions survives every step of the authority
\* that executes nothing and sends nothing.
LEMMA RecordsKeep ==
    ASSUME LoopInv, [Next]_vars, UNCHANGED executions, receipts' \subseteq receipts
    PROVE  /\ ReceiptsInv'
           /\ \A c \in Commands :
                /\ executions'[c] \in {0, 1}
                /\ executions'[c] = 1 => \E a \in DOMAIN leases'[c] : leases'[c][a].started
<1>1. IndInv /\ LoopTypeOK /\ ReceiptsInv /\ ExecutedInv
  BY DEF LoopInv
<1>2. now \in Nat /\ now' \in Nat /\ now <= now'
  BY <1>1, TimeGrows DEF IndInv, TypeOK
<1>3. ReceiptsInv'
  <2> SUFFICES ASSUME NEW r \in receipts
               PROVE  /\ r.attempt \in DOMAIN leases'[r.command]
                      /\ leases'[r.command][r.attempt].issuedAt <= r.done
                      /\ r.done <= now'
                      /\ r.claims <= MaxObservation
                      /\ r.state = "completion_candidate" => executions'[r.command] = 1
    BY DEF ReceiptsInv
  <2>1. r.command \in Commands /\ r.done \in Nat
    BY <1>1, RealNames
  <2>2. /\ r.attempt \in DOMAIN leases[r.command]
        /\ leases[r.command][r.attempt].issuedAt <= r.done /\ r.done <= now
        /\ r.claims <= MaxObservation
        /\ r.state = "completion_candidate" => executions[r.command] = 1
    BY <1>1 DEF ReceiptsInv
  <2>3. /\ r.attempt \in DOMAIN leases'[r.command]
        /\ leases'[r.command][r.attempt].issuedAt =
             leases[r.command][r.attempt].issuedAt
    BY <1>1, <2>1, <2>2, LeasesGrow
  <2>4. QED  BY <1>2, <2>1, <2>2, <2>3
<1>4. ASSUME NEW c \in Commands
      PROVE  /\ executions'[c] \in {0, 1}
             /\ executions'[c] = 1 =>
                  \E a \in DOMAIN leases'[c] : leases'[c][a].started
  BY <1>1, LeasesGrow DEF ExecutedInv
<1>5. QED  BY <1>3, <1>4

\* The agent's job survives every step of the authority that leaves the agent alone.
LEMMA JobKeeps ==
    ASSUME LoopInv, [Next]_vars, UNCHANGED <<job, phase, executions>>,
           reply' = reply \/ phase # "starting"
    PROVE  JobInv'
<1> SUFFICES ASSUME job # NoJob
             PROVE  /\ job.attempt \in DOMAIN leases'[job.command]
                    /\ leases'[job.command][job.attempt].issuedAt <= now'
                    /\ leases[job.command][job.attempt].started =>
                         leases'[job.command][job.attempt].started
  BY DEF LoopInv, JobInv
<1>1. IndInv /\ job.command \in Commands /\ leases[job.command] \in Seq(Lease)
  BY RealNames DEF LoopInv, IndInv, TypeOK
<1>2. /\ job.attempt \in DOMAIN leases[job.command]
      /\ leases[job.command][job.attempt].issuedAt <= now
  BY DEF LoopInv, JobInv
<1>3. leases[job.command][job.attempt] \in Lease
  BY <1>1, <1>2
<1>4. leases[job.command][job.attempt].issuedAt \in Nat
  BY <1>3 DEF Lease
<1>5. now \in Nat /\ now' \in Nat /\ now <= now'
  BY <1>1, TimeGrows DEF IndInv, TypeOK
<1>6. /\ job.attempt \in DOMAIN leases'[job.command]
      /\ leases'[job.command][job.attempt].issuedAt =
           leases[job.command][job.attempt].issuedAt
      /\ leases[job.command][job.attempt].started =>
           leases'[job.command][job.attempt].started
  BY <1>1, <1>2, LeasesGrow
<1>7. QED  BY <1>2, <1>4, <1>5, <1>6

\* The clock, users, operators, the verifier and other servers do not reach the
\* agent.
LEMMA ElsewhereKeeps ==
    ASSUME LoopInv, Elsewhere \/ UNCHANGED loopVars
    PROVE  LoopInv' /\ [Next]_vars
<1>1. UNCHANGED agentVars
  BY DEF Elsewhere, loopVars
<1>2. UNCHANGED <<phase, job, polls, receipts, awaits, reply, seenLeaseIds, executions>>
  BY <1>1 DEF agentVars
<1>3. \/ Tick \/ PutDesiredState \/ RecordObservation \/ leaseNothing
      \/ UNCHANGED vars
      \/ \E c \in Commands :
           RequestCommand(c) \/ DecideApproval(c) \/ VerifyCommand(c)
  BY DEF Elsewhere, loopVars
<1>4. [Next]_vars
  BY <1>3 DEF Next, LeaseCommands
<1>5. IndInv'
  BY <1>4, NextInv DEF LoopInv
<1>6. LoopTypeOK' /\ AgentInv'
  BY <1>2 DEF LoopInv, LoopTypeOK, AgentInv
<1>7. JobInv'
  BY <1>2, <1>4, JobKeeps
<1>8. ReceiptsInv' /\ ExecutedInv'
  <2>1. \A c \in Commands : state'[c] \in {"verifying", "succeeded"} =>
          executions'[c] = 1
    BY <1>2, <1>3, OutcomeNeedsReceipt DEF LoopInv, IndInv, ExecutedInv
  <2>2. QED  BY <1>2, <1>4, <2>1, RecordsKeep DEF ExecutedInv
<1>9. QED  BY <1>4, <1>5, <1>6, <1>7, <1>8 DEF LoopInv

\* A lease request is answered with a command no attempt of which was started, so
\* none that was executed, or with nothing.
LEMMA PollKeeps ==
    ASSUME LoopInv, NEW p \in polls, HandlePoll(p)
    PROVE  LoopInv' /\ [Next]_vars
<1>1. /\ IndInv /\ TypeOK /\ LoopTypeOK /\ AgentInv /\ JobInv /\ ExecutedInv
      /\ now \in Nat
  BY DEF LoopInv, IndInv, TypeOK
<1>2. PICK grant :
        /\ AnswerPoll(p, grant)
        /\ \/ grant = NoJob /\ (leaseNothing \/ UNCHANGED vars)
           \/ \E c \in Commands, term \in LeaseTerms :
                leaseCommand(c, term) /\ grant = Grant(c, term)
  BY DEF HandlePoll
<1>3. /\ polls' = polls \ {p}
      /\ UNCHANGED <<phase, receipts, awaits, seenLeaseIds, executions>>
      /\ p = "awaited" => job' = grant /\ reply' = "ok"
      /\ p # "awaited" => UNCHANGED <<job, reply>>
  BY <1>2 DEF AnswerPoll
<1>4. /\ [Next]_vars
      /\ \/ leaseNothing \/ UNCHANGED vars
         \/ \E c \in Commands, term \in LeaseTerms : leaseCommand(c, term)
  BY <1>2 DEF Next, LeaseCommands
<1>5. IndInv'
  BY <1>1, <1>4, NextInv
<1>6. ASSUME NEW c \in Commands, NEW term \in LeaseTerms, leaseCommand(c, term)
      PROVE  LET g == Grant(c, term) IN
             /\ g \in Job /\ g.command = c
             /\ g.attempt \in DOMAIN leases'[c]
             /\ leases'[c][g.attempt].issuedAt <= now'
             /\ executions[c] = 0
  <2>1. /\ leases[c] \in Seq(Lease) /\ Len(leases[c]) \in Nat
        /\ DOMAIN leases[c] = 1..Len(leases[c]) /\ terms[c].expiresAt \in Nat
    BY <1>1 DEF TypeOK, Terms
  <2>2. NewLease(c, term) \in Lease
    BY <1>1, NewLeaseType
  <2>3. leaseExpiresAt(c, term) \in Nat /\ NewLease(c, term).issuedAt = now
    BY <2>2 DEF NewLease, Lease
  <2>4. Grant(c, term) \in Job /\ Grant(c, term).command = c
        /\ Grant(c, term).attempt = Len(leases[c]) + 1
    BY <2>1, <2>3 DEF Grant, Job
  <2>5. leases'[c] = Append(ExpiredLeases(c), NewLease(c, term)) /\ now' = now
    BY <1>1, <1>6 DEF leaseCommand, TypeOK
  <2>6. ExpiredLeases(c) \in Seq(Lease) /\ Len(ExpiredLeases(c)) = Len(leases[c])
    BY <1>1, ExpiryType
  <2>7. /\ Len(leases[c]) + 1 \in DOMAIN leases'[c]
        /\ leases'[c][Len(leases[c]) + 1] = NewLease(c, term)
    <3>1. LET q == Append(ExpiredLeases(c), NewLease(c, term)) IN
          /\ Len(leases[c]) + 1 \in DOMAIN q
          /\ q[Len(leases[c]) + 1] = NewLease(c, term)
      BY <2>2, <2>6, AppendedLast
    <3>2. QED  BY <2>5, <3>1
  <2>8. executions[c] = 0
    <3>1. ExpiredState(c) = "queued"
      BY <1>6 DEF leaseCommand, Leasable
    <3>2. state[c] \in {"queued", "leased"}
      BY <3>1 DEF ExpiredState, safeToRetry
    <3>3. \A a \in DOMAIN leases[c] : ~leases[c][a].started
      BY <1>1, <3>2 DEF IndInv, CommandInv, StartInv
    <3>4. QED  BY <1>1, <3>3 DEF ExecutedInv
  <2>9. QED  BY <1>1, <2>3, <2>4, <2>5, <2>7, <2>8
<1>7. LoopTypeOK'
  <2>1. grant \in Job \cup {NoJob}
    BY <1>2, <1>6
  <2>2. QED  BY <1>1, <1>3, <2>1 DEF LoopTypeOK
<1>8. AgentInv'
  BY <1>1, <1>3 DEF AgentInv, LoopTypeOK
<1>9. JobInv'
  <2>1. CASE p = "awaited"
    <3>1. phase = "leasing" /\ phase' = "leasing" /\ job' = grant
          /\ UNCHANGED executions
      BY <1>1, <1>3, <2>1 DEF AgentInv
    <3>2. CASE grant = NoJob
      BY <3>1, <3>2 DEF JobInv
    <3>3. CASE \E c \in Commands, term \in LeaseTerms :
                 leaseCommand(c, term) /\ grant = Grant(c, term)
      BY <1>6, <3>1, <3>3 DEF JobInv
    <3>4. QED  BY <1>2, <3>2, <3>3
  <2>2. CASE p # "awaited"
    BY <1>3, <1>4, <2>2, JobKeeps
  <2>3. QED  BY <2>1, <2>2
<1>10. ReceiptsInv' /\ ExecutedInv'
  <2>1. \A c \in Commands : state'[c] \in {"verifying", "succeeded"} =>
          executions'[c] = 1
    BY <1>1, <1>3, <1>4, OutcomeNeedsReceipt DEF ExecutedInv
  <2>2. QED  BY <1>3, <1>4, <2>1, RecordsKeep DEF ExecutedInv
<1>11. QED  BY <1>4, <1>5, <1>7, <1>8, <1>9, <1>10 DEF LoopInv

\* A receipt from the wire, late or out of order as it may be, is one the authority
\* specification allows, or is refused.
LEMMA ReceiptKeepsLoop ==
    ASSUME LoopInv, NEW r \in receipts, HandleReceipt(r)
    PROVE  LoopInv' /\ [Next]_vars
<1> DEFINE c == r.command
<1>1. /\ IndInv /\ TypeOK /\ LoopTypeOK /\ AgentInv /\ JobInv /\ ReceiptsInv
      /\ ExecutedInv /\ now \in Nat
  BY DEF LoopInv, IndInv, TypeOK
<1>2. /\ c \in Commands /\ r.attempt \in Nat /\ r.state \in ReceiptStates
      /\ r.seq \in 1..3 /\ r.done \in Nat /\ r.claims \in Nat
  BY <1>1, RealNames
<1>3. /\ r.attempt \in DOMAIN leases[c]
      /\ leases[c][r.attempt].issuedAt <= r.done /\ r.done <= now
      /\ r.claims <= MaxObservation
      /\ r.state = "completion_candidate" => executions[c] = 1
  BY <1>1 DEF ReceiptsInv
<1>4. leases[c] \in Seq(Lease) /\ leases[c][r.attempt] \in Lease
  BY <1>1, <1>2, <1>3 DEF TypeOK
<1>5. /\ receipts' = receipts \ {r}
      /\ UNCHANGED <<phase, job, polls, awaits, seenLeaseIds, executions>>
      /\ reply' = IF ~Awaited(r) THEN reply ELSE IF Admits(r) THEN "ok" ELSE "refused"
      /\ Admits(r) => recordReceipt(c, r.attempt, r.state, r.seq, r.done, r.claims,
                                    r.state = "completion_candidate")
      /\ ~Admits(r) => UNCHANGED vars
  BY DEF HandleReceipt
<1>6. [Next]_vars
  <2>1. CASE ~Admits(r)
    BY <1>5, <2>1
  <2>2. CASE Admits(r)
    <3>1. r.seq \in 1..MaxReceiptSeq
      BY <1>2, LoopAssumption, BoundsAssumption
    <3>2. CASE r.state = "completion_candidate"
      <4>1. /\ r.done \in leases[c][r.attempt].issuedAt .. now
            /\ r.claims \in 0..MaxObservation
        <5>1. leases[c][r.attempt].issuedAt \in Nat
          BY <1>4 DEF Lease
        <5>2. QED  BY <1>1, <1>2, <1>3, <5>1, BoundsAssumption
      <4>2. recordReceipt(c, r.attempt, r.state, r.seq, r.done, r.claims, TRUE)
        BY <1>5, <2>2, <3>2
      <4>3. RecordReceipt(c)
        BY <1>2, <1>3, <3>1, <3>2, <4>1, <4>2 DEF RecordReceipt
      <4>4. QED  BY <1>2, <4>3 DEF Next
    <3>3. CASE r.state # "completion_candidate"
      <4>1. recordReceipt(c, r.attempt, r.state, r.seq, now, 0, FALSE)
        BY <1>5, <2>2, <3>3 DEF recordReceipt
      <4>2. RecordReceipt(c)
        BY <1>2, <1>3, <3>1, <3>3, <4>1 DEF RecordReceipt
      <4>3. QED  BY <1>2, <4>2 DEF Next
    <3>4. QED  BY <3>2, <3>3
  <2>3. QED  BY <2>1, <2>2
<1>7. IndInv'
  BY <1>1, <1>6, NextInv
<1>8. LoopTypeOK'
  BY <1>1, <1>5 DEF LoopTypeOK
<1>9. job = NoJob \/ awaits = "none" => ~Awaited(r)
  BY <1>1, <1>2, RealNames DEF Awaited
<1>10. AgentInv'
  BY <1>1, <1>5, <1>9 DEF AgentInv
<1>11. JobInv'
  <2>1. CASE phase # "starting" \/ reply' = reply
    BY <1>5, <1>6, <2>1, JobKeeps
  <2>2. CASE phase = "starting" /\ reply' # reply
    <3>1. Awaited(r)
      BY <1>5, <2>2
    <3>2. CASE ~Admits(r)
      <4>1. UNCHANGED <<leases, now>> /\ reply' = "refused"
        BY <1>5, <3>1, <3>2 DEF vars
      <4>2. QED  BY <1>1, <1>5, <2>2, <4>1 DEF JobInv
    <3>3. CASE Admits(r)
      <4>1. /\ recordReceipt(c, r.attempt, r.state, r.seq, r.done, r.claims,
                             r.state = "completion_candidate")
            /\ r.state = "running" /\ job.command = c /\ job.attempt = r.attempt
            /\ job # NoJob
        BY <1>1, <1>5, <2>2, <3>1, <3>3 DEF Awaited, AgentInv
      <4>2. leases'[c] = [leases[c] EXCEPT ![r.attempt] =
                            ReceiptLease(leases[c][r.attempt], r.state, r.seq)]
            /\ now' = now
        BY <1>1, <1>2, <4>1 DEF recordReceipt, TypeOK
      <4>3. ReceiptLease(leases[c][r.attempt], r.state, r.seq).started
        BY <1>4, <4>1 DEF ReceiptLease, Lease, terminal
      <4>4. leases'[c][r.attempt].started
        BY <1>3, <1>4, <4>2, <4>3
      <4>5. /\ r.attempt \in DOMAIN leases'[c]
            /\ leases'[c][r.attempt].issuedAt = leases[c][r.attempt].issuedAt
        BY <1>1, <1>2, <1>3, <1>6, LeasesGrow
      <4>6. QED  BY <1>1, <1>5, <2>2, <4>1, <4>2, <4>4, <4>5 DEF JobInv
    <3>4. QED  BY <3>2, <3>3
  <2>3. QED  BY <2>1, <2>2
<1>12. ReceiptsInv' /\ ExecutedInv'
  <2>1. ASSUME NEW d \in Commands, state'[d] \in {"verifying", "succeeded"}
        PROVE  executions'[d] = 1
    <3>1. CASE state'[d] = state[d]
      BY <1>1, <1>5, <2>1, <3>1 DEF ExecutedInv
    <3>2. CASE state'[d] # state[d]
      <4>1. Admits(r) /\ state' = [state EXCEPT ![c] = authorityState(r.state)]
        BY <1>5, <3>2 DEF vars, recordReceipt
      <4>2. d = c /\ state'[d] = authorityState(r.state)
        BY <1>1, <3>2, <4>1 DEF TypeOK
      <4>3. r.state = "completion_candidate"
        BY <1>2, <2>1, <4>2 DEF authorityState, ReceiptStates
      <4>4. QED  BY <1>3, <1>5, <4>2, <4>3
    <3>3. QED  BY <3>1, <3>2
  <2>2. QED  BY <1>5, <1>6, <2>1, RecordsKeep DEF ExecutedInv
<1>13. QED  BY <1>6, <1>7, <1>8, <1>10, <1>11, <1>12 DEF LoopInv

-------------------------------------------------------------------------------
(* The theorems.                                                              *)

\* Every step of the composition keeps the invariant, and is a step of the
\* authority or leaves it alone.
LEMMA LoopStep == LoopInv /\ [LoopNext]_loopVars => LoopInv' /\ [Next]_vars
<1> SUFFICES ASSUME LoopInv, [LoopNext]_loopVars PROVE LoopInv' /\ [Next]_vars
  OBVIOUS
<1>1. CASE Elsewhere \/ UNCHANGED loopVars
  BY <1>1, ElsewhereKeeps
<1>2. CASE \E p \in polls : HandlePoll(p)
  BY <1>2, PollKeeps
<1>3. CASE \E r \in receipts : HandleReceipt(r)
  BY <1>3, ReceiptKeepsLoop
<1>4. CASE AgentStep \/ Crash
  BY <1>4, AgentStepKeeps
<1>5. QED  BY <1>1, <1>2, <1>3, <1>4 DEF LoopNext

\* The inductive invariant holds in every reachable state.
LEMMA LoopInvariant == LoopSpec => []LoopInv
<1>1. LoopInv /\ [LoopNext]_loopVars => LoopInv'
  BY LoopStep
<1>2. QED  BY <1>1, LoopInitInv, PTL DEF LoopSpec

\* The authority driven by a real agent over an unreliable wire is the authority of
\* ControlAuthority: every theorem about that specification holds of the
\* composition.
THEOREM AuthorityRefined == LoopSpec => ImplementsAuthority
<1>1. LoopInit => Init
  BY DEF LoopInit
<1>2. LoopInv /\ [LoopNext]_loopVars => [Next]_vars
  BY LoopStep
<1>3. QED
  BY <1>1, <1>2, LoopInvariant, PTL DEF LoopSpec, ImplementsAuthority, Spec

\* executeControlCycle starts the executor on a command at most once, however
\* requests are lost or late and however often the daemon crashes and forgets its
\* replay cache.
THEOREM ExecutedOnce == LoopSpec => []ExecutesAtMostOnce
<1>1. LoopInv => ExecutesAtMostOnce
  BY DEF LoopInv, ExecutedInv, ExecutesAtMostOnce
<1>2. QED  BY <1>1, LoopInvariant, PTL

\* The agent works only under the latest attempt, one the authority recorded as
\* started, and no stray, repeated or reordered receipt completes a command nobody
\* ran.
THEOREM ExecutionAccounted == LoopSpec => []ExecutionInv
<1>1. LoopInv => ExecutionInv
  <2> SUFFICES ASSUME LoopInv PROVE ExecutionIsOwned /\ OutcomeHasExecution
    BY DEF LoopInv, ExecutionInv
  <2>1. OutcomeHasExecution
    BY DEF LoopInv, ExecutedInv, OutcomeHasExecution
  <2>2. ExecutionIsOwned
    <3> SUFFICES ASSUME phase \in {"ready", "executing", "observing"}
                 PROVE  /\ job.attempt = Len(leases[job.command])
                        /\ leases[job.command][job.attempt].started
      BY DEF ExecutionIsOwned
    <3>1. /\ job # NoJob /\ job.command \in Commands
          /\ job.attempt \in DOMAIN leases[job.command]
          /\ leases[job.command][job.attempt].started
      BY RealNames DEF LoopInv, AgentInv, JobInv
    <3>2. QED  BY <3>1 DEF LoopInv, IndInv, CommandInv, StartInv
  <2>3. QED  BY <2>1, <2>2
<1>2. QED  BY <1>1, LoopInvariant, PTL

-------------------------------------------------------------------------------
(* THE OUTBOX, for every set of messages and publishers, every lease term,    *)
(* every retry delay and every number of attempts.                            *)
(* The inductive invariant: what the grants publishers remember have to do     *)
(* with the rows and with what was delivered.                                  *)

\* A remembered grant is one leaseOutbox made: its token is the number of an
\* attempt of the row, and a grant whose message was delivered left that attempt
\* among the deliveries.
GrantsReal ==
    \A p \in Publishers : \A g \in holding[p] :
        /\ g.token <= attempts[g.message]
        /\ g.sent => g.token \in sent[g.message]

\* No two grants share a row and a token, whichever publishers hold them: every
\* lease has a token of its own.
GrantsUnique ==
    \A p, q \in Publishers : \A g \in holding[p], h \in holding[q] :
        g.message = h.message /\ g.token = h.token => p = q /\ g = h

OutboxIndInv == SettlementInv /\ GrantsReal /\ GrantsUnique

-------------------------------------------------------------------------------
(* The steps of the repository.                                               *)

\* A row inserted by appendEvent starts clean.
LEMMA AppendStep ==
    ASSUME OutboxIndInv, NEW m \in Messages, appendEvent(m)
    PROVE  OutboxIndInv'
<1>1. OutboxTypeOK'
  BY DEF OutboxIndInv, SettlementInv, OutboxTypeOK, appendEvent, States
<1>2. DeadLetterOnce' /\ PublishedWasSent'
  BY DEF OutboxIndInv, SettlementInv, OutboxTypeOK, appendEvent, DeadLetterOnce, PublishedWasSent
<1>3. GrantsReal' /\ GrantsUnique'
  BY DEF OutboxIndInv, appendEvent, GrantsReal, GrantsUnique
<1>4. QED  BY <1>1, <1>2, <1>3 DEF OutboxIndInv, SettlementInv

\* A row put back to "retry" or leased anew keeps its history, and the leases of
\* the batch get tokens no earlier lease had.
LEMMA LeaseStep ==
    ASSUME OutboxIndInv, NEW p \in Publishers, NEW batch \in SUBSET Messages,
           leaseOutbox(p, batch)
    PROVE  OutboxIndInv'
<1> DEFINE fresh == {[message |-> m, token |-> attempts[m] + 1, sent |-> FALSE] :
                       m \in batch}
<1>1. /\ rowState \in [Messages -> States] /\ attempts \in [Messages -> 0..OutboxAttempts]
      /\ leaseLeft \in [Messages -> 0..LeaseTerm] /\ waitLeft \in [Messages -> Nat]
      /\ deadLetters \in [Messages -> Nat] /\ holding \in [Publishers -> SUBSET OutboxGrant]
      /\ sent \in [Messages -> SUBSET Nat]
  BY DEF OutboxIndInv, SettlementInv, OutboxTypeOK
<1>2. \A m \in batch : attempts[m] + 1 \in 0..OutboxAttempts /\ attempts[m] + 1 \in Nat
                       /\ RecoveredState(m) \in {"pending", "retry"}
  BY <1>1, OutboxAssumption DEF leaseOutbox, Ready
<1>3. fresh \subseteq OutboxGrant
  <2>1. ASSUME NEW m \in batch
        PROVE  [message |-> m, token |-> attempts[m] + 1, sent |-> FALSE] \in OutboxGrant
    BY <1>2 DEF OutboxGrant
  <2>2. QED  BY <2>1
<1>4. holding' = [holding EXCEPT ![p] = @ \cup fresh]
  BY DEF leaseOutbox
<1>5. \A m \in Messages : RecoveredState(m) \in States /\ RecoveredWait(m) \in Nat
  BY <1>1 DEF RecoveredState, RecoveredWait, States
<1>6. OutboxTypeOK'
  <2>1. rowState' \in [Messages -> States]
    BY <1>5 DEF leaseOutbox, States
  <2>2. attempts' \in [Messages -> 0..OutboxAttempts]
    BY <1>1, <1>2 DEF leaseOutbox
  <2>3. leaseLeft' \in [Messages -> 0..LeaseTerm]
    BY <1>1, OutboxAssumption DEF leaseOutbox
  <2>4. waitLeft' \in [Messages -> Nat]
    BY <1>5 DEF leaseOutbox
  <2>5. holding' \in [Publishers -> SUBSET OutboxGrant]
    BY <1>1, <1>3, <1>4
  <2>6. QED
    BY <1>1, <2>1, <2>2, <2>3, <2>4, <2>5 DEF leaseOutbox, OutboxTypeOK
<1>7. DeadLetterOnce'
  <2> SUFFICES ASSUME NEW m \in Messages
               PROVE  /\ deadLetters'[m] = IF rowState'[m] = "dead_letter" THEN 1 ELSE 0
                      /\ rowState'[m] = "dead_letter" => attempts'[m] = OutboxAttempts
    BY DEF DeadLetterOnce
  <2>1. /\ deadLetters[m] = IF rowState[m] = "dead_letter" THEN 1 ELSE 0
        /\ rowState[m] = "dead_letter" => attempts[m] = OutboxAttempts
    BY DEF OutboxIndInv, SettlementInv, DeadLetterOnce
  <2>2. CASE m \in batch
    BY <1>2, <2>1, <2>2 DEF leaseOutbox, RecoveredState, LeaseExpired
  <2>3. CASE m \notin batch
    BY <2>1, <2>3 DEF leaseOutbox, RecoveredState, LeaseExpired
  <2>4. QED  BY <2>2, <2>3
<1>8. PublishedWasSent'
  <2> SUFFICES ASSUME NEW m \in Messages, rowState'[m] = "published"
               PROVE  attempts'[m] \in sent'[m]
    BY DEF PublishedWasSent
  <2>1. m \notin batch /\ rowState[m] = "published"
    BY DEF leaseOutbox, RecoveredState
  <2>2. QED  BY <2>1 DEF leaseOutbox, OutboxIndInv, SettlementInv, PublishedWasSent
<1>9. ASSUME NEW q \in Publishers, NEW g \in holding'[q]
      PROVE  /\ g \in holding[q] \/ (q = p /\ g \in fresh)
             /\ g \in holding[q] => g \in OutboxGrant /\ g.token <= attempts[g.message]
  BY <1>1, <1>4, <1>9 DEF OutboxIndInv, GrantsReal
<1>10. \A g \in fresh : /\ g.message \in batch /\ g.message \in Messages
                        /\ g.token = attempts[g.message] + 1
                        /\ g.sent = FALSE
  OBVIOUS
<1>11. GrantsReal'
  <2> SUFFICES ASSUME NEW q \in Publishers, NEW g \in holding'[q]
               PROVE  g.token <= attempts'[g.message]
                      /\ (g.sent => g.token \in sent'[g.message])
    BY DEF GrantsReal
  <2>1. CASE g \in holding[q]
    <3>1. g.message \in Messages /\ g.token \in Nat /\ g.token <= attempts[g.message]
      BY <1>9, <2>1 DEF OutboxGrant
    <3>2. attempts'[g.message] >= attempts[g.message]
      BY <1>1, <3>1 DEF leaseOutbox
    <3>3. g.token <= attempts'[g.message]
      BY <1>1, <1>6, <3>1, <3>2 DEF OutboxTypeOK
    <3>4. QED  BY <2>1, <3>3 DEF OutboxIndInv, GrantsReal, leaseOutbox
  <2>2. CASE q = p /\ g \in fresh
    <3>1. attempts'[g.message] = attempts[g.message] + 1
      BY <1>10, <2>2 DEF leaseOutbox
    <3>2. QED  BY <1>1, <1>10, <2>2, <3>1
  <2>3. QED  BY <1>9, <2>1, <2>2
<1>12. GrantsUnique'
  <2> SUFFICES ASSUME NEW q \in Publishers, NEW r \in Publishers,
                      NEW g \in holding'[q], NEW h \in holding'[r],
                      g.message = h.message, g.token = h.token
               PROVE  q = r /\ g = h
    BY DEF GrantsUnique
  <2>1. CASE g \in holding[q] /\ h \in holding[r]
    BY <2>1 DEF OutboxIndInv, GrantsUnique
  <2>2. CASE g \in holding[q] /\ r = p /\ h \in fresh
    <3>1. g \in OutboxGrant /\ g.token <= attempts[g.message]
      BY <1>9, <2>2
    <3>2. QED  BY <1>1, <1>10, <2>2, <3>1 DEF OutboxGrant
  <2>3. CASE h \in holding[r] /\ q = p /\ g \in fresh
    <3>1. h \in OutboxGrant /\ h.token <= attempts[h.message]
      BY <1>9, <2>3
    <3>2. QED  BY <1>1, <1>10, <2>3, <3>1 DEF OutboxGrant
  <2>4. CASE q = p /\ r = p /\ g \in fresh /\ h \in fresh
    <3>1. PICK m \in batch : g = [message |-> m, token |-> attempts[m] + 1, sent |-> FALSE]
      BY <2>4
    <3>2. PICK n \in batch : h = [message |-> n, token |-> attempts[n] + 1, sent |-> FALSE]
      BY <2>4
    <3>3. QED  BY <2>4, <3>1, <3>2
  <2>5. QED  BY <1>9, <2>1, <2>2, <2>3, <2>4
<1>13. QED
  BY <1>6, <1>7, <1>8, <1>11, <1>12 DEF OutboxIndInv, SettlementInv

\* An accepted settlement publishes only what its own lease delivered, and
\* dead-letters a row whose attempts are used up once.
LEMMA SettleStep ==
    ASSUME OutboxIndInv, NEW p \in Publishers, NEW g \in holding[p], Settle(p, g)
    PROVE  OutboxIndInv'
<1>1. /\ rowState \in [Messages -> States] /\ attempts \in [Messages -> 0..OutboxAttempts]
      /\ leaseLeft \in [Messages -> 0..LeaseTerm] /\ waitLeft \in [Messages -> Nat]
      /\ deadLetters \in [Messages -> Nat] /\ holding \in [Publishers -> SUBSET OutboxGrant]
      /\ sent \in [Messages -> SUBSET Nat]
  BY DEF OutboxIndInv, SettlementInv, OutboxTypeOK
<1>2. /\ g.message \in Messages /\ g.token \in Nat /\ g.sent \in BOOLEAN
      /\ g.sent => g.token \in sent[g.message]
  BY <1>1 DEF OutboxGrant, OutboxIndInv, GrantsReal
<1>3. PICK outcome \in {"published", "retry"}, delay \in Nat :
        /\ settleOutbox(p, g, outcome, delay)
        /\ outcome = "published" => g.sent
  BY OutboxAssumption, <1>2 DEF Settle
<1> DEFINE m == g.message
           next == IF outcome = "published" THEN "published" ELSE FailedState(m)
<1>4. /\ Settles(g)
      /\ rowState' = [rowState EXCEPT ![m] = next]
      /\ leaseLeft' = [leaseLeft EXCEPT ![m] = 0]
      /\ waitLeft' = [waitLeft EXCEPT ![m] = IF next = "retry" THEN delay ELSE @]
      /\ deadLetters' = [deadLetters EXCEPT ![m] =
                           IF next = "dead_letter" THEN @ + 1 ELSE @]
      /\ holding' = [holding EXCEPT ![p] = @ \ {g}]
      /\ UNCHANGED <<attempts, sent>>
  BY <1>3 DEF settleOutbox
<1>5. /\ next \in {"published", "dead_letter", "retry"}
      /\ next = "dead_letter" => attempts[m] = OutboxAttempts
      /\ next = "published" => g.sent
  BY <1>1, <1>2, <1>3, OutboxAssumption DEF FailedState
<1>6. rowState[m] = "processing" /\ attempts[m] = g.token
  BY <1>4 DEF Settles
<1> HIDE DEF next
<1>7. OutboxTypeOK'
  BY <1>1, <1>2, <1>4, <1>5, OutboxAssumption DEF OutboxTypeOK, States
<1>8. DeadLetterOnce'
  <2>1. deadLetters[m] = 0
    BY <1>2, <1>6 DEF OutboxIndInv, SettlementInv, DeadLetterOnce
  <2>2. QED
    BY <1>1, <1>2, <1>4, <1>5, <2>1 DEF OutboxIndInv, SettlementInv, DeadLetterOnce
<1>9. PublishedWasSent'
  BY <1>1, <1>2, <1>4, <1>5, <1>6 DEF OutboxIndInv, SettlementInv, PublishedWasSent
<1>10. \A q \in Publishers : holding'[q] \subseteq holding[q]
  BY <1>1, <1>4
<1>11. GrantsReal' /\ GrantsUnique'
  BY <1>4, <1>10 DEF OutboxIndInv, GrantsReal, GrantsUnique
<1>12. QED  BY <1>7, <1>8, <1>9, <1>11 DEF OutboxIndInv, SettlementInv

-------------------------------------------------------------------------------
(* The steps of the publishers and of the clock.                              *)

\* A delivery, however late, is recorded under the attempt of the grant it was
\* made for.
LEMMA DeliverStep ==
    ASSUME OutboxIndInv, NEW p \in Publishers, NEW g \in holding[p], Deliver(p, g)
    PROVE  OutboxIndInv'
<1> DEFINE h == [g EXCEPT !.sent = TRUE]
<1>1. /\ holding \in [Publishers -> SUBSET OutboxGrant]
      /\ sent \in [Messages -> SUBSET Nat]
      /\ attempts \in [Messages -> 0..OutboxAttempts]
  BY DEF OutboxIndInv, SettlementInv, OutboxTypeOK
<1>g. g \in OutboxGrant
  BY <1>1
<1>2. h \in OutboxGrant /\ h.message = g.message /\ h.token = g.token
      /\ g.message \in Messages /\ g.token \in Nat
  BY <1>g DEF OutboxGrant
<1>3. /\ sent' = [sent EXCEPT ![g.message] = @ \cup {g.token}]
      /\ holding' = [holding EXCEPT ![p] = (@ \ {g}) \cup {h}]
      /\ UNCHANGED <<rowState, attempts, leaseLeft, waitLeft, deadLetters>>
  BY DEF Deliver
<1> HIDE DEF h
<1>4. OutboxTypeOK'
  BY <1>1, <1>2, <1>3 DEF OutboxIndInv, SettlementInv, OutboxTypeOK
<1>5. /\ \A m \in Messages : sent[m] \subseteq sent'[m]
      /\ g.token \in sent'[g.message]
  BY <1>1, <1>2, <1>3
<1>6. DeadLetterOnce' /\ PublishedWasSent'
  BY <1>3, <1>5 DEF OutboxIndInv, SettlementInv, DeadLetterOnce, PublishedWasSent
<1>7. \A q \in Publishers : \A x \in holding'[q] :
        \/ x \in holding[q] /\ (q = p => x # g)
        \/ q = p /\ x = h
  BY <1>1, <1>3
<1>8. GrantsReal'
  <2> SUFFICES ASSUME NEW q \in Publishers, NEW x \in holding'[q]
               PROVE  x.token <= attempts'[x.message]
                      /\ (x.sent => x.token \in sent'[x.message])
    BY DEF GrantsReal
  <2>1. CASE x \in holding[q]
    <3>1. x.message \in Messages
      BY <1>1, <2>1 DEF OutboxGrant
    <3>2. QED  BY <1>3, <1>5, <2>1, <3>1 DEF OutboxIndInv, GrantsReal
  <2>2. CASE q = p /\ x = h
    BY <1>2, <1>3, <1>5, <2>2 DEF OutboxIndInv, GrantsReal
  <2>3. QED  BY <1>7, <2>1, <2>2
<1>9. GrantsUnique'
  <2> SUFFICES ASSUME NEW q \in Publishers, NEW r \in Publishers,
                      NEW x \in holding'[q], NEW y \in holding'[r],
                      x.message = y.message, x.token = y.token
               PROVE  q = r /\ x = y
    BY DEF GrantsUnique
  <2>1. CASE x \in holding[q] /\ y \in holding[r]
    BY <2>1 DEF OutboxIndInv, GrantsUnique
  <2>2. CASE q = p /\ x = h /\ y \in holding[r] /\ (r = p => y # g)
    BY <1>2, <2>2 DEF OutboxIndInv, GrantsUnique
  <2>3. CASE r = p /\ y = h /\ x \in holding[q] /\ (q = p => x # g)
    BY <1>2, <2>3 DEF OutboxIndInv, GrantsUnique
  <2>4. QED  BY <1>7, <2>1, <2>2, <2>3
<1>10. QED  BY <1>4, <1>6, <1>8, <1>9 DEF OutboxIndInv, SettlementInv

\* A publisher that forgets a lease changes no row.
LEMMA ForgetStep ==
    ASSUME OutboxIndInv, NEW p \in Publishers, NEW g \in holding[p], Forget(p, g)
    PROVE  OutboxIndInv'
<1>1. holding \in [Publishers -> SUBSET OutboxGrant]
  BY DEF OutboxIndInv, SettlementInv, OutboxTypeOK
<1>2. \A q \in Publishers : holding'[q] \subseteq holding[q]
  BY <1>1 DEF Forget
<1>3. OutboxTypeOK'
  BY DEF OutboxIndInv, SettlementInv, OutboxTypeOK, Forget
<1>4. DeadLetterOnce' /\ PublishedWasSent'
  BY DEF Forget, OutboxIndInv, SettlementInv, DeadLetterOnce, PublishedWasSent
<1>5. GrantsReal' /\ GrantsUnique'
  BY <1>2 DEF Forget, OutboxIndInv, GrantsReal, GrantsUnique
<1>6. QED  BY <1>3, <1>4, <1>5 DEF OutboxIndInv, SettlementInv

\* The clock moves no row.
LEMMA TickStep ==
    ASSUME OutboxIndInv, OutboxTick
    PROVE  OutboxIndInv'
<1>1. \A t \in Nat : Countdown(t) \in Nat /\ Countdown(t) <= t
  BY DEF Countdown
<1>2. leaseLeft' \in [Messages -> 0..LeaseTerm] /\ waitLeft' \in [Messages -> Nat]
  BY <1>1, OutboxAssumption DEF OutboxTick, OutboxIndInv, SettlementInv, OutboxTypeOK
<1>3. OutboxTypeOK'
  BY <1>2 DEF OutboxTick, OutboxIndInv, SettlementInv, OutboxTypeOK
<1>4. DeadLetterOnce' /\ PublishedWasSent' /\ GrantsReal' /\ GrantsUnique'
  BY DEF OutboxTick, OutboxIndInv, SettlementInv, DeadLetterOnce, PublishedWasSent, GrantsReal,
         GrantsUnique
<1>5. QED  BY <1>3, <1>4 DEF OutboxIndInv, SettlementInv

-------------------------------------------------------------------------------
(* The theorems.                                                              *)

\* The inductive invariant holds in every reachable state.
LEMMA OutboxInductive == OutboxSpec => []OutboxIndInv
<1>1. OutboxInit => OutboxIndInv
  <2> SUFFICES ASSUME OutboxInit PROVE OutboxIndInv
    OBVIOUS
  <2>1. OutboxTypeOK /\ DeadLetterOnce /\ PublishedWasSent
    BY OutboxAssumption DEF OutboxInit, OutboxTypeOK, DeadLetterOnce, PublishedWasSent, States
  <2>2. GrantsReal /\ GrantsUnique
    BY DEF OutboxInit, GrantsReal, GrantsUnique
  <2>3. QED  BY <2>1, <2>2 DEF OutboxIndInv, SettlementInv
<1>2. OutboxIndInv /\ [OutboxNext]_outboxVars => OutboxIndInv'
  <2> SUFFICES ASSUME OutboxIndInv, [OutboxNext]_outboxVars PROVE OutboxIndInv'
    OBVIOUS
  <2>1. CASE \E m \in Messages : appendEvent(m)
    BY <2>1, AppendStep
  <2>2. CASE \E p \in Publishers : LeaseOutbox(p)
    BY <2>2, LeaseStep DEF LeaseOutbox
  <2>3. CASE \E p \in Publishers : \E g \in holding[p] :
               Deliver(p, g) \/ Settle(p, g) \/ Forget(p, g)
    BY <2>3, DeliverStep, SettleStep, ForgetStep
  <2>4. CASE OutboxTick
    BY <2>4, TickStep
  <2>5. CASE UNCHANGED outboxVars
    BY <2>5 DEF outboxVars, OutboxIndInv, SettlementInv, OutboxTypeOK, DeadLetterOnce,
                PublishedWasSent, GrantsReal, GrantsUnique
  <2>6. QED  BY <2>1, <2>2, <2>3, <2>4, <2>5 DEF OutboxNext
<1>3. QED  BY <1>1, <1>2, PTL DEF OutboxSpec

\* settleOutbox, whoever calls it, late, twice or after another publisher: a row
\* is dead-lettered once, with its attempts used up, and a row marked published was
\* delivered under the lease that settled it.
THEOREM SettledByItsLease == OutboxSpec => []SettlementInv
<1>1. OutboxIndInv => SettlementInv
  BY DEF OutboxIndInv
<1>2. QED  BY <1>1, OutboxInductive, PTL

\* While a lease is alive, no call of leaseOutbox or settleOutbox by anyone else,
\* and no passing of time, takes the row from its holder.
THEOREM LeaseExclusive == OutboxSpec => HolderUndisturbed
<1> DEFINE Undisturbed == \A p \in Publishers : \A g \in holding[p] :
                            Settles(g) /\ g \in holding'[p] =>
                              /\ rowState'[g.message] = "processing"
                              /\ attempts'[g.message] = g.token
<1>1. OutboxIndInv /\ [OutboxNext]_outboxVars => [Undisturbed]_outboxVars
  <2> SUFFICES ASSUME OutboxIndInv, [OutboxNext]_outboxVars, NEW p \in Publishers, NEW g \in holding[p],
                      Settles(g), g \in holding'[p]
               PROVE  /\ rowState'[g.message] = "processing"
                      /\ attempts'[g.message] = g.token
    BY DEF Undisturbed
  <2>1. /\ rowState \in [Messages -> States] /\ attempts \in [Messages -> 0..OutboxAttempts]
        /\ leaseLeft \in [Messages -> 0..LeaseTerm]
        /\ holding \in [Publishers -> SUBSET OutboxGrant]
    BY DEF OutboxIndInv, SettlementInv, OutboxTypeOK
  <2>2. /\ g.message \in Messages /\ g.token \in Nat
        /\ rowState[g.message] = "processing" /\ attempts[g.message] = g.token
        /\ leaseLeft[g.message] > 0
    BY <2>1 DEF OutboxGrant, Settles
  <2>3. CASE \E m \in Messages : appendEvent(m)
    BY <2>1, <2>2, <2>3 DEF appendEvent
  <2>4. CASE \E q \in Publishers : LeaseOutbox(q)
    <3>1. PICK q \in Publishers, batch \in SUBSET Messages : leaseOutbox(q, batch)
      BY <2>4 DEF LeaseOutbox
    <3>2. RecoveredState(g.message) = "processing"
      BY <2>1, <2>2 DEF RecoveredState, LeaseExpired
    <3>3. g.message \notin batch
      BY <3>1, <3>2 DEF leaseOutbox, Ready
    <3>4. QED  BY <2>2, <3>1, <3>2, <3>3 DEF leaseOutbox
  <2>5. CASE \E q \in Publishers : \E h \in holding[q] : Settle(q, h)
    <3>q. PICK q \in Publishers : \E h \in holding[q] : Settle(q, h)
      BY <2>5
    <3>h. PICK h \in holding[q] : Settle(q, h)
      BY <3>q
    <3>1. PICK outcome \in {"published", "retry"}, delay \in Nat :
            settleOutbox(q, h, outcome, delay)
      BY <3>h, OutboxAssumption DEF Settle
    <3>2. Settles(h) /\ holding' = [holding EXCEPT ![q] = @ \ {h}]
      BY <3>1 DEF settleOutbox
    <3>3. h.message \in Messages /\ attempts[h.message] = h.token
      BY <2>1, <3>2 DEF Settles, OutboxGrant
    <3>4. h.message # g.message
      <4>1. SUFFICES ASSUME h.message = g.message PROVE FALSE
        OBVIOUS
      <4>2. q = p /\ h = g
        BY <2>2, <3>3, <4>1 DEF OutboxIndInv, GrantsUnique
      <4>3. QED  BY <2>1, <3>2, <4>2
    <3>5. /\ \E next : rowState' = [rowState EXCEPT ![h.message] = next]
          /\ UNCHANGED attempts
      BY <3>1 DEF settleOutbox
    <3>6. QED  BY <2>1, <2>2, <3>4, <3>5
  <2>6. CASE \E q \in Publishers : \E h \in holding[q] : Deliver(q, h) \/ Forget(q, h)
    BY <2>2, <2>6 DEF Deliver, Forget
  <2>7. CASE OutboxTick \/ UNCHANGED outboxVars
    BY <2>2, <2>7 DEF OutboxTick, outboxVars
  <2>8. QED  BY <2>3, <2>4, <2>5, <2>6, <2>7 DEF OutboxNext
<1>2. QED  BY <1>1, OutboxInductive, PTL DEF OutboxSpec, HolderUndisturbed

===============================================================================
