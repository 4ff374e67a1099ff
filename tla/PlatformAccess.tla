--------------------------- MODULE PlatformAccess ---------------------------
(* Who may ask the platform for what, and once.  Five areas, of which a         *)
(* behaviour is about one:                                                      *)
(*   "logins"     logins of one address while time passes                       *)
(*                (apps/web/routes/auth.mjs);                                   *)
(*   "users"      logins, session tokens and changes of roles, at one moment    *)
(*                (packages/auth, apps/web/routes/auth.mjs, app.mjs);           *)
(*   "server"     the credentials of a server, which administrators rotate, and *)
(*   "worker"     that of the channel worker, which every start of the platform *)
(*                registers, with the signed requests of those machines         *)
(*                (packages/security, postgres-repository.mjs, app.mjs);        *)
(*   "mutations"  transactions of the control authority under an idempotency    *)
(*                key and the audit chain (control-authority-repository.mjs).   *)
(*                                                                              *)
(* Statements of a transaction are steps; what they wrote is seen by others     *)
(* after the commit (READ COMMITTED).  A signature is the token it was made     *)
(* with, a request hash is the request.                                         *)
EXTENDS Naturals, Sequences, FiniteSets

CONSTANTS
    Areas,
    Users, Org, FirstRole,  \* Org[u], FirstRole[u]: organization and role of user u at first
    Slots,                  \* logins, requests or transactions at the same time
    AttemptLimit, Minute,   \* 10 and 60 seconds in the code
    Keys, Hashes,           \* idempotency keys and the requests sent under them
    Skew,                   \* MAX_CLOCK_SKEW_MS
    MaxClock,               \* bound on time
    MaxLogins,              \* bound on the logins that succeed in a minute
    MaxNonces,              \* bound on machine requests
    MaxCredentials,         \* bound on credentials of a machine
    MaxAudits               \* bound on committed transactions

Roles == {"user", "org_admin", "platform_admin"}

ASSUME AccessAssumption ==
    /\ Areas \subseteq {"logins", "users", "server", "worker", "mutations"}
    /\ FirstRole \in [Users -> Roles]
    /\ "none" \notin Slots \union Hashes
    /\ {AttemptLimit, Minute} \subseteq Nat \ {0}
    /\ {Skew, MaxClock, MaxLogins, MaxNonces, MaxCredentials, MaxAudits} \subseteq Nat

VARIABLES
    area,
    role,       \* users.role
    cookie,     \* cookie[u]: the session token the browser of u holds
    attempts,   \* loginAttempts: count and resetAt of one address
    minute,     \* a minute, any one, with the passwords checked and the logins in it
    slot,       \* slot[s]: a login, a request or a transaction that is processed
    clock,
    creds,      \* credentials of the machine, in the order they were committed
    sent,       \* sent[n]: the request with nonce n, which may arrive again and again
    claimed,    \* machine_request_nonces
    served,     \* served[n]: times request n was served
    held,       \* the token the machine signs with; tokens are numbers from 1
    record,     \* record[k]: control_idempotency_records
    locks,      \* locks on keys, on the deployment's row and on the "audit" chain: who holds them
    audits,     \* length of the audit chain
    refused     \* requests answered with a conflict or a broken constraint

userVars == <<role, cookie, attempts, minute>>
machineVars == <<clock, creds, sent, claimed, served, held>>
mutationVars == <<record, locks, audits, refused>>
vars == <<area, slot, userVars, machineVars, mutationVars>>

Free == [stage |-> "free"]

-----------------------------------------------------------------------------
(* Logins and roles. *)

NoToken == [valid |-> FALSE, role |-> "user"]

NoAttempt == [count |-> 0, resetAt |-> 0]

\* Mutant: an entry that has expired is emptied and keeps its time.
Attempt_Expired ==
    IF attempts = NoAttempt THEN [count |-> 0, resetAt |-> clock + Minute]
    ELSE IF attempts.resetAt <= clock THEN [attempts EXCEPT !.count = 0] ELSE attempts

\* The entry of the address; a missing or expired one starts a minute of its own.
Attempt == IF attempts.resetAt <= clock THEN [count |-> 0, resetAt |-> clock + Minute]
           ELSE attempts

InMinute == minute.from <= clock /\ clock < minute.from + Minute

\* POST /api/auth/login up to verifyPassword: counted before anything is waited
\* for.  The user is read before the password is checked.
Login(s, u) ==
    /\ slot[s] = Free /\ Attempt.count < AttemptLimit
    /\ attempts' = [Attempt EXCEPT !.count = @ + 1]
    /\ minute' = IF InMinute THEN [minute EXCEPT !.checks = @ + 1] ELSE minute
    /\ slot' = [slot EXCEPT ![s] = [stage |-> "password", user |-> u, role |-> role[u]]]
    /\ UNCHANGED <<area, role, cookie, machineVars, mutationVars>>

\* A login that succeeds forgets the count of its address.
createSessionToken(s) ==
    /\ slot[s].stage = "password"
    /\ InMinute => minute.logins < MaxLogins
    /\ cookie' = [cookie EXCEPT ![slot[s].user] = [valid |-> TRUE, role |-> slot[s].role]]
    /\ attempts' = NoAttempt
    /\ minute' = IF InMinute THEN [minute EXCEPT !.logins = @ + 1] ELSE minute
    /\ slot' = [slot EXCEPT ![s] = Free]
    /\ UNCHANGED <<area, role, machineVars, mutationVars>>

InvalidCredentials(s) ==
    /\ slot[s].stage = "password"
    /\ slot' = [slot EXCEPT ![s] = Free]
    /\ UNCHANGED <<area, userVars, machineVars, mutationVars>>

\* The token expires, or its user logs out.
SessionEnds(u) ==
    /\ cookie[u].valid
    /\ cookie' = [cookie EXCEPT ![u] = NoToken]
    /\ UNCHANGED <<area, role, attempts, minute, slot, machineVars, mutationVars>>

\* Mutant: the role is the one the token was issued for.
TokenRole(u) == cookie[u].role

\* principalFor reads the user again and ignores the token's role.
PrincipalRole(u) == role[u]

\* PATCH /api/admin/users/:id/role: principalFor; asAdmin remembers whether the
\* user was a platform administrator at that moment.
RoleRequest(s, u) ==
    /\ slot[s] = Free /\ cookie[u].valid
    /\ slot' = [slot EXCEPT ![s] = [stage |-> "role", user |-> u, role |-> PrincipalRole(u),
                                    asAdmin |-> role[u] = "platform_admin"]]
    /\ UNCHANGED <<area, userVars, machineVars, mutationVars>>

\* The permissions about users of each role.
grants == [r \in Roles |->
    CASE r = "platform_admin" -> {"PLATFORM_USERS_MANAGE", "ORG_MEMBERS_MANAGE"}
      [] r = "org_admin" -> {"ORG_MEMBERS_MANAGE"}
      [] r = "user" -> {}]

\* The target's organization is the resource.
can(p, permission, target) ==
    /\ permission \in grants[p.role]
    /\ p.role = "platform_admin" \/ Org[p.user] = Org[target]

MayChange(p, target, to) ==
    IF p.role = "platform_admin" THEN can(p, "PLATFORM_USERS_MANAGE", target)
    ELSE can(p, "ORG_MEMBERS_MANAGE", target) /\ to # "platform_admin"

updateUserRole(s, target, to) ==
    /\ slot[s].stage = "role" /\ MayChange(slot[s], target, to)
    /\ role' = [role EXCEPT ![target] = to]
    /\ slot' = [slot EXCEPT ![s] = IF to = "platform_admin" THEN [@ EXCEPT !.stage = "appointed"] ELSE Free]
    /\ UNCHANGED <<area, cookie, attempts, minute, machineVars, mutationVars>>

\* The answer is sent, or the request was refused.
RoleAnswered(s) ==
    /\ slot[s].stage \in {"role", "appointed"}
    /\ slot' = [slot EXCEPT ![s] = Free]
    /\ UNCHANGED <<area, userVars, machineVars, mutationVars>>

-----------------------------------------------------------------------------
(* Credentials of machines. *)

Ids == 1..Len(creds)
Active == {c \in Ids : creds[c].active}

\* ORDER BY created_at DESC LIMIT 1; created_at is when the transaction began.
Accepted == {c \in Active : \A d \in Active : creds[d].created <= creds[c].created}

NotSent == [token |-> 0]

NewCredential(token, created, before) ==
    [token |-> token, created |-> created, active |-> TRUE, before |-> before]

Revoked(ids) == [c \in Ids |-> IF c \in ids THEN [creds[c] EXCEPT !.active = FALSE] ELSE creds[c]]

Tick ==
    /\ area \in {"logins", "server", "worker"} /\ clock < MaxClock
    /\ clock' = clock + 1
    /\ UNCHANGED <<area, slot, userVars, creds, sent, claimed, served, held, mutationVars>>

\* POST /api/admin/servers/:id/credentials: BEGIN.  before are the credentials
\* of rotations that were over by then.
IssueServerCredential(s) ==
    /\ area = "server" /\ slot[s] = Free /\ Len(creds) < MaxCredentials
    /\ slot' = [slot EXCEPT ![s] = [stage |-> "begun", created |-> clock, before |-> Ids]]
    /\ UNCHANGED <<area, userVars, machineVars, mutationVars>>

\* UPDATE ... WHERE status='active' works on the rows it saw at its start.
SeenActive(s) == Active

\* The UPDATE starts ...
RevokeStarts(s) ==
    /\ slot[s].stage = "begun"
    /\ slot' = [slot EXCEPT ![s] = [stage |-> "update", created |-> @.created, before |-> @.before,
                                    rows |-> SeenActive(s)]]
    /\ UNCHANGED <<area, userVars, machineVars, mutationVars>>

\* ... and waits for rows another transaction has revoked and not committed.
RevokeLocks(s) ==
    /\ slot[s].stage = "update"
    /\ \A o \in Slots : slot[o].stage = "insert" => slot[o].rows \intersect slot[s].rows = {}
    /\ slot' = [slot EXCEPT ![s].stage = "insert", ![s].rows = @ \intersect Active]
    /\ UNCHANGED <<area, userVars, machineVars, mutationVars>>

\* INSERT and COMMIT, with a token nobody had before.
createServerCredential(s) ==
    /\ slot[s].stage = "insert" /\ Len(creds) < MaxCredentials
    /\ creds' = Append(Revoked(slot[s].rows),
                       NewCredential(Len(creds) + 1, slot[s].created, slot[s].before))
    /\ slot' = [slot EXCEPT ![s] = Free]
    /\ UNCHANGED <<area, userVars, clock, sent, claimed, served, held, mutationVars>>

RotationFails(s) ==
    /\ slot[s].stage \in {"begun", "update", "insert"}
    /\ slot' = [slot EXCEPT ![s] = Free]
    /\ UNCHANGED <<area, userVars, machineVars, mutationVars>>

\* The machine is given a token that was issued.
InstallToken(token) ==
    /\ area = "server" /\ held # token
    /\ held' = token
    /\ UNCHANGED <<area, slot, userVars, clock, creds, sent, claimed, served, mutationVars>>

\* Mutant: every start registers a credential of its own.
AlwaysNew(token) == FALSE

\* The active credential has this token, and is kept.
SameToken(token) == \E c \in Active : creds[c].token = token

\* A start of the platform, with the worker's token of the environment.  Without
\* an active row two starts may both insert; one_active_idx fails the second.
createChannelWorkerCredential ==
    /\ area = "worker" /\ ~SameToken(1) /\ Len(creds) < MaxCredentials
    /\ creds' = Append(Revoked(Active), NewCredential(1, clock, Ids))
    /\ UNCHANGED <<area, slot, userVars, clock, sent, claimed, served, held, mutationVars>>

\* The signature of the body, and that of the request around it: what can be
\* checked of them is the token and the time.
signControlMutation(token) == [token |-> token, at |-> clock]
signMachineRequest(token, body) == [token |-> token, at |-> clock, body |-> body]

\* Only servers sign bodies; the body of the channel worker has no signature.
signedMachinePost(n) ==
    /\ sent[n] = NotSent /\ held # 0
    /\ sent' = [sent EXCEPT ![n] = signMachineRequest(held, signControlMutation(held))]
    /\ UNCHANGED <<area, slot, userVars, clock, creds, claimed, served, held, mutationVars>>

Distance(a, b) == IF a > b THEN a - b ELSE b - a

verifyMachineRequest(c, n) ==
    creds[c].token = sent[n].token /\ Distance(clock, sent[n].at) <= Skew

verifyControlMutationSignature(c, body) ==
    creds[c].token = body.token /\ Distance(clock, body.at) <= Skew

\* The credential, the signature and the time of a request that arrives.
authenticateMachine(s, n) ==
    /\ slot[s] = Free /\ sent[n] # NotSent
    /\ \E c \in Accepted :
         /\ verifyMachineRequest(c, n)
         /\ slot' = [slot EXCEPT ![s] = [stage |-> "claim", cred |-> c, nonce |-> n]]
    /\ UNCHANGED <<area, userVars, machineVars, mutationVars>>

\* ON CONFLICT DO NOTHING: rowCount = 1.
Unclaimed(s) == <<slot[s].cred, slot[s].nonce>> \notin claimed

claimMachineNonce(s) ==
    /\ slot[s].stage = "claim"
    /\ claimed' = claimed \union {<<slot[s].cred, slot[s].nonce>>}
    /\ slot' = [slot EXCEPT ![s] = IF Unclaimed(s) THEN [@ EXCEPT !.stage = "serve"] ELSE Free]
    /\ UNCHANGED <<area, userVars, clock, creds, sent, served, held, mutationVars>>

\* A lease or receipt request is served when its body is signed too, with the
\* key that was read when the request arrived.
ServeRequest(s) ==
    LET n == slot[s].nonce IN
    /\ slot[s].stage = "serve"
    /\ served' = IF area = "server" => verifyControlMutationSignature(slot[s].cred, sent[n].body)
                 THEN [served EXCEPT ![n] = @ + 1] ELSE served
    /\ slot' = [slot EXCEPT ![s] = Free]
    /\ UNCHANGED <<area, userVars, clock, creds, sent, claimed, held, mutationVars>>

-----------------------------------------------------------------------------
(* Transactions of the control authority. *)

NoRecord == "none"

\* UNIQUE (namespace, organization_id, idempotency_key), for one organization.
IdempotencyKeys == {"release-manifest", "secret-reference"} \X Keys

\* What else is locked.
DeploymentRow == <<"row", "deployment">>
AuditChain == <<"advisory", "audit">>

\* A request has passed the checks of its envelope; the transaction begins.
\* lock is the row it will lock, besides its key.
normalizeEnvelope(s, k, h, lock) ==
    /\ slot[s] = Free /\ audits < MaxAudits
    /\ slot' = [slot EXCEPT ![s] = [stage |-> "lock", key |-> k, hash |-> h, row |-> lock]]
    /\ UNCHANGED <<area, userVars, machineVars, mutationVars>>

registerReleaseManifest(s, k, h) == normalizeEnvelope(s, <<"release-manifest", k>>, h, "none")

registerSecretReference(s, k, h) ==
    \E lock \in {"none", "deployment"} : normalizeEnvelope(s, <<"secret-reference", k>>, h, lock)

\* Mutants: no lock on the key, and a lock that belongs to the session.
NoKeyLock(k) == TRUE
KeepLocks(s) == locks

KeyFree(k) == locks[k] = "none"

\* pg_advisory_xact_lock: the end of the transaction releases.
Released(s) == [l \in DOMAIN locks |-> IF locks[l] = s THEN "none" ELSE locks[l]]

\* The record of the key, read under its lock: a different request is refused,
\* the same one is answered with what it made.
lockIdempotency(s) ==
    LET k == slot[s].key IN
    /\ slot[s].stage = "lock" /\ KeyFree(k)
    /\ IF record[k] = NoRecord
       THEN /\ slot' = [slot EXCEPT ![s].stage = "insert"]
            /\ locks' = [locks EXCEPT ![k] = s]
            /\ UNCHANGED refused
       ELSE /\ slot' = [slot EXCEPT ![s] = Free]
            /\ refused' = IF record[k] = slot[s].hash THEN refused ELSE refused \union {<<k, slot[s].hash>>}
            /\ UNCHANGED locks
    /\ UNCHANGED <<area, userVars, machineVars, record, audits>>

\* The manifest is inserted.
createReleaseManifest(s) ==
    /\ slot[s].stage = "insert" /\ slot[s].key[1] = "release-manifest"
    /\ slot' = [slot EXCEPT ![s].stage = "append"]
    /\ UNCHANGED <<area, userVars, machineVars, mutationVars>>

\* getDeploymentForUpdate, which waits for the row.
DeploymentLocked(s) ==
    IF slot[s].row = "none" THEN locks' = locks
    ELSE locks[DeploymentRow] = "none" /\ locks' = [locks EXCEPT ![DeploymentRow] = s]

\* The reference is inserted, under the lock of its deployment when it has one.
insertSecretReference(s) ==
    /\ slot[s].stage = "insert" /\ slot[s].key[1] = "secret-reference"
    /\ DeploymentLocked(s)
    /\ slot' = [slot EXCEPT ![s].stage = "append"]
    /\ UNCHANGED <<area, userVars, machineVars, record, audits, refused>>

\* The event of the change and its place in the audit chain.
Audited(s, sequence) ==
    [stage |-> "save", key |-> slot[s].key, hash |-> slot[s].hash, sequence |-> sequence]

\* appendAudit waits for the chain and reads its end.
appendGlobalChange(s) ==
    /\ slot[s].stage = "append" /\ locks[AuditChain] = "none"
    /\ locks' = [locks EXCEPT ![AuditChain] = s]
    /\ slot' = [slot EXCEPT ![s] = Audited(s, audits + 1)]
    /\ UNCHANGED <<area, userVars, machineVars, record, audits, refused>>

\* saveIdempotency and COMMIT; UNIQUE (namespace, organization_id,
\* idempotency_key) and UNIQUE (organization_id, sequence) may refuse it.
saveIdempotency(s) ==
    LET k == slot[s].key IN
    /\ slot[s].stage = "save" /\ audits < MaxAudits
    /\ IF record[k] = NoRecord /\ slot[s].sequence = audits + 1
       THEN /\ record' = [record EXCEPT ![k] = slot[s].hash]
            /\ audits' = slot[s].sequence
            /\ UNCHANGED refused
       ELSE refused' = refused \union {<<k, slot[s].hash>>} /\ UNCHANGED <<record, audits>>
    /\ locks' = Released(s)
    /\ slot' = [slot EXCEPT ![s] = Free]
    /\ UNCHANGED <<area, userVars, machineVars>>

\* inTransaction: a statement fails, or the connection is lost, and with it the answer.
Rollback(s) ==
    /\ area = "mutations" /\ slot[s].stage \in {"lock", "insert", "append", "save"}
    /\ locks' = Released(s)
    /\ slot' = [slot EXCEPT ![s] = Free]
    /\ UNCHANGED <<area, userVars, machineVars, record, audits, refused>>

-----------------------------------------------------------------------------
Init ==
    /\ area \in Areas
    /\ role = FirstRole
    /\ cookie = [u \in Users |-> NoToken]
    /\ attempts = NoAttempt
    /\ \E t \in IF area = "logins" THEN 0..MaxClock ELSE {1} :
         minute = [from |-> t, checks |-> 0, logins |-> 0]
    /\ slot = [s \in Slots |-> Free]
    /\ clock = 0
    /\ creds = <<>>
    /\ sent = [n \in 1..MaxNonces |-> NotSent]
    /\ claimed = {}
    /\ served = [n \in 1..MaxNonces |-> 0]
    /\ held = IF area = "worker" THEN 1 ELSE 0
    /\ record = [k \in IdempotencyKeys |-> NoRecord]
    /\ locks = [l \in IdempotencyKeys \union {DeploymentRow, AuditChain} |-> "none"]
    /\ audits = 0 /\ refused = {}

LoginNext ==
    \E s \in Slots :
        createSessionToken(s) \/ InvalidCredentials(s) \/ \E u \in Users : Login(s, u)

RoleNext ==
    \/ \E u \in Users : SessionEnds(u)
    \/ \E s \in Slots :
         \/ RoleAnswered(s)
         \/ \E u \in Users : RoleRequest(s, u) \/ \E to \in Roles : updateUserRole(s, u, to)

MachineNext ==
    \/ Tick \/ createChannelWorkerCredential
    \/ \E c \in Ids : InstallToken(creds[c].token)
    \/ \E n \in 1..MaxNonces : signedMachinePost(n) \/ \E s \in Slots : authenticateMachine(s, n)
    \/ \E s \in Slots :
         \/ IssueServerCredential(s) \/ RevokeStarts(s) \/ RevokeLocks(s) \/ createServerCredential(s)
         \/ RotationFails(s) \/ claimMachineNonce(s) \/ ServeRequest(s)

TxStep(s) == area = "mutations" /\ (lockIdempotency(s) \/ createReleaseManifest(s) \/ insertSecretReference(s)
                                   \/ appendGlobalChange(s) \/ saveIdempotency(s))

MutationNext ==
    \E s \in Slots :
        \/ \E k \in Keys, h \in Hashes : registerReleaseManifest(s, k, h) \/ registerSecretReference(s, k, h)
        \/ TxStep(s) \/ Rollback(s)

Next ==
    \/ area = "logins" /\ (Tick \/ LoginNext)
    \/ area = "users" /\ (LoginNext \/ RoleNext)
    \/ area \in {"server", "worker"} /\ MachineNext
    \/ area = "mutations" /\ MutationNext

Spec == Init /\ [][Next]_vars /\ \A s \in Slots : SF_vars(TxStep(s))

-----------------------------------------------------------------------------
\* The types of the variables: a credential is created no later than now, a
\* nonce is claimed for a credential there is.
TypeOK ==
    /\ area \in Areas /\ role \in [Users -> Roles]
    /\ attempts.count \in 0..AttemptLimit /\ clock \in 0..MaxClock /\ audits \in 0..MaxAudits
    /\ \A c \in Ids : creds[c].created <= clock /\ creds[c].before \subseteq Ids
    /\ claimed \subseteq Ids \X (1..MaxNonces)
    /\ \A l \in DOMAIN locks : locks[l] \in Slots \union {"none"}

\* In any minute, fewer passwords are checked for an address than the limit times
\* two plus the number of logins that succeed in it, however many logins wait for
\* verifyPassword: the minutes of the code begin with an attempt, so that any
\* other minute meets two of them, and a login that succeeds forgets the count.
Throttled == minute.checks < AttemptLimit * (2 + minute.logins)

\* A user becomes platform administrator only by someone who was one when his
\* request began: a token that was issued before a demotion gives nothing.
AppointedByAdmin == \A s \in Slots : slot[s].stage = "appointed" => slot[s].asAdmin

\* A signed request that arrives twice, at two processes, after a restart or
\* between two rotations is served once.
ServedOnce == \A n \in 1..MaxNonces : served[n] <= 1

\* Once a rotation has committed, the credentials there were when it began are
\* revoked, also when another rotation ran beside it.
RotationRevokes == \A c \in Ids : creds[c].before \intersect Active = {}

\* A mutation is refused only when its key was used for another request; a
\* repetition of what was done, at whatever moment it comes, is not.
RefusedWasDifferent == \A r \in refused : record[r[1]] \notin {NoRecord, r[2]}

\* A transaction that was begun ends: the locks on keys and on the audit chain
\* never leave it waiting for good.
TransactionsEnd ==
    \A s \in Slots : area = "mutations" /\ slot[s].stage = "lock" ~> slot[s] = Free \/ audits = MaxAudits

\* Together: logins side by side check no more passwords than the minutes and the
\* successes allow, and tokens from before a change of role give nobody more than
\* he has.
UsersInv == TypeOK /\ Throttled /\ AppointedByAdmin

\* Together: a machine's request is served once and its old credentials not at
\* all, over rotations, restarts and repeated arrivals.
MachinesInv == ServedOnce /\ RotationRevokes
=============================================================================
