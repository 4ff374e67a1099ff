------------------------- MODULE PlatformAccessProofs -------------------------
(* Proofs about PlatformAccess for every set of users, keys and requests, any  *)
(* number of logins, requests or transactions at the same time, and every      *)
(* bound.                                                                      *)
EXTENDS PlatformAccess, TLAPS

-------------------------------------------------------------------------------
(* What a slot may hold, by area.                                             *)

UserSlots ==
    {Free} \union [stage : {"password"}, user : Users, role : Roles]
           \union [stage : {"role", "appointed"}, user : Users, role : Roles, asAdmin : BOOLEAN]

RotationSlots ==
    [stage : {"begun"}, created : Nat, before : SUBSET Nat]
    \union [stage : {"update", "insert"}, created : Nat, before : SUBSET Nat, rows : SUBSET Nat]

RequestSlots == [stage : {"claim", "serve"}, cred : Nat, nonce : 1..MaxNonces]

MachineSlots == {Free} \union RotationSlots \union RequestSlots

OpenTransactions ==
    [stage : {"lock", "insert", "append"}, key : IdempotencyKeys, hash : Hashes,
     row : {"none", "deployment"}]
SavingTransactions ==
    [stage : {"save"}, key : IdempotencyKeys, hash : Hashes, sequence : Nat]

MutationSlots == {Free} \union OpenTransactions \union SavingTransactions

-------------------------------------------------------------------------------
(* The inductive invariant, in three parts.                                   *)

\* Logins and roles.  A request about a role that reads as a platform
\* administrator's was made by one.
UserOK(x) ==
    /\ x \in UserSlots
    /\ x.stage \in {"role", "appointed"} /\ x.role = "platform_admin" => x.asAdmin
    /\ x.stage = "appointed" => x.role = "platform_admin"

\* The minute that is watched, until it is over: what was checked in it belongs to
\* the logins that succeeded in it, a limit for each, and to two entries of the
\* address, the one at hand and at most one that expired.  While an entry is at
\* hand that will expire in the minute, there was none before it.
Count(n) == AttemptLimit * n

MinuteInv ==
    LET count == attempts.count
        resetAt == attempts.resetAt IN
    /\ resetAt = 0 <=> count = 0
    /\ clock < minute.from => minute.checks = 0 /\ minute.logins = 0
    /\ clock < minute.from + Minute =>
         /\ minute.checks < Count(1 + minute.logins) + count
         /\ 0 < resetAt /\ resetAt < minute.from + Minute =>
              minute.checks < Count(minute.logins) + count

UserInv ==
    /\ area \in Areas
    /\ role \in [Users -> Roles]
    /\ attempts \in [count : 0..AttemptLimit, resetAt : Nat]
    /\ minute \in [from : Nat, checks : Nat, logins : Nat]
    /\ minute.checks < Count(2 + minute.logins)
    /\ area \in {"logins", "users"} =>
         MinuteInv /\ slot \in [Slots -> UserSlots] /\ \A s \in Slots : UserOK(slot[s])

\* Credentials: no two of them share a token, so a signature is that of one
\* credential only; a rotation has revoked what there was before it.
CredentialType == [token : Nat, created : Nat, active : BOOLEAN, before : SUBSET Nat]

CredentialInv ==
    /\ creds \in Seq(CredentialType)
    /\ \A c \in Ids : creds[c].created <= clock /\ creds[c].before \subseteq Ids
    /\ area = "server" => \A c \in Ids : creds[c].token = c
    /\ area # "server" => \A c \in Ids : c = 1 /\ creds[c].token = 1 /\ creds[c].active
    /\ RotationRevokes

\* A rotation under way still has to revoke what was active when it began.
RotationOK(x) ==
    /\ x.stage \in {"begun", "update", "insert"} =>
         area = "server" /\ x.created <= clock /\ x.before \subseteq Ids
    /\ x.stage \in {"update", "insert"} => x.before \intersect Active \subseteq x.rows

\* Requests: a nonce is claimed for the credential whose token signed it.
Signed(c, n) == c \in Ids /\ n \in 1..MaxNonces /\ sent[n] # NotSent /\ creds[c].token = sent[n].token

RequestOK(x) ==
    /\ x.stage \in {"claim", "serve"} => Signed(x.cred, x.nonce)
    /\ x.stage = "serve" => <<x.cred, x.nonce>> \in claimed /\ served[x.nonce] = 0

OneServes ==
    \A s, o \in Slots :
        /\ slot[s].stage = "serve" /\ slot[o].stage = "serve"
        /\ slot[s].nonce = slot[o].nonce
        => s = o

ClaimInv ==
    /\ sent \in [1..MaxNonces -> {NotSent} \union
                   [token : Nat, at : Nat, body : [token : Nat, at : Nat]]]
    /\ claimed \subseteq Ids \X (1..MaxNonces)
    /\ \A p \in claimed : Signed(p[1], p[2])
    /\ served \in [1..MaxNonces -> 0..1]
    /\ \A n \in 1..MaxNonces : served[n] = 1 => \E c \in Ids : <<c, n>> \in claimed

MachineSlotInv ==
    area \in {"server", "worker"} =>
        /\ slot \in [Slots -> MachineSlots]
        /\ \A s \in Slots : RotationOK(slot[s]) /\ RequestOK(slot[s])
        /\ OneServes

MachineInv == clock \in 0..MaxClock /\ held \in Nat /\ CredentialInv /\ ClaimInv /\ MachineSlotInv

\* Transactions: from the moment it has found no record, a transaction holds the
\* lock of its key and there is none; when it saves, it holds the audit chain
\* and its place is the next one.
LockNames == IdempotencyKeys \union {DeploymentRow, AuditChain}

TransactionOK(s) ==
    LET x == slot[s] IN
    /\ x.stage \in {"insert", "append", "save"} => locks[x.key] = s /\ record[x.key] = NoRecord
    /\ x.stage = "save" => locks[AuditChain] = s /\ x.sequence = audits + 1

MutationInv ==
    /\ record \in [IdempotencyKeys -> Hashes \union {NoRecord}]
    /\ locks \in [LockNames -> Slots \union {"none"}]
    /\ audits \in 0..MaxAudits
    /\ refused \subseteq IdempotencyKeys \X Hashes
    /\ RefusedWasDifferent
    /\ area = "mutations" => slot \in [Slots -> MutationSlots] /\ \A s \in Slots : TransactionOK(s)

IndInv == UserInv /\ MachineInv /\ MutationInv

-------------------------------------------------------------------------------
(* An area leaves the state of the others alone.                              *)

\* Steps of the other areas leave the machine credentials alone.
LEMMA MachinesLeft ==
    ASSUME MachineInv, area \notin {"server", "worker"}, area' = area, UNCHANGED machineVars
    PROVE  MachineInv'
  BY DEF MachineInv, machineVars, CredentialInv, ClaimInv, MachineSlotInv, RotationRevokes,
         Signed, Ids, Active

\* Steps of the other areas leave the transactions alone.
LEMMA MutationsLeft ==
    ASSUME MutationInv, area # "mutations", area' = area, UNCHANGED mutationVars
    PROVE  MutationInv'
  BY DEF MutationInv, mutationVars, RefusedWasDifferent

\* Steps of the other areas leave logins and roles alone.
LEMMA UsersLeft ==
    ASSUME UserInv, area \notin {"logins", "users"}, area' = area, UNCHANGED userVars
    PROVE  UserInv'
  BY DEF UserInv, userVars

-------------------------------------------------------------------------------
(* Logins and roles.                                                          *)

\* One more success allows a limit more.
LEMMA CountGrows ==
    /\ AttemptLimit \in Nat \ {0} /\ Minute \in Nat \ {0}
    /\ Count(0) = 0
    /\ \A n \in Nat : /\ Count(n) \in Nat
                      /\ Count(1 + n) = Count(n) + AttemptLimit
                      /\ Count(2 + n) = Count(1 + n) + AttemptLimit
<1>1. AttemptLimit \in Nat \ {0} /\ Minute \in Nat \ {0}
  BY AccessAssumption
<1>2. \A n \in Nat : /\ AttemptLimit * n \in Nat
                      /\ AttemptLimit * (1 + n) = AttemptLimit * n + AttemptLimit
                      /\ AttemptLimit * (2 + n) = AttemptLimit * (1 + n) + AttemptLimit
  BY <1>1
<1>3. QED  BY <1>1, <1>2 DEF Count

\* One request of a user moves on.
LEMMA UserSlotChanges ==
    ASSUME UserInv, area \in {"logins", "users"}, area' = area,
           role' \in [Users -> Roles], attempts' \in [count : 0..AttemptLimit, resetAt : Nat],
           minute' \in [from : Nat, checks : Nat, logins : Nat],
           minute'.checks < Count(2 + minute'.logins), MinuteInv',
           NEW s \in Slots, NEW x, UserOK(x), slot' = [slot EXCEPT ![s] = x]
    PROVE  UserInv'
<1>1. slot \in [Slots -> UserSlots] /\ \A o \in Slots : UserOK(slot[o])
  BY DEF UserInv
<1>2. \A o \in Slots : UserOK(slot'[o])
  BY <1>1
<1>3. slot' \in [Slots -> UserSlots]
  BY <1>1 DEF UserOK
<1>4. (\A o \in Slots : UserOK(slot[o]))'
  BY <1>2 DEF UserOK
<1>5. QED  BY <1>3, <1>4 DEF UserInv, Count

\* A request that leaves the throttle alone.
LEMMA UserSlotMoves ==
    ASSUME UserInv, area \in {"logins", "users"}, area' = area, clock' = clock,
           role' \in [Users -> Roles], attempts' = attempts, minute' = minute,
           NEW s \in Slots, NEW x, UserOK(x), slot' = [slot EXCEPT ![s] = x]
    PROVE  UserInv'
<1>1. MinuteInv'
  BY DEF UserInv, MinuteInv, Count
<1>2. QED  BY <1>1, UserSlotChanges DEF UserInv

\* A free slot has nothing to keep.
LEMMA FreeOK == UserOK(Free)
  BY DEF UserOK, UserSlots, Free

\* An attempt is counted before its password is checked.
LEMMA LoginStep ==
    ASSUME UserInv, area \in {"logins", "users"}, clock \in Nat,
           NEW s \in Slots, NEW u \in Users, Login(s, u)
    PROVE  UserInv'
<1> DEFINE x == [stage |-> "password", user |-> u, role |-> role[u]]
           fresh == attempts.resetAt <= clock
<1>1. UserOK(x)
  <2>1. role[u] \in Roles
    BY DEF UserInv
  <2>2. x \in [stage : {"password"}, user : Users, role : Roles]
    BY <2>1
  <2>3. QED  BY <2>2 DEF UserOK, UserSlots
<1>2. /\ slot' = [slot EXCEPT ![s] = x] /\ role' = role /\ area' = area /\ clock' = clock
      /\ Attempt.count < AttemptLimit /\ attempts' = [Attempt EXCEPT !.count = @ + 1]
      /\ minute' = IF InMinute THEN [minute EXCEPT !.checks = @ + 1] ELSE minute
  BY DEF Login, machineVars
<1> HIDE DEF x
<1>3. /\ attempts \in [count : 0..AttemptLimit, resetAt : Nat]
      /\ minute \in [from : Nat, checks : Nat, logins : Nat]
      /\ role \in [Users -> Roles] /\ MinuteInv
      /\ minute.checks < Count(2 + minute.logins)
      /\ AttemptLimit \in Nat \ {0} /\ Minute \in Nat \ {0}
  BY CountGrows DEF UserInv
<1>4. /\ Attempt \in [count : 0..AttemptLimit, resetAt : Nat]
      /\ Attempt.count = IF fresh THEN 0 ELSE attempts.count
      /\ Attempt.resetAt = IF fresh THEN clock + Minute ELSE attempts.resetAt
      /\ Attempt.resetAt > 0
  BY <1>3 DEF Attempt
<1>5. /\ attempts' \in [count : 0..AttemptLimit, resetAt : Nat]
      /\ attempts'.count = Attempt.count + 1 /\ attempts'.resetAt = Attempt.resetAt
  BY <1>2, <1>3, <1>4
<1>6. /\ minute' \in [from : Nat, checks : Nat, logins : Nat]
      /\ minute'.from = minute.from /\ minute'.logins = minute.logins
      /\ minute'.checks = IF InMinute THEN minute.checks + 1 ELSE minute.checks
  BY <1>2, <1>3
<1> DEFINE c == minute.checks
           k == minute.logins
<1>7. /\ c \in Nat /\ k \in Nat /\ Count(k) \in Nat
      /\ Count(1 + k) = Count(k) + AttemptLimit
      /\ Count(2 + k) = Count(1 + k) + AttemptLimit
  BY <1>3, CountGrows
<1>8. clock < minute.from + Minute =>
        /\ minute'.checks < Count(1 + k) + attempts'.count
        /\ attempts'.resetAt < minute.from + Minute => minute'.checks < Count(k) + attempts'.count
  <2> SUFFICES ASSUME clock < minute.from + Minute
               PROVE  /\ minute'.checks < Count(1 + k) + attempts'.count
                      /\ attempts'.resetAt < minute.from + Minute =>
                           minute'.checks < Count(k) + attempts'.count
    OBVIOUS
  <2>1. CASE clock < minute.from
    <3>1. c = 0 /\ k = 0 /\ minute'.checks = 0
      BY <1>3, <1>6, <2>1 DEF MinuteInv, InMinute
    <3>2. attempts'.count > 0
      BY <1>4, <1>5
    <3>3. QED  BY <1>3, <1>4, <1>5, <1>7, <3>1, <3>2
  <2>2. CASE ~(clock < minute.from)
    <3>1. minute'.checks = c + 1
      BY <1>3, <1>6, <2>2 DEF InMinute
    <3>2. CASE fresh
      <4>1. c < Count(1 + k)
        <5>1. CASE attempts.resetAt = 0
          BY <1>3, <1>7, <5>1 DEF MinuteInv
        <5>2. CASE attempts.resetAt > 0
          <6>1. attempts.resetAt < minute.from + Minute
            BY <1>3, <3>2
          <6>2. c < Count(k) + attempts.count
            BY <1>3, <5>2, <6>1 DEF MinuteInv
          <6>3. QED  BY <1>3, <1>7, <6>2
        <5>3. QED  BY <1>3, <5>1, <5>2
      <4>2. attempts'.count = 1 /\ attempts'.resetAt = clock + Minute
        BY <1>4, <1>5, <3>2
      <4>3. ~(attempts'.resetAt < minute.from + Minute)
        BY <1>3, <2>2, <4>2
      <4>4. QED  BY <1>3, <1>7, <3>1, <4>1, <4>2, <4>3
    <3>3. CASE ~fresh
      <4>1. attempts'.count = attempts.count + 1 /\ attempts'.resetAt = attempts.resetAt
        BY <1>4, <1>5, <3>3
      <4>2. attempts.resetAt > 0
        BY <1>3, <3>3
      <4>3. /\ c < Count(1 + k) + attempts.count
            /\ attempts.resetAt < minute.from + Minute => c < Count(k) + attempts.count
        BY <1>3, <4>2 DEF MinuteInv
      <4>4. QED  BY <1>3, <1>7, <3>1, <4>1, <4>3
    <3>4. QED  BY <3>2, <3>3
  <2>3. QED  BY <2>1, <2>2
<1>9. minute'.checks < Count(2 + k)
  <2>1. CASE InMinute
    <3>1. minute'.checks < Count(1 + k) + attempts'.count /\ attempts'.count <= AttemptLimit
      BY <1>5, <1>8, <2>1 DEF InMinute
    <3>2. QED  BY <1>3, <1>5, <1>6, <1>7, <3>1
  <2>2. CASE ~InMinute
    BY <1>3, <1>6, <2>2
  <2>3. QED  BY <2>1, <2>2
<1>10. MinuteInv'
  <2>1. clock < minute.from => minute'.checks = 0 /\ k = 0
    BY <1>3, <1>6 DEF MinuteInv, InMinute
  <2>2. attempts'.count > 0
    BY <1>4, <1>5
  <2>3. attempts'.resetAt > 0 /\ attempts'.resetAt \in Nat /\ attempts'.count \in Nat
    BY <1>3, <1>4, <1>5
  <2>4. QED  BY <1>2, <1>6, <1>8, <2>1, <2>2, <2>3 DEF MinuteInv, Count
<1>11. minute'.checks < Count(2 + minute'.logins)
  BY <1>6, <1>9
<1>12. QED  BY <1>1, <1>2, <1>3, <1>5, <1>6, <1>10, <1>11, UserSlotChanges

\* A login that succeeds allows a limit more.
LEMMA SuccessStep ==
    ASSUME UserInv, area \in {"logins", "users"}, clock \in Nat,
           NEW s \in Slots, createSessionToken(s)
    PROVE  UserInv'
<1>1. /\ slot' = [slot EXCEPT ![s] = Free] /\ role' = role /\ area' = area /\ clock' = clock
      /\ attempts' = [count |-> 0, resetAt |-> 0]
      /\ minute' = IF InMinute THEN [minute EXCEPT !.logins = @ + 1] ELSE minute
  BY DEF createSessionToken, machineVars, NoAttempt
<1>2. /\ attempts \in [count : 0..AttemptLimit, resetAt : Nat]
      /\ minute \in [from : Nat, checks : Nat, logins : Nat]
      /\ role \in [Users -> Roles] /\ MinuteInv
      /\ minute.checks < Count(2 + minute.logins)
      /\ AttemptLimit \in Nat \ {0} /\ Minute \in Nat \ {0}
  BY CountGrows DEF UserInv
<1>3. /\ attempts' \in [count : 0..AttemptLimit, resetAt : Nat]
      /\ attempts'.count = 0 /\ attempts'.resetAt = 0
  BY <1>1, <1>2
<1>4. /\ minute' \in [from : Nat, checks : Nat, logins : Nat]
      /\ minute'.from = minute.from /\ minute'.checks = minute.checks
      /\ minute'.logins = IF InMinute THEN 1 + minute.logins ELSE minute.logins
  BY <1>1, <1>2
<1> DEFINE c == minute.checks
           k == minute.logins
<1>5. /\ c \in Nat /\ k \in Nat /\ Count(k) \in Nat
      /\ Count(1 + k) = Count(k) + AttemptLimit
      /\ Count(2 + k) = Count(1 + k) + AttemptLimit
      /\ Count(1 + (1 + k)) = Count(1 + k) + AttemptLimit
      /\ Count(2 + (1 + k)) = Count(1 + (1 + k)) + AttemptLimit
  BY <1>2, CountGrows
<1>6. CASE InMinute
  <2>1. c < Count(1 + k) + attempts.count
    BY <1>2, <1>6 DEF MinuteInv, InMinute
  <2>2. c < Count(1 + (1 + k)) /\ c < Count(2 + (1 + k))
    BY <1>2, <1>5, <2>1
  <2>3. MinuteInv'
    BY <1>1, <1>2, <1>3, <1>4, <1>5, <1>6, <2>2 DEF MinuteInv, InMinute, Count
  <2>4. minute'.checks < Count(2 + minute'.logins)
    BY <1>4, <1>6, <2>2
  <2>5. QED  BY <1>1, <1>2, <1>3, <1>4, <2>3, <2>4, FreeOK, UserSlotChanges
<1>7. CASE ~InMinute
  <2>1. minute' = minute
    BY <1>1, <1>7
  <2>2. clock < minute.from + Minute => c = 0
    BY <1>2, <1>7 DEF MinuteInv, InMinute
  <2>3. MinuteInv'
    BY <1>1, <1>2, <1>3, <1>5, <2>1, <2>2 DEF MinuteInv, Count
  <2>4. QED  BY <1>1, <1>2, <1>3, <2>1, <2>3, FreeOK, UserSlotChanges
<1>8. QED  BY <1>6, <1>7

\* Time passes.
LEMMA MinutePasses ==
    ASSUME UserInv, clock \in Nat, Tick
    PROVE  UserInv'
<1>1. /\ clock' = clock + 1 /\ area' = area /\ slot' = slot /\ role' = role
      /\ attempts' = attempts /\ minute' = minute
  BY DEF Tick, userVars
<1>2. minute \in [from : Nat, checks : Nat, logins : Nat] /\ Minute \in Nat
  BY CountGrows DEF UserInv
<1>3. MinuteInv => MinuteInv'
  BY <1>1, <1>2 DEF MinuteInv, Count
<1>4. QED  BY <1>1, <1>3 DEF UserInv, UserOK, Count

\* Every step of a login keeps the invariant.
LEMMA LoginsStep ==
    ASSUME UserInv, area \in {"logins", "users"}, clock \in Nat, LoginNext
    PROVE  UserInv' /\ area' = area /\ UNCHANGED <<machineVars, mutationVars>>
<1>1. ASSUME NEW s \in Slots, createSessionToken(s)
      PROVE  UserInv' /\ area' = area /\ UNCHANGED <<machineVars, mutationVars>>
  BY <1>1, SuccessStep DEF createSessionToken
<1>2. ASSUME NEW s \in Slots, InvalidCredentials(s)
      PROVE  UserInv' /\ area' = area /\ UNCHANGED <<machineVars, mutationVars>>
  <2>1. /\ slot' = [slot EXCEPT ![s] = Free] /\ area' = area /\ clock' = clock
        /\ role' = role /\ attempts' = attempts /\ minute' = minute
        /\ UNCHANGED <<machineVars, mutationVars>>
    BY <1>2 DEF InvalidCredentials, userVars, machineVars
  <2>2. role' \in [Users -> Roles]
    BY <2>1 DEF UserInv
  <2>3. QED  BY <2>1, <2>2, FreeOK, UserSlotMoves
<1>3. ASSUME NEW s \in Slots, NEW u \in Users, Login(s, u)
      PROVE  UserInv' /\ area' = area /\ UNCHANGED <<machineVars, mutationVars>>
  BY <1>3, LoginStep DEF Login
<1>4. QED  BY <1>1, <1>2, <1>3 DEF LoginNext

\* Every step of a change of roles keeps the invariant.
LEMMA RolesStep ==
    ASSUME UserInv, area = "users", RoleNext
    PROVE  UserInv' /\ area' = area /\ UNCHANGED <<machineVars, mutationVars>>
<1>0. /\ slot \in [Slots -> UserSlots] /\ \A s \in Slots : UserOK(slot[s])
      /\ role \in [Users -> Roles]
  BY DEF UserInv
<1>1. ASSUME NEW u \in Users, SessionEnds(u)
      PROVE  UserInv' /\ area' = area /\ UNCHANGED <<machineVars, mutationVars>>
  BY <1>1 DEF SessionEnds, UserInv, MinuteInv, Count, UserOK, machineVars
<1>2. ASSUME NEW s \in Slots, RoleAnswered(s)
      PROVE  UserInv' /\ area' = area /\ UNCHANGED <<machineVars, mutationVars>>
  <2>1. /\ slot' = [slot EXCEPT ![s] = Free] /\ area' = area /\ clock' = clock
        /\ role' = role /\ attempts' = attempts /\ minute' = minute
        /\ UNCHANGED <<machineVars, mutationVars>>
    BY <1>2 DEF RoleAnswered, userVars, machineVars
  <2>2. QED  BY <1>0, <2>1, FreeOK, UserSlotMoves
<1>3. ASSUME NEW s \in Slots, NEW u \in Users, RoleRequest(s, u)
      PROVE  UserInv' /\ area' = area /\ UNCHANGED <<machineVars, mutationVars>>
  <2> DEFINE x == [stage |-> "role", user |-> u, role |-> PrincipalRole(u),
                   asAdmin |-> role[u] = "platform_admin"]
  <2>1. UserOK(x)
    <3>1. role[u] \in Roles /\ PrincipalRole(u) = role[u]
      BY <1>0 DEF PrincipalRole
    <3>2. x \in [stage : {"role", "appointed"}, user : Users, role : Roles, asAdmin : BOOLEAN]
      BY <3>1
    <3>3. QED  BY <3>1, <3>2 DEF UserOK, UserSlots
  <2>2. /\ slot' = [slot EXCEPT ![s] = x] /\ role' = role /\ area' = area
        /\ attempts' = attempts /\ minute' = minute /\ clock' = clock
        /\ UNCHANGED <<machineVars, mutationVars>>
    BY <1>3 DEF RoleRequest, userVars, machineVars
  <2> HIDE DEF x
  <2>3. QED  BY <1>0, <2>1, <2>2, UserSlotMoves
<1>4. ASSUME NEW s \in Slots, NEW u \in Users, NEW to \in Roles, updateUserRole(s, u, to)
      PROVE  UserInv' /\ area' = area /\ UNCHANGED <<machineVars, mutationVars>>
  <2> DEFINE y == [slot[s] EXCEPT !.stage = "appointed"]
             x == IF to = "platform_admin" THEN y ELSE Free
  <2>1. slot[s] \in [stage : {"role", "appointed"}, user : Users, role : Roles, asAdmin : BOOLEAN]
        /\ slot[s].stage = "role"
    BY <1>0, <1>4 DEF updateUserRole, UserSlots, Free
  <2>2. ASSUME to = "platform_admin"
        PROVE  UserOK(y)
    <3>1. slot[s].role = "platform_admin"
      BY <1>4, <2>2 DEF updateUserRole, MayChange
    <3>2. slot[s].asAdmin
      BY <1>0, <2>1, <3>1 DEF UserOK
    <3>3. /\ y \in [stage : {"role", "appointed"}, user : Users, role : Roles, asAdmin : BOOLEAN]
          /\ y.role = slot[s].role /\ y.asAdmin = slot[s].asAdmin /\ y.stage = "appointed"
      BY <2>1
    <3> HIDE DEF y
    <3>4. QED  BY <3>1, <3>2, <3>3 DEF UserOK, UserSlots
  <2>3. /\ slot' = [slot EXCEPT ![s] = x] /\ role' = [role EXCEPT ![u] = to] /\ area' = area
        /\ attempts' = attempts /\ minute' = minute /\ clock' = clock
        /\ UNCHANGED <<machineVars, mutationVars>>
    BY <1>4 DEF updateUserRole, machineVars
  <2> HIDE DEF y
  <2>4. UserOK(x)
    BY <2>2, FreeOK
  <2> HIDE DEF x
  <2>5. QED  BY <1>0, <2>3, <2>4, UserSlotMoves
<1>5. QED  BY <1>1, <1>2, <1>3, <1>4 DEF RoleNext
-------------------------------------------------------------------------------
(* Credentials and requests of machines.                                      *)

\* A signature is that of one credential.
LEMMA OneSigner ==
    ASSUME MachineInv, NEW c, NEW d, NEW n, Signed(c, n), Signed(d, n)
    PROVE  c = d
  BY DEF MachineInv, CredentialInv, Signed

\* What MachineInv says of one slot.
LEMMA MachineFacts ==
    ASSUME MachineInv, area \in {"server", "worker"}, NEW s \in Slots
    PROVE  /\ slot \in [Slots -> MachineSlots] /\ slot[s] \in MachineSlots
           /\ RotationOK(slot[s]) /\ RequestOK(slot[s]) /\ OneServes
           /\ creds \in Seq(CredentialType) /\ Len(creds) \in Nat /\ Ids = 1..Len(creds)
           /\ clock \in Nat /\ MaxClock \in Nat
           /\ slot[s].stage = "begun" =>
                slot[s] \in [stage : {"begun"}, created : Nat, before : SUBSET Nat]
           /\ slot[s].stage \in {"update", "insert"} =>
                slot[s] \in [stage : {"update", "insert"}, created : Nat, before : SUBSET Nat,
                             rows : SUBSET Nat]
           /\ slot[s].stage \in {"claim", "serve"} => slot[s] \in RequestSlots
<1>1. /\ slot \in [Slots -> MachineSlots] /\ RotationOK(slot[s]) /\ RequestOK(slot[s])
      /\ OneServes /\ clock \in Nat
  BY AccessAssumption DEF MachineInv, MachineSlotInv
<1>2. creds \in Seq(CredentialType) /\ Len(creds) \in Nat /\ MaxClock \in Nat
  BY AccessAssumption DEF MachineInv, CredentialInv
<1>3. slot[s] \in MachineSlots
  BY <1>1
<1>4. QED
  BY <1>1, <1>2, <1>3 DEF MachineSlots, RotationSlots, RequestSlots, Free, Ids

\* A step that only moves a rotation.
LEMMA RotationMoves ==
    ASSUME MachineInv, area \in {"server", "worker"}, area' = area,
           UNCHANGED machineVars, NEW s \in Slots, NEW x \in MachineSlots,
           RotationOK(x), x.stage \notin {"claim", "serve"},
           slot' = [slot EXCEPT ![s] = x]
    PROVE  MachineInv'
<1>1. slot \in [Slots -> MachineSlots] /\ OneServes
      /\ \A o \in Slots : RotationOK(slot[o]) /\ RequestOK(slot[o])
  BY DEF MachineInv, MachineSlotInv
<1>2. /\ clock' = clock /\ creds' = creds /\ sent' = sent /\ claimed' = claimed
      /\ served' = served /\ held' = held
  BY DEF machineVars
<1>3. clock' \in 0..MaxClock /\ held' \in Nat /\ CredentialInv' /\ ClaimInv'
  BY <1>2 DEF MachineInv, CredentialInv, ClaimInv, RotationRevokes, Signed, Ids, Active
<1>4. ASSUME NEW o \in Slots
      PROVE  RotationOK(slot[o])' /\ RequestOK(slot[o])'
  <2>1. RotationOK(slot'[o]) /\ RequestOK(slot'[o])
    BY <1>1 DEF RequestOK
  <2>2. QED  BY <1>2, <2>1 DEF RotationOK, RequestOK, Signed, Ids, Active
<1>5. slot' \in [Slots -> MachineSlots]
  BY <1>1
<1>6. OneServes'
  BY <1>1 DEF OneServes
<1>7. MachineSlotInv'
  BY <1>4, <1>5, <1>6 DEF MachineSlotInv
<1>8. QED  BY <1>3, <1>7 DEF MachineInv

\* A free slot.
LEMMA FreeMachine == Free \in MachineSlots /\ RotationOK(Free) /\ Free.stage = "free"
  BY DEF Free, MachineSlots, RotationOK

\* A rotation begins with the credentials there are.
LEMMA IssueStep ==
    ASSUME MachineInv, area \in {"server", "worker"}, NEW s \in Slots, IssueServerCredential(s)
    PROVE  MachineInv'
<1> DEFINE x == [stage |-> "begun", created |-> clock, before |-> Ids]
<1>1. Ids \in SUBSET Nat
  BY MachineFacts
<1>2. x \in [stage : {"begun"}, created : Nat, before : SUBSET Nat]
  BY <1>1, MachineFacts
<1>3. x.stage = "begun" /\ x.created = clock /\ x.before = Ids
  OBVIOUS
<1>4. /\ slot' = [slot EXCEPT ![s] = x] /\ area' = area /\ UNCHANGED machineVars
      /\ area = "server"
  BY DEF IssueServerCredential
<1> HIDE DEF x
<1>5. x \in MachineSlots
  BY <1>2 DEF MachineSlots, RotationSlots
<1>6. RotationOK(x)
  BY <1>3, <1>4, MachineFacts DEF RotationOK
<1>7. x.stage \notin {"claim", "serve"}
  BY <1>3
<1>8. QED  BY <1>4, <1>5, <1>6, <1>7, RotationMoves

\* The UPDATE that revokes has found the active rows.
LEMMA RevokeStartsStep ==
    ASSUME MachineInv, area \in {"server", "worker"}, NEW s \in Slots, RevokeStarts(s)
    PROVE  MachineInv'
<1> DEFINE x == [stage |-> "update", created |-> slot[s].created, before |-> slot[s].before,
                 rows |-> SeenActive(s)]
<1>1. /\ slot[s] \in [stage : {"begun"}, created : Nat, before : SUBSET Nat]
      /\ slot[s].stage = "begun" /\ RotationOK(slot[s])
  BY MachineFacts DEF RevokeStarts
<1>2. SeenActive(s) \in SUBSET Nat
  BY MachineFacts DEF SeenActive, Active
<1>3. x \in [stage : {"update", "insert"}, created : Nat, before : SUBSET Nat, rows : SUBSET Nat]
  BY <1>1, <1>2
<1>4. x.stage = "update" /\ x.created = slot[s].created /\ x.before = slot[s].before /\ x.rows = Active
  BY DEF SeenActive
<1>5. slot' = [slot EXCEPT ![s] = x] /\ area' = area /\ UNCHANGED machineVars
  BY DEF RevokeStarts
<1> HIDE DEF x
<1>6. x \in MachineSlots
  BY <1>3 DEF MachineSlots, RotationSlots
<1>7. RotationOK(x)
  BY <1>1, <1>4 DEF RotationOK
<1>8. x.stage \notin {"claim", "serve"}
  BY <1>4
<1>9. QED  BY <1>5, <1>6, <1>7, <1>8, RotationMoves

\* After waiting for the row locks it revokes those still active.
LEMMA RevokeLocksStep ==
    ASSUME MachineInv, area \in {"server", "worker"}, NEW s \in Slots, RevokeLocks(s)
    PROVE  MachineInv'
<1> DEFINE x == [slot[s] EXCEPT !.stage = "insert", !.rows = @ \intersect Active]
<1>1. /\ slot[s] \in [stage : {"update", "insert"}, created : Nat, before : SUBSET Nat,
                      rows : SUBSET Nat]
      /\ slot[s].stage = "update" /\ RotationOK(slot[s]) /\ slot \in [Slots -> MachineSlots]
  BY MachineFacts DEF RevokeLocks
<1>2. x \in [stage : {"update", "insert"}, created : Nat, before : SUBSET Nat, rows : SUBSET Nat]
  BY <1>1
<1>3. /\ x.stage = "insert" /\ x.created = slot[s].created /\ x.before = slot[s].before
      /\ x.rows = slot[s].rows \intersect Active
  BY <1>1
<1>4. slot' = [slot EXCEPT ![s] = x] /\ area' = area /\ UNCHANGED machineVars
  BY <1>1 DEF RevokeLocks
<1> HIDE DEF x
<1>5. x \in MachineSlots
  BY <1>2 DEF MachineSlots, RotationSlots
<1>6. RotationOK(x)
  BY <1>1, <1>3 DEF RotationOK
<1>7. x.stage \notin {"claim", "serve"}
  BY <1>3
<1>8. QED  BY <1>4, <1>5, <1>6, <1>7, RotationMoves

\* A rotation that is rolled back leaves nothing.
LEMMA RotationFailsStep ==
    ASSUME MachineInv, area \in {"server", "worker"}, NEW s \in Slots, RotationFails(s)
    PROVE  MachineInv'
<1>1. slot' = [slot EXCEPT ![s] = Free] /\ area' = area /\ UNCHANGED machineVars
  BY DEF RotationFails
<1>2. QED  BY <1>1, FreeMachine, RotationMoves

\* Revoking and inserting: the credentials there were keep their tokens and do
\* not become active again, and the new one is the only one that is added.
LEMMA CredentialAdded ==
    ASSUME CredentialInv, clock \in Nat, NEW ids \in SUBSET Nat, NEW x \in CredentialType,
           creds' = Append(Revoked(ids), x)
    PROVE  /\ creds' \in Seq(CredentialType) /\ Len(creds) \in Nat
           /\ Len(creds') = Len(creds) + 1 /\ Ids \subseteq Ids'
           /\ Ids' = Ids \union {Len(creds) + 1} /\ Len(creds) + 1 \notin Ids
           /\ creds'[Len(creds) + 1] = x
           /\ \A c \in Ids : /\ creds'[c].token = creds[c].token
                             /\ creds'[c].created = creds[c].created
                             /\ creds'[c].before = creds[c].before
           /\ Active' \subseteq (Active \ ids) \union {Len(creds) + 1}
<1> DEFINE R == Revoked(ids)
           n == Len(creds)
<1>1. creds \in Seq(CredentialType) /\ n \in Nat /\ Ids = 1..n
  BY DEF CredentialInv, Ids
<1>2. ASSUME NEW c \in Ids
      PROVE  /\ R[c] \in CredentialType /\ R[c].token = creds[c].token
             /\ R[c].created = creds[c].created /\ R[c].before = creds[c].before
             /\ R[c].active => creds[c].active /\ c \notin ids
  <2>1. creds[c] \in CredentialType
    BY <1>1
  <2>2. R[c] = IF c \in ids THEN [creds[c] EXCEPT !.active = FALSE] ELSE creds[c]
    BY DEF Revoked
  <2> HIDE DEF R
  <2>3. CASE c \in ids
    BY <2>1, <2>2, <2>3 DEF CredentialType
  <2>4. CASE c \notin ids
    BY <2>1, <2>2, <2>4
  <2>5. QED  BY <2>3, <2>4
<1>3. DOMAIN R = 1..n
  BY <1>1 DEF Revoked
<1>3a. R = [c \in 1..n |-> R[c]]
  BY <1>1 DEF Revoked
<1> HIDE DEF R
<1>4. R \in Seq(CredentialType) /\ Len(R) = n
  BY <1>1, <1>2, <1>3, <1>3a
<1>5. /\ creds' \in Seq(CredentialType) /\ Len(creds') = n + 1 /\ creds'[n + 1] = x
      /\ \A c \in 1..n : creds'[c] = R[c]
  BY <1>1, <1>4 DEF R
<1>6. Ids' = 1..(n + 1) /\ Ids' = Ids \union {n + 1} /\ n + 1 \notin Ids
  BY <1>1, <1>5 DEF Ids
<1>7. ASSUME NEW c \in Active'
      PROVE  c \in (Active \ ids) \union {n + 1}
  <2>1. c \in Ids' /\ creds'[c].active
    BY DEF Active
  <2>2. CASE c \in Ids
    BY <1>1, <1>2, <1>5, <2>1, <2>2 DEF Active
  <2>3. CASE c \notin Ids
    BY <1>6, <2>1, <2>3
  <2>4. QED  BY <2>2, <2>3
<1>8. QED  BY <1>1, <1>2, <1>5, <1>6, <1>7

\* A credential that is added on top of one that is sound.
LEMMA CredentialStep ==
    ASSUME MachineInv, area \in {"server", "worker"}, area' = area,
           NEW ids \in SUBSET Nat, NEW x \in CredentialType,
           creds' = Append(Revoked(ids), x), UNCHANGED <<clock, sent, claimed, served, held>>,
           x.created <= clock, x.before \subseteq Ids, x.before \intersect Active \subseteq ids,
           area = "server" => x.token = Len(creds) + 1,
           area = "worker" => x.token = 1 /\ x.active /\ Ids = {},
           slot' \in [Slots -> MachineSlots],
           \A s \in Slots : slot'[s] = slot[s] \/ slot'[s] = Free
    PROVE  MachineInv'
<1>1. CredentialInv /\ ClaimInv /\ MachineSlotInv /\ clock \in Nat /\ clock' = clock
  BY AccessAssumption DEF MachineInv
<1> DEFINE n == Len(creds)
<1>2. /\ creds' \in Seq(CredentialType) /\ n \in Nat
      /\ Len(creds') = n + 1 /\ Ids \subseteq Ids'
      /\ Ids' = Ids \union {n + 1} /\ n + 1 \notin Ids
      /\ creds'[n + 1] = x
      /\ \A c \in Ids : /\ creds'[c].token = creds[c].token
                        /\ creds'[c].created = creds[c].created
                        /\ creds'[c].before = creds[c].before
      /\ Active' \subseteq (Active \ ids) \union {n + 1}
  BY <1>1, CredentialAdded
<1> HIDE DEF n
<1>3. RotationRevokes'
  <2>1. ASSUME NEW c \in Ids'
        PROVE  creds'[c].before \intersect Active' = {}
    <3>1. CASE c \in Ids
      <4>1. creds[c].before \intersect Active = {} /\ creds[c].before \subseteq Ids
        BY <1>1, <3>1 DEF CredentialInv, RotationRevokes
      <4>2. creds'[c].before = creds[c].before
        BY <1>2, <3>1
      <4>3. QED  BY <1>2, <4>1, <4>2
    <3>2. CASE c = n + 1
      BY <1>2, <3>2
    <3>3. QED  BY <1>2, <3>1, <3>2
  <2>2. QED  BY <2>1 DEF RotationRevokes
<1>4. ASSUME NEW c \in Ids'
      PROVE  creds'[c].created <= clock' /\ creds'[c].before \subseteq Ids'
  <2>1. CASE c \in Ids
    <3>1. creds[c].created <= clock /\ creds[c].before \subseteq Ids
      BY <1>1, <2>1 DEF CredentialInv
    <3>2. creds'[c].before = creds[c].before /\ creds'[c].created = creds[c].created
      BY <1>2, <2>1
    <3>3. QED  BY <1>1, <1>2, <3>1, <3>2
  <2>2. CASE c = n + 1
    BY <1>1, <1>2, <2>2
  <2>3. QED  BY <1>2, <2>1, <2>2
<1>5. area' = "server" => \A c \in Ids' : creds'[c].token = c
  BY <1>1, <1>2 DEF CredentialInv, n
<1>6. area' # "server" => \A c \in Ids' : c = 1 /\ creds'[c].token = 1 /\ creds'[c].active
  <2>1. CASE area = "worker"
    <3>1. Ids = {} /\ n = 0
      BY <1>2, <2>1 DEF n, Ids
    <3>2. QED  BY <1>2, <2>1, <3>1
  <2>2. QED  BY <2>1
<1>7. CredentialInv'
  BY <1>2, <1>3, <1>4, <1>5, <1>6 DEF CredentialInv
<1>8. \A c, m : Signed(c, m) => Signed(c, m)'
  BY <1>2 DEF Signed
<1>9. ClaimInv'
  <2>1. claimed' \subseteq Ids' \X (1..MaxNonces)
    BY <1>1, <1>2 DEF ClaimInv
  <2>2. \A p \in claimed' : Signed(p[1], p[2])'
    BY <1>1, <1>8 DEF ClaimInv
  <2>3. \A m \in 1..MaxNonces : served'[m] = 1 => \E c \in Ids' : <<c, m>> \in claimed'
    BY <1>1, <1>2 DEF ClaimInv
  <2>4. QED  BY <1>1, <2>1, <2>2, <2>3 DEF ClaimInv
<1>10. ASSUME NEW s \in Slots
       PROVE  RotationOK(slot[s])' /\ RequestOK(slot[s])'
  <2>1. CASE slot'[s] = Free
    BY <2>1 DEF Free, RotationOK, RequestOK
  <2>2. CASE slot'[s] = slot[s]
    <3>1. RotationOK(slot[s]) /\ RequestOK(slot[s])
      BY <1>1 DEF MachineSlotInv
    <3>2. RotationOK(slot[s])'
      BY <1>1, <1>2, <2>2, <3>1 DEF RotationOK
    <3>3. RequestOK(slot[s])'
      BY <1>8, <2>2, <3>1 DEF RequestOK
    <3>4. QED  BY <3>2, <3>3
  <2>3. QED  BY <2>1, <2>2
<1>11. OneServes'
  BY <1>1 DEF MachineSlotInv, OneServes, Free
<1>12. MachineSlotInv'
  BY <1>10, <1>11 DEF MachineSlotInv
<1>13. QED  BY <1>1, <1>7, <1>9, <1>12 DEF MachineInv

\* A rotation that commits has revoked the active credentials it found.
LEMMA ServerCredentialStep ==
    ASSUME MachineInv, area \in {"server", "worker"}, NEW s \in Slots, createServerCredential(s)
    PROVE  MachineInv'
<1> DEFINE x == NewCredential(Len(creds) + 1, slot[s].created, slot[s].before)
           ids == slot[s].rows
<1>1. /\ slot[s] \in [stage : {"update", "insert"}, created : Nat, before : SUBSET Nat,
                      rows : SUBSET Nat]
      /\ slot[s].stage = "insert" /\ RotationOK(slot[s]) /\ slot \in [Slots -> MachineSlots]
      /\ Len(creds) + 1 \in Nat
  BY MachineFacts DEF createServerCredential
<1>2. /\ area = "server" /\ slot[s].created <= clock /\ slot[s].before \subseteq Ids
      /\ slot[s].before \intersect Active \subseteq ids /\ ids \in SUBSET Nat
  BY <1>1 DEF RotationOK
<1>3. /\ x \in CredentialType /\ x.token = Len(creds) + 1 /\ x.created = slot[s].created
      /\ x.before = slot[s].before /\ x.active
  BY <1>1 DEF NewCredential, CredentialType
<1>4. /\ creds' = Append(Revoked(ids), x) /\ area' = area
      /\ UNCHANGED <<clock, sent, claimed, served, held>>
      /\ slot' = [slot EXCEPT ![s] = Free]
  BY DEF createServerCredential
<1> HIDE DEF x, ids
<1>5. /\ slot' \in [Slots -> MachineSlots]
      /\ \A o \in Slots : slot'[o] = slot[o] \/ slot'[o] = Free
  BY <1>1, <1>4, FreeMachine
<1>6. QED  BY <1>2, <1>3, <1>4, <1>5, CredentialStep

\* The worker's first credential.
LEMMA WorkerCredentialStep ==
    ASSUME MachineInv, area \in {"server", "worker"}, createChannelWorkerCredential
    PROVE  MachineInv'
<1> DEFINE x == NewCredential(1, clock, Ids)
<1>1. /\ area = "worker" /\ ~SameToken(1) /\ creds' = Append(Revoked(Active), x) /\ area' = area
      /\ UNCHANGED <<clock, sent, claimed, served, held>> /\ slot' = slot
  BY DEF createChannelWorkerCredential
<1>2. Ids = {}
  BY <1>1 DEF MachineInv, CredentialInv, SameToken, Active
<1>3. clock \in Nat /\ Active \in SUBSET Nat /\ Ids \in SUBSET Nat
  BY <1>2 DEF MachineInv, Active
<1>4. x \in CredentialType /\ x.token = 1 /\ x.created = clock /\ x.before = Ids /\ x.active
  BY <1>3 DEF NewCredential, CredentialType
<1> HIDE DEF x
<1>5. slot' \in [Slots -> MachineSlots] /\ \A o \in Slots : slot'[o] = slot[o]
  BY <1>1 DEF MachineInv, MachineSlotInv
<1>6. QED  BY <1>1, <1>2, <1>3, <1>4, <1>5, CredentialStep

\* Time passes, or the machine is given a token.
LEMMA TickStep ==
    ASSUME MachineInv, Tick
    PROVE  MachineInv'
<1>1. /\ clock \in 0..MaxClock /\ clock < MaxClock /\ clock' = clock + 1 /\ MaxClock \in Nat
      /\ creds' = creds /\ sent' = sent /\ claimed' = claimed /\ served' = served
      /\ held' = held /\ slot' = slot /\ area' = area
      /\ creds \in Seq(CredentialType)
  BY AccessAssumption DEF MachineInv, CredentialInv, Tick
<1>2. clock' \in 0..MaxClock /\ \A k \in Nat : k <= clock => k <= clock'
  BY <1>1
<1>3. CredentialInv'
  <2>1. ASSUME NEW c \in Ids
        PROVE  creds[c].created <= clock'
    <3>1. creds[c] \in CredentialType
      BY <1>1 DEF Ids
    <3>2. QED  BY <1>2, <3>1 DEF MachineInv, CredentialInv, CredentialType
  <2>2. QED  BY <1>1, <2>1 DEF MachineInv, CredentialInv, RotationRevokes, Ids, Active
<1>4. ClaimInv'
  BY <1>1 DEF MachineInv, ClaimInv, Signed, Ids
<1>5. MachineSlotInv'
  <2> SUFFICES ASSUME area \in {"server", "worker"}
               PROVE  /\ slot' \in [Slots -> MachineSlots] /\ OneServes'
                      /\ \A s \in Slots : RotationOK(slot[s])' /\ RequestOK(slot[s])'
    BY <1>1 DEF MachineSlotInv
  <2>1. slot' \in [Slots -> MachineSlots] /\ OneServes'
    BY <1>1 DEF MachineInv, MachineSlotInv, OneServes
  <2>2. ASSUME NEW s \in Slots
        PROVE  RotationOK(slot[s])' /\ RequestOK(slot[s])'
    <3>1. RotationOK(slot[s]) /\ RequestOK(slot[s])
      BY DEF MachineInv, MachineSlotInv
    <3>2. slot[s].stage \in {"begun", "update", "insert"} => slot[s].created \in Nat
      BY MachineFacts
    <3>3. slot[s].stage \in {"begun", "update", "insert"} => slot[s].created <= clock'
      BY <1>2, <3>1, <3>2 DEF RotationOK
    <3>4. RotationOK(slot[s])'
      BY <1>1, <3>1, <3>3 DEF RotationOK, Ids, Active
    <3>5. RequestOK(slot[s])'
      BY <1>1, <3>1 DEF RequestOK, Signed, Ids
    <3>6. QED  BY <3>4, <3>5
  <2>3. QED  BY <2>1, <2>2
<1>6. QED  BY <1>1, <1>2, <1>3, <1>4, <1>5 DEF MachineInv

\* A token is installed that some credential has.
LEMMA InstallStep ==
    ASSUME MachineInv, NEW c \in Ids, InstallToken(creds[c].token)
    PROVE  MachineInv'
<1>1. /\ clock' = clock /\ creds' = creds /\ sent' = sent /\ claimed' = claimed
      /\ served' = served /\ slot' = slot /\ area' = area /\ held' = creds[c].token
  BY DEF InstallToken
<1>2. creds[c] \in CredentialType
  BY DEF MachineInv, CredentialInv, Ids
<1>3. held' \in Nat
  BY <1>1, <1>2 DEF CredentialType
<1>4. CredentialInv' /\ ClaimInv' /\ MachineSlotInv'
  BY <1>1 DEF MachineInv, CredentialInv, ClaimInv, MachineSlotInv, RotationRevokes, RotationOK,
              RequestOK, OneServes, Signed, Ids, Active
<1>5. QED  BY <1>1, <1>3, <1>4 DEF MachineInv

\* A request that is sent was not sent before: no claim is about it.
LEMMA PostedStep ==
    ASSUME MachineInv, NEW n \in 1..MaxNonces, signedMachinePost(n)
    PROVE  MachineInv'
<1> DEFINE x == signMachineRequest(held, signControlMutation(held))
<1>1. /\ clock' = clock /\ creds' = creds /\ held' = held /\ claimed' = claimed
      /\ served' = served /\ slot' = slot /\ area' = area
      /\ sent' = [sent EXCEPT ![n] = x] /\ sent[n] = NotSent
  BY DEF signedMachinePost
<1>2. clock \in Nat /\ held \in Nat
  BY AccessAssumption DEF MachineInv
<1>3. x \in [token : Nat, at : Nat, body : [token : Nat, at : Nat]]
  BY <1>2 DEF signMachineRequest, signControlMutation
<1> HIDE DEF x
<1>4. sent' \in [1..MaxNonces -> {NotSent} \union
                   [token : Nat, at : Nat, body : [token : Nat, at : Nat]]]
  BY <1>1, <1>3 DEF MachineInv, ClaimInv
<1>5. \A c, m : Signed(c, m) => Signed(c, m)'
  BY <1>1 DEF MachineInv, ClaimInv, Signed, Ids
<1>6. ClaimInv'
  <2>1. \A p \in claimed' : Signed(p[1], p[2])'
    BY <1>1, <1>5 DEF MachineInv, ClaimInv
  <2>2. /\ claimed' \subseteq Ids' \X (1..MaxNonces) /\ served' \in [1..MaxNonces -> 0..1]
        /\ \A m \in 1..MaxNonces : served'[m] = 1 => \E c \in Ids' : <<c, m>> \in claimed'
    BY <1>1 DEF MachineInv, ClaimInv, Ids
  <2>3. QED  BY <1>4, <2>1, <2>2 DEF ClaimInv
<1>7. CredentialInv'
  BY <1>1 DEF MachineInv, CredentialInv, RotationRevokes, Ids, Active
<1>8. MachineSlotInv'
  <2> SUFFICES ASSUME area \in {"server", "worker"}
               PROVE  /\ slot' \in [Slots -> MachineSlots] /\ OneServes'
                      /\ \A s \in Slots : RotationOK(slot[s])' /\ RequestOK(slot[s])'
    BY <1>1 DEF MachineSlotInv
  <2>1. slot' \in [Slots -> MachineSlots] /\ OneServes'
    BY <1>1 DEF MachineInv, MachineSlotInv, OneServes
  <2>2. ASSUME NEW s \in Slots
        PROVE  RotationOK(slot[s])' /\ RequestOK(slot[s])'
    <3>1. RotationOK(slot[s]) /\ RequestOK(slot[s])
      BY DEF MachineInv, MachineSlotInv
    <3>2. RotationOK(slot[s])'
      BY <1>1, <3>1 DEF RotationOK, Ids, Active
    <3>3. RequestOK(slot[s])'
      BY <1>1, <1>5, <3>1 DEF RequestOK
    <3>4. QED  BY <3>2, <3>3
  <2>3. QED  BY <2>1, <2>2
<1>9. QED  BY <1>1, <1>6, <1>7, <1>8 DEF MachineInv

\* authenticateMachine: the credential that is accepted is the signer.
LEMMA AuthenticateStep ==
    ASSUME MachineInv, area \in {"server", "worker"}, NEW s \in Slots,
           NEW n \in 1..MaxNonces, authenticateMachine(s, n)
    PROVE  MachineInv'
<1>1. PICK c \in Accepted :
        /\ verifyMachineRequest(c, n)
        /\ slot' = [slot EXCEPT ![s] = [stage |-> "claim", cred |-> c, nonce |-> n]]
  BY DEF authenticateMachine
<1> DEFINE x == [stage |-> "claim", cred |-> c, nonce |-> n]
<1>2. c \in Ids /\ c \in Nat /\ sent[n] # NotSent /\ creds[c].token = sent[n].token
  BY <1>1, MachineFacts DEF Accepted, Active, verifyMachineRequest, authenticateMachine
<1>3. /\ x \in RequestSlots /\ x.stage = "claim" /\ x.cred = c /\ x.nonce = n
  BY <1>2 DEF RequestSlots
<1>4. /\ slot' = [slot EXCEPT ![s] = x] /\ area' = area /\ clock' = clock /\ creds' = creds
      /\ held' = held /\ claimed' = claimed /\ served' = served /\ sent' = sent
  BY <1>1 DEF authenticateMachine, machineVars
<1> HIDE DEF x
<1>5. RequestOK(x) /\ RotationOK(x)
  BY <1>2, <1>3 DEF RequestOK, RotationOK, Signed
<1>6. slot \in [Slots -> MachineSlots] /\ OneServes
      /\ \A o \in Slots : RotationOK(slot[o]) /\ RequestOK(slot[o])
  BY DEF MachineInv, MachineSlotInv
<1>7. ASSUME NEW o \in Slots
      PROVE  RotationOK(slot[o])' /\ RequestOK(slot[o])'
  <2>1. RotationOK(slot'[o]) /\ RequestOK(slot'[o])
    BY <1>4, <1>5, <1>6
  <2>2. QED  BY <1>4, <2>1 DEF RotationOK, RequestOK, Signed, Ids, Active
<1>8. slot' \in [Slots -> MachineSlots] /\ OneServes'
  BY <1>3, <1>4, <1>6 DEF MachineSlots, OneServes
<1>9. CredentialInv' /\ ClaimInv'
  BY <1>4 DEF MachineInv, CredentialInv, ClaimInv, RotationRevokes, Signed, Ids, Active
<1>10. QED  BY <1>4, <1>7, <1>8, <1>9 DEF MachineInv, MachineSlotInv

\* claimMachineNonce: only the first claim of a nonce goes on to be served, since
\* the nonce has one signer.
LEMMA ClaimStep ==
    ASSUME MachineInv, area \in {"server", "worker"}, NEW s \in Slots, claimMachineNonce(s)
    PROVE  MachineInv'
<1> DEFINE c == slot[s].cred
           n == slot[s].nonce
           y == [slot[s] EXCEPT !.stage = "serve"]
           x == IF Unclaimed(s) THEN y ELSE Free
<1>1. /\ slot[s].stage = "claim" /\ slot[s] \in RequestSlots /\ Signed(c, n)
      /\ slot \in [Slots -> MachineSlots] /\ OneServes
  BY MachineFacts DEF claimMachineNonce, RequestOK
<1>2. /\ claimed' = claimed \union {<<c, n>>} /\ slot' = [slot EXCEPT ![s] = x]
      /\ area' = area /\ clock' = clock /\ creds' = creds /\ held' = held
      /\ served' = served /\ sent' = sent
  BY DEF claimMachineNonce
<1>3. y \in RequestSlots /\ y.stage = "serve" /\ y.cred = c /\ y.nonce = n
  BY <1>1 DEF RequestSlots
<1>4. \A d, m : Signed(d, m)' <=> Signed(d, m)
  BY <1>2 DEF Signed, Ids
<1>5. ASSUME Unclaimed(s)
      PROVE  /\ served[n] = 0
             /\ \A o \in Slots : slot[o].stage = "serve" => slot[o].nonce # n
  <2>1. \A d : <<d, n>> \notin claimed
    <3> SUFFICES ASSUME NEW d, <<d, n>> \in claimed  PROVE FALSE
      OBVIOUS
    <3>1. Signed(d, n)
      BY DEF MachineInv, ClaimInv
    <3>2. d = c
      BY <1>1, <3>1, OneSigner
    <3>3. QED  BY <1>5, <3>2 DEF Unclaimed
  <2>2. served[n] \in 0..1 /\ (served[n] = 1 => \E d \in Ids : <<d, n>> \in claimed)
    BY <1>1 DEF MachineInv, ClaimInv, Signed
  <2>3. ASSUME NEW o \in Slots, slot[o].stage = "serve", slot[o].nonce = n
        PROVE  FALSE
    BY <2>1, <2>3 DEF MachineInv, MachineSlotInv, RequestOK
  <2>4. served[n] # 1
    BY <2>1, <2>2
  <2>5. served[n] = 0
    BY <2>2, <2>4
  <2>6. QED  BY <2>3, <2>5
<1>6. ClaimInv'
  <2>1. <<c, n>> \in Ids \X (1..MaxNonces)
    BY <1>1 DEF Signed
  <2>2. claimed' \subseteq Ids' \X (1..MaxNonces)
    BY <1>2, <2>1 DEF MachineInv, ClaimInv, Ids
  <2>3. ASSUME NEW p \in claimed'
        PROVE  Signed(p[1], p[2])'
    <3>1. CASE p \in claimed
      BY <1>4, <3>1 DEF MachineInv, ClaimInv
    <3>2. CASE p = <<c, n>>
      <4>1. p[1] = c /\ p[2] = n
        BY <3>2
      <4>2. QED  BY <1>1, <1>4, <4>1
    <3>3. QED  BY <1>2, <3>1, <3>2
  <2>4. \A m \in 1..MaxNonces : served'[m] = 1 => \E d \in Ids' : <<d, m>> \in claimed'
    BY <1>2 DEF MachineInv, ClaimInv, Ids
  <2>5. QED  BY <1>2, <2>2, <2>3, <2>4 DEF MachineInv, ClaimInv
<1>7. CredentialInv' /\ clock' \in 0..MaxClock /\ held' \in Nat
  BY <1>2 DEF MachineInv, CredentialInv, RotationRevokes, Ids, Active
<1> HIDE DEF y, c, n
<1>8. x \in MachineSlots
  BY <1>3, FreeMachine DEF MachineSlots
<1>9. ASSUME NEW o \in Slots
      PROVE  RotationOK(slot[o])' /\ RequestOK(slot[o])'
  <2>1. CASE o # s
    <3>1. slot'[o] = slot[o] /\ RotationOK(slot[o]) /\ RequestOK(slot[o])
      BY <1>1, <1>2, <2>1 DEF MachineInv, MachineSlotInv
    <3>2. QED  BY <1>2, <1>4, <3>1 DEF RotationOK, RequestOK, Ids, Active
  <2>2. CASE o = s /\ Unclaimed(s)
    <3>1. slot'[o] = y
      BY <1>1, <1>2, <2>2
    <3>2. QED  BY <1>1, <1>2, <1>3, <1>4, <1>5, <2>2, <3>1 DEF RotationOK, RequestOK
  <2>3. CASE o = s /\ ~Unclaimed(s)
    <3>1. slot'[o] = Free
      BY <1>1, <1>2, <2>3
    <3>2. QED  BY <3>1, FreeMachine DEF RotationOK, RequestOK
  <2>4. QED  BY <2>1, <2>2, <2>3
<1>10. slot' \in [Slots -> MachineSlots]
  BY <1>1, <1>2, <1>8
<1>11. OneServes'
  <2> SUFFICES ASSUME NEW o \in Slots, NEW p \in Slots,
                      slot'[o].stage = "serve", slot'[p].stage = "serve",
                      slot'[o].nonce = slot'[p].nonce
               PROVE  o = p
    BY DEF OneServes
  <2>1. CASE Unclaimed(s)
    <3>1. slot'[s] = y /\ \A q \in Slots : q # s => slot'[q] = slot[q]
      BY <1>1, <1>2, <2>1
    <3>2. QED  BY <1>1, <1>3, <1>5, <2>1, <3>1 DEF OneServes
  <2>2. CASE ~Unclaimed(s)
    <3>1. slot'[s] = Free /\ \A q \in Slots : q # s => slot'[q] = slot[q]
      BY <1>1, <1>2, <2>2
    <3>2. QED  BY <1>1, <3>1, FreeMachine DEF OneServes
  <2>3. QED  BY <2>1, <2>2
<1>12. QED  BY <1>6, <1>7, <1>9, <1>10, <1>11 DEF MachineInv, MachineSlotInv

\* A request is served under the nonce it has claimed.
LEMMA ServeStep ==
    ASSUME MachineInv, area \in {"server", "worker"}, NEW s \in Slots, ServeRequest(s)
    PROVE  MachineInv'
<1> DEFINE n == slot[s].nonce
<1>1. /\ slot[s].stage = "serve" /\ n \in 1..MaxNonces /\ served[n] = 0
      /\ <<slot[s].cred, n>> \in claimed /\ slot[s].cred \in Ids
      /\ slot \in [Slots -> MachineSlots] /\ OneServes
  BY MachineFacts DEF ServeRequest, RequestOK, Signed
<1>2. /\ served' = served \/ served' = [served EXCEPT ![n] = @ + 1]
      /\ slot' = [slot EXCEPT ![s] = Free]
      /\ area' = area /\ clock' = clock /\ creds' = creds /\ held' = held
      /\ claimed' = claimed /\ sent' = sent
  BY DEF ServeRequest
<1>3. served \in [1..MaxNonces -> 0..1]
  BY DEF MachineInv, ClaimInv
<1>4. /\ served' \in [1..MaxNonces -> 0..1]
      /\ \A m \in 1..MaxNonces : m # n => served'[m] = served[m]
  <2>1. served[n] + 1 \in 0..1
    BY <1>1
  <2> HIDE DEF n
  <2>2. CASE served' = served
    BY <1>3, <2>2
  <2>3. CASE served' = [served EXCEPT ![n] = @ + 1]
    BY <1>1, <1>3, <2>1, <2>3
  <2>4. QED  BY <1>2, <2>2, <2>3
<1>5. ClaimInv'
  <2>1. \A m \in 1..MaxNonces : served'[m] = 1 => \E d \in Ids' : <<d, m>> \in claimed'
    BY <1>1, <1>2, <1>4 DEF MachineInv, ClaimInv, Ids
  <2>2. QED  BY <1>2, <1>4, <2>1 DEF MachineInv, ClaimInv, Signed, Ids
<1>6. CredentialInv' /\ clock' \in 0..MaxClock /\ held' \in Nat
  BY <1>2 DEF MachineInv, CredentialInv, RotationRevokes, Ids, Active
<1>7. ASSUME NEW o \in Slots
      PROVE  RotationOK(slot[o])' /\ RequestOK(slot[o])'
  <2>1. CASE o = s
    <3>1. slot'[o] = Free
      BY <1>1, <1>2, <2>1
    <3>2. QED  BY <3>1, FreeMachine DEF RotationOK, RequestOK
  <2>2. CASE o # s
    <3>1. slot'[o] = slot[o] /\ RotationOK(slot[o]) /\ RequestOK(slot[o])
      BY <1>1, <1>2, <2>2 DEF MachineInv, MachineSlotInv
    <3>2. slot[o].stage = "serve" => slot[o].nonce # n /\ slot[o].nonce \in 1..MaxNonces
      BY <1>1, <2>2, <3>1 DEF OneServes, RequestOK, Signed
    <3>3. RotationOK(slot[o])'
      BY <1>2, <3>1 DEF RotationOK, Ids, Active
    <3>4. slot[o].stage = "serve" => served'[slot[o].nonce] = 0
      BY <1>4, <3>1, <3>2 DEF RequestOK
    <3>5. RequestOK(slot[o])'
      BY <1>2, <3>1, <3>4 DEF RequestOK, Signed, Ids
    <3>6. QED  BY <3>3, <3>5
  <2>3. QED  BY <2>1, <2>2
<1>8. slot' \in [Slots -> MachineSlots] /\ OneServes'
  BY <1>1, <1>2, FreeMachine DEF OneServes
<1>9. QED  BY <1>2, <1>5, <1>6, <1>7, <1>8 DEF MachineInv, MachineSlotInv

\* Every step of credentials and signed requests keeps their invariant.
LEMMA MachineStep ==
    ASSUME MachineInv, area \in {"server", "worker"}, MachineNext
    PROVE  MachineInv' /\ area' = area /\ UNCHANGED <<userVars, mutationVars>>
<1>1. MachineInv'
  <2>1. CASE Tick \/ createChannelWorkerCredential
    BY <2>1, TickStep, WorkerCredentialStep
  <2>2. ASSUME NEW c \in Ids, InstallToken(creds[c].token)
        PROVE  MachineInv'
    BY <2>2, InstallStep
  <2>3. ASSUME NEW n \in 1..MaxNonces, signedMachinePost(n)
        PROVE  MachineInv'
    BY <2>3, PostedStep
  <2>4. ASSUME NEW n \in 1..MaxNonces, NEW s \in Slots, authenticateMachine(s, n)
        PROVE  MachineInv'
    BY <2>4, AuthenticateStep
  <2>5. ASSUME NEW s \in Slots,
               \/ IssueServerCredential(s) \/ RevokeStarts(s) \/ RevokeLocks(s)
               \/ createServerCredential(s) \/ RotationFails(s) \/ claimMachineNonce(s)
               \/ ServeRequest(s)
        PROVE  MachineInv'
    BY <2>5, IssueStep, RevokeStartsStep, RevokeLocksStep, ServerCredentialStep,
       RotationFailsStep, ClaimStep, ServeStep
  <2>6. QED  BY <2>1, <2>2, <2>3, <2>4, <2>5 DEF MachineNext
<1>2. area' = area /\ UNCHANGED <<userVars, mutationVars>>
  BY DEF MachineNext, Tick, createChannelWorkerCredential, InstallToken, signedMachinePost,
         authenticateMachine, IssueServerCredential, RevokeStarts, RevokeLocks,
         createServerCredential, RotationFails, claimMachineNonce, ServeRequest
<1>3. QED  BY <1>1, <1>2

-------------------------------------------------------------------------------
(* Transactions of the control authority.                                     *)

\* Idempotency keys and the two rows are different locks.
LEMMA LockFacts ==
    /\ DeploymentRow \notin IdempotencyKeys /\ AuditChain \notin IdempotencyKeys
    /\ DeploymentRow # AuditChain
    /\ DeploymentRow \in LockNames /\ AuditChain \in LockNames
    /\ IdempotencyKeys \subseteq LockNames
  BY DEF DeploymentRow, AuditChain, IdempotencyKeys, LockNames

\* What MutationInv says of one transaction.
LEMMA TransactionFacts ==
    ASSUME MutationInv, area = "mutations", NEW s \in Slots
    PROVE  /\ slot \in [Slots -> MutationSlots] /\ TransactionOK(s)
           /\ locks \in [LockNames -> Slots \union {"none"}]
           /\ record \in [IdempotencyKeys -> Hashes \union {NoRecord}]
           /\ slot[s].stage \in {"lock", "insert", "append"} => slot[s] \in OpenTransactions
           /\ slot[s].stage = "save" => slot[s] \in SavingTransactions
           /\ slot[s].stage \in {"lock", "insert", "append", "save"} =>
                slot[s].key \in IdempotencyKeys /\ slot[s].hash \in Hashes
<1>1. /\ slot \in [Slots -> MutationSlots] /\ TransactionOK(s)
      /\ locks \in [LockNames -> Slots \union {"none"}]
      /\ record \in [IdempotencyKeys -> Hashes \union {NoRecord}]
  BY DEF MutationInv
<1>2. slot[s] \in MutationSlots
  BY <1>1
<1>3. /\ slot[s].stage \in {"lock", "insert", "append"} => slot[s] \in OpenTransactions
      /\ slot[s].stage = "save" => slot[s] \in SavingTransactions
  BY <1>2 DEF MutationSlots, OpenTransactions, SavingTransactions, Free
<1>4. QED  BY <1>1, <1>3 DEF OpenTransactions, SavingTransactions

\* A free slot.
LEMMA FreeMutation == Free \in MutationSlots /\ Free.stage = "free"
  BY DEF Free, MutationSlots

\* A step of one transaction: the locks the others hold stay theirs, and no record
\* of a key that another one holds is written.
LEMMA OthersKept ==
    ASSUME MutationInv, area = "mutations", NEW s \in Slots, NEW o \in Slots, o # s,
           slot'[o] = slot[o],
           \A l \in LockNames : locks[l] = o => locks'[l] = o,
           \A k \in IdempotencyKeys : locks[k] = o => record'[k] = record[k],
           locks[AuditChain] = o => audits' = audits
    PROVE  TransactionOK(o)'
<1>1. TransactionOK(o) /\ (slot[o].stage \in {"insert", "append", "save"} =>
                             slot[o].key \in IdempotencyKeys)
  BY TransactionFacts
<1>2. QED  BY <1>1, LockFacts DEF TransactionOK

\* Steps that leave the records and the chain alone.
LEMMA TransactionMoves ==
    ASSUME MutationInv, area = "mutations", area' = area, NEW s \in Slots,
           NEW x \in MutationSlots, slot' = [slot EXCEPT ![s] = x],
           locks' \in [LockNames -> Slots \union {"none"}],
           \A l \in LockNames : locks[l] \in Slots \ {s} => locks'[l] = locks[l],
           UNCHANGED <<record, audits>>,
           refused' \subseteq IdempotencyKeys \X Hashes, RefusedWasDifferent',
           x.stage \in {"insert", "append", "save"} =>
             locks'[x.key] = s /\ record[x.key] = NoRecord,
           x.stage = "save" => locks'[AuditChain] = s /\ x.sequence = audits + 1
    PROVE  MutationInv'
<1>1. slot \in [Slots -> MutationSlots]
  BY DEF MutationInv
<1>2. slot' \in [Slots -> MutationSlots] /\ slot'[s] = x
  BY <1>1
<1>3. ASSUME NEW o \in Slots
      PROVE  TransactionOK(o)'
  <2>1. CASE o = s
    BY <1>2, <2>1 DEF TransactionOK
  <2>2. CASE o # s
    <3>1. slot'[o] = slot[o]
      BY <1>1, <2>2
    <3>2. QED  BY <2>2, <3>1, OthersKept
  <2>3. QED  BY <2>1, <2>2
<1>4. QED  BY <1>2, <1>3 DEF MutationInv

\* A request that starts holds no lock.
LEMMA EnvelopeStep ==
    ASSUME MutationInv, area = "mutations", NEW s \in Slots, NEW k \in IdempotencyKeys,
           NEW h \in Hashes, NEW lock \in {"none", "deployment"},
           normalizeEnvelope(s, k, h, lock)
    PROVE  MutationInv'
<1> DEFINE x == [stage |-> "lock", key |-> k, hash |-> h, row |-> lock]
<1>1. x \in OpenTransactions /\ x.stage = "lock"
  BY DEF OpenTransactions
<1>2. /\ slot' = [slot EXCEPT ![s] = x] /\ area' = area /\ locks' = locks
      /\ UNCHANGED <<record, audits>> /\ refused' = refused
  BY DEF normalizeEnvelope, mutationVars
<1> HIDE DEF x
<1>3. x \in MutationSlots
  BY <1>1 DEF MutationSlots
<1>4. /\ locks' \in [LockNames -> Slots \union {"none"}]
      /\ refused' \subseteq IdempotencyKeys \X Hashes /\ RefusedWasDifferent'
  BY <1>2 DEF MutationInv, RefusedWasDifferent
<1>5. QED  BY <1>1, <1>2, <1>3, <1>4, TransactionMoves

\* lockIdempotency: the key is held, or the earlier record answers or refuses.
LEMMA LockStep ==
    ASSUME MutationInv, area = "mutations", NEW s \in Slots, lockIdempotency(s)
    PROVE  MutationInv'
<1> DEFINE k == slot[s].key
           h == slot[s].hash
<1>1. /\ slot[s].stage = "lock" /\ slot[s] \in OpenTransactions /\ k \in IdempotencyKeys
      /\ h \in Hashes /\ k \in LockNames /\ locks[k] = "none" /\ area' = area
      /\ UNCHANGED <<record, audits>> /\ slot \in [Slots -> MutationSlots]
  BY TransactionFacts, LockFacts DEF lockIdempotency, KeyFree
<1>2. /\ record \in [IdempotencyKeys -> Hashes \union {NoRecord}]
      /\ locks \in [LockNames -> Slots \union {"none"}]
      /\ refused \subseteq IdempotencyKeys \X Hashes /\ RefusedWasDifferent
      /\ "none" \notin Slots
  BY AccessAssumption DEF MutationInv
<1>3. CASE record[k] = NoRecord
  <2> DEFINE x == [slot[s] EXCEPT !.stage = "insert"]
  <2>1. /\ slot' = [slot EXCEPT ![s] = x] /\ locks' = [locks EXCEPT ![k] = s]
        /\ refused' = refused
    BY <1>1, <1>3 DEF lockIdempotency
  <2>2. x \in OpenTransactions /\ x.stage = "insert" /\ x.key = k
    BY <1>1 DEF OpenTransactions
  <2> HIDE DEF x, k
  <2>3. x \in MutationSlots
    BY <2>2 DEF MutationSlots
  <2>4. /\ locks' \in [LockNames -> Slots \union {"none"}] /\ locks'[k] = s
        /\ \A l \in LockNames : locks[l] \in Slots \ {s} => locks'[l] = locks[l]
    BY <1>1, <1>2, <2>1
  <2>5. refused' \subseteq IdempotencyKeys \X Hashes /\ RefusedWasDifferent'
    BY <1>1, <1>2, <2>1 DEF RefusedWasDifferent
  <2>6. QED  BY <1>1, <1>3, <2>1, <2>2, <2>3, <2>4, <2>5, TransactionMoves
<1>4. CASE record[k] # NoRecord
  <2>1. /\ slot' = [slot EXCEPT ![s] = Free] /\ locks' = locks
        /\ refused' = IF record[k] = h THEN refused ELSE refused \union {<<k, h>>}
    BY <1>4 DEF lockIdempotency
  <2> HIDE DEF k, h
  <2>2. refused' \subseteq IdempotencyKeys \X Hashes
    BY <1>1, <1>2, <2>1
  <2>3. RefusedWasDifferent'
    <3>1. ASSUME NEW r \in refused'
          PROVE  record'[r[1]] \notin {NoRecord, r[2]}
      <4>1. CASE r \in refused
        BY <1>1, <1>2, <4>1 DEF RefusedWasDifferent
      <4>2. CASE r \notin refused
        <5>1. r = <<k, h>> /\ record[k] # h
          BY <2>1, <4>2
        <5>2. QED  BY <1>1, <1>4, <5>1
      <4>3. QED  BY <4>1, <4>2
    <3>2. QED  BY <3>1 DEF RefusedWasDifferent
  <2>4. QED  BY <1>1, <1>2, <2>1, <2>2, <2>3, FreeMutation, TransactionMoves
<1>5. QED  BY <1>3, <1>4

\* The manifest or the reference is inserted: the key's lock stays, and that of
\* the deployment's row may be added.
LEMMA InsertStep ==
    ASSUME MutationInv, area = "mutations", NEW s \in Slots,
           createReleaseManifest(s) \/ insertSecretReference(s)
    PROVE  MutationInv'
<1> DEFINE x == [slot[s] EXCEPT !.stage = "append"]
<1>1. /\ slot[s].stage = "insert" /\ area' = area /\ UNCHANGED <<record, audits>>
      /\ refused' = refused
      /\ slot' = [slot EXCEPT ![s].stage = "append"]
      /\ \/ locks' = locks
         \/ locks[DeploymentRow] = "none" /\ locks' = [locks EXCEPT ![DeploymentRow] = s]
  BY DEF createReleaseManifest, insertSecretReference, DeploymentLocked, mutationVars
<1>2. /\ slot[s] \in OpenTransactions /\ slot[s].key \in IdempotencyKeys
      /\ TransactionOK(s) /\ slot \in [Slots -> MutationSlots]
      /\ locks \in [LockNames -> Slots \union {"none"}] /\ "none" \notin Slots
  BY <1>1, TransactionFacts, AccessAssumption
<1>3. slot' = [slot EXCEPT ![s] = x]
  BY <1>1, <1>2 DEF OpenTransactions
<1>4. x \in OpenTransactions /\ x.stage = "append" /\ x.key = slot[s].key
  BY <1>2 DEF OpenTransactions
<1> HIDE DEF x
<1>5. x \in MutationSlots
  BY <1>4 DEF MutationSlots
<1>6. locks[x.key] = s /\ record[x.key] = NoRecord
  BY <1>1, <1>2, <1>4 DEF TransactionOK
<1>7. /\ locks' \in [LockNames -> Slots \union {"none"}] /\ locks'[x.key] = s
      /\ \A l \in LockNames : locks[l] \in Slots \ {s} => locks'[l] = locks[l]
  BY <1>1, <1>2, <1>4, <1>6, LockFacts
<1>8. refused' \subseteq IdempotencyKeys \X Hashes /\ RefusedWasDifferent'
  BY <1>1 DEF MutationInv, RefusedWasDifferent
<1>9. QED  BY <1>1, <1>3, <1>4, <1>5, <1>6, <1>7, <1>8, TransactionMoves

\* appendGlobalChange holds the audit chain.
LEMMA AppendStep ==
    ASSUME MutationInv, area = "mutations", NEW s \in Slots, appendGlobalChange(s)
    PROVE  MutationInv'
<1> DEFINE x == Audited(s, audits + 1)
<1>1. /\ slot[s].stage = "append" /\ area' = area /\ UNCHANGED <<record, audits>>
      /\ refused' = refused /\ slot' = [slot EXCEPT ![s] = x]
      /\ locks[AuditChain] = "none" /\ locks' = [locks EXCEPT ![AuditChain] = s]
  BY DEF appendGlobalChange
<1>2. /\ slot[s] \in OpenTransactions /\ slot[s].key \in IdempotencyKeys
      /\ slot[s].hash \in Hashes
      /\ TransactionOK(s) /\ slot \in [Slots -> MutationSlots]
      /\ locks \in [LockNames -> Slots \union {"none"}] /\ "none" \notin Slots
  BY <1>1, TransactionFacts, AccessAssumption
<1>3. audits + 1 \in Nat
  BY DEF MutationInv
<1>4. /\ x \in SavingTransactions /\ x.stage = "save" /\ x.key = slot[s].key
      /\ x.sequence = audits + 1
  BY <1>2, <1>3 DEF Audited, SavingTransactions
<1> HIDE DEF x
<1>5. x \in MutationSlots
  BY <1>4 DEF MutationSlots
<1>6. locks[x.key] = s /\ record[x.key] = NoRecord
  BY <1>1, <1>2, <1>4 DEF TransactionOK
<1>7. /\ locks' \in [LockNames -> Slots \union {"none"}] /\ locks'[x.key] = s
      /\ locks'[AuditChain] = s
      /\ \A l \in LockNames : locks[l] \in Slots \ {s} => locks'[l] = locks[l]
  BY <1>1, <1>2, <1>4, <1>6, LockFacts
<1>8. refused' \subseteq IdempotencyKeys \X Hashes /\ RefusedWasDifferent'
  BY <1>1 DEF MutationInv, RefusedWasDifferent
<1>9. QED  BY <1>1, <1>4, <1>5, <1>6, <1>7, <1>8, TransactionMoves

\* The end of a transaction releases its locks and no others.
LEMMA ReleasedFacts ==
    ASSUME MutationInv, NEW s \in Slots, locks' = Released(s)
    PROVE  /\ locks' \in [LockNames -> Slots \union {"none"}]
           /\ \A l \in LockNames : locks[l] \in Slots \ {s} => locks'[l] = locks[l]
<1>1. locks \in [LockNames -> Slots \union {"none"}]
  BY DEF MutationInv
<1>2. DOMAIN locks = LockNames
  BY <1>1
<1>3. QED  BY <1>1, <1>2 DEF Released

\* A rollback releases what the transaction held.
LEMMA RollbackStep ==
    ASSUME MutationInv, area = "mutations", NEW s \in Slots, Rollback(s)
    PROVE  MutationInv'
<1>1. /\ area' = area /\ UNCHANGED <<record, audits>> /\ refused' = refused
      /\ slot' = [slot EXCEPT ![s] = Free] /\ locks' = Released(s)
  BY DEF Rollback
<1>2. refused' \subseteq IdempotencyKeys \X Hashes /\ RefusedWasDifferent'
  BY <1>1 DEF MutationInv, RefusedWasDifferent
<1>3. QED  BY <1>1, <1>2, ReleasedFacts, FreeMutation, TransactionMoves

\* saveIdempotency: under its two locks the record is still missing and the place
\* in the chain still free, so neither constraint refuses it.
LEMMA SaveStep ==
    ASSUME MutationInv, area = "mutations", NEW s \in Slots, saveIdempotency(s)
    PROVE  MutationInv'
<1> DEFINE k == slot[s].key
           h == slot[s].hash
<1>1. /\ slot[s].stage = "save" /\ k \in IdempotencyKeys /\ h \in Hashes
      /\ locks[k] = s /\ record[k] = NoRecord /\ locks[AuditChain] = s
      /\ slot[s].sequence = audits + 1 /\ audits < MaxAudits
      /\ slot \in [Slots -> MutationSlots]
  BY TransactionFacts DEF saveIdempotency, TransactionOK
<1>2. /\ record' = [record EXCEPT ![k] = h] /\ audits' = audits + 1 /\ refused' = refused
      /\ locks' = Released(s) /\ slot' = [slot EXCEPT ![s] = Free] /\ area' = area
  BY <1>1 DEF saveIdempotency
<1> HIDE DEF k, h
<1>3. /\ record \in [IdempotencyKeys -> Hashes \union {NoRecord}] /\ audits \in 0..MaxAudits
      /\ refused \subseteq IdempotencyKeys \X Hashes /\ RefusedWasDifferent
      /\ MaxAudits \in Nat
  BY AccessAssumption DEF MutationInv
<1>4. record' \in [IdempotencyKeys -> Hashes \union {NoRecord}] /\ audits' \in 0..MaxAudits
  BY <1>1, <1>2, <1>3
<1>5. RefusedWasDifferent'
  <2>1. ASSUME NEW r \in refused
        PROVE  record'[r[1]] \notin {NoRecord, r[2]}
    <3>1. record[r[1]] \notin {NoRecord, r[2]} /\ r[1] \in IdempotencyKeys
      BY <1>3 DEF RefusedWasDifferent
    <3>2. r[1] # k
      BY <1>1, <3>1
    <3>3. QED  BY <1>2, <1>3, <3>1, <3>2
  <2>2. QED  BY <1>2, <2>1 DEF RefusedWasDifferent
<1>6. /\ locks' \in [LockNames -> Slots \union {"none"}]
      /\ \A l \in LockNames : locks[l] \in Slots \ {s} => locks'[l] = locks[l]
  BY <1>2, ReleasedFacts
<1>7. ASSUME NEW o \in Slots
      PROVE  TransactionOK(o)'
  <2>1. CASE o = s
    <3>1. slot'[o] = Free
      BY <1>1, <1>2, <2>1
    <3>2. QED  BY <3>1, FreeMutation DEF TransactionOK
  <2>2. CASE o # s
    <3>1. slot'[o] = slot[o]
      BY <1>1, <1>2, <2>2
    <3>2. \A l \in LockNames : locks[l] = o => locks'[l] = o
      BY <1>6, <2>2
    <3>3. \A j \in IdempotencyKeys : locks[j] = o => record'[j] = record[j]
      BY <1>1, <1>2, <1>3, <2>2
    <3>4. locks[AuditChain] # o
      BY <1>1, <2>2
    <3>5. QED  BY <2>2, <3>1, <3>2, <3>3, <3>4, OthersKept
  <2>3. QED  BY <2>1, <2>2
<1>8. slot' \in [Slots -> MutationSlots]
  BY <1>1, <1>2, FreeMutation
<1>9. QED  BY <1>2, <1>3, <1>4, <1>5, <1>6, <1>7, <1>8 DEF MutationInv

\* Every step of the transactions keeps their invariant.
LEMMA MutationStep ==
    ASSUME MutationInv, area = "mutations", MutationNext
    PROVE  MutationInv' /\ area' = area /\ UNCHANGED <<userVars, machineVars>>
<1>1. PICK s \in Slots :
        \/ \E k \in Keys, h \in Hashes :
             registerReleaseManifest(s, k, h) \/ registerSecretReference(s, k, h)
        \/ TxStep(s) \/ Rollback(s)
  BY DEF MutationNext
<1>2. ASSUME NEW k \in Keys, NEW h \in Hashes, registerReleaseManifest(s, k, h)
      PROVE  MutationInv' /\ area' = area /\ UNCHANGED <<userVars, machineVars>>
  <2>1. <<"release-manifest", k>> \in IdempotencyKeys
    BY DEF IdempotencyKeys
  <2>2. normalizeEnvelope(s, <<"release-manifest", k>>, h, "none")
    BY <1>2 DEF registerReleaseManifest
  <2>3. MutationInv'
    BY <2>1, <2>2, EnvelopeStep
  <2>4. QED  BY <2>2, <2>3 DEF normalizeEnvelope
<1>3. ASSUME NEW k \in Keys, NEW h \in Hashes, registerSecretReference(s, k, h)
      PROVE  MutationInv' /\ area' = area /\ UNCHANGED <<userVars, machineVars>>
  <2>1. <<"secret-reference", k>> \in IdempotencyKeys
    BY DEF IdempotencyKeys
  <2>2. PICK lock \in {"none", "deployment"} :
          normalizeEnvelope(s, <<"secret-reference", k>>, h, lock)
    BY <1>3 DEF registerSecretReference
  <2>3. MutationInv'
    BY <2>1, <2>2, EnvelopeStep
  <2>4. QED  BY <2>2, <2>3 DEF normalizeEnvelope
<1>4. CASE TxStep(s)
  <2>1. MutationInv'
    BY <1>4, LockStep, InsertStep, AppendStep, SaveStep DEF TxStep
  <2>2. area' = area /\ UNCHANGED <<userVars, machineVars>>
    BY <1>4 DEF TxStep, lockIdempotency, createReleaseManifest, insertSecretReference,
                appendGlobalChange, saveIdempotency
  <2>3. QED  BY <2>1, <2>2
<1>5. CASE Rollback(s)
  <2>1. MutationInv'
    BY <1>5, RollbackStep
  <2>2. QED  BY <1>5, <2>1 DEF Rollback
<1>6. QED  BY <1>1, <1>2, <1>3, <1>4, <1>5

-------------------------------------------------------------------------------
(* The theorems.                                                              *)

\* No request, no credential, no record.
LEMMA InitInv == Init => IndInv
<1> SUFFICES ASSUME Init  PROVE IndInv
  OBVIOUS
<1>1. /\ area \in Areas /\ slot = [s \in Slots |-> Free] /\ creds = <<>> /\ claimed = {}
      /\ audits = 0 /\ refused = {} /\ clock = 0 /\ attempts = [count |-> 0, resetAt |-> 0]
      /\ minute \in [from : Nat, checks : {0}, logins : {0}]
  <2>1. \E t \in Nat : minute = [from |-> t, checks |-> 0, logins |-> 0]
    BY AccessAssumption DEF Init
  <2>2. QED  BY <2>1 DEF Init, NoAttempt
<1>2. UserInv
  <2>1. role \in [Users -> Roles]
    BY AccessAssumption DEF Init
  <2>2. \A s \in Slots : UserOK(slot[s])
    BY <1>1, FreeOK
  <2>3. slot \in [Slots -> UserSlots]
    BY <1>1, FreeOK DEF UserOK
  <2>4. /\ AttemptLimit \in Nat \ {0} /\ Count(0) = 0 /\ Count(1 + 0) = AttemptLimit
        /\ Count(2 + 0) = AttemptLimit + AttemptLimit
    BY CountGrows
  <2>5. MinuteInv /\ minute.checks < Count(2 + minute.logins)
    BY <1>1, <2>4 DEF MinuteInv
  <2>6. /\ attempts \in [count : 0..AttemptLimit, resetAt : Nat]
        /\ minute \in [from : Nat, checks : Nat, logins : Nat]
    BY <1>1, <2>4
  <2>7. QED  BY <1>1, <2>1, <2>2, <2>3, <2>5, <2>6 DEF UserInv
<1>3. Ids = {} /\ creds \in Seq(CredentialType)
  BY <1>1 DEF Ids
<1>4. CredentialInv
  BY <1>3 DEF CredentialInv, RotationRevokes
<1>5. ClaimInv
  BY <1>1, <1>3 DEF ClaimInv, Init
<1>6. MachineSlotInv
  <2>1. slot \in [Slots -> MachineSlots] /\ \A s \in Slots : slot[s] = Free
    BY <1>1, FreeMachine
  <2>2. \A s \in Slots : RotationOK(slot[s]) /\ RequestOK(slot[s])
    BY <2>1, FreeMachine DEF RequestOK
  <2>3. OneServes
    BY <2>1, FreeMachine DEF OneServes
  <2>4. QED  BY <2>1, <2>2, <2>3 DEF MachineSlotInv
<1>7. MachineInv
  <2>1. clock \in 0..MaxClock /\ held \in Nat
    BY <1>1, AccessAssumption DEF Init
  <2>2. QED  BY <1>4, <1>5, <1>6, <2>1 DEF MachineInv
<1>8. MutationInv
  <2>1. slot \in [Slots -> MutationSlots] /\ \A s \in Slots : TransactionOK(s)
    BY <1>1, FreeMutation DEF TransactionOK
  <2>2. /\ record \in [IdempotencyKeys -> Hashes \union {NoRecord}]
        /\ locks \in [LockNames -> Slots \union {"none"}]
    BY DEF Init, LockNames
  <2>3. audits \in 0..MaxAudits
    BY <1>1, AccessAssumption
  <2>4. QED  BY <1>1, <2>1, <2>2, <2>3 DEF MutationInv, RefusedWasDifferent
<1>9. QED  BY <1>2, <1>7, <1>8 DEF IndInv

\* Every step keeps the inductive invariant.
LEMMA NextInv == IndInv /\ [Next]_vars => IndInv'
<1> SUFFICES ASSUME IndInv, [Next]_vars  PROVE IndInv'
  OBVIOUS
<1>1. UserInv /\ MachineInv /\ MutationInv
  BY DEF IndInv
<1>0. clock \in Nat
  BY <1>1 DEF MachineInv
<1>2. CASE \/ area = "logins" /\ (Tick \/ LoginNext)
           \/ area = "users" /\ (LoginNext \/ RoleNext)
  <2>1. CASE area = "logins" /\ Tick
    <3>1. area' = area /\ UNCHANGED mutationVars
      BY <2>1 DEF Tick
    <3>2. QED  BY <1>0, <1>1, <2>1, <3>1, MinutePasses, TickStep, MutationsLeft DEF IndInv
  <2>2. CASE area \in {"logins", "users"} /\ LoginNext
    BY <1>0, <1>1, <2>2, LoginsStep, MachinesLeft, MutationsLeft DEF IndInv
  <2>3. CASE area = "users" /\ RoleNext
    BY <1>1, <2>3, RolesStep, MachinesLeft, MutationsLeft DEF IndInv
  <2>4. QED  BY <1>2, <2>1, <2>2, <2>3
<1>3. CASE area \in {"server", "worker"} /\ MachineNext
  BY <1>1, <1>3, MachineStep, UsersLeft, MutationsLeft DEF IndInv
<1>4. CASE area = "mutations" /\ MutationNext
  BY <1>1, <1>4, MutationStep, UsersLeft, MachinesLeft DEF IndInv
<1>5. CASE UNCHANGED vars
  <2>1. /\ area' = area /\ slot' = slot /\ UNCHANGED userVars /\ UNCHANGED machineVars
        /\ UNCHANGED mutationVars
    BY <1>5 DEF vars
  <2>2. UserInv'
    BY <1>1, <2>1 DEF UserInv, MinuteInv, Count, userVars, machineVars, UserOK
  <2>3. MachineInv'
    BY <1>1, <2>1 DEF MachineInv, machineVars, CredentialInv, ClaimInv, MachineSlotInv,
       RotationRevokes, RotationOK, RequestOK, OneServes, Signed, Ids, Active
  <2>4. MutationInv'
    BY <1>1, <2>1 DEF MutationInv, mutationVars, RefusedWasDifferent, TransactionOK
  <2>5. QED  BY <2>2, <2>3, <2>4 DEF IndInv
<1>6. QED  BY <1>2, <1>3, <1>4, <1>5 DEF Next

\* The inductive invariant holds in every reachable state.
LEMMA Inductive == Spec => []IndInv
  BY InitInv, NextInv, PTL DEF Spec

\* authenticateMachine, claimMachineNonce and the rotation of credentials: a
\* signed request is served at most once, and a committed rotation has revoked
\* every credential there was when it began, for any number of processes,
\* rotations and requests.
THEOREM MachinesHeld == Spec => []MachinesInv
<1>1. IndInv => MachinesInv
  BY DEF IndInv, MachineInv, ClaimInv, CredentialInv, MachinesInv, ServedOnce
<1>2. QED  BY Inductive, <1>1, PTL

\* The login throttle and updateUserRole: in any minute fewer passwords are checked
\* for an address than the limit times two plus the logins that succeed in it, and
\* only a platform administrator makes another one, for any limit, any length of
\* the minute, and any users, roles and logins at the same time.
THEOREM UsersHeld == Spec => []UsersInv
<1>1. IndInv => UsersInv
  <2> SUFFICES ASSUME IndInv  PROVE UsersInv
    OBVIOUS
  <2>1. TypeOK
    <3>1. \A l \in DOMAIN locks : locks[l] \in Slots \union {"none"}
      BY DEF IndInv, MutationInv
    <3>2. QED
      BY <3>1 DEF IndInv, UserInv, MachineInv, CredentialInv, ClaimInv, MutationInv, TypeOK
  <2>2. Throttled
    BY DEF IndInv, UserInv, Count, Throttled
  <2>3. AppointedByAdmin
    <3> SUFFICES ASSUME NEW s \in Slots, slot[s].stage = "appointed"
                 PROVE  slot[s].asAdmin
      BY DEF AppointedByAdmin
    <3>1. CASE area \in {"logins", "users"}
      BY <3>1 DEF IndInv, UserInv, UserOK
    <3>2. CASE area \in {"server", "worker"}
      <4>1. slot[s] \in MachineSlots
        BY <3>2 DEF IndInv, MachineInv, MachineSlotInv
      <4>2. QED  BY <4>1 DEF MachineSlots, RotationSlots, RequestSlots, Free
    <3>3. CASE area = "mutations"
      <4>1. slot[s] \in MutationSlots
        BY <3>3 DEF IndInv, MutationInv
      <4>2. QED  BY <4>1 DEF MutationSlots, OpenTransactions, SavingTransactions, Free
    <3>4. QED  BY <3>1, <3>2, <3>3, AccessAssumption DEF IndInv, UserInv
  <2>4. QED  BY <2>1, <2>2, <2>3 DEF UsersInv
<1>2. QED  BY Inductive, <1>1, PTL

\* lockIdempotency and saveIdempotency: a mutation is refused only when its key
\* holds another request, for any keys, requests and concurrent transactions.
THEOREM RefusalsJustified == Spec => []RefusedWasDifferent
<1>1. IndInv => RefusedWasDifferent
  BY DEF IndInv, MutationInv
<1>2. QED  BY Inductive, <1>1, PTL

\* The key's lock and the lock of the audit chain: no two transactions that got
\* past lockIdempotency have the same key, and no two that save have the same
\* place in the audit chain, so neither UNIQUE constraint is ever what decides.
THEOREM TransactionsSerial ==
    Spec => [](area = "mutations" =>
                 \A s, o \in Slots :
                   s # o =>
                     /\ ~(/\ slot[s].stage \in {"insert", "append", "save"}
                          /\ slot[o].stage \in {"insert", "append", "save"}
                          /\ slot[s].key = slot[o].key)
                     /\ ~(slot[s].stage = "save" /\ slot[o].stage = "save"))
<1>1. IndInv => (area = "mutations" =>
                   \A s, o \in Slots :
                     s # o =>
                       /\ ~(/\ slot[s].stage \in {"insert", "append", "save"}
                            /\ slot[o].stage \in {"insert", "append", "save"}
                            /\ slot[s].key = slot[o].key)
                       /\ ~(slot[s].stage = "save" /\ slot[o].stage = "save"))
  BY DEF IndInv, MutationInv, TransactionOK
<1>2. QED  BY Inductive, <1>1, PTL
===============================================================================
