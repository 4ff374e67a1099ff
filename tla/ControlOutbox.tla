----------------------------- MODULE ControlOutbox -----------------------------
(* The control outbox: appendEvent and appendGlobalChange insert a row with    *)
(* every change of the authority, publishers lease rows (leaseOutbox), deliver *)
(* them and settle the lease (settleOutbox).  Publishers are callers of the    *)
(* service outside the repository: they may be slow, crash, or lose an answer. *)
(*                                                                             *)
(* Time is kept as countdowns: leaseLeft and waitLeft are the ticks until      *)
(* lease_expires_at and available_at.  The lease token is random and new for   *)
(* every lease, so the value of attempts at the lease stands for it.           *)
EXTENDS Naturals, FiniteSets

CONSTANTS
    Messages,       \* rows that events may insert
    Publishers,     \* callers of leaseOutbox
    OutboxAttempts, \* control_outbox.max_attempts
    LeaseTerm,      \* lease_seconds after clamping
    RetryDelays     \* retry_delay_seconds after clamping to 1..3600

ASSUME OutboxAssumption ==
    /\ OutboxAttempts \in Nat \ {0}
    /\ LeaseTerm \in Nat \ {0}
    /\ RetryDelays \subseteq Nat \ {0}

VARIABLES
    rowState,       \* rowState[m]: control_outbox.state, "none" if no row
    attempts,       \* attempts[m]: control_outbox.attempts
    leaseLeft,      \* leaseLeft[m]: ticks until lease_expires_at
    waitLeft,       \* waitLeft[m]: ticks until available_at
    deadLetters,    \* deadLetters[m]: rows of control_dead_letters for m
    holding,        \* holding[p]: leases the publisher believes it has
    sent            \* sent[m]: attempts under which m was delivered downstream

outboxVars == <<rowState, attempts, leaseLeft, waitLeft, deadLetters, holding, sent>>

States == {"none", "pending", "processing", "retry", "published", "dead_letter"}

OutboxGrant == [message : Messages, token : Nat, sent : BOOLEAN]

OutboxInit ==
    /\ rowState = [m \in Messages |-> "none"]
    /\ attempts = [m \in Messages |-> 0]
    /\ leaseLeft = [m \in Messages |-> 0]
    /\ waitLeft = [m \in Messages |-> 0]
    /\ deadLetters = [m \in Messages |-> 0]
    /\ holding = [p \in Publishers |-> {}]
    /\ sent = [m \in Messages |-> {}]

-------------------------------------------------------------------------------
(* The repository.                                                            *)

\* A change of the authority commits together with its outbox row.
appendEvent(m) ==
    /\ rowState[m] = "none"
    /\ rowState' = [rowState EXCEPT ![m] = "pending"]
    /\ UNCHANGED <<attempts, leaseLeft, waitLeft, deadLetters, holding, sent>>

\* Fault: a lease is taken back one tick too early.
LeaseExpired_Early(m) == rowState[m] = "processing" /\ leaseLeft[m] <= 1

LeaseExpired(m) == rowState[m] = "processing" /\ leaseLeft[m] = 0

\* The first UPDATE of leaseOutbox puts every expired lease back to "retry".
RecoveredState(m) == IF LeaseExpired(m) THEN "retry" ELSE rowState[m]

RecoveredWait(m) == IF LeaseExpired(m) THEN 0 ELSE waitLeft[m]

\* Fault: the last attempt is never made.
Ready_Short(m) ==
    /\ RecoveredState(m) \in {"pending", "retry"}
    /\ RecoveredWait(m) = 0
    /\ attempts[m] + 1 < OutboxAttempts

\* The SELECT of leaseOutbox, after that UPDATE.
Ready(m) ==
    /\ RecoveredState(m) \in {"pending", "retry"}
    /\ RecoveredWait(m) = 0
    /\ attempts[m] < OutboxAttempts

\* One publisher leases a batch of ready rows: LIMIT, and SKIP LOCKED passing
\* over rows other publishers are leasing, may leave any of them out.
leaseOutbox(p, batch) ==
    /\ \A m \in batch : Ready(m)
    /\ rowState' = [m \in Messages |->
                      IF m \in batch THEN "processing" ELSE RecoveredState(m)]
    /\ attempts' = [m \in Messages |->
                      IF m \in batch THEN attempts[m] + 1 ELSE attempts[m]]
    /\ leaseLeft' = [m \in Messages |->
                       IF m \in batch THEN LeaseTerm ELSE leaseLeft[m]]
    /\ waitLeft' = [m \in Messages |-> RecoveredWait(m)]
    /\ holding' = [holding EXCEPT ![p] = @ \cup
                     {[message |-> m, token |-> attempts[m] + 1, sent |-> FALSE] :
                        m \in batch}]
    /\ UNCHANGED <<deadLetters, sent>>

\* Fault: any holder of the row's id may settle it.
Settles_AnyToken(g) ==
    rowState[g.message] = "processing" /\ leaseLeft[g.message] > 0

\* settleOutbox accepts the current token of an unexpired lease only.
Settles(g) ==
    /\ rowState[g.message] = "processing"
    /\ attempts[g.message] = g.token
    /\ leaseLeft[g.message] > 0

\* The row after a settlement that reports a failure.
FailedState(m) == IF attempts[m] >= OutboxAttempts THEN "dead_letter" ELSE "retry"

\* A settlement the authority accepts.
settleOutbox(p, g, outcome, delay) ==
    LET m == g.message
        next == IF outcome = "published" THEN "published" ELSE FailedState(m)
    IN  /\ Settles(g)
        /\ rowState' = [rowState EXCEPT ![m] = next]
        /\ leaseLeft' = [leaseLeft EXCEPT ![m] = 0]
        /\ waitLeft' = [waitLeft EXCEPT ![m] = IF next = "retry" THEN delay ELSE @]
        /\ deadLetters' = [deadLetters EXCEPT ![m] =
                             IF next = "dead_letter" THEN @ + 1 ELSE @]
        /\ holding' = [holding EXCEPT ![p] = @ \ {g}]
        /\ UNCHANGED <<attempts, sent>>

-------------------------------------------------------------------------------
(* The publishers (external).                                                 *)

\* The publisher delivers a message it holds, whether or not its lease is alive.
Deliver(p, g) ==
    /\ ~g.sent
    /\ sent' = [sent EXCEPT ![g.message] = @ \cup {g.token}]
    /\ holding' = [holding EXCEPT ![p] = (@ \ {g}) \cup {[g EXCEPT !.sent = TRUE]}]
    /\ UNCHANGED <<rowState, attempts, leaseLeft, waitLeft, deadLetters>>

\* It reports "published" after a delivery and "retry" otherwise.
Settle(p, g) ==
    IF g.sent THEN settleOutbox(p, g, "published", 0)
    ELSE \E delay \in RetryDelays : settleOutbox(p, g, "retry", delay)

\* It gives up a lease the authority no longer honours, or dies with what it has.
Forget(p, g) ==
    /\ holding' = [holding EXCEPT ![p] = @ \ {g}]
    /\ UNCHANGED <<rowState, attempts, leaseLeft, waitLeft, deadLetters, sent>>

Countdown(t) == IF t = 0 THEN 0 ELSE t - 1

OutboxTick ==
    /\ \E m \in Messages : leaseLeft[m] > 0 \/ waitLeft[m] > 0
    /\ leaseLeft' = [m \in Messages |-> Countdown(leaseLeft[m])]
    /\ waitLeft' = [m \in Messages |-> Countdown(waitLeft[m])]
    /\ UNCHANGED <<rowState, attempts, deadLetters, holding, sent>>

\* A call of leaseOutbox that finds work: rows to recover or rows to lease.
LeaseOutbox(p) ==
    \E batch \in SUBSET Messages :
        /\ batch # {} \/ \E m \in Messages : LeaseExpired(m)
        /\ leaseOutbox(p, batch)

\* Every ready row is leased when a call's limit covers them and no other
\* publisher is in the way.
LeaseAll ==
    \E p \in Publishers :
        /\ \E m \in Messages : Ready(m)
        /\ leaseOutbox(p, {m \in Messages : Ready(m)})

OutboxNext ==
    \/ \E m \in Messages : appendEvent(m)
    \/ \E p \in Publishers :
         \/ LeaseOutbox(p)
         \/ \E g \in holding[p] : Deliver(p, g) \/ Settle(p, g) \/ Forget(p, g)
    \/ OutboxTick

OutboxSpec == OutboxInit /\ [][OutboxNext]_outboxVars

\* Time passes and publishers keep polling; nothing is promised about a
\* publisher that holds a lease.
OutboxFairSpec == OutboxSpec /\ WF_outboxVars(OutboxTick) /\ WF_outboxVars(LeaseAll)

-------------------------------------------------------------------------------
(* Properties.                                                                *)

\* Every variable has its type.
OutboxTypeOK ==
    /\ rowState \in [Messages -> States]
    /\ attempts \in [Messages -> 0..OutboxAttempts]
    /\ leaseLeft \in [Messages -> 0..LeaseTerm]
    /\ waitLeft \in [Messages -> Nat]
    /\ deadLetters \in [Messages -> Nat]
    /\ holding \in [Publishers -> SUBSET OutboxGrant]
    /\ sent \in [Messages -> SUBSET Nat]

\* A message is dead-lettered once, when its attempts are used up, and a row that
\* was published has no dead letter (settleOutbox).
DeadLetterOnce ==
    \A m \in Messages :
        /\ deadLetters[m] = IF rowState[m] = "dead_letter" THEN 1 ELSE 0
        /\ rowState[m] = "dead_letter" => attempts[m] = OutboxAttempts

\* A row marked published was delivered under the very lease that settled it: a
\* publisher whose lease was taken over cannot settle for its successor.
PublishedWasSent ==
    \A m \in Messages : rowState[m] = "published" => attempts[m] \in sent[m]

\* While a publisher's lease is alive nobody else moves the row.
HolderUndisturbed ==
    [][\A p \in Publishers : \A g \in holding[p] :
          Settles(g) /\ g \in holding'[p] =>
              /\ rowState'[g.message] = "processing"
              /\ attempts'[g.message] = g.token]_outboxVars

\* No row starves: each is published, dead-lettered, or has used all its attempts.
NoStarvation ==
    \A m \in Messages : rowState[m] = "pending" ~>
        \/ rowState[m] \in {"published", "dead_letter"}
        \/ attempts[m] = OutboxAttempts

\* Together: whoever settles a row late, twice or after another publisher, a row is
\* settled once, by the lease that sent it.
SettlementInv == OutboxTypeOK /\ DeadLetterOnce /\ PublishedWasSent
===============================================================================
