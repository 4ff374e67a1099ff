----------------------------- MODULE ChannelBridge -----------------------------
(* The durable channel bridge: a vendor message enters channel_inbox, an       *)
(* ingress worker leases it, invokes the Agent Runtime and commits the reply   *)
(* to channel_outbox, and a Channel Worker leases the reply, delivers it       *)
(* through a vendor adapter and reports a receipt.  The tables are those of    *)
(* packages/db/postgres-repository.mjs, the workers those of                   *)
(* packages/channels/ingress-worker.mjs and packages/channels/worker.mjs.      *)
(*                                                                             *)
(* Each repository method is one statement or transaction, so one step.  A     *)
(* worker's await points separate its steps; it may die, or its call may be    *)
(* lost, at each.  Lease tokens are fresh for every lease, so the value of     *)
(* attempts stands for the token; a settled row has none.  Time is kept as     *)
(* ticks left until lease_expires_at and available_at.                         *)
EXTENDS Naturals, FiniteSets

CONSTANTS
    Messages,       \* vendor message ids of one binding
    MaxAttempts,    \* max_attempts of channel_inbox and channel_outbox
    LeaseTerm,      \* lease_seconds after clamping
    RetryDelays     \* back-off of a retried row (0: immediately)

ASSUME BridgeAssumption ==
    /\ MaxAttempts \in Nat \ {0}
    /\ LeaseTerm \in Nat \ {0}
    /\ RetryDelays \subseteq Nat

VARIABLES
    inbox,          \* inbox[m]: its channel_inbox row
    outbox,         \* outbox[m]: the channel_outbox row with inbox_id = m
    deadLetters,    \* rows of channel_dead_letters: <<direction, message>>
    jobs,           \* inbox rows ingress workers are processing
    deliveries,     \* outbox rows Channel Workers are delivering
    accepted        \* accepted[m]: attempts whose reply the vendor accepted

bridgeVars == <<inbox, outbox, deadLetters, jobs, deliveries, accepted>>

Row(states) == [state : states, attempts : Nat, lease : Nat, wait : Nat]

NoRow == [state |-> "none", attempts |-> 0, lease |-> 0, wait |-> 0]

NewRow == [NoRow EXCEPT !.state = "pending"]

InboxStates == {"none", "pending", "leased", "retry", "completed", "dead"}

OutboxStates == {"none", "pending", "leased", "retry", "delivered", "failed",
                 "dead"}

\* A leased inbox row in a worker's hands; "invoked" once the Runtime answered.
Job == [message : Messages, token : Nat, invoked : BOOLEAN]

\* A leased outbox row in a worker's hands, with the adapter's outcome.
Delivery == [message : Messages, token : Nat,
             outcome : {"none", "delivered", "retryable", "failed"}]

BridgeInit ==
    /\ inbox = [m \in Messages |-> NoRow]
    /\ outbox = [m \in Messages |-> NoRow]
    /\ deadLetters = {}
    /\ jobs = {}
    /\ deliveries = {}
    /\ accepted = [m \in Messages |-> {}]

-------------------------------------------------------------------------------
(* Leasing, the same for both tables.                                         *)

\* Fault: the last attempt is never made.
Ready_Short(row) ==
    /\ row.attempts + 1 < MaxAttempts
    /\ \/ row.state \in {"pending", "retry"} /\ row.wait = 0
       \/ row.state = "leased" /\ row.lease = 0

\* The WHERE clause of both lease queries.
Ready(row) ==
    /\ row.attempts < MaxAttempts
    /\ \/ row.state \in {"pending", "retry"} /\ row.wait = 0
       \/ row.state = "leased" /\ row.lease = 0

Leased(row) == [row EXCEPT !.state = "leased", !.attempts = @ + 1,
                           !.lease = LeaseTerm]

\* Fault: the token alone decides, whatever the state of the row.
Owned_AnyState(row, token) == row.attempts = token

\* The row a settlement looks for: leased, and under this token.  The lease may
\* have run out, as long as nobody else has taken the row since.
Owned(row, token) == row.state = "leased" /\ row.attempts = token

\* Fault: given up one attempt too early.
Exhausted_Early(row) == row.attempts + 1 >= MaxAttempts

Exhausted(row) == row.attempts >= MaxAttempts

Settled(row, next, delay) == [row EXCEPT !.state = next, !.lease = 0,
                                         !.wait = delay]

-------------------------------------------------------------------------------
(* Ingress.                                                                   *)

\* The first delivery of a message inserts it; ON CONFLICT DO NOTHING makes any
\* repetition a duplicate that changes nothing.
acceptChannelIngress(m) ==
    /\ inbox[m].state = "none"
    /\ inbox' = [inbox EXCEPT ![m] = NewRow]
    /\ UNCHANGED <<outbox, deadLetters, jobs, deliveries, accepted>>

\* LIMIT and SKIP LOCKED may leave any ready row out of the batch.
leaseChannelIngress(batch) ==
    /\ \A m \in batch : Ready(inbox[m])
    /\ inbox' = [m \in Messages |->
                   IF m \in batch THEN Leased(inbox[m]) ELSE inbox[m]]
    /\ jobs' = jobs \cup {[message |-> m, token |-> inbox[m].attempts + 1,
                           invoked |-> FALSE] : m \in batch}
    /\ UNCHANGED <<outbox, deadLetters, deliveries, accepted>>

\* runtimeClient.invoke returns: the Agent has acted on the message.
InvokeRuntime(j) ==
    /\ ~j.invoked
    /\ jobs' = (jobs \ {j}) \cup {[j EXCEPT !.invoked = TRUE]}
    /\ UNCHANGED <<inbox, outbox, deadLetters, deliveries, accepted>>

\* The end of process: the reply and the completion commit together.  A job that
\* lost its lease changes nothing: completeChannelIngress returns null, and the
\* failChannelIngress that follows finds no row either.  When the answer to the
\* commit is lost, process goes on to its catch block with the job in hand.
completeChannelIngress(j, reply, answered) ==
    LET m == j.message IN
    /\ j.invoked
    /\ IF Owned(inbox[m], j.token)
       THEN /\ inbox' = [inbox EXCEPT ![m] = Settled(@, "completed", 0)]
            /\ outbox' = [outbox EXCEPT ![m] =
                            IF reply /\ @.state = "none" THEN NewRow ELSE @]
       ELSE UNCHANGED <<inbox, outbox>>
    /\ jobs' = IF answered THEN jobs \ {j} ELSE jobs
    /\ UNCHANGED <<deadLetters, deliveries, accepted>>

\* process caught an error, before or after the Runtime was invoked.
failChannelIngress(j, delay) ==
    LET m == j.message IN
    /\ IF Owned(inbox[m], j.token)
       THEN /\ inbox' = [inbox EXCEPT ![m] =
                           Settled(@, IF Exhausted(@) THEN "dead" ELSE "retry",
                                   delay)]
            /\ deadLetters' = IF Exhausted(inbox[m])
                              THEN deadLetters \cup {<<"inbound", m>>}
                              ELSE deadLetters
       ELSE UNCHANGED <<inbox, deadLetters>>
    /\ jobs' = jobs \ {j}
    /\ UNCHANGED <<outbox, deliveries, accepted>>

-------------------------------------------------------------------------------
(* Delivery.                                                                  *)

leaseChannelDeliveries(batch) ==
    /\ \A m \in batch : Ready(outbox[m])
    /\ outbox' = [m \in Messages |->
                    IF m \in batch THEN Leased(outbox[m]) ELSE outbox[m]]
    /\ deliveries' = deliveries \cup
         {[message |-> m, token |-> outbox[m].attempts + 1, outcome |-> "none"] :
            m \in batch}
    /\ UNCHANGED <<inbox, deadLetters, jobs, accepted>>

\* deliver: the adapter's result.  An exception is "retryable" whether or not the
\* vendor took the message; no running adapter, or a permanent error, is "failed".
deliver(d, outcome) ==
    LET m == d.message IN
    /\ d.outcome = "none"
    /\ deliveries' = (deliveries \ {d}) \cup {[d EXCEPT !.outcome = outcome]}
    /\ \/ /\ outcome \in {"delivered", "retryable"}
          /\ accepted' = [accepted EXCEPT ![m] = @ \cup {d.token}]
       \/ outcome \in {"retryable", "failed"} /\ UNCHANGED accepted
    /\ UNCHANGED <<inbox, outbox, deadLetters, jobs>>

\* nextState of recordChannelDeliveryReceipt.
NextState(row, outcome) ==
    CASE outcome = "delivered"                      -> "delivered"
      [] outcome = "retryable" /\ ~Exhausted(row)   -> "retry"
      [] outcome = "retryable" /\ Exhausted(row)    -> "dead"
      [] OTHER                                      -> "failed"

\* The receipt of a delivery; one that lost its lease is refused.
recordChannelDeliveryReceipt(d, delay) ==
    LET m == d.message
        next == NextState(outbox[m], d.outcome)
    IN  /\ d.outcome # "none"
        /\ IF Owned(outbox[m], d.token)
           THEN /\ outbox' = [outbox EXCEPT ![m] =
                                Settled(@, next, IF next = "retry" THEN delay
                                                 ELSE @.wait)]
                /\ deadLetters' = IF next \in {"dead", "failed"}
                                  THEN deadLetters \cup {<<"outbound", m>>}
                                  ELSE deadLetters
           ELSE UNCHANGED <<outbox, deadLetters>>
        /\ deliveries' = deliveries \ {d}
        /\ UNCHANGED <<inbox, jobs, accepted>>

-------------------------------------------------------------------------------
(* The workers' hosts and the clock.                                          *)

\* A worker dies, or the call that would have settled the row is lost.
LoseJob(j) ==
    /\ jobs' = jobs \ {j}
    /\ UNCHANGED <<inbox, outbox, deadLetters, deliveries, accepted>>

LoseDelivery(d) ==
    /\ deliveries' = deliveries \ {d}
    /\ UNCHANGED <<inbox, outbox, deadLetters, jobs, accepted>>

Aged(row) == [row EXCEPT !.lease = IF @ = 0 THEN 0 ELSE @ - 1,
                         !.wait = IF @ = 0 THEN 0 ELSE @ - 1]

Tick ==
    /\ \E m \in Messages : \/ inbox[m] # Aged(inbox[m])
                           \/ outbox[m] # Aged(outbox[m])
    /\ inbox' = [m \in Messages |-> Aged(inbox[m])]
    /\ outbox' = [m \in Messages |-> Aged(outbox[m])]
    /\ UNCHANGED <<deadLetters, jobs, deliveries, accepted>>

LeaseIngress ==
    \E batch \in SUBSET Messages \ {{}} : leaseChannelIngress(batch)

LeaseDeliveries ==
    \E batch \in SUBSET Messages \ {{}} : leaseChannelDeliveries(batch)

BridgeNext ==
    \/ \E m \in Messages : acceptChannelIngress(m)
    \/ LeaseIngress
    \/ \E j \in jobs :
         \/ InvokeRuntime(j)
         \/ \E reply, answered \in BOOLEAN :
              completeChannelIngress(j, reply, answered)
         \/ \E delay \in RetryDelays : failChannelIngress(j, delay)
         \/ LoseJob(j)
    \/ LeaseDeliveries
    \/ \E d \in deliveries :
         \/ \E outcome \in {"delivered", "retryable", "failed"} :
              deliver(d, outcome)
         \/ \E delay \in RetryDelays : recordChannelDeliveryReceipt(d, delay)
         \/ LoseDelivery(d)
    \/ Tick

BridgeSpec == BridgeInit /\ [][BridgeNext]_bridgeVars

\* A poll whose limit covers every ready row of the table.
LeaseAllIngress ==
    /\ \E m \in Messages : Ready(inbox[m])
    /\ leaseChannelIngress({m \in Messages : Ready(inbox[m])})

LeaseAllDeliveries ==
    /\ \E m \in Messages : Ready(outbox[m])
    /\ leaseChannelDeliveries({m \in Messages : Ready(outbox[m])})

\* Time passes and both kinds of worker keep polling; nothing is promised about a
\* worker that holds a row.
BridgeFairSpec == BridgeSpec /\ WF_bridgeVars(Tick) /\ WF_bridgeVars(LeaseAllIngress)
                             /\ WF_bridgeVars(LeaseAllDeliveries)

-------------------------------------------------------------------------------
(* Properties.                                                                *)

\* Every variable has its type, and no row is leased more often than allowed.
BridgeTypeOK ==
    /\ inbox \in [Messages -> Row(InboxStates)]
    /\ outbox \in [Messages -> Row(OutboxStates)]
    /\ \A m \in Messages : /\ inbox[m].attempts <= MaxAttempts
                           /\ outbox[m].attempts <= MaxAttempts
    /\ deadLetters \subseteq {"inbound", "outbound"} \X Messages
    /\ jobs \subseteq Job
    /\ deliveries \subseteq Delivery
    /\ accepted \in [Messages -> SUBSET Nat]

\* A message whose reply exists is completed and stays so: no worker that lost its
\* lease puts it back in the queue or into the dead letters.
ReplyFollowsCompletion ==
    \A m \in Messages : outbox[m].state # "none" =>
        inbox[m].state = "completed" /\ <<"inbound", m>> \notin deadLetters

\* A reply recorded as delivered was accepted by the vendor under the lease that
\* reported it, not under an earlier one that was taken over.
DeliveredWasAccepted ==
    \A m \in Messages : outbox[m].state = "delivered" =>
        outbox[m].attempts \in accepted[m]

\* Dead letters are exactly the rows that were given up: on the last attempt, or
\* for a permanent failure.
DeadLettersMatch ==
    \A m \in Messages :
        /\ <<"inbound", m>> \in deadLetters <=> inbox[m].state = "dead"
        /\ <<"outbound", m>> \in deadLetters <=>
             outbox[m].state \in {"dead", "failed"}
        /\ inbox[m].state = "dead" => inbox[m].attempts = MaxAttempts
        /\ outbox[m].state = "dead" => outbox[m].attempts = MaxAttempts

\* A settled row is never leased or settled again, whatever late workers report.
SettledRowsStay ==
    [][\A m \in Messages :
          /\ inbox[m].state \in {"completed", "dead"} =>
               inbox'[m].state = inbox[m].state
          /\ outbox[m].state \in {"delivered", "failed", "dead"} =>
               outbox'[m].state = outbox[m].state]_bridgeVars

\* No message and no reply starves: each is settled or has used all its attempts.
NoStarvation ==
    \A m \in Messages :
        /\ inbox[m].state = "pending" ~>
             \/ inbox[m].state \in {"completed", "dead"}
             \/ inbox[m].attempts = MaxAttempts
        /\ outbox[m].state = "pending" ~>
             \/ outbox[m].state \in {"delivered", "failed", "dead"}
             \/ outbox[m].attempts = MaxAttempts

\* Together: replies, dead letters and delivery receipts account for every message,
\* however often its inbox and outbox rows change hands.
BridgeInv ==
    /\ BridgeTypeOK
    /\ ReplyFollowsCompletion
    /\ DeliveredWasAccepted
    /\ DeadLettersMatch
===============================================================================
