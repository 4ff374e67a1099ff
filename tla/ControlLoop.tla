------------------------------ MODULE ControlLoop ------------------------------
(* One server agent and the control authority it polls.  The agent is the      *)
(* daemon of server-agent/daemon.mjs running executeControlCycle of            *)
(* server-agent/control-client.mjs; its calls travel as HTTP requests that may *)
(* be slow, lost or answered too late, and the daemon may crash and restart    *)
(* between any two steps.  A request that was sent is handled at most once     *)
(* (the nonce claims of docs/16-control-command-delivery.md), and a request    *)
(* whose caller gave up may still be handled.                                  *)
(*                                                                             *)
(* The service leases one command per call (limit 1), so a cycle has one job.  *)
(* Agent and authority read the same clock.                                    *)
EXTENDS ControlAuthority

CONSTANT NoCommand      \* stands for the command of an empty lease

ASSUME LoopAssumption == NoCommand \notin Commands /\ MaxReceiptSeq >= 3

VARIABLES
    phase,          \* where the agent is in executeControlCycle
    job,            \* the leased command the agent works on, or NoJob
    polls,          \* lease requests in flight: the awaited one, a stray one
    receipts,       \* receipts in flight
    awaits,         \* state of the receipt whose answer the agent awaits
    reply,          \* answer to the agent's outstanding request
    seenLeaseIds,   \* the daemon's in-memory replay cache
    executions      \* executions[c]: times the executor was started on c

agentVars == <<phase, job, polls, receipts, awaits, reply, seenLeaseIds,
               executions>>
loopVars == <<vars, agentVars>>

Phases == {"idle", "leasing", "checking", "accepting", "starting", "ready",
           "executing", "observing", "expiring", "closing"}

\* Phases in which the agent waits for an answer.
Waiting == {"leasing", "accepting", "starting", "expiring", "closing"}

Job == [command : Commands, attempt : Nat \ {0}, leaseExpiresAt : Nat,
        expiresAt : Nat]

NoJob == [command |-> NoCommand, attempt |-> 0, leaseExpiresAt |-> 0,
          expiresAt |-> 0]

\* "claims" is the observation_version of a completion candidate, 0 otherwise.
Receipt == [command : Commands, attempt : Nat \ {0}, state : ReceiptStates,
            seq : 1..3, done : Nat, claims : Nat]

LoopInit ==
    /\ Init
    /\ phase = "idle"
    /\ job = NoJob
    /\ polls = {}
    /\ receipts = {}
    /\ awaits = "none"
    /\ reply = "none"
    /\ seenLeaseIds = {}
    /\ executions = [c \in Commands |-> 0]

-------------------------------------------------------------------------------
(* The authority's side of the wire.                                          *)

\* The lease envelope for command c, as leaseCommand grants it.
Grant(c, term) == [command |-> c, attempt |-> Len(leases[c]) + 1,
                   leaseExpiresAt |-> leaseExpiresAt(c, term),
                   expiresAt |-> terms[c].expiresAt]

\* The answer to lease request p reaches the agent only if it still waits.
AnswerPoll(p, grant) ==
    /\ polls' = polls \ {p}
    /\ IF p = "awaited" THEN job' = grant /\ reply' = "ok"
       ELSE UNCHANGED <<job, reply>>
    /\ UNCHANGED <<phase, receipts, awaits, seenLeaseIds, executions>>

\* The authority handles a lease request: one command, or none to be had.
HandlePoll(p) ==
    \/ \E c \in Commands, term \in LeaseTerms :
         leaseCommand(c, term) /\ AnswerPoll(p, Grant(c, term))
    \/ /\ \A c \in Commands : ~Leasable(c) \/ Len(leases[c]) = MaxAttempts
       /\ \/ leaseNothing
          \/ (\A c \in Commands : ~HasLapsed(c)) /\ UNCHANGED vars
       /\ AnswerPoll(p, NoJob)

\* The checks of recordReceipt on a receipt that has arrived.
Admits(r) ==
    /\ r.attempt \in DOMAIN leases[r.command]
    /\ LeaseAccepts(leases[r.command][r.attempt], r.seq)
    /\ r.state \in transitions(state[r.command])

\* Whether receipt r is the one the agent waits for.
Awaited(r) == /\ r.command = job.command
              /\ r.attempt = job.attempt
              /\ r.state = awaits

\* The authority handles a receipt: it records or refuses it.
HandleReceipt(r) ==
    /\ IF Admits(r)
       THEN recordReceipt(r.command, r.attempt, r.state, r.seq, r.done,
                          r.claims, r.state = "completion_candidate")
       ELSE UNCHANGED vars
    /\ receipts' = receipts \ {r}
    /\ reply' = IF ~Awaited(r) THEN reply
                ELSE IF Admits(r) THEN "ok" ELSE "refused"
    /\ UNCHANGED <<phase, job, polls, awaits, seenLeaseIds, executions>>

-------------------------------------------------------------------------------
(* The agent.                                                                 *)

\* runControlDaemon starts a cycle: leaseControlCommands sends its request.
Poll ==
    /\ phase = "idle"
    /\ phase' = "leasing"
    /\ polls' = polls \cup {"awaited"}
    /\ UNCHANGED <<vars, job, receipts, awaits, reply, seenLeaseIds, executions>>

\* The cycle ends, normally or by an exception the daemon logs.  A lease request
\* nobody waits for any more stays on the wire.
EndCycle ==
    /\ phase' = "idle"
    /\ job' = NoJob
    /\ polls' = {"stray" : p \in polls}
    /\ awaits' = "none"
    /\ reply' = "none"

\* assertLeaseBinding: the lease is alive and was not processed before.
Binds == /\ job # NoJob
         /\ now < job.leaseExpiresAt
         /\ <<job.command, job.attempt>> \notin seenLeaseIds

ReceiveLease ==
    /\ phase = "leasing" /\ reply = "ok"
    /\ IF Binds
       THEN /\ phase' = "checking"
            /\ reply' = "none"
            /\ seenLeaseIds' = seenLeaseIds \cup {<<job.command, job.attempt>>}
            /\ UNCHANGED <<job, polls, awaits>>
       ELSE EndCycle /\ UNCHANGED seenLeaseIds
    /\ UNCHANGED <<vars, receipts, executions>>

\* Fault: completed_at is taken from the lease.
Send_LeaseTime(s, seq, claims, next) ==
    /\ receipts' = receipts \cup
         {[command |-> job.command, attempt |-> job.attempt, state |-> s,
           seq |-> seq, done |-> job.leaseExpiresAt, claims |-> claims]}
    /\ phase' = next
    /\ awaits' = s
    /\ reply' = "none"
    /\ UNCHANGED <<vars, job, polls, seenLeaseIds>>

\* sendCommandReceipt: completed_at is the instant of sending.
Send(s, seq, claims, next) ==
    /\ receipts' = receipts \cup
         {[command |-> job.command, attempt |-> job.attempt, state |-> s,
           seq |-> seq, done |-> now, claims |-> claims]}
    /\ phase' = next
    /\ awaits' = s
    /\ reply' = "none"
    /\ UNCHANGED <<vars, job, polls, seenLeaseIds>>

JobExpired == job.leaseExpiresAt <= now \/ job.expiresAt <= now

\* The expiry check at the head of the loop, then the first receipt.
CheckLease ==
    /\ phase = "checking"
    /\ IF JobExpired THEN Send("expired", 1, 0, "closing")
       ELSE Send("accepted", 1, 0, "accepting")
    /\ UNCHANGED executions

AcceptedOk ==
    /\ phase = "accepting" /\ reply = "ok"
    /\ Send("running", 2, 0, "starting")
    /\ UNCHANGED executions

StartedOk ==
    /\ phase = "starting" /\ reply = "ok"
    /\ phase' = "ready"
    /\ awaits' = "none"
    /\ reply' = "none"
    /\ UNCHANGED <<vars, job, polls, receipts, seenLeaseIds, executions>>

\* The secret resolver is missing or fails: the catch block reports it.
ResolveFails ==
    /\ phase = "ready"
    /\ Send("failed", 3, 0, "closing")
    /\ UNCHANGED executions

\* executor.execute is called; nothing looks at the clock first.
Execute ==
    /\ phase = "ready"
    /\ phase' = "executing"
    /\ executions' = [executions EXCEPT ![job.command] = @ + 1]
    /\ UNCHANGED <<vars, job, polls, receipts, awaits, reply, seenLeaseIds>>

ExecuteReturns ==
    /\ phase = "executing"
    /\ IF JobExpired THEN Send("expired", 3, 0, "expiring")
       ELSE /\ phase' = "observing"
            /\ UNCHANGED <<vars, job, polls, receipts, awaits, reply, seenLeaseIds>>
    /\ UNCHANGED executions

\* The executor or the observer throws.
ExecuteThrows ==
    /\ phase \in {"executing", "observing"}
    /\ Send("failed", 3, 0, "closing")
    /\ UNCHANGED executions

\* A completion candidate needs an observation version and evidence; without
\* them the local validation turns it into a failure.
Observed ==
    /\ phase = "observing"
    /\ \/ \E claims \in 1..MaxObservation :
            Send("completion_candidate", 3, claims, "closing")
       \/ Send("failed", 3, 0, "closing")
    /\ UNCHANGED executions

\* The "expired" receipt after an execution is sent inside the try block: when it
\* is refused or times out, the catch block sends "failed".
ExpiryUnreported ==
    /\ phase = "expiring"
    /\ Send("failed", 3, 0, "closing")
    /\ UNCHANGED executions

\* An answer that ends the cycle: a closing receipt's, or any refusal.
CycleOver ==
    /\ \/ phase \in {"closing", "expiring"} /\ reply = "ok"
       \/ phase \in Waiting \ {"expiring"} /\ reply = "refused"
    /\ EndCycle
    /\ UNCHANGED <<vars, receipts, seenLeaseIds, executions>>

\* AbortSignal.timeout fires: the request, or its answer, is abandoned.
TimeOut ==
    /\ phase \in Waiting \ {"expiring"}
    /\ EndCycle
    /\ UNCHANGED <<vars, receipts, seenLeaseIds, executions>>

\* The process dies; the restarted daemon has lost its job and its replay cache.
Crash ==
    /\ phase # "idle"
    /\ EndCycle
    /\ seenLeaseIds' = {}
    /\ UNCHANGED <<vars, receipts, executions>>

\* What the daemon does as long as it runs.
AgentStep ==
    \/ Poll \/ ReceiveLease \/ CheckLease \/ AcceptedOk \/ StartedOk
    \/ ResolveFails \/ Execute \/ ExecuteReturns \/ ExecuteThrows
    \/ Observed \/ ExpiryUnreported \/ CycleOver \/ TimeOut

-------------------------------------------------------------------------------
(* The rest of the world: the clock, users, operators, the verifier, and other  *)
(* servers, whose polls expire lapsed leases of every deployment.               *)
Elsewhere ==
    /\ \/ Tick
       \/ PutDesiredState
       \/ RecordObservation
       \/ leaseNothing
       \/ \E c \in Commands :
            RequestCommand(c) \/ DecideApproval(c) \/ VerifyCommand(c)
    /\ UNCHANGED agentVars

LoopNext ==
    \/ Elsewhere
    \/ \E p \in polls : HandlePoll(p)
    \/ \E r \in receipts : HandleReceipt(r)
    \/ AgentStep
    \/ Crash

LoopSpec == LoopInit /\ [][LoopNext]_loopVars

\* Time passes, the daemon goes on (every wait has a timeout and the executor
\* returns or throws), and a lease request that stays on the wire is handled.
\* Nothing is assumed of receipts, of answers or of crashes.
LoopFairSpec ==
    /\ LoopSpec
    /\ WF_loopVars(Tick /\ UNCHANGED agentVars)
    /\ WF_loopVars(AgentStep)
    /\ WF_loopVars(\E p \in polls : HandlePoll(p))

-------------------------------------------------------------------------------
(* Properties.                                                                *)

\* Every variable of the agent has its type.
LoopTypeOK ==
    /\ phase \in Phases
    /\ job \in Job \cup {NoJob}
    /\ polls \subseteq {"awaited", "stray"}
    /\ receipts \subseteq Receipt
    /\ awaits \in ReceiptStates \cup {"none"}
    /\ reply \in {"none", "ok", "refused"}
    /\ seenLeaseIds \subseteq Commands \X (Nat \ {0})
    /\ executions \in [Commands -> Nat]

\* However requests are lost or late and however often the daemon crashes, the
\* executor is started on a command at most once (executeControlCycle runs it
\* only after the authority has acknowledged "running").
ExecutesAtMostOnce == \A c \in Commands : executions[c] <= 1

\* The agent works on a command only under the latest attempt, and only one the
\* authority has recorded as started: it never runs what somebody else was given.
ExecutionIsOwned ==
    phase \in {"ready", "executing", "observing"} =>
        /\ job.attempt = Len(leases[job.command])
        /\ leases[job.command][job.attempt].started

\* What the authority judges or has accepted was executed: no stray, repeated or
\* reordered receipt completes a command nobody ran.
OutcomeHasExecution ==
    \A c \in Commands :
        state[c] \in {"verifying", "succeeded"} => executions[c] = 1

\* The authority, driven by real agents, behaves as ControlAuthority says, so
\* that everything proved of it holds of the composition.
ImplementsAuthority == Spec

\* An execution is accounted for: even if the agent dies in the middle of it and
\* every receipt is lost, the command leaves the hands of the server.
WorkIsSettled ==
    \A c \in Commands :
        executions[c] > 0 ~> state[c] \in TerminalStates \cup {"verifying"}

\* Together: what the server executes and reports, over lost, late and refused
\* requests and crashes, is what the authority gave it.
ExecutionInv == LoopTypeOK /\ ExecutionIsOwned /\ OutcomeHasExecution
===============================================================================
