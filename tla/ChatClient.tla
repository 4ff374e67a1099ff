------------------------------ MODULE ChatClient ------------------------------
(* The chat of one browser tab (apps/web/public/bairui-bailongma.js) against    *)
(* the platform's session routes and Hermes: messages that open event streams,  *)
(* the runs they start, approvals, and the stop button.                         *)
(*                                                                              *)
(* The page is one thread; everything between two awaits is one action.         *)
(* Message i opens stream i and starts run i.  Requests to the platform return, *)
(* fail, or return after much else has happened.                                *)
EXTENDS Naturals, Sequences, FiniteSets

CONSTANT MaxMessages    \* bound on the messages of a behaviour

ASSUME ChatAssumption == MaxMessages \in Nat

Messages == 1..MaxMessages
Nobody == 0             \* null, for a message or run

VARIABLES
    page,       \* the fields of "state" that the chat uses, and the button
    phase,      \* phase[i]: how far sendMessage is with message i
    stop,       \* state.stopPromise: the stop in progress
    deciding,   \* deciding[i]: the decision on the approval of run i
    run,        \* run[i]: Hermes's run
    wire,       \* wire[i]: the events of stream i that have not been read
    lost,       \* streams that ended by an error, or with the page
    aborted,    \* streams the page aborted
    told,       \* runs Hermes was told to stop
    asked,      \* messages whose stream was open when the user asked to stop
    overlapped  \* two messages have been under preparation at once

vars == <<page, phase, stop, deciding, run, wire, lost, aborted, told, asked,
          overlapped>>
hermesVars == <<run, wire>>

-------------------------------------------------------------------------------
(* The page.  These operators compute the new "state" from the old one.         *)

NewPage == [controller |-> Nobody, run |-> Nobody, stopRequested |-> FALSE,
            dialog |-> Nobody, button |-> "send"]

NoStop == [at |-> "none", run |-> Nobody, controller |-> Nobody]

setStreaming(p, active) ==
    [p EXCEPT !.button = IF ~active THEN "send"
                         ELSE IF p.stopRequested THEN "stopping" ELSE "stop"]

closeApprovalDialog(p) == [p EXCEPT !.dialog = Nobody]

\* The dialog of an earlier request is replaced.
showApprovalRequest(p, i) ==
    IF p.stopRequested THEN p
    ELSE [closeApprovalDialog(p) EXCEPT !.run = i, !.dialog = i]

\* What the end of a run, and the answer of a stop, leave behind.
Cleared(p) ==
    setStreaming([closeApprovalDialog(p) EXCEPT !.run = Nobody,
                                                !.stopRequested = FALSE], FALSE)

\* The end of another run than the one shown is ignored.
finishActiveRun(p, i) ==
    IF p.run \notin {Nobody, i} THEN p ELSE Cleared(p)

\* sendMessage after its last await: the new stream is the active one.
OpenStream(p, i) ==
    setStreaming([p EXCEPT !.controller = i, !.run = Nobody,
                           !.stopRequested = FALSE], TRUE)

\* stopActiveStream up to its first await.
StopRequested(p) ==
    IF p.controller = Nobody /\ p.run = Nobody THEN p
    ELSE setStreaming([p EXCEPT !.stopRequested = TRUE], TRUE)

\* The request it sends, unless no run is known yet or a stop is under way.
StopOf(p) ==
    IF p.run = Nobody \/ stop # NoStop THEN stop
    ELSE [at |-> "sent", run |-> p.run, controller |-> p.controller]

\* run.started: a stop that was asked for before is sent now.
RunStarted(p, i) ==
    LET q == [p EXCEPT !.run = i] IN
    IF p.stopRequested THEN StopRequested(q) ELSE q

\* Mutant of StopAfter: run.started forgets the stop that was asked for.
StopAfter_Forgotten(p, event) == stop

StopAfter(p, event) ==
    IF event.name = "run.started" /\ p.stopRequested
    THEN StopOf([p EXCEPT !.run = event.run]) ELSE stop

mapHermesEvent(p, event) ==
    CASE event.name = "run.started"      -> RunStarted(p, event.run)
      [] event.name = "approval.request" -> showApprovalRequest(p, event.run)
      [] event.name = "run.ended"        -> finishActiveRun(p, event.run)

-------------------------------------------------------------------------------
(* Sending a message.                                                           *)

Open(i) == phase[i] = "open"
Unsent == {i \in Messages : phase[i] = "unsent"}
Preparing == {i \in Messages : phase[i] = "preparing"}

Init ==
    /\ page = NewPage
    /\ phase = [i \in Messages |-> "unsent"]
    /\ stop = NoStop
    /\ deciding = [i \in Messages |-> "no"]
    /\ run = [i \in Messages |-> "none"]
    /\ wire = [i \in Messages |-> <<>>]
    /\ lost = {} /\ aborted = {} /\ told = {} /\ asked = {}
    /\ overlapped = FALSE

RunInProgress == page.controller # Nobody \/ page.run # Nobody

\* sendMessage up to its first await; "run_in_progress" changes nothing.
sendMessage(i) ==
    /\ i \in Unsent /\ \A j \in Unsent : i <= j
    /\ ~RunInProgress
    /\ phase' = [phase EXCEPT ![i] = "preparing"]
    /\ overlapped' = (overlapped \/ Preparing # {})
    /\ UNCHANGED <<page, stop, deciding, hermesVars, lost, aborted, told, asked>>

\* loadActiveAgent, operationalFailure or ensureSession ends the call.
operationalFailure(i) ==
    /\ i \in Preparing
    /\ phase' = [phase EXCEPT ![i] = "closed"]
    /\ UNCHANGED <<page, stop, deciding, hermesVars, lost, aborted, told, asked,
                   overlapped>>

\* The session is there: sendMessage opens the stream.
ensureSession(i) ==
    /\ i \in Preparing
    /\ phase' = [phase EXCEPT ![i] = "open"]
    /\ page' = OpenStream(page, i)
    /\ UNCHANGED <<stop, deciding, hermesVars, lost, aborted, told, asked,
                   overlapped>>

\* The next event of stream i.
consumeHermesSse(i) ==
    /\ Open(i) /\ i \notin aborted /\ wire[i] # <<>>
    /\ LET event == [name |-> Head(wire[i]), run |-> i] IN
       /\ page' = mapHermesEvent(page, event)
       /\ stop' = StopAfter(page, event)
    /\ wire' = [wire EXCEPT ![i] = Tail(@)]
    /\ UNCHANGED <<phase, deciding, run, lost, aborted, told, asked, overlapped>>

\* The "finally" of the stream's task.
Settle(i) ==
    /\ phase' = [phase EXCEPT ![i] = "closed"]
    /\ page' = setStreaming(
         [page EXCEPT !.controller = IF @ = i THEN Nobody ELSE @],
         page.run # Nobody)
    /\ wire' = [wire EXCEPT ![i] = <<>>]
    /\ UNCHANGED <<stop, deciding, run, aborted, told, asked, overlapped>>

\* The stream has come to its end, or the page has aborted it.
StreamEnds(i) ==
    /\ Open(i)
    /\ i \in aborted \/ (run[i] = "ended" /\ wire[i] = <<>>)
    /\ Settle(i)
    /\ UNCHANGED lost

\* The request is refused, or the connection breaks.
StreamFails(i) ==
    /\ Open(i) /\ i \notin aborted
    /\ Settle(i)
    /\ lost' = lost \cup {i}

-------------------------------------------------------------------------------
(* The stop button and the approval dialog.                                     *)

\* The listener on the button takes the click while a stream is open.
ClickStop ==
    /\ page.controller # Nobody /\ page.button # "stopping"
    /\ page' = StopRequested(page)
    /\ stop' = StopOf(page)
    /\ asked' = asked \cup {i \in Messages : Open(i)}
    /\ UNCHANGED <<phase, deciding, hermesVars, lost, aborted, told, overlapped>>

\* runs/{id}/stop reaches Hermes.
HermesStops ==
    /\ stop.at = "sent"
    /\ stop' = [stop EXCEPT !.at = "told"]
    /\ told' = told \cup {stop.run}
    /\ UNCHANGED <<page, phase, deciding, hermesVars, lost, aborted, asked,
                   overlapped>>

\* Mutant of Stopped: the run shown stays.
Stopped_KeepsRun(p) ==
    [Cleared(p) EXCEPT !.run = p.run,
       !.controller = IF @ = stop.controller THEN Nobody ELSE @]

\* The page after the answer of the stop request.
Stopped(p) ==
    [Cleared(p) EXCEPT !.controller = IF @ = stop.controller THEN Nobody ELSE @]

\* Mutant of StopAnswered: the stream is aborted without waiting for the answer.
StopAnswered_Early ==
    /\ stop # NoStop
    /\ aborted' = aborted \cup
         {i \in Messages : i = stop.controller /\ Open(i)}
    /\ page' = Stopped(page)
    /\ stop' = NoStop
    /\ UNCHANGED <<phase, deciding, hermesVars, lost, told, asked, overlapped>>

StopAnswered ==
    /\ stop.at = "told"
    /\ aborted' = aborted \cup
         {i \in Messages : i = stop.controller /\ Open(i)}
    /\ page' = Stopped(page)
    /\ stop' = NoStop
    /\ UNCHANGED <<phase, deciding, hermesVars, lost, told, asked, overlapped>>

\* The request fails, or its answer is lost.
StopFails ==
    /\ stop # NoStop
    /\ page' = setStreaming([page EXCEPT !.stopRequested = FALSE], RunInProgress)
    /\ stop' = NoStop
    /\ UNCHANGED <<phase, deciding, hermesVars, lost, aborted, told, asked,
                   overlapped>>

\* A choice in the dialog disables its buttons and sends the decision.
submitApproval ==
    /\ page.dialog # Nobody /\ deciding[page.dialog] = "no"
    /\ deciding' = [deciding EXCEPT ![page.dialog] = "sent"]
    /\ UNCHANGED <<page, phase, stop, hermesVars, lost, aborted, told, asked,
                   overlapped>>

\* Hermes takes the decision.
HermesDecides(i) ==
    /\ deciding[i] = "sent"
    /\ deciding' = [deciding EXCEPT ![i] = "taken"]
    /\ run' = [run EXCEPT ![i] = IF @ = "waiting" THEN "resumed" ELSE @]
    /\ UNCHANGED <<page, phase, stop, wire, lost, aborted, told, asked, overlapped>>

\* The answer closes the dialog that is open then.
DecisionAnswered(i) ==
    /\ deciding[i] = "taken"
    /\ deciding' = [deciding EXCEPT ![i] = "done"]
    /\ page' = closeApprovalDialog(page)
    /\ UNCHANGED <<phase, stop, hermesVars, lost, aborted, told, asked, overlapped>>

\* The dialog offers its choices again.
DecisionFails(i) ==
    /\ deciding[i] \in {"sent", "taken"}
    /\ deciding' = [deciding EXCEPT ![i] = "no"]
    /\ UNCHANGED <<page, phase, stop, hermesVars, lost, aborted, told, asked,
                   overlapped>>

\* activateSession and activateAgent reload the page.
activateSession ==
    /\ page' = NewPage
    /\ phase' = [i \in Messages |-> IF i \in Unsent THEN "unsent" ELSE "closed"]
    /\ lost' = lost \cup {i \in Messages : Open(i)}
    /\ stop' = NoStop
    /\ deciding' = [i \in Messages |-> IF i \in Unsent THEN "no" ELSE "done"]
    /\ wire' = [i \in Messages |-> <<>>]
    /\ UNCHANGED <<run, aborted, told, asked, overlapped>>

-------------------------------------------------------------------------------
(* Hermes.                                                                      *)

Emit(i, status, event) ==
    /\ run' = [run EXCEPT ![i] = status]
    /\ wire' = [wire EXCEPT ![i] = IF Open(i) THEN Append(@, event) ELSE @]
    /\ UNCHANGED <<page, phase, stop, deciding, lost, aborted, told, asked,
                   overlapped>>

StartRun(i) ==
    /\ Open(i) /\ run[i] = "none"
    /\ Emit(i, "running", "run.started")

RequestApproval(i) == run[i] = "running" /\ Emit(i, "waiting", "approval.request")

\* A run that waits for a decision ends by itself only when it is stopped.
RunEnds(i) ==
    /\ run[i] \in {"running", "resumed"} \/ (run[i] = "waiting" /\ i \in told)
    /\ Emit(i, "ended", "run.ended")

User == (\E i \in Messages : sendMessage(i)) \/ ClickStop \/ submitApproval
        \/ activateSession

Page == \E i \in Messages :
          operationalFailure(i) \/ ensureSession(i) \/ consumeHermesSse(i)
          \/ StreamEnds(i) \/ StreamFails(i)

Requests == \/ HermesStops \/ StopAnswered \/ StopFails
            \/ \E i \in Messages :
                 HermesDecides(i) \/ DecisionAnswered(i) \/ DecisionFails(i)

Hermes == \E i \in Messages : StartRun(i) \/ RequestApproval(i) \/ RunEnds(i)

Next == User \/ Page \/ Requests \/ Hermes

\* Requests end (the platform's calls of Hermes time out), events that were sent
\* are read, and Hermes answers a stream and ends its runs.  The user owes nothing.
Fairness ==
    /\ \A i \in Messages :
         /\ WF_vars(operationalFailure(i) \/ ensureSession(i))
         /\ WF_vars(consumeHermesSse(i))
         /\ WF_vars(StreamEnds(i))
         /\ WF_vars(StartRun(i))
         /\ WF_vars(RunEnds(i))
         /\ WF_vars(HermesDecides(i) \/ DecisionAnswered(i) \/ DecisionFails(i))
    /\ WF_vars(HermesStops \/ StopAnswered \/ StopFails)

Spec == Init /\ [][Next]_vars /\ Fairness

-------------------------------------------------------------------------------
(* Properties.                                                                  *)

\* The page's fields name messages and runs that were sent.
TypeOK ==
    /\ page.controller \in {Nobody} \cup {i \in Messages : Open(i)}
    /\ page.run \in {Nobody} \cup (Messages \ Unsent)
    /\ page.dialog \in {Nobody} \cup {i \in Messages : run[i] # "none"}
    /\ page.stopRequested \in BOOLEAN
    /\ page.button \in {"send", "stop", "stopping"}
    /\ stop = NoStop \/ (stop.at \in {"sent", "told"} /\ stop.run \in Messages)
    /\ \A i \in Messages : Len(wire[i]) <= 3

\* Hermes is told to stop only runs whose stream was open when the user asked, or
\* broke before: no stop is carried over to a later message.
NoStrayStop == told \subseteq asked \cup lost

\* docs/20: "Stop requests call the Agent-scoped Platform runs/{run_id}/stop route
\* before aborting the browser stream."  sendMessage checks for a run in progress
\* before it awaits the session, so two messages may be under way at once, and
\* then one's stop aborts the other's stream; otherwise the statement holds.
AbortAfterStop == overlapped \/ aborted \subseteq told

\* docs/20: "A stop clicked before run.started is retained and submitted as soon
\* as Hermes provides the run id", when no stop of an earlier run is still under
\* way: its answer would clear the request.
StopRetained ==
    \A i \in Messages :
      /\ page.controller = i /\ page.run = Nobody /\ page.stopRequested
      /\ run[i] = "none" /\ stop = NoStop /\ Preparing = {} /\ ~overlapped
      ~> stop.run = i \/ ~Open(i)

\* The composer does not stay blocked: it always becomes free again, unless a run
\* waits for the user's decision or the stream of the run shown has broken, which
\* only a reload repairs.
Free == ~RunInProgress /\ page.button = "send"
ComposerFreed ==
    []<>(\/ Free
         \/ page.run \in lost
         \/ \E i \in Messages : Open(i) /\ run[i] = "waiting")

\* Together: whose stream and run the page stops, through late answers, broken
\* streams, reloads and messages sent in a row.
PageInv == TypeOK /\ NoStrayStop /\ AbortAfterStop
===============================================================================
