--------------------------- MODULE ChatClientProofs ---------------------------
(* Proofs about ChatClient for every number of messages.                        *)
EXTENDS ChatClient, SequenceTheorems, TLAPS

-------------------------------------------------------------------------------
(* The inductive invariant.                                                     *)

Phases == {"unsent", "preparing", "open", "closed"}
RunStates == {"none", "running", "waiting", "resumed", "ended"}
EventNames == {"run.started", "approval.request", "run.ended"}
MaybeMessage == Messages \cup {Nobody}

PageType == [controller : MaybeMessage, run : MaybeMessage, stopRequested : BOOLEAN,
             dialog : MaybeMessage, button : {"send", "stop", "stopping"}]
StopType == [at : {"sent", "told"}, run : Messages, controller : MaybeMessage]

Types ==
    /\ page \in PageType
    /\ phase \in [Messages -> Phases]
    /\ stop = NoStop \/ stop \in StopType
    /\ deciding \in [Messages -> {"no", "sent", "taken", "done"}]
    /\ run \in [Messages -> RunStates]
    /\ wire \in [Messages -> Seq(EventNames)]
    /\ lost \subseteq Messages /\ aborted \subseteq Messages
    /\ told \subseteq Messages /\ asked \subseteq Messages
    /\ overlapped \in BOOLEAN

\* The number of events Hermes has emitted for a run is at most this.
Emitted(s) == CASE s = "none" -> 0 [] s = "running" -> 1
                [] s \in {"waiting", "resumed"} -> 2 [] s = "ended" -> 3

\* Only an open stream has unread events, no more than its run has emitted; the
\* end of a run is the last of them.
StreamOrder ==
    \A i \in Messages :
        /\ Len(wire[i]) <= Emitted(run[i])
        /\ wire[i] # <<>> => Open(i)
        /\ run[i] = "ended" /\ wire[i] # <<>> => wire[i][Len(wire[i])] = "run.ended"
        /\ i \in lost => phase[i] = "closed"
        /\ i \in aborted => phase[i] \in {"open", "closed"}
        /\ phase[i] \in {"unsent", "preparing"} => run[i] = "none"

\* The page shows a run whose end it has not read, or whose stream broke.
RunShown ==
    page.run # Nobody /\ page.run \notin lost =>
        /\ Open(page.run) /\ page.run \notin aborted
        /\ run[page.run] = "ended" => wire[page.run] # <<>>

\* Whoever has an open stream while a stop is asked for has been asked about; the
\* stop under way is one of those.
StopAsked ==
    /\ page.stopRequested => \A i \in Messages : Open(i) => i \in asked
    /\ stop # NoStop => stop.run \in asked \cup lost
    /\ stop.at = "told" => stop.run \in told

\* As long as no two messages were prepared at once there is one message under
\* way: the one in preparation or the one whose stream the page reads.
OneUnderWay ==
    ~overlapped =>
        /\ \A i, j \in Preparing : i = j
        /\ Preparing # {} => ~RunInProgress
        /\ \A i \in Messages : Open(i) /\ i \notin aborted => page.controller = i
        /\ page.controller \in {Nobody, page.run} \/ page.run = Nobody
        /\ stop # NoStop => stop.controller \in {Nobody, stop.run}

IndInv == Types /\ PageInv /\ StreamOrder /\ RunShown /\ StopAsked /\ OneUnderWay

-------------------------------------------------------------------------------
(* What the operators of the page do to its fields.                             *)

\* Message numbers are not Nobody.
LEMMA Messages1 == Nobody \notin Messages
  BY DEF Messages, Nobody

\* setStreaming changes the button alone.
LEMMA SetStreaming ==
    ASSUME NEW p \in PageType, NEW b \in BOOLEAN
    PROVE  /\ setStreaming(p, b) \in PageType
           /\ setStreaming(p, b).controller = p.controller
           /\ setStreaming(p, b).run = p.run
           /\ setStreaming(p, b).stopRequested = p.stopRequested
           /\ setStreaming(p, b).dialog = p.dialog
  BY DEF setStreaming, PageType

\* The end of a run leaves only the stream's controller.
LEMMA ClearedPage ==
    ASSUME NEW p \in PageType
    PROVE  /\ Cleared(p) \in PageType
           /\ Cleared(p).controller = p.controller
           /\ Cleared(p).run = Nobody /\ Cleared(p).dialog = Nobody
           /\ Cleared(p).stopRequested = FALSE
<1> DEFINE q == [closeApprovalDialog(p) EXCEPT !.run = Nobody, !.stopRequested = FALSE]
<1>1. /\ q \in PageType /\ q.controller = p.controller /\ q.run = Nobody
      /\ q.dialog = Nobody /\ q.stopRequested = FALSE
  BY DEF closeApprovalDialog, PageType, MaybeMessage
<1> HIDE DEF q
<1>2. QED  BY <1>1, SetStreaming DEF Cleared, q

\* What reading an event of run i does to the page: it keeps the controller and
\* asks for no stop of its own; the run shown is i, the former one, or none.
LEMMA EventPage ==
    ASSUME NEW p \in PageType, NEW i \in Messages, NEW name \in EventNames,
           NEW q, q = mapHermesEvent(p, [name |-> name, run |-> i])
    PROVE  /\ q \in PageType /\ q.controller = p.controller
           /\ q.stopRequested => p.stopRequested
           /\ q.dialog \in {p.dialog, i, Nobody}
           /\ q.run \in {p.run, i, Nobody}
           /\ name = "run.ended" => q.run # i
<1>1. CASE name = "run.started"
  <2> DEFINE r == [p EXCEPT !.run = i]
  <2>1. q = RunStarted(p, i)
    BY <1>1 DEF mapHermesEvent
  <2>2. /\ r \in PageType /\ r.controller = p.controller /\ r.run = i
        /\ r.dialog = p.dialog /\ r.stopRequested = p.stopRequested
    BY DEF PageType, MaybeMessage
  <2>3. CASE ~p.stopRequested
    BY <1>1, <2>1, <2>2, <2>3 DEF RunStarted
  <2>4. CASE p.stopRequested
    <3> DEFINE t == [r EXCEPT !.stopRequested = TRUE]
    <3>1. q = setStreaming(t, TRUE)
      BY <2>1, <2>2, <2>4, Messages1 DEF RunStarted, StopRequested
    <3>2. /\ t \in PageType /\ t.controller = p.controller /\ t.run = i
          /\ t.dialog = p.dialog /\ t.stopRequested = TRUE
      BY <2>2 DEF PageType
    <3> HIDE DEF t
    <3>3. QED  BY <1>1, <2>4, <3>1, <3>2, SetStreaming
  <2>5. QED  BY <2>3, <2>4 DEF PageType
<1>2. CASE name = "approval.request"
  BY <1>2 DEF mapHermesEvent, showApprovalRequest, closeApprovalDialog, PageType, MaybeMessage
<1>3. CASE name = "run.ended"
  <2>1. q = finishActiveRun(p, i)
    BY <1>3 DEF mapHermesEvent
  <2>2. QED  BY <2>1, ClearedPage, Messages1 DEF finishActiveRun
<1>4. QED  BY <1>1, <1>2, <1>3 DEF EventNames

-------------------------------------------------------------------------------
(* The steps of sendMessage.                                                    *)

\* A message that is sent waits for its session and has no stream yet.
LEMMA SendStep ==
    ASSUME IndInv, NEW i \in Messages, sendMessage(i)
    PROVE  IndInv'
<1>1. /\ phase[i] = "unsent" /\ phase' = [phase EXCEPT ![i] = "preparing"]
      /\ page.controller = Nobody /\ page.run = Nobody
      /\ overlapped' = (overlapped \/ Preparing # {})
      /\ UNCHANGED <<page, stop, deciding, run, wire, lost, aborted, told, asked>>
  BY DEF sendMessage, Unsent, RunInProgress, hermesVars
<1>2. Types'
  BY <1>1 DEF IndInv, Types, Phases
<1>3. \A j \in Messages : (Open(j)' <=> Open(j)) /\ (j # i => phase'[j] = phase[j])
                          /\ phase'[i] = "preparing"
  BY <1>1 DEF IndInv, Types, Open
<1>4. StreamOrder'
  BY <1>1, <1>3 DEF IndInv, StreamOrder
<1>5. RunShown' /\ StopAsked'
  BY <1>1, <1>3 DEF IndInv, RunShown, StopAsked
<1>6. OneUnderWay'
  <2>1. Preparing' = Preparing \cup {i}
    BY <1>1, <1>3 DEF Preparing
  <2>2. QED  BY <1>1, <1>3, <2>1 DEF IndInv, OneUnderWay, RunInProgress, Types
<1>7. PageInv'
  BY <1>1, <1>3 DEF IndInv, PageInv, TypeOK, NoStrayStop, AbortAfterStop, Types, Unsent
<1>8. QED  BY <1>2, <1>4, <1>5, <1>6, <1>7 DEF IndInv

\* A message that is given up leaves the page as it is.
LEMMA GiveUpStep ==
    ASSUME IndInv, NEW i \in Messages, operationalFailure(i)
    PROVE  IndInv'
<1>1. /\ phase[i] = "preparing" /\ phase' = [phase EXCEPT ![i] = "closed"]
      /\ UNCHANGED <<page, stop, deciding, run, wire, lost, aborted, told, asked, overlapped>>
  BY DEF operationalFailure, Preparing, hermesVars
<1>2. Types'
  BY <1>1 DEF IndInv, Types, Phases
<1>3. \A j \in Messages : (Open(j)' <=> Open(j)) /\ (j # i => phase'[j] = phase[j])
                          /\ phase'[i] = "closed"
  BY <1>1 DEF IndInv, Types, Open
<1>4. StreamOrder'
  BY <1>1, <1>3 DEF IndInv, StreamOrder
<1>5. RunShown' /\ StopAsked'
  BY <1>1, <1>3 DEF IndInv, RunShown, StopAsked, Types, PageType, MaybeMessage
<1>6. OneUnderWay'
  <2>1. Preparing' = Preparing \ {i}
    BY <1>1, <1>3 DEF Preparing
  <2>2. QED  BY <1>1, <1>3, <2>1 DEF IndInv, OneUnderWay, RunInProgress
<1>7. PageInv'
  BY <1>1, <1>3 DEF IndInv, PageInv, TypeOK, NoStrayStop, AbortAfterStop, Types, Unsent
<1>8. QED  BY <1>2, <1>4, <1>5, <1>6, <1>7 DEF IndInv

\* The new stream becomes the page's, and a stop that was asked for is forgotten.
LEMMA OpenStep ==
    ASSUME IndInv, NEW i \in Messages, ensureSession(i)
    PROVE  IndInv'
<1> DEFINE q == [page EXCEPT !.controller = i, !.run = Nobody, !.stopRequested = FALSE]
<1>1. /\ phase[i] = "preparing" /\ phase' = [phase EXCEPT ![i] = "open"]
      /\ page' = setStreaming(q, TRUE)
      /\ UNCHANGED <<stop, deciding, run, wire, lost, aborted, told, asked, overlapped>>
  BY DEF ensureSession, Preparing, hermesVars, OpenStream
<1>2. /\ q \in PageType /\ q.controller = i /\ q.run = Nobody
      /\ q.stopRequested = FALSE /\ q.dialog = page.dialog
  BY DEF IndInv, Types, PageType, MaybeMessage
<1> HIDE DEF q
<1>3. /\ page' \in PageType /\ page'.controller = i /\ page'.run = Nobody
      /\ page'.stopRequested = FALSE /\ page'.dialog = page.dialog
  BY <1>1, <1>2, SetStreaming
<1>4. Types'
  BY <1>1, <1>3 DEF IndInv, Types, Phases
<1>5. \A j \in Messages : (Open(j)' <=> Open(j) \/ j = i) /\ (j # i => phase'[j] = phase[j])
                          /\ phase'[i] = "open"
  BY <1>1 DEF IndInv, Types, Open
<1>6. StreamOrder'
  BY <1>1, <1>5 DEF IndInv, StreamOrder
<1>7. RunShown' /\ StopAsked'
  BY <1>1, <1>3, <1>5 DEF IndInv, RunShown, StopAsked
<1>8. OneUnderWay'
  <2>1. Preparing' = Preparing \ {i} /\ i \in Preparing
    BY <1>1, <1>5 DEF Preparing
  <2>2. QED  BY <1>1, <1>3, <1>5, <2>1, Messages1 DEF IndInv, OneUnderWay, RunInProgress
<1>9. PageInv'
  BY <1>1, <1>3, <1>5 DEF IndInv, PageInv, TypeOK, NoStrayStop, AbortAfterStop, Types, Unsent,
                          PageType
<1>10. QED  BY <1>4, <1>6, <1>7, <1>8, <1>9 DEF IndInv

-------------------------------------------------------------------------------
(* The stream.                                                                  *)

\* The events that are left after one was read.
LEMMA Unread ==
    ASSUME NEW w \in Seq(EventNames), w # <<>>
    PROVE  /\ Head(w) \in EventNames /\ Tail(w) \in Seq(EventNames)
           /\ Len(w) \in Nat /\ Len(Tail(w)) = Len(w) - 1
           /\ Tail(w) = <<>> => w[Len(w)] = Head(w)
           /\ Tail(w) # <<>> => Tail(w)[Len(Tail(w))] = w[Len(w)]
<1> DEFINE t == Tail(w)
<1>1. /\ Len(w) \in Nat \ {0} /\ Head(w) = w[1] /\ Head(w) \in EventNames
      /\ t \in Seq(EventNames) /\ Len(t) = Len(w) - 1
  OBVIOUS
<1>2. \A k \in 1..Len(t) : t[k] = w[k + 1]
  BY <1>1
<1> HIDE DEF t
<1>3. t = <<>> <=> Len(t) = 0
  BY <1>1, EmptySeq
<1>4. t # <<>> => Len(t) \in 1..Len(t)
  BY <1>1, <1>3
<1>5. QED  BY <1>1, <1>2, <1>3, <1>4 DEF t

\* Emitted bounds the events of a run by three.
LEMMA EmittedBound ==
    ASSUME NEW s \in RunStates
    PROVE  Emitted(s) \in 0..3 /\ (s = "none" => Emitted(s) = 0)
  BY DEF Emitted, RunStates

\* An event of stream i: the run shown is the former one or i, and i only if the
\* event was not the end of the run; a stop is sent for i if one was asked for.
LEMMA ConsumeStep ==
    ASSUME IndInv, NEW i \in Messages, consumeHermesSse(i)
    PROVE  IndInv'
<1> DEFINE name == Head(wire[i])
<1>1. /\ Open(i) /\ i \notin aborted /\ wire[i] # <<>>
      /\ page' = mapHermesEvent(page, [name |-> name, run |-> i])
      /\ stop' = StopAfter(page, [name |-> name, run |-> i])
      /\ wire' = [wire EXCEPT ![i] = Tail(@)]
      /\ UNCHANGED <<phase, deciding, run, lost, aborted, told, asked, overlapped>>
  BY DEF consumeHermesSse
<1>2. /\ page \in PageType /\ phase \in [Messages -> Phases] /\ run \in [Messages -> RunStates]
      /\ wire \in [Messages -> Seq(EventNames)] /\ (stop = NoStop \/ stop \in StopType)
  BY DEF IndInv, Types
<1>3. wire[i] \in Seq(EventNames)
  BY <1>2
<1>4. /\ name \in EventNames /\ Tail(wire[i]) \in Seq(EventNames)
      /\ Len(wire[i]) \in Nat /\ Len(Tail(wire[i])) = Len(wire[i]) - 1
      /\ Tail(wire[i]) = <<>> => wire[i][Len(wire[i])] = name
      /\ Tail(wire[i]) # <<>> => Tail(wire[i])[Len(Tail(wire[i]))] = wire[i][Len(wire[i])]
  BY <1>1, <1>3, Unread
<1>5. /\ wire' \in [Messages -> Seq(EventNames)] /\ wire'[i] = Tail(wire[i])
      /\ \A j \in Messages : j # i => wire'[j] = wire[j]
  BY <1>1, <1>2, <1>4
<1> HIDE DEF name
<1>6. /\ page' \in PageType /\ page'.controller = page.controller
      /\ page'.stopRequested => page.stopRequested
      /\ page'.dialog \in {page.dialog, i, Nobody}
      /\ page'.run \in {page.run, i, Nobody}
      /\ name = "run.ended" => page'.run # i
  BY <1>1, <1>2, <1>4, EventPage
<1>7. \/ stop' = stop
      \/ /\ stop = NoStop /\ page.stopRequested
         /\ stop' = [at |-> "sent", run |-> i, controller |-> page.controller]
  <2> DEFINE r == [page EXCEPT !.run = i]
  <2>1. r.run = i /\ r.controller = page.controller
    BY <1>2 DEF PageType
  <2>2. stop' = stop \/ (page.stopRequested /\ stop' = StopOf(r))
    BY <1>1 DEF StopAfter
  <2> HIDE DEF r
  <2>3. QED  BY <2>1, <2>2 DEF StopOf
<1>8. stop' = NoStop \/ stop' \in StopType
  BY <1>2, <1>7 DEF StopType, PageType
<1>9. Types'
  BY <1>1, <1>5, <1>6, <1>8 DEF IndInv, Types
<1>10. \A j \in Messages : Open(j)' <=> Open(j)
  BY <1>1 DEF Open
<1>11. StreamOrder'
  <2> SUFFICES ASSUME NEW j \in Messages
               PROVE  /\ Len(wire'[j]) <= Emitted(run[j])
                      /\ wire'[j] # <<>> => Open(j)
                      /\ run[j] = "ended" /\ wire'[j] # <<>>
                           => wire'[j][Len(wire'[j])] = "run.ended"
    BY <1>1, <1>10 DEF IndInv, StreamOrder
  <2>1. /\ Len(wire[j]) <= Emitted(run[j])
        /\ wire[j] # <<>> => Open(j)
        /\ run[j] = "ended" /\ wire[j] # <<>> => wire[j][Len(wire[j])] = "run.ended"
    BY DEF IndInv, StreamOrder
  <2>2. Emitted(run[j]) \in 0..3
    BY <1>2, EmittedBound
  <2>3. CASE j # i
    BY <1>5, <2>1, <2>3
  <2>4. CASE j = i
    BY <1>1, <1>4, <1>5, <2>1, <2>2, <2>4
  <2>5. QED  BY <2>3, <2>4
<1>12. i \notin lost
  BY <1>1, <1>2 DEF IndInv, StreamOrder, Open
<1>13. run[i] = "ended" /\ page'.run = i => wire'[i] # <<>>
  BY <1>1, <1>4, <1>5, <1>6 DEF IndInv, StreamOrder
<1>14. RunShown'
  <2>1. CASE page'.run = i
    BY <1>1, <1>10, <1>13, <2>1 DEF RunShown
  <2>2. CASE page'.run = page.run /\ page.run # i /\ page.run # Nobody
    <3>1. page.run \in Messages
      BY <1>2, <2>2 DEF PageType, MaybeMessage
    <3>2. QED  BY <1>1, <1>5, <1>10, <2>2, <3>1 DEF RunShown, IndInv
  <2>3. CASE page'.run = Nobody
    BY <2>3 DEF RunShown
  <2>4. QED  BY <1>6, <2>1, <2>2, <2>3
<1>15. StopAsked'
  <2>1. page'.stopRequested => \A j \in Messages : Open(j)' => j \in asked'
    BY <1>1, <1>6, <1>10 DEF IndInv, StopAsked
  <2>2. (stop' # NoStop => stop'.run \in asked \cup lost)
        /\ (stop'.at = "told" => stop'.run \in told)
    BY <1>1, <1>7 DEF IndInv, StopAsked
  <2>3. QED  BY <1>1, <2>1, <2>2 DEF StopAsked
<1>16. OneUnderWay'
  <2> SUFFICES ASSUME ~overlapped
               PROVE  OneUnderWay'
    BY <1>1 DEF OneUnderWay
  <2>1. page.controller = i /\ Preparing = {}
    <3>1. page.controller = i
      BY <1>1 DEF IndInv, OneUnderWay
    <3>2. QED  BY <3>1, Messages1 DEF IndInv, OneUnderWay, RunInProgress
  <2>2. Preparing' = {}
    BY <1>1, <2>1 DEF Preparing
  <2>3. page'.controller \in {Nobody, page'.run} \/ page'.run = Nobody
    BY <1>6, <2>1, Messages1 DEF IndInv, OneUnderWay
  <2>4. stop' # NoStop => stop'.controller \in {Nobody, stop'.run}
    BY <1>7, <2>1 DEF IndInv, OneUnderWay
  <2>5. \A j \in Messages : Open(j)' /\ j \notin aborted' => page'.controller = j
    BY <1>1, <1>6, <1>10 DEF IndInv, OneUnderWay
  <2>6. QED  BY <2>2, <2>3, <2>4, <2>5 DEF OneUnderWay
<1>17. PageInv'
  <2>1. run[i] # "none"
    BY <1>1, <1>2, <1>4, EmittedBound DEF IndInv, StreamOrder
  <2>2. i \notin Unsent
    BY <1>1 DEF Open, Unsent
  <2>3. \A j \in Messages : Len(wire'[j]) <= 3
    BY <1>4, <1>5 DEF IndInv, PageInv, TypeOK
  <2>4. stop' = NoStop \/ (stop'.at \in {"sent", "told"} /\ stop'.run \in Messages)
    BY <1>8 DEF StopType
  <2>5. /\ page'.controller \in {Nobody} \cup {j \in Messages : Open(j)'}
        /\ page'.run \in {Nobody} \cup (Messages \ Unsent')
        /\ page'.dialog \in {Nobody} \cup {j \in Messages : run'[j] # "none"}
    BY <1>1, <1>6, <1>10, <2>1, <2>2 DEF IndInv, PageInv, TypeOK, Unsent
  <2>6. TypeOK'
    BY <1>6, <2>3, <2>4, <2>5 DEF TypeOK, PageType
  <2>7. QED  BY <1>1, <2>6 DEF IndInv, PageInv, NoStrayStop, AbortAfterStop
<1>18. QED  BY <1>9, <1>11, <1>14, <1>15, <1>16, <1>17 DEF IndInv

\* A stream that is closed: what it was is settled, and the run it leaves on the
\* page is one of a broken stream.
LEMMA SettleStep ==
    ASSUME IndInv, NEW i \in Messages, StreamEnds(i) \/ StreamFails(i)
    PROVE  IndInv'
<1> DEFINE q == [page EXCEPT !.controller = IF @ = i THEN Nobody ELSE @]
<1>1. /\ Open(i) /\ phase' = [phase EXCEPT ![i] = "closed"]
      /\ page' = setStreaming(q, page.run # Nobody)
      /\ wire' = [wire EXCEPT ![i] = <<>>]
      /\ UNCHANGED <<stop, deciding, run, aborted, told, asked, overlapped>>
      /\ \/ lost' = lost /\ (i \in aborted \/ (run[i] = "ended" /\ wire[i] = <<>>))
         \/ lost' = lost \cup {i} /\ i \notin aborted
  BY DEF StreamEnds, StreamFails, Settle
<1>2. /\ page \in PageType /\ phase \in [Messages -> Phases] /\ run \in [Messages -> RunStates]
      /\ wire \in [Messages -> Seq(EventNames)]
  BY DEF IndInv, Types
<1>3. /\ q \in PageType /\ q.run = page.run /\ q.stopRequested = page.stopRequested
      /\ q.dialog = page.dialog
      /\ q.controller = IF page.controller = i THEN Nobody ELSE page.controller
  BY <1>2 DEF PageType, MaybeMessage
<1> HIDE DEF q
<1>4. /\ page' \in PageType /\ page'.run = page.run /\ page'.dialog = page.dialog
      /\ page'.stopRequested = page.stopRequested
      /\ page'.controller = IF page.controller = i THEN Nobody ELSE page.controller
  BY <1>1, <1>3, SetStreaming
<1>5. Types'
  BY <1>1, <1>4 DEF IndInv, Types, Phases
<1>6. \A j \in Messages : (Open(j)' <=> Open(j) /\ j # i) /\ (j # i => phase'[j] = phase[j])
                          /\ phase'[i] = "closed" /\ (j # i => wire'[j] = wire[j])
                          /\ wire'[i] = <<>>
  BY <1>1, <1>2 DEF Open
<1>7. StreamOrder'
  <2>1. Emitted(run[i]) \in 0..3 /\ Len(<<>>) = 0
    BY <1>2, EmittedBound
  <2>2. QED  BY <1>1, <1>6, <2>1 DEF IndInv, StreamOrder, Phases
<1>8. RunShown'
  <2> SUFFICES ASSUME page.run # Nobody, page.run \notin lost'
               PROVE  RunShown'
    BY <1>4 DEF RunShown
  <2>1. /\ page.run \in Messages /\ page.run \notin lost /\ Open(page.run)
        /\ page.run \notin aborted /\ (run[page.run] = "ended" => wire[page.run] # <<>>)
    BY <1>1, <1>2 DEF IndInv, RunShown, PageType, MaybeMessage
  <2>2. page.run # i
    BY <1>1, <2>1
  <2>3. QED  BY <1>1, <1>4, <1>6, <2>1, <2>2 DEF RunShown
<1>9. StopAsked'
  BY <1>1, <1>4, <1>6 DEF IndInv, StopAsked
<1>10. OneUnderWay'
  <2>1. Preparing' = Preparing
    BY <1>1, <1>2, <1>6 DEF Preparing, Open
  <2>2. QED
    BY <1>1, <1>4, <1>6, <2>1, Messages1 DEF IndInv, OneUnderWay, RunInProgress
<1>11. PageInv'
  <2>1. Unsent' = Unsent
    BY <1>1, <1>2, <1>6 DEF Unsent, Open
  <2>2. \A j \in Messages : Len(wire'[j]) <= 3
    BY <1>6 DEF IndInv, PageInv, TypeOK
  <2>3. TypeOK'
    BY <1>1, <1>4, <1>6, <2>1, <2>2 DEF IndInv, PageInv, TypeOK, PageType
  <2>4. QED  BY <1>1, <2>3 DEF IndInv, PageInv, NoStrayStop, AbortAfterStop
<1>12. QED  BY <1>5, <1>7, <1>8, <1>9, <1>10, <1>11 DEF IndInv

-------------------------------------------------------------------------------
(* The stop button.                                                             *)

\* A click asks about every open stream, and the run it stops is one of them or
\* one whose stream broke.
LEMMA ClickStep ==
    ASSUME IndInv, ClickStop
    PROVE  IndInv'
<1> DEFINE q == [page EXCEPT !.stopRequested = TRUE]
<1>1. /\ page.controller # Nobody /\ page' = StopRequested(page) /\ stop' = StopOf(page)
      /\ asked' = asked \cup {i \in Messages : Open(i)}
      /\ UNCHANGED <<phase, deciding, run, wire, lost, aborted, told, overlapped>>
  BY DEF ClickStop, hermesVars
<1>2. /\ page \in PageType /\ phase \in [Messages -> Phases]
      /\ (stop = NoStop \/ stop \in StopType)
  BY DEF IndInv, Types
<1>3. /\ q \in PageType /\ q.controller = page.controller /\ q.run = page.run
      /\ q.stopRequested = TRUE /\ q.dialog = page.dialog
  BY <1>2 DEF PageType
<1>4. page' = setStreaming(q, TRUE)
  BY <1>1 DEF StopRequested
<1> HIDE DEF q
<1>5. /\ page' \in PageType /\ page'.controller = page.controller /\ page'.run = page.run
      /\ page'.stopRequested = TRUE /\ page'.dialog = page.dialog
  BY <1>3, <1>4, SetStreaming
<1>6. \/ stop' = stop
      \/ /\ page.run # Nobody /\ stop = NoStop
         /\ stop' = [at |-> "sent", run |-> page.run, controller |-> page.controller]
  BY <1>1 DEF StopOf
<1>7. stop' = NoStop \/ stop' \in StopType
  BY <1>2, <1>6 DEF StopType, PageType, MaybeMessage
<1>8. Types'
  BY <1>1, <1>5, <1>7 DEF IndInv, Types
<1>9. \A j \in Messages : Open(j)' <=> Open(j)
  BY <1>1 DEF Open
<1>10. StreamOrder'
  BY <1>1, <1>9 DEF IndInv, StreamOrder
<1>11. page.run # Nobody => page.run \in Messages
  BY <1>2 DEF PageType, MaybeMessage
<1>12. RunShown'
  BY <1>1, <1>5, <1>9, <1>11 DEF IndInv, RunShown
<1>13. StopAsked'
  <2>1. page.run # Nobody => page.run \in asked' \cup lost
    BY <1>1, <1>11 DEF IndInv, RunShown
  <2>2. (stop' # NoStop => stop'.run \in asked' \cup lost)
        /\ (stop'.at = "told" => stop'.run \in told)
    BY <1>1, <1>6, <2>1 DEF IndInv, StopAsked
  <2>3. QED  BY <1>1, <1>9, <2>2 DEF StopAsked
<1>14. OneUnderWay'
  <2>1. Preparing' = Preparing
    BY <1>1 DEF Preparing
  <2>2. QED  BY <1>1, <1>5, <1>6, <1>9, <2>1 DEF IndInv, OneUnderWay, RunInProgress
<1>15. PageInv'
  <2>1. Unsent' = Unsent
    BY <1>1 DEF Unsent
  <2>2. stop' = NoStop \/ (stop'.at \in {"sent", "told"} /\ stop'.run \in Messages)
    BY <1>7 DEF StopType
  <2>3. TypeOK'
    BY <1>1, <1>5, <1>9, <2>1, <2>2 DEF IndInv, PageInv, TypeOK, PageType
  <2>4. QED  BY <1>1, <2>3 DEF IndInv, PageInv, NoStrayStop, AbortAfterStop
<1>16. QED  BY <1>8, <1>10, <1>12, <1>13, <1>14, <1>15 DEF IndInv

\* Hermes is told to stop a run the user asked about, or one whose stream broke.
LEMMA ToldStep ==
    ASSUME IndInv, HermesStops
    PROVE  IndInv'
<1>1. /\ stop.at = "sent" /\ stop' = [stop EXCEPT !.at = "told"]
      /\ told' = told \cup {stop.run}
      /\ UNCHANGED <<page, phase, deciding, run, wire, lost, aborted, asked, overlapped>>
  BY DEF HermesStops, hermesVars
<1>2. stop # NoStop /\ stop \in StopType
  BY <1>1 DEF IndInv, Types, NoStop
<1>3. /\ stop' \in StopType /\ stop'.run = stop.run /\ stop'.controller = stop.controller
      /\ stop.run \in Messages
  BY <1>1, <1>2 DEF StopType
<1>4. stop.run \in asked \cup lost
  BY <1>2 DEF IndInv, StopAsked
<1>5. Types'
  BY <1>1, <1>3 DEF IndInv, Types
<1>6. /\ (\A j \in Messages : Open(j)' <=> Open(j)) /\ Unsent' = Unsent
      /\ Preparing' = Preparing
  BY <1>1 DEF Open, Unsent, Preparing
<1>7. page.run # Nobody => page.run \in Messages
  BY DEF IndInv, Types, PageType, MaybeMessage
<1>8. StreamOrder' /\ RunShown'
  BY <1>1, <1>6, <1>7 DEF IndInv, StreamOrder, RunShown
<1>9. StopAsked'
  BY <1>1, <1>3, <1>4, <1>6 DEF IndInv, StopAsked
<1>10. OneUnderWay'
  BY <1>1, <1>2, <1>3, <1>6 DEF IndInv, OneUnderWay, RunInProgress
<1>11. PageInv'
  <2>1. TypeOK'
    BY <1>1, <1>3, <1>6 DEF IndInv, PageInv, TypeOK, StopType
  <2>2. QED
    BY <1>1, <1>4, <2>1 DEF IndInv, PageInv, NoStrayStop, AbortAfterStop
<1>12. QED  BY <1>5, <1>8, <1>9, <1>10, <1>11 DEF IndInv

\* The answer of a stop aborts the stream the page had when it asked: the one of
\* the stopped run, unless messages overlapped.
LEMMA AnswerStep ==
    ASSUME IndInv, StopAnswered
    PROVE  IndInv'
<1> DEFINE c == stop.controller
<1>1. /\ stop.at = "told" /\ aborted' = aborted \cup {i \in Messages : i = c /\ Open(i)}
      /\ page' = Stopped(page) /\ stop' = NoStop
      /\ UNCHANGED <<phase, deciding, run, wire, lost, told, asked, overlapped>>
  BY DEF StopAnswered, hermesVars
<1>2. /\ page \in PageType /\ Cleared(page) \in PageType /\ stop # NoStop
      /\ Cleared(page).controller = page.controller /\ Cleared(page).run = Nobody
      /\ Cleared(page).dialog = Nobody /\ Cleared(page).stopRequested = FALSE
  <2>1. page \in PageType
    BY DEF IndInv, Types
  <2>2. stop # NoStop
    BY <1>1 DEF NoStop
  <2>3. QED  BY <2>1, <2>2, ClearedPage
<1>3. /\ page' \in PageType /\ page'.run = Nobody /\ page'.dialog = Nobody
      /\ page'.stopRequested = FALSE
      /\ page'.controller = IF page.controller = c THEN Nobody ELSE page.controller
  BY <1>1, <1>2 DEF Stopped, PageType, MaybeMessage
<1>4. Types'
  BY <1>1, <1>3 DEF IndInv, Types
<1>5. /\ (\A j \in Messages : Open(j)' <=> Open(j)) /\ Unsent' = Unsent
      /\ Preparing' = Preparing
  BY <1>1 DEF Open, Unsent, Preparing
<1>6. StreamOrder'
  BY <1>1, <1>5 DEF IndInv, StreamOrder, Open
<1>7. RunShown' /\ StopAsked'
  BY <1>1, <1>3 DEF RunShown, StopAsked, NoStop
<1>8. OneUnderWay'
  BY <1>1, <1>3, <1>5 DEF IndInv, OneUnderWay, RunInProgress
<1>9. PageInv'
  <2>1. TypeOK'
    BY <1>1, <1>3, <1>5 DEF IndInv, PageInv, TypeOK, PageType
  <2>2. NoStrayStop'
    BY <1>1 DEF IndInv, PageInv, NoStrayStop
  <2>3. AbortAfterStop'
    <3>1. stop.run \in told
      BY <1>1 DEF IndInv, StopAsked
    <3>2. ~overlapped => c \in {Nobody, stop.run}
      BY <1>2 DEF IndInv, OneUnderWay
    <3>3. QED  BY <1>1, <3>1, <3>2, Messages1 DEF IndInv, PageInv, AbortAfterStop
  <2>4. QED  BY <2>1, <2>2, <2>3 DEF PageInv
<1>10. QED  BY <1>4, <1>6, <1>7, <1>8, <1>9 DEF IndInv

\* A stop that failed may be asked for again.
LEMMA StopFailsStep ==
    ASSUME IndInv, StopFails
    PROVE  IndInv'
<1> DEFINE q == [page EXCEPT !.stopRequested = FALSE]
<1>1. /\ page' = setStreaming(q, RunInProgress) /\ stop' = NoStop
      /\ UNCHANGED <<phase, deciding, run, wire, lost, aborted, told, asked, overlapped>>
  BY DEF StopFails, hermesVars
<1>2. /\ q \in PageType /\ q.controller = page.controller /\ q.run = page.run
      /\ q.stopRequested = FALSE /\ q.dialog = page.dialog
  BY DEF IndInv, Types, PageType
<1> HIDE DEF q
<1>3. /\ page' \in PageType /\ page'.controller = page.controller /\ page'.run = page.run
      /\ page'.stopRequested = FALSE /\ page'.dialog = page.dialog
  BY <1>1, <1>2, SetStreaming DEF RunInProgress
<1>4. Types'
  BY <1>1, <1>3 DEF IndInv, Types
<1>5. /\ (\A j \in Messages : Open(j)' <=> Open(j)) /\ Unsent' = Unsent
      /\ Preparing' = Preparing /\ NoStop.at = "none"
  BY <1>1 DEF Open, Unsent, Preparing, NoStop
<1>6. page.run # Nobody => page.run \in Messages
  BY DEF IndInv, Types, PageType, MaybeMessage
<1>7. StreamOrder' /\ RunShown' /\ StopAsked'
  BY <1>1, <1>3, <1>5, <1>6 DEF IndInv, StreamOrder, RunShown, StopAsked
<1>8. OneUnderWay'
  BY <1>1, <1>3, <1>5 DEF IndInv, OneUnderWay, RunInProgress
<1>9. PageInv'
  <2>1. TypeOK'
    BY <1>1, <1>3, <1>5 DEF IndInv, PageInv, TypeOK, PageType
  <2>2. QED  BY <1>1, <2>1 DEF IndInv, PageInv, NoStrayStop, AbortAfterStop
<1>10. QED  BY <1>4, <1>7, <1>8, <1>9 DEF IndInv

-------------------------------------------------------------------------------
(* Approvals, the reload of the page, and Hermes.                               *)

\* Steps that touch only the decision, or close the dialog.
LEMMA DecisionStep ==
    ASSUME IndInv,
           deciding' \in [Messages -> {"no", "sent", "taken", "done"}],
           page' \in {page, closeApprovalDialog(page)},
           UNCHANGED <<phase, stop, run, wire, lost, aborted, told, asked, overlapped>>
    PROVE  IndInv'
<1>1. /\ page' \in PageType /\ page'.controller = page.controller /\ page'.run = page.run
      /\ page'.stopRequested = page.stopRequested /\ page'.dialog \in {Nobody, page.dialog}
  BY DEF IndInv, Types, PageType, MaybeMessage, closeApprovalDialog
<1>2. Types'
  BY <1>1 DEF IndInv, Types
<1>3. /\ (\A j \in Messages : Open(j)' <=> Open(j)) /\ Unsent' = Unsent
      /\ Preparing' = Preparing
  BY DEF Open, Unsent, Preparing
<1>4. page.run # Nobody => page.run \in Messages
  BY DEF IndInv, Types, PageType, MaybeMessage
<1>5. StreamOrder' /\ RunShown' /\ StopAsked'
  BY <1>1, <1>3, <1>4 DEF IndInv, StreamOrder, RunShown, StopAsked
<1>6. OneUnderWay'
  BY <1>1, <1>3 DEF IndInv, OneUnderWay, RunInProgress
<1>7. PageInv'
  <2>1. TypeOK'
    BY <1>1, <1>3 DEF IndInv, PageInv, TypeOK, PageType
  <2>2. QED  BY <2>1 DEF IndInv, PageInv, NoStrayStop, AbortAfterStop
<1>8. QED  BY <1>2, <1>5, <1>6, <1>7 DEF IndInv

\* A status of a run that changes without an event, or with an event its open
\* stream receives.
LEMMA RunStep ==
    ASSUME IndInv, NEW i \in Messages, NEW status \in RunStates, NEW w,
           status = "ended" => w = Append(wire[i], "run.ended") \/ ~Open(i),
           w = wire[i] \/ (Open(i) /\ \E e \in EventNames : w = Append(wire[i], e)),
           w = wire[i] => Emitted(run[i]) <= Emitted(status),
           w # wire[i] => Emitted(run[i]) < Emitted(status),
           status # "none", run[i] = "none" => Open(i), run[i] # "ended",
           run' = [run EXCEPT ![i] = status],
           wire' = [wire EXCEPT ![i] = w],
           deciding' \in [Messages -> {"no", "sent", "taken", "done"}],
           UNCHANGED <<page, phase, stop, lost, aborted, told, asked, overlapped>>
    PROVE  IndInv'
<1>1. /\ page \in PageType /\ phase \in [Messages -> Phases] /\ run \in [Messages -> RunStates]
      /\ wire \in [Messages -> Seq(EventNames)] /\ wire[i] \in Seq(EventNames)
  BY DEF IndInv, Types
<1>2. /\ w \in Seq(EventNames) /\ Len(w) \in Nat /\ Len(wire[i]) \in Nat
      /\ (w = wire[i] \/ (Len(w) = Len(wire[i]) + 1 /\ w # <<>>))
  <2>1. CASE w = wire[i]
    BY <1>1, <2>1
  <2>2. CASE w # wire[i]
    <3>1. PICK e \in EventNames : w = Append(wire[i], e)
      BY <2>2
    <3>2. QED  BY <1>1, <3>1, AppendProperties
  <2>3. QED  BY <2>1, <2>2
<1>3. /\ wire' \in [Messages -> Seq(EventNames)] /\ wire'[i] = w
      /\ run' \in [Messages -> RunStates] /\ run'[i] = status
      /\ \A j \in Messages : j # i => wire'[j] = wire[j] /\ run'[j] = run[j]
  BY <1>1, <1>2
<1>4. Types'
  BY <1>3 DEF IndInv, Types
<1>5. /\ (\A j \in Messages : Open(j)' <=> Open(j)) /\ Unsent' = Unsent
      /\ Preparing' = Preparing
  BY DEF Open, Unsent, Preparing
<1>6. Emitted(run[i]) \in 0..3 /\ Emitted(status) \in 0..3
  BY <1>1, EmittedBound
<1>7. Len(w) <= Emitted(status)
  BY <1>2, <1>6 DEF IndInv, StreamOrder
<1>8. status = "ended" /\ w # <<>> => w[Len(w)] = "run.ended" /\ Open(i)
  <2> SUFFICES ASSUME status = "ended", w # <<>>
               PROVE  w[Len(w)] = "run.ended" /\ Open(i)
    OBVIOUS
  <2>1. Open(i)
    BY DEF IndInv, StreamOrder
  <2>2. w = Append(wire[i], "run.ended")
    BY <2>1
  <2>3. QED  BY <1>1, <2>1, <2>2
<1>9. w # <<>> => Open(i)
  BY DEF IndInv, StreamOrder
<1>10. StreamOrder'
  <2> SUFFICES ASSUME NEW j \in Messages
               PROVE  /\ Len(wire'[j]) <= Emitted(run'[j])
                      /\ wire'[j] # <<>> => Open(j)
                      /\ run'[j] = "ended" /\ wire'[j] # <<>>
                           => wire'[j][Len(wire'[j])] = "run.ended"
                      /\ j \in lost => phase[j] = "closed"
                      /\ j \in aborted => phase[j] \in {"open", "closed"}
                      /\ phase[j] \in {"unsent", "preparing"} => run'[j] = "none"
    BY <1>5 DEF StreamOrder
  <2>1. CASE j # i
    BY <1>3, <2>1 DEF IndInv, StreamOrder
  <2>2. CASE j = i
    BY <1>3, <1>7, <1>8, <1>9, <2>2 DEF IndInv, StreamOrder, Open
  <2>3. QED  BY <2>1, <2>2
<1>11. page.run # Nobody => page.run \in Messages
  BY <1>1 DEF PageType, MaybeMessage
<1>12. status = "ended" /\ Open(i) => w # <<>>
  BY <1>1
<1>13. RunShown'
  BY <1>3, <1>5, <1>11, <1>12 DEF IndInv, RunShown
<1>14. StopAsked'
  BY <1>5 DEF IndInv, StopAsked
<1>15. OneUnderWay'
  BY <1>5 DEF IndInv, OneUnderWay, RunInProgress
<1>16. PageInv'
  <2>1. \A j \in Messages : Len(wire'[j]) <= 3
    BY <1>2, <1>3, <1>6, <1>7 DEF IndInv, PageInv, TypeOK
  <2>2. \A j \in Messages : run[j] # "none" => run'[j] # "none"
    BY <1>3
  <2>3. TypeOK'
    BY <1>5, <2>1, <2>2 DEF IndInv, PageInv, TypeOK
  <2>4. QED  BY <2>3 DEF IndInv, PageInv, NoStrayStop, AbortAfterStop
<1>17. QED  BY <1>4, <1>10, <1>13, <1>14, <1>15, <1>16 DEF IndInv

\* Hermes takes a decision, and the waiting run goes on.
LEMMA DecideStep ==
    ASSUME IndInv, NEW i \in Messages, HermesDecides(i)
    PROVE  IndInv'
<1>1. /\ deciding' = [deciding EXCEPT ![i] = "taken"]
      /\ run' = [run EXCEPT ![i] = IF @ = "waiting" THEN "resumed" ELSE @]
      /\ UNCHANGED <<page, phase, stop, wire, lost, aborted, told, asked, overlapped>>
  BY DEF HermesDecides
<1>2. /\ deciding' \in [Messages -> {"no", "sent", "taken", "done"}]
      /\ run \in [Messages -> RunStates] /\ wire \in [Messages -> Seq(EventNames)]
  BY <1>1 DEF IndInv, Types
<1>3. CASE run[i] = "waiting"
  <2>1. run' = [run EXCEPT ![i] = "resumed"] /\ wire' = [wire EXCEPT ![i] = wire[i]]
    BY <1>1, <1>2, <1>3
  <2>2. Emitted("waiting") = 2 /\ Emitted("resumed") = 2 /\ "resumed" \in RunStates
    BY DEF Emitted, RunStates
  <2> DEFINE w == wire[i]
             status == "resumed"
  <2>3. /\ status \in RunStates /\ status # "ended" /\ status # "none"
        /\ run[i] # "none" /\ run[i] # "ended" /\ Emitted(run[i]) <= Emitted(status)
    BY <1>3, <2>2
  <2>4. w = wire[i] /\ run' = [run EXCEPT ![i] = status] /\ wire' = [wire EXCEPT ![i] = w]
    BY <2>1
  <2> HIDE DEF w, status
  <2>5. QED  BY <1>1, <1>2, <2>3, <2>4, RunStep
<1>4. CASE run[i] # "waiting"
  <2>1. run' = run
    BY <1>1, <1>2, <1>4
  <2>2. QED  BY <1>1, <1>2, <2>1, DecisionStep
<1>5. QED  BY <1>3, <1>4

\* A run emits an event, which only an open stream receives.
LEMMA EmitStep ==
    ASSUME IndInv, NEW i \in Messages, NEW status \in RunStates, NEW e \in EventNames,
           status # "none", run[i] # "ended", run[i] = "none" => Open(i),
           status = "ended" => e = "run.ended",
           Emitted(run[i]) < Emitted(status), Emit(i, status, e)
    PROVE  IndInv'
<1> DEFINE w == IF Open(i) THEN Append(wire[i], e) ELSE wire[i]
<1>1. /\ run' = [run EXCEPT ![i] = status] /\ wire' = [wire EXCEPT ![i] = w]
      /\ UNCHANGED <<page, phase, stop, deciding, lost, aborted, told, asked, overlapped>>
  BY DEF Emit
<1>2. deciding' \in [Messages -> {"no", "sent", "taken", "done"}]
  BY <1>1 DEF IndInv, Types
<1>3. Emitted(run[i]) <= Emitted(status)
  <2>1. Emitted(run[i]) \in 0..3 /\ Emitted(status) \in 0..3
    BY EmittedBound DEF IndInv, Types
  <2>2. QED  BY <2>1
<1>4. w = wire[i] \/ (Open(i) /\ \E x \in EventNames : w = Append(wire[i], x))
  OBVIOUS
<1>5. status = "ended" => w = Append(wire[i], "run.ended") \/ ~Open(i)
  OBVIOUS
<1> HIDE DEF w
<1>6. QED  BY <1>1, <1>2, <1>3, <1>4, <1>5, RunStep

\* Hermes starts a run, asks for an approval, or ends the run.
LEMMA HermesStep ==
    ASSUME IndInv, NEW i \in Messages, StartRun(i) \/ RequestApproval(i) \/ RunEnds(i)
    PROVE  IndInv'
<1>1. {"running", "waiting", "resumed", "ended"} \subseteq RunStates
      /\ {"run.started", "approval.request", "run.ended"} \subseteq EventNames
  BY DEF RunStates, EventNames
<1>2. /\ Emitted("none") = 0 /\ Emitted("running") = 1 /\ Emitted("waiting") = 2
      /\ Emitted("resumed") = 2 /\ Emitted("ended") = 3
  BY DEF Emitted
<1>3. CASE StartRun(i)
  BY <1>1, <1>2, <1>3, EmitStep DEF StartRun
<1>4. CASE RequestApproval(i)
  BY <1>1, <1>2, <1>4, EmitStep DEF RequestApproval
<1>5. CASE RunEnds(i)
  <2>1. run[i] \in {"running", "waiting", "resumed"} /\ Emit(i, "ended", "run.ended")
    BY <1>5 DEF RunEnds
  <2>2. Emitted(run[i]) < Emitted("ended")
    BY <1>2, <2>1
  <2>3. QED  BY <1>1, <2>1, <2>2, EmitStep
<1>6. QED  BY <1>3, <1>4, <1>5

\* A reload forgets everything the page knew; the streams end with it.
LEMMA ReloadStep ==
    ASSUME IndInv, activateSession
    PROVE  IndInv'
<1>1. /\ page' = NewPage /\ stop' = NoStop /\ wire' = [i \in Messages |-> <<>>]
      /\ phase' = [i \in Messages |-> IF i \in Unsent THEN "unsent" ELSE "closed"]
      /\ lost' = lost \cup {i \in Messages : Open(i)}
      /\ deciding' = [i \in Messages |-> IF i \in Unsent THEN "no" ELSE "done"]
      /\ UNCHANGED <<run, aborted, told, asked, overlapped>>
  BY DEF activateSession
<1>2. /\ page' \in PageType /\ page'.controller = Nobody /\ page'.run = Nobody
      /\ page'.dialog = Nobody /\ page'.stopRequested = FALSE /\ NoStop.at = "none"
      /\ NewPage.button = "send"
  BY <1>1 DEF NewPage, PageType, MaybeMessage, NoStop
<1>3. Types'
  BY <1>1, <1>2 DEF IndInv, Types, Phases
<1>4. \A j \in Messages : /\ ~Open(j)' /\ phase'[j] # "preparing" /\ wire'[j] = <<>>
                          /\ phase'[j] = IF phase[j] = "unsent" THEN "unsent" ELSE "closed"
  BY <1>1 DEF Open, Unsent
<1>5. StreamOrder'
  <2>1. \A j \in Messages : Len(wire'[j]) = 0 /\ Emitted(run'[j]) \in 0..3
    BY <1>1, <1>4, EmittedBound DEF IndInv, Types
  <2>2. \A j \in Messages : j \in lost' => phase'[j] = "closed"
    BY <1>1, <1>4 DEF IndInv, StreamOrder, Open
  <2>3. \A j \in Messages : j \in aborted' => phase'[j] = "closed"
    BY <1>1, <1>4 DEF IndInv, StreamOrder
  <2>4. \A j \in Messages : phase'[j] \in {"unsent", "preparing"} => run'[j] = "none"
    BY <1>1, <1>4 DEF IndInv, StreamOrder
  <2>5. QED  BY <1>4, <2>1, <2>2, <2>3, <2>4 DEF StreamOrder
<1>6. RunShown' /\ StopAsked'
  BY <1>1, <1>2 DEF RunShown, StopAsked
<1>7. OneUnderWay'
  <2>1. Preparing' = {}
    BY <1>4 DEF Preparing
  <2>2. QED  BY <1>1, <1>2, <1>4, <2>1 DEF OneUnderWay
<1>8. PageInv'
  <2>1. \A j \in Messages : Len(wire'[j]) <= 3
    BY <1>4
  <2>2. TypeOK'
    BY <1>1, <1>2, <2>1 DEF TypeOK
  <2>3. QED  BY <1>1, <2>2 DEF IndInv, PageInv, NoStrayStop, AbortAfterStop
<1>9. QED  BY <1>3, <1>5, <1>6, <1>7, <1>8 DEF IndInv

-------------------------------------------------------------------------------
(* The theorem.                                                                 *)

\* The page before the first message.
LEMMA InitInd == Init => IndInv
<1> SUFFICES ASSUME Init PROVE IndInv
  OBVIOUS
<1>1. /\ page \in PageType /\ page.controller = Nobody /\ page.run = Nobody
      /\ page.dialog = Nobody /\ page.stopRequested = FALSE /\ page.button = "send"
      /\ NoStop.at = "none"
  BY DEF Init, NewPage, PageType, MaybeMessage, NoStop
<1>2. Types
  <2>1. wire \in [Messages -> Seq(EventNames)]
    BY EmptySeq DEF Init
  <2>2. QED  BY <1>1, <2>1 DEF Init, Types, Phases, RunStates
<1>3. \A i \in Messages : phase[i] = "unsent" /\ run[i] = "none" /\ wire[i] = <<>>
                          /\ Len(wire[i]) = 0 /\ Emitted(run[i]) = 0
  BY DEF Init, Emitted
<1>4. StreamOrder
  BY <1>3 DEF Init, StreamOrder
<1>5. RunShown /\ StopAsked
  BY <1>1 DEF Init, RunShown, StopAsked
<1>6. OneUnderWay
  BY <1>1, <1>3 DEF Init, OneUnderWay, Preparing, Open
<1>7. PageInv
  <2>1. \A i \in Messages : Len(wire[i]) <= 3
    BY <1>3
  <2>2. TypeOK
    BY <1>1, <2>1 DEF Init, TypeOK
  <2>3. QED  BY <2>2 DEF Init, PageInv, NoStrayStop, AbortAfterStop
<1>8. QED  BY <1>2, <1>4, <1>5, <1>6, <1>7 DEF IndInv

\* Every step keeps the inductive invariant.
LEMMA NextInd == IndInv /\ [Next]_vars => IndInv'
<1> SUFFICES ASSUME IndInv, [Next]_vars PROVE IndInv'
  OBVIOUS
<1>1. CASE User
  <2>1. ASSUME submitApproval PROVE IndInv'
    <3>1. deciding' \in [Messages -> {"no", "sent", "taken", "done"}]
      BY <2>1 DEF submitApproval, IndInv, Types
    <3>2. QED  BY <2>1, <3>1, DecisionStep DEF submitApproval, hermesVars
  <2>2. QED  BY <1>1, <2>1, SendStep, ClickStep, ReloadStep DEF User
<1>2. CASE Page
  BY <1>2, GiveUpStep, OpenStep, ConsumeStep, SettleStep DEF Page
<1>3. CASE Requests
  <2>1. ASSUME NEW i \in Messages, DecisionAnswered(i) \/ DecisionFails(i) PROVE IndInv'
    <3>1. deciding' \in [Messages -> {"no", "sent", "taken", "done"}]
      BY <2>1 DEF DecisionAnswered, DecisionFails, IndInv, Types
    <3>2. QED
      BY <2>1, <3>1, DecisionStep DEF DecisionAnswered, DecisionFails, hermesVars
  <2>2. QED  BY <1>3, <2>1, ToldStep, AnswerStep, StopFailsStep, DecideStep DEF Requests
<1>4. CASE Hermes
  BY <1>4, HermesStep DEF Hermes
<1>5. CASE UNCHANGED vars
  <2>1. UNCHANGED <<page, phase, stop, deciding, run, wire, lost, aborted, told, asked,
                    overlapped>>
    BY <1>5 DEF vars
  <2>2. deciding' \in [Messages -> {"no", "sent", "taken", "done"}]
    BY <2>1 DEF IndInv, Types
  <2>3. QED  BY <2>1, <2>2, DecisionStep
<1>6. QED  BY <1>1, <1>2, <1>3, <1>4, <1>5 DEF Next

\* Whatever answers come late, streams break or messages overlap: the page's
\* fields name messages that were sent, Hermes is told to stop only runs whose
\* stream was open when the user asked or had broken, and a stream is aborted
\* after its run was stopped (stopActiveStream, finishActiveRun, sendMessage).
THEOREM PageSound == Spec => []PageInv
<1>1. Init => IndInv
  BY InitInd
<1>2. IndInv /\ [Next]_vars => IndInv'
  BY NextInd
<1>3. IndInv => PageInv
  BY DEF IndInv
<1>4. QED  BY <1>1, <1>2, <1>3, PTL DEF Spec
===============================================================================
