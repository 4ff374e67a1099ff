--------------------------- MODULE CommandLifecycle ---------------------------
(* What the control authority promises about a command, without leases,       *)
(* receipts or a clock: it waits, one server claims it, an unstarted claim    *)
(* may be given back, a started one never is, and it succeeds only through a  *)
(* judgement (docs/16-control-command-delivery.md, "Lease and receipt         *)
(* lifecycle").  Commands move independently, several of them in one step.    *)
CONSTANT Commands

VARIABLE phase

Phases == {"absent", "waiting", "claimed", "started", "judging", "succeeded",
           "abandoned"}

\* The moves one command can make.
Moves == {<<"absent", "waiting">>,      \* requested
          <<"waiting", "claimed">>,     \* leased to a server
          <<"waiting", "abandoned">>,   \* its approval was rejected
          <<"claimed", "waiting">>,     \* the lease lapsed before acceptance
          <<"claimed", "started">>,     \* the server accepted it
          <<"started", "judging">>,     \* the server reports completion
          <<"started", "abandoned">>,   \* failed, cancelled or expired
          <<"judging", "succeeded">>,   \* verified against an observation
          <<"judging", "abandoned">>}   \* refuted

TypeOK == phase \in [Commands -> Phases]

Init == phase = [c \in Commands |-> "absent"]

Next ==
    /\ phase' \in [Commands -> Phases]
    /\ \A c \in Commands :
         phase'[c] # phase[c] => <<phase[c], phase'[c]>> \in Moves

Spec == Init /\ [][Next]_phase

===============================================================================
