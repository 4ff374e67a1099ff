--------------------------- MODULE MCUserRuntime ---------------------------
(* One tab beside a client of the intents route; three runs, two requests at   *)
(* a time.                                                                     *)
EXTENDS UserRuntime

MCAreas == {"scene-shell", "hotspots", "follow", "runs"}
MCMaxRevisions == [a \in MCAreas |-> IF a = "hotspots" THEN 2 ELSE 3]
=============================================================================
