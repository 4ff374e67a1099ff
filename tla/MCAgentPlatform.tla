---------------------------- MODULE MCAgentPlatform ----------------------------
(* Model-checking instance of AgentPlatform.  See README.md for the bounds.    *)
EXTENDS AgentPlatform

MCMaxCommands == [w \in Areas |-> CASE w = "health" -> 1
                                     [] w = "lifecycle" -> 3
                                     [] OTHER -> 2]
MCMaxAttempts == [w \in Areas |-> IF w \in {"config", "backup"} THEN 2 ELSE 1]
================================================================================
