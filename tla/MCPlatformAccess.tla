-------------------------- MODULE MCPlatformAccess --------------------------
(* A platform administrator and the administrator of another organization; two *)
(* processes; a key for two requests of each kind.                             *)
EXTENDS PlatformAccess

MCOrg == [u \in Users |-> IF u = "ada" THEN "o1" ELSE "o2"]
MCFirstRole == [u \in Users |-> IF u = "ada" THEN "platform_admin" ELSE "org_admin"]
=============================================================================
