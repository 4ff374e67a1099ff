----------------------------- MODULE MCSupervisor -----------------------------
(* Model-checking instance of Supervisor.  See README.md for the bounds.       *)
EXTENDS Supervisor

MCWorkloads ==
  {{"provision", "config.apply", "apply.soul", "credential.revoke"},
   {"provision", "apply.soul", "apply.skills", "suspend", "stop"},
   {"backup.create", "backup.restore", "backup.expire", "config.apply", "write memory"},
   {"provision", "release.apply", "start", "stop", "suspend", "resume", "delete"},
   {"config.stage", "config.apply", "release.stage", "backup.verify", "check",
    "service.restart", "delete"}}
===============================================================================
