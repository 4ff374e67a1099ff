-------------------------- MODULE MCControlAuthority --------------------------
(* Instances of ControlAuthority for TLC.                                     *)
EXTENDS ControlAuthority

CONSTANTS c1, c2, alice, bob

MCCommands == {c1, c2}
MCOneCommand == {c1}
MCNone == {}
MCUsers == {alice, bob}

===============================================================================
