----------------------------- MODULE MCControlLoop -----------------------------
(* Instances of ControlLoop for TLC.                                           *)
EXTENDS ControlLoop

CONSTANTS c1, c2, alice, bob

MCCommands == {c1, c2}
MCOneCommand == {c1}
MCNone == {}
MCUsers == {alice, bob}

===============================================================================
