--------------------------- MODULE MCControlOutbox ---------------------------
(* Instances of ControlOutbox for TLC.                                        *)
EXTENDS ControlOutbox

CONSTANTS m1, m2, p1, p2

MCMessages == {m1, m2}
MCOneMessage == {m1}
MCPublishers == {p1, p2}

===============================================================================
