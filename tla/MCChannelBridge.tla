--------------------------- MODULE MCChannelBridge ---------------------------
(* Instances of ChannelBridge for TLC.                                        *)
EXTENDS ChannelBridge

CONSTANT m1

MCMessages == {m1}

===============================================================================
