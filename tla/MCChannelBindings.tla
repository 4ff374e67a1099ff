-------------------------- MODULE MCChannelBindings --------------------------
(* Model-checking instance of ChannelBindings.  See README.md for the bounds. *)
EXTENDS ChannelBindings

MCChannel == <<"qq", "feishu">>
==============================================================================
