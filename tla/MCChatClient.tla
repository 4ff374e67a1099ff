----------------------------- MODULE MCChatClient -----------------------------
(* Model-checking instance of ChatClient.                                       *)
EXTENDS ChatClient
===============================================================================
