----------------------------- MODULE MC_ChatPage -----------------------------
(* ChatPage on small instances.                                              *)
EXTENDS ChatPage, TLC

\* Connections are interchangeable.
Connections == Permutations(Attachments)
=============================================================================
