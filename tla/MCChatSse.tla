------------------------------- MODULE MCChatSse -------------------------------
(* Streams and messages are alike. *)
EXTENDS ChatSse, TLC
Symmetry == Permutations(Streams) \cup Permutations(Messages)
=============================================================================
