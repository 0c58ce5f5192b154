-------------------------- MODULE MCChatGrpcStream --------------------------
(* TLC instances of ChatGrpcStream: message ids are 1, 2, ... *)
EXTENDS ChatGrpcStream

CONSTANTS c1, c2, s1, s2

OneChat == [s \in Subs |-> c1]
OneChatMsg == [m \in Messages |-> c1]
=============================================================================
