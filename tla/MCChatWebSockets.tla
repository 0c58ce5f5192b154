-------------------------- MODULE MCChatWebSockets --------------------------
(* TLC instances of ChatWebSockets. *)
EXTENDS ChatWebSockets

CONSTANTS c1, c2, r1

\* One chat, which both connections may join.
OneChatMsg == [m \in Messages |-> r1]
EveryChat == [c \in Conns |-> Chats]
=============================================================================
