------------------------- MODULE MCChatMessageBus -------------------------
(* TLC instances of ChatMessageBus. *)
EXTENDS ChatMessageBus

CONSTANTS c1, c2, s1, s2, s3, m1, m2

\* Every subscriber and every message belongs to chat c1.
OneChat == [s \in Subs |-> c1]
OneChatMsg == [m \in Messages |-> c1]

\* One subscriber and one message of chat c2, the rest of c1.
TwoChats == [s \in Subs |-> IF s = s3 THEN c2 ELSE c1]
TwoChatsMsg == [m \in Messages |-> IF m = m2 THEN c2 ELSE c1]
=============================================================================
