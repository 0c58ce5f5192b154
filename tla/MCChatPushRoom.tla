--------------------------- MODULE MCChatPushRoom ---------------------------
(* A TLC instance of ChatPushRoom: ids are numbers. *)
EXTENDS ChatPushRoom
=============================================================================
