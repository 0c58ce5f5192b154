--------------------------- MODULE MCChatPolling ---------------------------
(* A TLC instance of ChatPolling: ids are numbers. *)
EXTENDS ChatPolling
=============================================================================
