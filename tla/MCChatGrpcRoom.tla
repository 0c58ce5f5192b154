--------------------------- MODULE MCChatGrpcRoom ---------------------------
(* A TLC instance of ChatGrpcRoom: streams and ids are numbers. *)
EXTENDS ChatGrpcRoom
=============================================================================
