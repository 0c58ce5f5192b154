---------------------------- MODULE MessageList ----------------------------
(***************************************************************************)
(* The list of a chat's messages as MessageService.cs answers with it:     *)
(* every row once, in the order of the ids.  The list of a whole chat is   *)
(* ordered by the timestamps, which are taken before the rows are inserted *)
(* (MessageService.cs:55,94), so that two sends that overlap may stand the *)
(* other way round in it; the rooms look at what is listed and at the      *)
(* largest id of it, and no property depends on the order of the two.      *)
(***************************************************************************)
EXTENDS Naturals, FiniteSetsExt, SequencesExt

\* OrderBy(m => m.Timestamp) of GetMessagesForChat, OrderBy(m => m.Id) of GetMessagesForChatAfterId.
InOrder(S) ==
  {q \in SeqOf(S, Cardinality(S)) :
     ToSet(q) = S /\ \A i, j \in DOMAIN q : i < j => q[i] < q[j]}
=============================================================================
