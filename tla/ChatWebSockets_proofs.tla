------------------------ MODULE ChatWebSockets_proofs ------------------------
(***************************************************************************)
(* Proofs about ChatWebSockets, for any number of connections, chats and   *)
(* messages: who a group holds, who a broadcast finds, and who gets what   *)
(* was saved.                                                              *)
(***************************************************************************)
EXTENDS ChatWebSockets, TLAPS

-----------------------------------------------------------------------------
(* Types.                                                                   *)

LEMMA TypeInit == Init => TypeOK
BY SocketAssumption DEF Init, TypeOK, GroupIds

LEMMA WithoutType ==
  ASSUME TypeOK, NEW c, NEW away PROVE Without(c, away) \in [Messages -> SUBSET Conns]
BY DEF TypeOK, Without

\* What TypeOK says of a handler: its place, its locals, and that they are set where it needs them.
HandlerTypes ==
  /\ pc \in [Conns -> {"off", "ready", "joining", "leaving", "left", "dropping", "saving",
                       "looking", "copying", "sending", "removing"}]
  /\ chat \in [Conns -> Chats \union {None}]
  /\ group \in [Conns -> GroupIds \union {None}]
  /\ msg \in [Conns -> Messages \union {None}]
  /\ left \in [Conns -> SUBSET Conns]
  /\ \A c \in Conns :
       /\ pc[c] \in {"joining", "leaving", "left", "dropping", "copying"} => group[c] # None
       /\ pc[c] \notin {"off", "ready", "removing"} => chat[c] # None
       /\ pc[c] \in {"saving", "looking", "copying", "sending"} => msg[c] # None

LEMMA ContinueKeepsTypes == ASSUME HandlerTypes, NEW c \in Conns, Continue(c) PROVE HandlerTypes'
BY DEF HandlerTypes, Continue

LEMMA BreakKeepsTypes ==
  ASSUME TypeOK, NEW c \in Conns, Break(c), UNCHANGED <<groupVars, aborted, sendVars>> PROVE TypeOK'
<1>1. audience' \in [Messages -> SUBSET Conns]
  BY WithoutType DEF Break
<1>2. HandlerTypes'
  BY DEF TypeOK, HandlerTypes, Break
<1>3. /\ joined' \in [Conns -> Chats \union {None}] /\ sweep' \in [Conns -> SUBSET Chats]
      /\ open' \in [Conns -> BOOLEAN]
  BY DEF TypeOK, Break, AllGroups
<1>4. stays' \in [Conns -> SUBSET Chats] /\ disturbed' \in [Conns -> SUBSET Chats]
  BY DEF TypeOK, Break
<1> QED
  BY <1>1, <1>2, <1>3, <1>4 DEF TypeOK, HandlerTypes, groupVars, sendVars

LEMMA ConnectionKeepsTypes ==
  ASSUME TypeOK, NEW c \in Conns, Connect(c) \/ Abort(c) \/ HandlerStops(c) PROVE TypeOK'
<1>1. CASE Connect(c)
  BY <1>1 DEF Connect, Goto, TypeOK, groupVars, local, sendVars, hist
<1>2. CASE Abort(c)
  BY <1>2 DEF Abort, TypeOK, groupVars, local, sendVars, hist
<1>3. CASE HandlerStops(c)
  BY <1>3, BreakKeepsTypes DEF HandlerStops
<1> QED
  BY <1>1, <1>2, <1>3

LEMMA JoiningKeepsTypes ==
  ASSUME TypeOK, NEW c \in Conns, (\E ch \in Chats : Join(c, ch)) \/ JoinAdd(c) PROVE TypeOK'
<1>1. ASSUME NEW ch \in Chats, Join(c, ch) PROVE TypeOK'
  <2>1. GetOrAdd(ch) \in GroupIds /\ GetOrAdd(ch) # None /\ made' \in 0..MaxGroups
    BY <1>1, SocketAssumption DEF Join, GroupIds, TypeOK
  <2>2. HandlerTypes'
    BY <1>1, <2>1, SocketAssumption DEF Join, Frame, Goto, TypeOK, HandlerTypes
  <2> QED
    <3>1. groups' \in [Chats -> GroupIds \union {None}]
      BY <1>1, <2>1 DEF Join, TypeOK
    <3>2. joined' \in [Conns -> Chats \union {None}]
      BY <1>1, <2>1 DEF Join, TypeOK
    <3>3. audience' \in [Messages -> SUBSET Conns]
      BY <1>1, WithoutType DEF Join
    <3>4. disturbed' \in [Conns -> SUBSET Chats]
      BY <1>1 DEF Join, TypeOK
    <3> QED
      BY <1>1, <2>1, <2>2, <3>1, <3>2, <3>3, <3>4 DEF Join, TypeOK, HandlerTypes, sockVars, sendVars
<1>2. CASE JoinAdd(c)
  <2>1. chat[c] \in Chats /\ group[c] \in GroupIds
    BY <1>2 DEF JoinAdd, TypeOK
  <2> QED
    BY <1>2, <2>1, ContinueKeepsTypes DEF JoinAdd, TypeOK, HandlerTypes, sockVars, sendVars
<1> QED
  BY <1>1, <1>2

LEMMA LeavingKeepsTypes ==
  ASSUME TypeOK, NEW c \in Conns,
         (\E ch \in Chats : Leave(c, ch)) \/ LeaveRemove(c) \/ LeaveIsEmpty(c) \/ LeaveDrop(c)
  PROVE  TypeOK'
<1>1. ASSUME NEW ch \in Chats, Leave(c, ch) PROVE TypeOK'
  <2>1. CASE groups[ch] = None
    BY <1>1, <2>1, WithoutType DEF Leave, Frame, Goto, TypeOK, groupVars, sockVars, sendVars
  <2>2. CASE groups[ch] # None
    <3>1. HandlerTypes'
      <4>1. /\ pc' = [pc EXCEPT ![c] = "leaving"] /\ chat' = [chat EXCEPT ![c] = ch]
            /\ group' = [group EXCEPT ![c] = groups[ch]] /\ UNCHANGED <<msg, left>>
        BY <1>1, <2>2 DEF Leave, Frame, Goto
      <4>2. groups[ch] \in GroupIds /\ groups[ch] # None /\ ch # None
        BY <2>2, SocketAssumption DEF TypeOK
      <4> QED
        BY <4>1, <4>2 DEF TypeOK, HandlerTypes
    <3> QED
      <4>1. audience' \in [Messages -> SUBSET Conns]
        BY <1>1, WithoutType DEF Leave
      <4>2. disturbed' \in [Conns -> SUBSET Chats] /\ stays' \in [Conns -> SUBSET Chats]
        BY <1>1 DEF Leave, TypeOK
      <4> QED
        BY <1>1, <3>1, <4>1, <4>2 DEF Leave, TypeOK, HandlerTypes, groupVars, sockVars, sendVars
  <2> QED
    BY <2>1, <2>2
<1>2. CASE LeaveRemove(c)
  BY <1>2 DEF LeaveRemove, Goto, TypeOK, sockVars, local, sendVars, hist
<1>3. CASE LeaveIsEmpty(c)
  <2>1. HandlerTypes'
    BY <1>3, ContinueKeepsTypes DEF LeaveIsEmpty, Goto, TypeOK, HandlerTypes, local
  <2> QED
    BY <1>3, <2>1 DEF LeaveIsEmpty, TypeOK, HandlerTypes, groupVars, sockVars, sendVars, hist
<1>4. CASE LeaveDrop(c)
  BY <1>4, ContinueKeepsTypes DEF LeaveDrop, TypeOK, HandlerTypes, sockVars, sendVars, hist
<1> QED
  BY <1>1, <1>2, <1>3, <1>4

LEMMA SendingKeepsTypes ==
  ASSUME TypeOK, NEW c \in Conns,
         \/ \E m \in Messages : Send(c, m)
         \/ Saved(c) \/ SaveFails(c) \/ BroadcastLookup(c) \/ BroadcastCopy(c) \/ BroadcastDone(c)
         \/ \E d \in Conns : Write(c, d)
  PROVE  TypeOK'
<1>1. ASSUME NEW m \in Messages, Send(c, m) PROVE TypeOK'
  BY <1>1, SocketAssumption DEF Send, Frame, Goto, TypeOK, groupVars, sockVars, hist
<1>2. CASE Saved(c)
  <2>1. msg[c] \in Messages
    BY <1>2 DEF Saved, Goto, TypeOK
  <2> QED
    BY <1>2, <2>1 DEF Saved, Goto, TypeOK, groupVars, sockVars, local
<1>3. CASE SaveFails(c)
  BY <1>3, BreakKeepsTypes DEF SaveFails
<1>4. CASE BroadcastLookup(c)
  <2>1. chat[c] \in Chats
    BY <1>4 DEF BroadcastLookup, TypeOK
  <2>2. HandlerTypes'
    BY <1>4, <2>1, ContinueKeepsTypes DEF BroadcastLookup, Goto, TypeOK, HandlerTypes
  <2> QED
    BY <1>4, <2>2 DEF BroadcastLookup, TypeOK, HandlerTypes, groupVars, sockVars, sendVars, hist
<1>5. CASE BroadcastCopy(c)
  BY <1>5 DEF BroadcastCopy, Goto, TypeOK, groupVars, sockVars, sendVars, hist
<1>6. CASE BroadcastDone(c)
  BY <1>6, ContinueKeepsTypes DEF BroadcastDone, TypeOK, HandlerTypes, groupVars, sockVars, sendVars, hist
<1>7. ASSUME NEW d \in Conns, Write(c, d) PROVE TypeOK'
  <2>1. msg[c] \in Messages
    BY <1>7 DEF Write, TypeOK
  <2>2. got' \in [Conns -> SUBSET Messages]
    <3>1. got' = got \/ got' = [got EXCEPT ![d] = @ \union {msg[c]}]
      BY <1>7 DEF Write
    <3> QED
      BY <2>1, <3>1 DEF TypeOK
  <2>3. open' \in [Conns -> BOOLEAN]
    <3>1. open' = open \/ open' = [open EXCEPT ![d] = FALSE]
      BY <1>7 DEF Write
    <3> QED
      BY <3>1 DEF TypeOK
  <2>4. left' \in [Conns -> SUBSET Conns]
    BY <1>7 DEF Write, TypeOK
  <2> QED
    BY <1>7, <2>2, <2>3, <2>4 DEF Write, TypeOK, groupVars, hist
<1> QED
  BY <1>1, <1>2, <1>3, <1>4, <1>5, <1>6, <1>7

LEMMA SweepKeepsTypes ==
  ASSUME TypeOK, NEW c \in Conns, NEW ch \in Chats, Sweep(c, ch) PROVE TypeOK'
BY DEF Sweep, TypeOK, sockVars, local, sendVars, hist

LEMMA TypeStep == TypeOK /\ [Next]_vars => TypeOK'
<1> SUFFICES ASSUME TypeOK, [Next]_vars PROVE TypeOK'
  OBVIOUS
<1>1. CASE UNCHANGED vars
  BY <1>1 DEF vars, groupVars, sockVars, local, sendVars, hist, TypeOK
<1>2. ASSUME NEW c \in Conns, HandlerStep(c) PROVE TypeOK'
  BY <1>2, JoiningKeepsTypes, LeavingKeepsTypes, SendingKeepsTypes, SweepKeepsTypes DEF HandlerStep
<1> QED
  BY <1>1, <1>2, ConnectionKeepsTypes, JoiningKeepsTypes, LeavingKeepsTypes, SendingKeepsTypes DEF Next

\* Whatever handlers do beside each other, each has the locals that its place needs.
THEOREM TypeHolds == Spec => []TypeOK
BY TypeInit, TypeStep, PTL DEF Spec

-----------------------------------------------------------------------------
(* Rooms.  ReachableUnlessDisturbed depends on which group a handler that  *)
(* joins or leaves holds, NoStaleMembers on who is being taken out.        *)

\* A group object is one chat's: whoever holds it holds it for that chat.
GroupsAreOfOneChat ==
  /\ \A ch \in Chats : groups[ch] # None => groups[ch] <= made
  /\ \A g \in GroupIds : g > made => members[g] = {}
  /\ \A ch, di \in Chats : groups[ch] = groups[di] /\ groups[ch] # None => ch = di
  /\ \A c \in Conns : group[c] # None => group[c] <= made
  /\ \A c \in Conns : pc[c] \in {"joining", "leaving", "left", "dropping", "copying"} =>
       \A ch \in Chats : groups[ch] = group[c] => ch = chat[c]

\* Who is out of the loop, or is leaving a chat, has not stayed in it.
GoneOrLeaving ==
  \A c \in Conns :
    /\ pc[c] \in {"off", "removing"} => stays[c] = {}
    /\ \A ch \in Chats : Leaving(c, ch) => ch \notin stays[c]

\* NoStaleMembers, and of those that are leaving, that they hold the group they are in.
MembersAreAccountedFor ==
  \A c \in Conns, ch \in Chats :
    groups[ch] # None /\ c \in members[groups[ch]] =>
      \/ ch \in stays[c]
      \/ pc[c] = "leaving" /\ chat[c] = ch /\ group[c] = groups[ch]
      \/ ch \in sweep[c]

\* A join that no leave has disturbed has the chat's group, and there is no leave to come.
JoinsUndisturbed ==
  \A c \in Conns : pc[c] = "joining" /\ chat[c] \notin disturbed[c] =>
    /\ groups[chat[c]] = group[c]
    /\ \A d \in Conns : ~Leaving(d, chat[c])

\* A leave of a chat someone undisturbed is in has the chat's group, and finds it not empty.
LeavesSeeTheRoom ==
  \A c, d \in Conns, ch \in Chats :
    InRoom(c, ch) /\ ch \notin disturbed[c] /\ Leaving(d, ch) =>
      group[d] = groups[ch] /\ pc[d] # "dropping"

RoomInv == /\ GroupsAreOfOneChat /\ GoneOrLeaving /\ MembersAreAccountedFor
           /\ JoinsUndisturbed /\ LeavesSeeTheRoom /\ ReachableUnlessDisturbed

LEMMA RoomInit == Init => RoomInv
BY SocketAssumption DEF Init, RoomInv, GroupsAreOfOneChat, GoneOrLeaving, MembersAreAccountedFor,
   JoinsUndisturbed, LeavesSeeTheRoom, ReachableUnlessDisturbed, InRoom, Leaving, GroupIds

\* Handlers that neither join nor leave, nor look a group up, leave the rooms as they are.
LEMMA RoomsLeftAlone ==
  ASSUME TypeOK, RoomInv, UNCHANGED <<groups, members, made, stays, disturbed, sweep>>,
         \A c \in Conns :
           \/ pc'[c] = pc[c] /\ chat'[c] = chat[c] /\ group'[c] = group[c]
           \/ /\ pc[c] \notin {"joining", "leaving"}
              /\ pc'[c] \notin {"off", "removing", "joining", "leaving", "left", "dropping", "copying"}
              /\ group'[c] \in {None, group[c]}
  PROVE  RoomInv'
<1>1. GroupsAreOfOneChat'
  BY DEF RoomInv, GroupsAreOfOneChat, TypeOK
<1>2. GoneOrLeaving' /\ MembersAreAccountedFor'
  BY DEF RoomInv, GoneOrLeaving, MembersAreAccountedFor, Leaving
<1>3. JoinsUndisturbed' /\ LeavesSeeTheRoom' /\ ReachableUnlessDisturbed'
  BY DEF RoomInv, JoinsUndisturbed, LeavesSeeTheRoom, ReachableUnlessDisturbed, Leaving, InRoom
<1> QED
  BY <1>1, <1>2, <1>3 DEF RoomInv

LEMMA BreakKeepsRooms ==
  ASSUME TypeOK, RoomInv, NEW c \in Conns, pc[c] \in {"ready", "saving"}, Break(c), UNCHANGED groupVars
  PROVE  RoomInv'
<1>1. /\ pc' = [pc EXCEPT ![c] = "removing"] /\ chat' = [chat EXCEPT ![c] = None]
      /\ stays' = [stays EXCEPT ![c] = {}] /\ disturbed' = [disturbed EXCEPT ![c] = {}]
      /\ sweep' = [sweep EXCEPT ![c] = Chats]
      /\ UNCHANGED <<groups, members, made, group>>
  BY DEF Break, AllGroups, groupVars
<1>2. GroupsAreOfOneChat'
  BY <1>1 DEF RoomInv, GroupsAreOfOneChat, TypeOK
<1>3. GoneOrLeaving' /\ MembersAreAccountedFor'
  BY <1>1 DEF RoomInv, GoneOrLeaving, MembersAreAccountedFor, Leaving, TypeOK
<1>4. JoinsUndisturbed'
  BY <1>1 DEF RoomInv, JoinsUndisturbed, Leaving, TypeOK
<1>5. LeavesSeeTheRoom' /\ ReachableUnlessDisturbed'
  BY <1>1 DEF RoomInv, LeavesSeeTheRoom, ReachableUnlessDisturbed, Leaving, InRoom, TypeOK
<1> QED
  BY <1>2, <1>3, <1>4, <1>5 DEF RoomInv

LEMMA JoinKeepsRooms ==
  ASSUME TypeOK, RoomInv, NEW c \in Conns, NEW ch \in Chats, Join(c, ch) PROVE RoomInv'
<1> DEFINE g == GetOrAdd(ch)
<1>1. /\ pc[c] = "ready" /\ pc' = [pc EXCEPT ![c] = "joining"] /\ chat' = [chat EXCEPT ![c] = ch]
      /\ group' = [group EXCEPT ![c] = g] /\ groups' = [groups EXCEPT ![ch] = g]
      /\ made' = (IF g > made THEN g ELSE made) /\ g \in GroupIds
      /\ disturbed' = [disturbed EXCEPT ![c] =
           IF \E d \in Conns : Leaving(d, ch) THEN @ \union {ch} ELSE @ \ {ch}]
      /\ UNCHANGED <<members, stays, sweep>>
  BY DEF Join, Frame, Goto
<1>2. /\ \A d \in Conns, di \in Chats : Leaving(d, di)' <=> Leaving(d, di)
      /\ \A d \in Conns, di \in Chats : InRoom(d, di)' => InRoom(d, di) /\ (d # c \/ di # ch)
      /\ \A d \in Conns, di \in Chats :
           d # c \/ di # ch => (di \in disturbed'[d] <=> di \in disturbed[d])
  BY <1>1 DEF Leaving, InRoom, TypeOK
<1>3. GoneOrLeaving'
  BY <1>1, <1>2 DEF RoomInv, GoneOrLeaving, TypeOK
<1>4. CASE groups[ch] = None
  <2>1. g = made + 1 /\ made' = made + 1 /\ made \in Nat /\ members[g] = {}
    BY <1>1, <1>4 DEF GetOrAdd, TypeOK, RoomInv, GroupsAreOfOneChat, GroupIds
  <2>2. \A di \in Chats : groups[di] # g
    BY <2>1, <1>1, SocketAssumption DEF TypeOK, RoomInv, GroupsAreOfOneChat, GroupIds
  <2>3. \A d \in Conns : group[d] # g
    BY <2>1, <1>1, SocketAssumption DEF TypeOK, RoomInv, GroupsAreOfOneChat, GroupIds
  <2>4. \A d \in Conns : InRoom(d, ch) => ch \in disturbed[d]
    BY <1>4 DEF RoomInv, ReachableUnlessDisturbed
  <2>5. GroupsAreOfOneChat'
    <3>1. \A di \in Chats : groups'[di] # None => groups'[di] <= made'
      BY <1>1, <2>1, SocketAssumption DEF RoomInv, GroupsAreOfOneChat, TypeOK, GroupIds
    <3>2. \A h \in GroupIds : h > made' => members'[h] = {}
      BY <1>1, <2>1 DEF RoomInv, GroupsAreOfOneChat, TypeOK, GroupIds
    <3>3. \A di, dj \in Chats : groups'[di] = groups'[dj] /\ groups'[di] # None => di = dj
      BY <1>1, <2>2 DEF RoomInv, GroupsAreOfOneChat, TypeOK
    <3>4. \A d \in Conns : group'[d] # None => group'[d] <= made'
      BY <1>1, <2>1, SocketAssumption DEF RoomInv, GroupsAreOfOneChat, TypeOK, GroupIds
    <3>5. \A d \in Conns : pc'[d] \in {"joining", "leaving", "left", "dropping", "copying"} =>
            \A di \in Chats : groups'[di] = group'[d] => di = chat'[d]
      BY <1>1, <2>2, <2>3 DEF RoomInv, GroupsAreOfOneChat, TypeOK
    <3> QED
      BY <3>1, <3>2, <3>3, <3>4, <3>5 DEF GroupsAreOfOneChat
  <2>6. MembersAreAccountedFor'
    BY <1>1, <2>1 DEF RoomInv, MembersAreAccountedFor, TypeOK
  <2>7. JoinsUndisturbed'
    BY <1>1, <1>2, <1>4 DEF RoomInv, JoinsUndisturbed, TypeOK
  <2>8. LeavesSeeTheRoom' /\ ReachableUnlessDisturbed'
    BY <1>1, <1>2, <2>4 DEF RoomInv, LeavesSeeTheRoom, ReachableUnlessDisturbed, Leaving, TypeOK
  <2> QED
    BY <1>3, <2>5, <2>6, <2>7, <2>8 DEF RoomInv
<1>5. CASE groups[ch] # None
  <2>1. g = groups[ch] /\ g <= made /\ made' = made /\ groups' = groups
    BY <1>1, <1>5 DEF GetOrAdd, TypeOK, RoomInv, GroupsAreOfOneChat, GroupIds
  <2>2. GroupsAreOfOneChat'
    BY <1>1, <1>5, <2>1 DEF RoomInv, GroupsAreOfOneChat, TypeOK
  <2>3. MembersAreAccountedFor'
    BY <1>1, <2>1 DEF RoomInv, MembersAreAccountedFor, TypeOK
  <2>4. JoinsUndisturbed'
    BY <1>1, <1>2, <2>1 DEF RoomInv, JoinsUndisturbed, TypeOK
  <2>5. LeavesSeeTheRoom' /\ ReachableUnlessDisturbed'
    BY <1>1, <1>2, <2>1 DEF RoomInv, LeavesSeeTheRoom, ReachableUnlessDisturbed, Leaving, TypeOK
  <2> QED
    BY <1>3, <2>2, <2>3, <2>4, <2>5 DEF RoomInv
<1> QED
  BY <1>4, <1>5

LEMMA JoinAddKeepsRooms == ASSUME TypeOK, RoomInv, NEW c \in Conns, JoinAdd(c) PROVE RoomInv'
<1>1. /\ pc[c] = "joining" /\ pc' = [pc EXCEPT ![c] = "ready"]
      /\ chat' = [chat EXCEPT ![c] = None] /\ group' = [group EXCEPT ![c] = None]
      /\ members' = [members EXCEPT ![group[c]] = @ \union {c}]
      /\ stays' = [stays EXCEPT ![c] = @ \union {chat[c]}]
      /\ UNCHANGED <<groups, made, disturbed, sweep>>
  BY DEF JoinAdd, Continue
<1>2. group[c] \in GroupIds /\ group[c] <= made /\ \A ch \in Chats : groups[ch] = group[c] => ch = chat[c]
  BY <1>1 DEF TypeOK, RoomInv, GroupsAreOfOneChat
<1>3. /\ \A d \in Conns, ch \in Chats : Leaving(d, ch)' <=> Leaving(d, ch)
      /\ \A d \in Conns, ch \in Chats : InRoom(d, ch)' => InRoom(d, ch) \/ (d = c /\ ch = chat[c])
  BY <1>1 DEF Leaving, InRoom, TypeOK
<1>4. chat[c] \in Chats
  BY <1>1 DEF TypeOK
<1>5. GroupsAreOfOneChat'
  BY <1>1, <1>2 DEF RoomInv, GroupsAreOfOneChat, TypeOK, GroupIds
<1>6. GoneOrLeaving'
  BY <1>1 DEF RoomInv, GoneOrLeaving, Leaving, TypeOK
<1>7. MembersAreAccountedFor'
  BY <1>1, <1>2 DEF RoomInv, MembersAreAccountedFor, TypeOK
<1>8. JoinsUndisturbed'
  BY <1>1, <1>3 DEF RoomInv, JoinsUndisturbed, TypeOK
<1>9. LeavesSeeTheRoom'
  BY <1>1, <1>3 DEF RoomInv, JoinsUndisturbed, LeavesSeeTheRoom, Leaving, TypeOK
<1>10. ReachableUnlessDisturbed'
  <2> SUFFICES ASSUME NEW d \in Conns, NEW ch \in Chats, InRoom(d, ch)', ch \notin disturbed[d]
               PROVE  groups[ch] # None /\ d \in members'[groups[ch]]
    BY <1>1 DEF ReachableUnlessDisturbed
  <2>1. CASE d = c /\ ch = chat[c]
    BY <1>1, <1>2, <2>1, SocketAssumption DEF RoomInv, JoinsUndisturbed, TypeOK
  <2>2. CASE InRoom(d, ch)
    BY <1>1, <2>2 DEF RoomInv, ReachableUnlessDisturbed, TypeOK
  <2> QED
    BY <1>3, <2>1, <2>2
<1> QED
  BY <1>5, <1>6, <1>7, <1>8, <1>9, <1>10 DEF RoomInv

LEMMA LeaveKeepsRooms ==
  ASSUME TypeOK, RoomInv, NEW c \in Conns, NEW ch \in Chats, Leave(c, ch) PROVE RoomInv'
<1>1. /\ pc[c] = "ready" /\ stays' = [stays EXCEPT ![c] = @ \ {ch}]
      /\ disturbed' = [d \in Conns |->
           IF d = c THEN disturbed[d] \ {ch}
           ELSE IF groups[ch] # None /\ pc[d] = "joining" /\ chat[d] = ch
           THEN disturbed[d] \union {ch} ELSE disturbed[d]]
      /\ UNCHANGED <<groups, members, made, sweep>>
  BY DEF Leave, Frame, Goto, groupVars
<1>2. \/ groups[ch] = None /\ pc' = pc /\ chat' = chat /\ group' = group
      \/ /\ groups[ch] # None /\ pc' = [pc EXCEPT ![c] = "leaving"]
         /\ chat' = [chat EXCEPT ![c] = ch] /\ group' = [group EXCEPT ![c] = groups[ch]]
  BY DEF Leave, Frame, Goto, TypeOK
<1>3. /\ \A d \in Conns, di \in Chats : InRoom(d, di)' => InRoom(d, di) /\ (d # c \/ di # ch)
      /\ \A d \in Conns, di \in Chats : d # c \/ di # ch => (di \notin disturbed'[d] => di \notin disturbed[d])
      /\ \A d \in Conns, di \in Chats : Leaving(d, di)' => Leaving(d, di) \/ (d = c /\ di = ch /\ groups[ch] # None)
  BY <1>1, <1>2 DEF Leaving, InRoom, TypeOK
<1>4. GroupsAreOfOneChat'
  BY <1>1, <1>2 DEF RoomInv, GroupsAreOfOneChat, TypeOK
<1>5. GoneOrLeaving'
  BY <1>1, <1>2 DEF RoomInv, GoneOrLeaving, Leaving, TypeOK
<1>6. MembersAreAccountedFor'
  BY <1>1, <1>2 DEF RoomInv, MembersAreAccountedFor, TypeOK
<1>7. JoinsUndisturbed'
  <2> SUFFICES ASSUME NEW d \in Conns, pc'[d] = "joining", chat'[d] \notin disturbed'[d]
               PROVE  groups'[chat'[d]] = group'[d] /\ \A e \in Conns : ~Leaving(e, chat[d])'
    BY <1>1, <1>2 DEF JoinsUndisturbed, TypeOK, Leaving
  <2>1. d # c /\ pc[d] = "joining" /\ chat'[d] = chat[d] /\ group'[d] = group[d] /\ chat[d] \in Chats
    BY <1>1, <1>2 DEF TypeOK
  <2>2. chat[d] \notin disturbed[d] /\ (chat[d] = ch => groups[ch] = None)
    BY <1>1, <2>1
  <2>3. groups[chat[d]] = group[d] /\ \A e \in Conns : ~Leaving(e, chat[d])
    BY <2>1, <2>2 DEF RoomInv, JoinsUndisturbed
  <2>4. group[d] # None
    BY <2>1 DEF TypeOK
  <2> QED
    BY <1>1, <1>3, <2>1, <2>2, <2>3, <2>4
<1>8. LeavesSeeTheRoom'
  BY <1>1, <1>2, <1>3 DEF RoomInv, LeavesSeeTheRoom, Leaving, TypeOK
<1>9. ReachableUnlessDisturbed'
  BY <1>1, <1>3 DEF RoomInv, ReachableUnlessDisturbed
<1> QED
  BY <1>4, <1>5, <1>6, <1>7, <1>8, <1>9 DEF RoomInv

LEMMA LeaveRemoveKeepsRooms == ASSUME TypeOK, RoomInv, NEW c \in Conns, LeaveRemove(c) PROVE RoomInv'
<1>1. /\ pc[c] = "leaving" /\ pc' = [pc EXCEPT ![c] = "left"]
      /\ members' = [members EXCEPT ![group[c]] = @ \ {c}]
      /\ UNCHANGED <<groups, made, chat, group, stays, disturbed, sweep>>
  BY DEF LeaveRemove, Goto, local, hist
<1>2. group[c] \in GroupIds /\ \A ch \in Chats : groups[ch] = group[c] => ch = chat[c] /\ ch \notin stays[c]
  BY <1>1 DEF TypeOK, RoomInv, GroupsAreOfOneChat, GoneOrLeaving, Leaving
<1>3. /\ \A d \in Conns, ch \in Chats : Leaving(d, ch)' <=> Leaving(d, ch)
      /\ \A d \in Conns, ch \in Chats : InRoom(d, ch)' <=> InRoom(d, ch)
  BY <1>1 DEF Leaving, InRoom, TypeOK
<1>4. GroupsAreOfOneChat'
  BY <1>1, <1>2 DEF RoomInv, GroupsAreOfOneChat, TypeOK
<1>5. GoneOrLeaving' /\ JoinsUndisturbed'
  BY <1>1, <1>3 DEF RoomInv, GoneOrLeaving, JoinsUndisturbed, Leaving, TypeOK
<1>6. MembersAreAccountedFor'
  BY <1>1, <1>2 DEF RoomInv, MembersAreAccountedFor, TypeOK
<1>7. LeavesSeeTheRoom'
  BY <1>1, <1>3 DEF RoomInv, LeavesSeeTheRoom, TypeOK
<1>8. ReachableUnlessDisturbed'
  <2>1. \A d \in Conns, ch \in Chats : InRoom(d, ch) /\ groups[ch] = group[c] => d # c
    BY <1>2 DEF InRoom
  <2> QED
    BY <1>1, <1>2, <1>3, <2>1 DEF RoomInv, ReachableUnlessDisturbed, TypeOK
<1> QED
  BY <1>4, <1>5, <1>6, <1>7, <1>8 DEF RoomInv

\* A group found empty is not one that somebody undisturbed is in.
LEMMA LeaveIsEmptyKeepsRooms == ASSUME TypeOK, RoomInv, NEW c \in Conns, LeaveIsEmpty(c) PROVE RoomInv'
<1>1. CASE members[group[c]] = {} /\ Goto(c, "left", "dropping") /\ UNCHANGED local
  <2>1. /\ pc[c] = "left" /\ pc' = [pc EXCEPT ![c] = "dropping"] /\ members[group[c]] = {}
        /\ UNCHANGED <<groups, members, made, chat, group, stays, disturbed, sweep>>
    BY <1>1 DEF LeaveIsEmpty, Goto, local, hist, groupVars
  <2>2. /\ \A d \in Conns, ch \in Chats : Leaving(d, ch)' <=> Leaving(d, ch)
        /\ \A d \in Conns, ch \in Chats : InRoom(d, ch)' <=> InRoom(d, ch)
    BY <2>1 DEF Leaving, InRoom, TypeOK
  <2>3. GroupsAreOfOneChat'
    BY <2>1 DEF RoomInv, GroupsAreOfOneChat, TypeOK
  <2>4. GoneOrLeaving' /\ JoinsUndisturbed' /\ ReachableUnlessDisturbed'
    BY <2>1, <2>2 DEF RoomInv, GoneOrLeaving, JoinsUndisturbed, ReachableUnlessDisturbed, Leaving, TypeOK
  <2>5. MembersAreAccountedFor'
    BY <2>1 DEF RoomInv, MembersAreAccountedFor, TypeOK
  <2>6. LeavesSeeTheRoom'
    BY <2>1, <2>2 DEF RoomInv, LeavesSeeTheRoom, ReachableUnlessDisturbed, TypeOK
  <2> QED
    BY <2>3, <2>4, <2>5, <2>6 DEF RoomInv
<1>2. CASE Continue(c)
  BY <1>2, RoomsLeftAlone DEF LeaveIsEmpty, Continue, groupVars, hist, TypeOK
<1> QED
  BY <1>1, <1>2 DEF LeaveIsEmpty

LEMMA LeaveDropKeepsRooms == ASSUME TypeOK, RoomInv, NEW c \in Conns, LeaveDrop(c) PROVE RoomInv'
<1>1. /\ pc[c] = "dropping" /\ pc' = [pc EXCEPT ![c] = "ready"]
      /\ chat' = [chat EXCEPT ![c] = None] /\ group' = [group EXCEPT ![c] = None]
      /\ groups' = [groups EXCEPT ![chat[c]] = None]
      /\ UNCHANGED <<members, made, stays, disturbed, sweep>>
  BY DEF LeaveDrop, Continue, hist
<1>2. /\ \A d \in Conns, ch \in Chats : Leaving(d, ch)' => Leaving(d, ch)
      /\ \A d \in Conns, ch \in Chats : InRoom(d, ch)' <=> InRoom(d, ch)
  BY <1>1 DEF Leaving, InRoom, TypeOK
<1>3. \A d \in Conns, ch \in Chats : InRoom(d, ch) /\ ch \notin disturbed[d] => ch # chat[c]
  BY <1>1 DEF RoomInv, LeavesSeeTheRoom, Leaving
<1>4. GroupsAreOfOneChat'
  BY <1>1 DEF RoomInv, GroupsAreOfOneChat, TypeOK
<1>5. GoneOrLeaving'
  BY <1>1, <1>2 DEF RoomInv, GoneOrLeaving, TypeOK
<1>6. MembersAreAccountedFor'
  BY <1>1 DEF RoomInv, MembersAreAccountedFor, TypeOK
<1>7. JoinsUndisturbed'
  BY <1>1, <1>2 DEF RoomInv, JoinsUndisturbed, Leaving, TypeOK
<1>8. LeavesSeeTheRoom' /\ ReachableUnlessDisturbed'
  BY <1>1, <1>2, <1>3 DEF RoomInv, LeavesSeeTheRoom, ReachableUnlessDisturbed, Leaving, TypeOK
<1> QED
  BY <1>4, <1>5, <1>6, <1>7, <1>8 DEF RoomInv

LEMMA BroadcastLookupKeepsRooms ==
  ASSUME TypeOK, RoomInv, NEW c \in Conns, BroadcastLookup(c) PROVE RoomInv'
<1>1. CASE Continue(c)
  BY <1>1, RoomsLeftAlone DEF BroadcastLookup, Continue, groupVars, hist, TypeOK
<1>2. CASE groups[chat[c]] # None /\ Goto(c, "looking", "copying")
           /\ group' = [group EXCEPT ![c] = groups[chat[c]]] /\ chat' = chat
  <2>1. /\ pc[c] = "looking" /\ pc' = [pc EXCEPT ![c] = "copying"] /\ chat[c] \in Chats
        /\ UNCHANGED <<groups, members, made, stays, disturbed, sweep>>
    BY <1>2 DEF BroadcastLookup, Goto, groupVars, hist, TypeOK
  <2>2. /\ \A d \in Conns, ch \in Chats : Leaving(d, ch)' <=> Leaving(d, ch)
        /\ \A d \in Conns, ch \in Chats : InRoom(d, ch)' <=> InRoom(d, ch)
    BY <1>2, <2>1 DEF Leaving, InRoom, TypeOK
  <2>3. GroupsAreOfOneChat'
    BY <1>2, <2>1 DEF RoomInv, GroupsAreOfOneChat, TypeOK
  <2>4. GoneOrLeaving' /\ JoinsUndisturbed' /\ ReachableUnlessDisturbed'
    BY <1>2, <2>1, <2>2 DEF RoomInv, GoneOrLeaving, JoinsUndisturbed, ReachableUnlessDisturbed, Leaving, TypeOK
  <2>5. MembersAreAccountedFor'
    BY <1>2, <2>1 DEF RoomInv, MembersAreAccountedFor, TypeOK
  <2>6. LeavesSeeTheRoom'
    BY <1>2, <2>1, <2>2 DEF RoomInv, LeavesSeeTheRoom, Leaving, TypeOK
  <2> QED
    BY <2>3, <2>4, <2>5, <2>6 DEF RoomInv
<1> QED
  BY <1>1, <1>2 DEF BroadcastLookup

LEMMA SweepKeepsRooms ==
  ASSUME TypeOK, RoomInv, NEW c \in Conns, NEW ch \in Chats, Sweep(c, ch) PROVE RoomInv'
<1>1. /\ pc[c] = "removing" /\ sweep' = [sweep EXCEPT ![c] = @ \ {ch}]
      /\ members' = [g \in GroupIds |-> IF g = groups[ch] THEN members[g] \ {c} ELSE members[g]]
      /\ UNCHANGED <<groups, made, pc, chat, group, stays, disturbed>>
  BY DEF Sweep, local, hist
<1>2. \A di \in Chats : ~InRoom(c, di)
  BY <1>1 DEF RoomInv, GoneOrLeaving, InRoom
<1>3. GroupsAreOfOneChat' /\ GoneOrLeaving' /\ JoinsUndisturbed' /\ LeavesSeeTheRoom'
  BY <1>1 DEF RoomInv, GroupsAreOfOneChat, GoneOrLeaving, JoinsUndisturbed, LeavesSeeTheRoom, Leaving,
     InRoom, TypeOK
<1>4. MembersAreAccountedFor'
  BY <1>1 DEF RoomInv, MembersAreAccountedFor, TypeOK
<1>5. ReachableUnlessDisturbed'
  BY <1>1, <1>2 DEF RoomInv, ReachableUnlessDisturbed, InRoom, TypeOK
<1> QED
  BY <1>3, <1>4, <1>5 DEF RoomInv

LEMMA RoomStep == TypeOK /\ RoomInv /\ [Next]_vars => RoomInv'
<1> SUFFICES ASSUME TypeOK, RoomInv, [Next]_vars PROVE RoomInv'
  OBVIOUS
<1>1. CASE UNCHANGED vars
  BY <1>1, RoomsLeftAlone DEF vars, groupVars, local, hist
<1>2. ASSUME NEW c \in Conns, Connect(c) \/ Abort(c) \/ (\E m \in Messages : Send(c, m))
                              \/ (\E d \in Conns : Write(c, d))
      PROVE  RoomInv'
  BY <1>2, RoomsLeftAlone DEF Connect, Abort, Send, Write, Frame, Goto, groupVars, local, hist, TypeOK
<1>3. ASSUME NEW c \in Conns, Saved(c) \/ BroadcastCopy(c) \/ BroadcastDone(c) PROVE RoomInv'
  BY <1>3, RoomsLeftAlone DEF Saved, BroadcastCopy, BroadcastDone, Continue, Goto, groupVars, local, hist,
     TypeOK
<1>4. ASSUME NEW c \in Conns, HandlerStops(c) \/ SaveFails(c) PROVE RoomInv'
  BY <1>4, BreakKeepsRooms DEF HandlerStops, SaveFails
<1>5. ASSUME NEW c \in Conns, HandlerStep(c) PROVE RoomInv'
  BY <1>3, <1>4, <1>5, JoinAddKeepsRooms, LeaveRemoveKeepsRooms, LeaveIsEmptyKeepsRooms,
     LeaveDropKeepsRooms, BroadcastLookupKeepsRooms, SweepKeepsRooms DEF HandlerStep
<1> QED
  BY <1>1, <1>2, <1>4, <1>5, JoinKeepsRooms, LeaveKeepsRooms DEF Next

THEOREM RoomInvariant == Spec => []RoomInv
BY RoomInit, RoomStep, TypeHolds, PTL DEF Spec

\* Who has joined a chat and not left is in the group broadcasts go to, unless a leave met the join.
THEOREM ReachableUnlessDisturbedHolds == Spec => []ReachableUnlessDisturbed
<1>1. RoomInv => ReachableUnlessDisturbed
  BY DEF RoomInv
<1> QED
  BY <1>1, RoomInvariant, PTL

\* The groups in use hold none but those who joined the chat, save who is being taken out.
THEOREM NoStaleMembersHolds == Spec => []NoStaleMembers
<1>1. RoomInv => NoStaleMembers
  BY DEF RoomInv, MembersAreAccountedFor, NoStaleMembers
<1> QED
  BY <1>1, RoomInvariant, PTL

-----------------------------------------------------------------------------
(* Messages.  SavedReachesRoom depends on a broadcast having what it needs *)
(* for everyone it is still for, whoever comes and goes meanwhile.         *)

InBroadcast == {"looking", "copying", "sending"}

\* A handler that sends a message is the one that sent it, and saves it once.
SendersKnown ==
  /\ \A c \in Conns :
       /\ msg[c] # None => /\ pc[c] \in InBroadcast \union {"saving"}
                           /\ sender[msg[c]] = c /\ chat[c] = MsgChat[msg[c]]
       /\ pc[c] = "saving" => msg[c] \notin db
  /\ \A m \in db : sender[m] # None

AudienceIsInRoom == \A m \in Messages : \A c \in audience[m] : InRoom(c, MsgChat[m])

\* Whom the broadcast of b is for: in the room, undisturbed and open, and b is not gone.
Due(b, c) == c \in audience[msg[b]] /\ chat[b] \notin disturbed[c] /\ open[c] /\ ~aborted[b]

BroadcastOnItsWay ==
  \A b, c \in Conns :
    /\ pc[b] = "copying" /\ Due(b, c) => group[b] = groups[chat[b]]
    /\ pc[b] = "sending" /\ Due(b, c) => c \in left[b] \/ msg[b] \in got[c]

MessageInv == SendersKnown /\ AudienceIsInRoom /\ BroadcastOnItsWay /\ SavedReachesRoom

LEMMA MessageInit == Init => MessageInv
BY DEF Init, MessageInv, SendersKnown, AudienceIsInRoom, BroadcastOnItsWay, SavedReachesRoom, InBroadcast

\* Handlers that send nothing, and that free no one from what excuses the broadcast.
LEMMA MessagesLeftAlone ==
  ASSUME TypeOK, MessageInv, UNCHANGED <<db, sender, got, left>>,
         \A c \in Conns :
           /\ aborted[c] => aborted'[c]
           /\ \/ pc'[c] = pc[c] /\ msg'[c] = msg[c] /\ chat'[c] = chat[c] /\ group'[c] = group[c]
              \/ /\ pc[c] \notin InBroadcast /\ pc'[c] \notin InBroadcast \union {"saving"}
                 /\ msg'[c] = None,
         \A m \in Messages : \A c \in audience'[m] :
           /\ c \in audience[m] /\ InRoom(c, MsgChat[m])' /\ (open'[c] => open[c])
           /\ MsgChat[m] \notin disturbed'[c] =>
                MsgChat[m] \notin disturbed[c] /\ groups'[MsgChat[m]] = groups[MsgChat[m]]
  PROVE  MessageInv'
<1>1. SendersKnown'
  BY DEF MessageInv, SendersKnown, InBroadcast
<1>2. AudienceIsInRoom'
  BY DEF AudienceIsInRoom
<1>3. BroadcastOnItsWay'
  <2> SUFFICES ASSUME NEW b \in Conns, NEW c \in Conns, pc'[b] \in {"copying", "sending"}, Due(b, c)'
               PROVE  /\ pc'[b] = "copying" => group'[b] = groups'[chat'[b]]
                      /\ pc'[b] = "sending" => c \in left'[b] \/ msg'[b] \in got'[c]
    BY DEF BroadcastOnItsWay
  <2>1. pc'[b] = pc[b] /\ msg'[b] = msg[b] /\ chat'[b] = chat[b] /\ group'[b] = group[b]
    BY DEF InBroadcast
  <2>2. msg[b] \in Messages /\ chat[b] = MsgChat[msg[b]]
    BY <2>1 DEF MessageInv, SendersKnown, TypeOK
  <2>3. Due(b, c) /\ groups'[chat[b]] = groups[chat[b]]
    BY <2>1, <2>2 DEF Due
  <2> QED
    BY <2>1, <2>3 DEF MessageInv, BroadcastOnItsWay
<1>4. SavedReachesRoom'
  <2>1. \A m \in Messages : Broadcasting(m) => Broadcasting(m)'
    BY DEF Broadcasting, InBroadcast
  <2>2. \A m \in db : sender[m] \in Conns
    BY DEF MessageInv, SendersKnown, TypeOK
  <2> QED
    BY <2>1, <2>2 DEF MessageInv, SavedReachesRoom, TypeOK
<1> QED
  BY <1>1, <1>2, <1>3, <1>4 DEF MessageInv

LEMMA BreakKeepsMessages ==
  ASSUME TypeOK, MessageInv, NEW c \in Conns, pc[c] \in {"ready", "saving"}, Break(c),
         UNCHANGED <<groupVars, aborted, sendVars>>
  PROVE  MessageInv'
<1>1. /\ pc' = [pc EXCEPT ![c] = "removing"] /\ chat' = [chat EXCEPT ![c] = None]
      /\ msg' = [msg EXCEPT ![c] = None] /\ open' = [open EXCEPT ![c] = FALSE]
      /\ stays' = [stays EXCEPT ![c] = {}] /\ disturbed' = [disturbed EXCEPT ![c] = {}]
      /\ UNCHANGED <<groups, group, left, aborted, db, sender, got>>
  BY DEF Break, groupVars, sendVars
<1>2. \A m \in Messages : audience'[m] = audience[m] \ {c}
  BY SocketAssumption DEF Break, Without
<1>3. \A m \in Messages : \A d \in audience'[m] :
        d \in Conns /\ d # c /\ d \in audience[m] /\ InRoom(d, MsgChat[m])'
  BY <1>1, <1>2 DEF MessageInv, AudienceIsInRoom, InRoom, TypeOK
<1>4. /\ \A d \in Conns : d # c => open'[d] = open[d] /\ disturbed'[d] = disturbed[d] /\ pc'[d] = pc[d]
                           /\ msg'[d] = msg[d] /\ chat'[d] = chat[d]
      /\ pc'[c] = "removing" /\ msg'[c] = None
  BY <1>1 DEF TypeOK
<1> QED
  BY <1>1, <1>3, <1>4, MessagesLeftAlone DEF InBroadcast

LEMMA ConnectionKeepsMessages ==
  ASSUME TypeOK, RoomInv, MessageInv, NEW c \in Conns, Connect(c) \/ Abort(c) PROVE MessageInv'
<1>1. UNCHANGED <<groups, chat, group, msg, left, db, sender, got, stays, disturbed, audience>>
  BY DEF Connect, Abort, groupVars, local, sendVars, hist
<1>2. \A m \in Messages : \A d \in audience[m] : d \in Conns /\ InRoom(d, MsgChat[m])
  BY DEF MessageInv, AudienceIsInRoom, TypeOK
<1>3. CASE Connect(c)
  <2>1. /\ pc[c] = "off" /\ pc' = [pc EXCEPT ![c] = "ready"] /\ open' = [open EXCEPT ![c] = TRUE]
        /\ aborted' = aborted /\ stays[c] = {} /\ msg[c] = None
    BY <1>3 DEF Connect, Goto, RoomInv, GoneOrLeaving, MessageInv, SendersKnown, InBroadcast
  <2>2. \A m \in Messages : c \notin audience[m]
    BY <1>2, <2>1 DEF InRoom
  <2>3. \A m \in Messages : \A d \in audience[m] : InRoom(d, MsgChat[m])' /\ open'[d] = open[d]
    BY <1>1, <1>2, <2>1, <2>2 DEF InRoom, TypeOK
  <2> QED
    BY <1>1, <2>1, <2>3, MessagesLeftAlone DEF InBroadcast, TypeOK
<1>4. CASE Abort(c)
  <2>1. /\ aborted' = [aborted EXCEPT ![c] = TRUE] /\ open' = [open EXCEPT ![c] = FALSE] /\ pc' = pc
    BY <1>4 DEF Abort
  <2>2. \A m \in Messages : \A d \in audience[m] : InRoom(d, MsgChat[m])' /\ (open'[d] => open[d])
    BY <1>1, <1>2, <2>1 DEF InRoom, TypeOK
  <2> QED
    BY <1>1, <2>1, <2>2, MessagesLeftAlone DEF TypeOK
<1> QED
  BY <1>3, <1>4

LEMMA JoinKeepsMessages ==
  ASSUME TypeOK, RoomInv, MessageInv, NEW c \in Conns, NEW ch \in Chats, Join(c, ch) PROVE MessageInv'
<1>1. /\ pc[c] = "ready" /\ pc' = [pc EXCEPT ![c] = "joining"] /\ chat' = [chat EXCEPT ![c] = ch]
      /\ groups' = [groups EXCEPT ![ch] = GetOrAdd(ch)] /\ group' = [group EXCEPT ![c] = GetOrAdd(ch)]
      /\ disturbed' = [disturbed EXCEPT ![c] =
           IF \E d \in Conns : Leaving(d, ch) THEN @ \union {ch} ELSE @ \ {ch}]
      /\ UNCHANGED <<open, aborted, msg, left, db, sender, got, stays>>
  BY DEF Join, Frame, Goto, sockVars, sendVars
<1>2. \A m \in Messages : \A d \in audience'[m] :
        d \in Conns /\ d \in audience[m] /\ InRoom(d, MsgChat[m]) /\ (d # c \/ MsgChat[m] # ch)
  BY DEF Join, Without, MessageInv, AudienceIsInRoom, TypeOK
<1>3. msg[c] = None /\ \A m \in Messages : MsgChat[m] \in Chats
  BY <1>1, SocketAssumption DEF MessageInv, SendersKnown, InBroadcast
<1>4. \A m \in Messages : \A d \in audience'[m] :
        /\ InRoom(d, MsgChat[m])'
        /\ MsgChat[m] \in disturbed[d] => MsgChat[m] \in disturbed'[d]
  BY <1>1, <1>2 DEF InRoom, TypeOK
<1>5. \A m \in Messages : \A d \in audience'[m] :
        MsgChat[m] \notin disturbed[d] => groups'[MsgChat[m]] = groups[MsgChat[m]]
  BY <1>1, <1>2, <1>3 DEF RoomInv, ReachableUnlessDisturbed, GetOrAdd, TypeOK
<1>6. \A d \in Conns : d # c => pc'[d] = pc[d] /\ chat'[d] = chat[d] /\ group'[d] = group[d]
  BY <1>1 DEF TypeOK
<1>7. pc'[c] = "joining"
  BY <1>1 DEF TypeOK
<1> QED
  BY <1>1, <1>2, <1>3, <1>4, <1>5, <1>6, <1>7, MessagesLeftAlone DEF InBroadcast

LEMMA JoinAddKeepsMessages ==
  ASSUME TypeOK, RoomInv, MessageInv, NEW c \in Conns, JoinAdd(c) PROVE MessageInv'
<1>1. /\ pc[c] = "joining" /\ pc' = [pc EXCEPT ![c] = "ready"] /\ chat' = [chat EXCEPT ![c] = None]
      /\ group' = [group EXCEPT ![c] = None] /\ msg' = [msg EXCEPT ![c] = None]
      /\ stays' = [stays EXCEPT ![c] = @ \union {chat[c]}]
      /\ UNCHANGED <<groups, open, aborted, left, db, sender, got, disturbed, audience>>
  BY DEF JoinAdd, Continue, sockVars, sendVars
<1>2. \A m \in Messages : \A d \in audience[m] : InRoom(d, MsgChat[m])'
  BY <1>1 DEF MessageInv, AudienceIsInRoom, InRoom, TypeOK
<1>3. \A d \in Conns : IF d = c THEN pc'[d] = "ready" /\ msg'[d] = None
                       ELSE pc'[d] = pc[d] /\ msg'[d] = msg[d] /\ chat'[d] = chat[d] /\ group'[d] = group[d]
  BY <1>1 DEF TypeOK
<1> QED
  BY <1>1, <1>2, <1>3, MessagesLeftAlone DEF InBroadcast

LEMMA LeaveKeepsMessages ==
  ASSUME TypeOK, RoomInv, MessageInv, NEW c \in Conns, NEW ch \in Chats, Leave(c, ch) PROVE MessageInv'
<1>1. /\ pc[c] = "ready" /\ stays' = [stays EXCEPT ![c] = @ \ {ch}]
      /\ UNCHANGED <<groups, open, aborted, msg, left, db, sender, got>>
  BY DEF Leave, Frame, Goto, groupVars, sockVars, sendVars
<1>2. /\ \A d \in Conns : d # c => pc'[d] = pc[d] /\ chat'[d] = chat[d] /\ group'[d] = group[d]
      /\ pc'[c] \in {"ready", "leaving"}
  BY DEF Leave, Frame, Goto, TypeOK
<1>3. msg[c] = None
  BY <1>1 DEF MessageInv, SendersKnown, InBroadcast
<1>4. \A d \in Conns, di \in Chats : d # c \/ di # ch => (di \in disturbed[d] => di \in disturbed'[d])
  BY DEF Leave
<1>5. \A m \in Messages : \A d \in audience'[m] :
        d \in Conns /\ d \in audience[m] /\ InRoom(d, MsgChat[m]) /\ (d # c \/ MsgChat[m] # ch)
  BY DEF Leave, Without, MessageInv, AudienceIsInRoom, TypeOK
<1>6. \A m \in Messages : \A d \in audience'[m] : InRoom(d, MsgChat[m])'
  BY <1>1, <1>2, <1>5 DEF InRoom, TypeOK
<1> QED
  BY <1>1, <1>2, <1>3, <1>4, <1>5, <1>6, MessagesLeftAlone, SocketAssumption DEF InBroadcast

LEMMA LeavingKeepsMessages ==
  ASSUME TypeOK, RoomInv, MessageInv, NEW c \in Conns, LeaveRemove(c) \/ LeaveIsEmpty(c) \/ LeaveDrop(c)
  PROVE  MessageInv'
<1>1. pc[c] \in {"leaving", "left", "dropping"} /\ msg[c] = None
  BY DEF LeaveRemove, LeaveIsEmpty, LeaveDrop, Goto, MessageInv, SendersKnown, InBroadcast
<1>2. \A d \in Conns : IF d = c THEN pc'[d] \in {"left", "dropping", "ready"} /\ msg'[d] = None
                       ELSE pc'[d] = pc[d] /\ msg'[d] = msg[d] /\ chat'[d] = chat[d] /\ group'[d] = group[d]
  BY <1>1 DEF LeaveRemove, LeaveIsEmpty, LeaveDrop, Goto, Continue, local, TypeOK
<1>3. UNCHANGED <<open, aborted, left, db, sender, got, stays, disturbed, audience>>
  BY DEF LeaveRemove, LeaveIsEmpty, LeaveDrop, Continue, local, hist, sockVars, sendVars
<1>4. \A m \in Messages : \A d \in audience[m] : d \in Conns /\ InRoom(d, MsgChat[m]) /\ InRoom(d, MsgChat[m])'
  BY <1>2, <1>3 DEF MessageInv, AudienceIsInRoom, InRoom, TypeOK
<1>5. \A m \in Messages : \A d \in audience[m] :
        MsgChat[m] \notin disturbed[d] => groups'[MsgChat[m]] = groups[MsgChat[m]]
  <2>1. CASE LeaveDrop(c)
    <3>1. pc[c] = "dropping" /\ groups' = [groups EXCEPT ![chat[c]] = None]
      BY <2>1 DEF LeaveDrop
    <3>2. \A m \in Messages : \A d \in audience[m] : MsgChat[m] \notin disturbed[d] => MsgChat[m] # chat[c]
      BY <1>4, <3>1, SocketAssumption DEF RoomInv, LeavesSeeTheRoom, Leaving
    <3> QED
      BY <3>1, <3>2 DEF TypeOK
  <2>2. CASE LeaveRemove(c) \/ LeaveIsEmpty(c)
    BY <2>2 DEF LeaveRemove, LeaveIsEmpty, groupVars
  <2> QED
    BY <2>1, <2>2
<1> QED
  BY <1>1, <1>2, <1>3, <1>4, <1>5, MessagesLeftAlone DEF InBroadcast

LEMMA SendKeepsMessages ==
  ASSUME TypeOK, MessageInv, NEW c \in Conns, NEW m \in Messages, Send(c, m) PROVE MessageInv'
<1>1. /\ pc[c] = "ready" /\ pc' = [pc EXCEPT ![c] = "saving"] /\ chat' = [chat EXCEPT ![c] = MsgChat[m]]
      /\ msg' = [msg EXCEPT ![c] = m] /\ sender[m] = None /\ sender' = [sender EXCEPT ![m] = c]
      /\ UNCHANGED <<groups, open, aborted, group, left, db, got, stays, disturbed, audience>>
  BY DEF Send, Frame, Goto, groupVars, sockVars, hist
<1>2. m \notin db /\ \A d \in Conns : msg[d] # m
  BY <1>1, SocketAssumption DEF MessageInv, SendersKnown
<1>3. SendersKnown'
  BY <1>1, <1>2, SocketAssumption DEF MessageInv, SendersKnown, InBroadcast, TypeOK
<1>4. AudienceIsInRoom'
  BY <1>1 DEF MessageInv, AudienceIsInRoom, InRoom, TypeOK
<1>5. BroadcastOnItsWay'
  BY <1>1 DEF MessageInv, BroadcastOnItsWay, Due, TypeOK
<1>6. SavedReachesRoom'
  <2>1. \A n \in db : (Broadcasting(n) => Broadcasting(n)') /\ sender'[n] = sender[n]
    BY <1>1, <1>2 DEF Broadcasting, TypeOK
  <2> QED
    BY <1>1, <2>1 DEF MessageInv, SavedReachesRoom
<1> QED
  BY <1>3, <1>4, <1>5, <1>6 DEF MessageInv

LEMMA SavedKeepsMessages == ASSUME TypeOK, MessageInv, NEW c \in Conns, Saved(c) PROVE MessageInv'
<1>1. /\ pc[c] = "saving" /\ pc' = [pc EXCEPT ![c] = "looking"] /\ db' = db \union {msg[c]}
      /\ audience' = [audience EXCEPT ![msg[c]] = {d \in Conns : InRoom(d, chat[c])}]
      /\ UNCHANGED <<groups, open, aborted, chat, group, msg, left, sender, got, stays, disturbed>>
  BY DEF Saved, Goto, groupVars, sockVars, local
<1>2. msg[c] \in Messages /\ chat[c] = MsgChat[msg[c]] /\ sender[msg[c]] = c /\ c # None
  BY <1>1, SocketAssumption DEF MessageInv, SendersKnown, TypeOK
<1>3. \A d \in Conns : msg[d] = msg[c] => d = c
  BY <1>2, SocketAssumption DEF MessageInv, SendersKnown
<1>4. SendersKnown'
  BY <1>1, <1>2, <1>3 DEF MessageInv, SendersKnown, InBroadcast, TypeOK
<1>5. AudienceIsInRoom'
  BY <1>1, <1>2 DEF MessageInv, AudienceIsInRoom, InRoom, TypeOK
<1>6. BroadcastOnItsWay'
  BY <1>1, <1>3 DEF MessageInv, BroadcastOnItsWay, Due, TypeOK
<1>7. SavedReachesRoom'
  <2>1. Broadcasting(msg[c])' /\ \A n \in db : Broadcasting(n) => Broadcasting(n)'
    BY <1>1 DEF Broadcasting, TypeOK
  <2> QED
    BY <1>1, <2>1 DEF MessageInv, SavedReachesRoom, TypeOK
<1> QED
  BY <1>4, <1>5, <1>6, <1>7 DEF MessageInv

LEMMA ReadingKeepsMessages ==
  ASSUME TypeOK, RoomInv, MessageInv, NEW c \in Conns, BroadcastLookup(c) \/ BroadcastCopy(c) PROVE MessageInv'
<1>1. UNCHANGED <<groups, members, open, aborted, db, sender, got, stays, disturbed, audience>>
  BY DEF BroadcastLookup, BroadcastCopy, groupVars, sockVars, sendVars, hist
<1>2. /\ pc[c] \in {"looking", "copying"} /\ msg[c] \in Messages /\ chat[c] = MsgChat[msg[c]]
      /\ sender[msg[c]] = c
  BY DEF BroadcastLookup, BroadcastCopy, Goto, MessageInv, SendersKnown, TypeOK
<1>3. \A d \in audience[msg[c]] : chat[c] \notin disturbed[d] =>
        groups[chat[c]] # None /\ d \in members[groups[chat[c]]]
  BY <1>2, SocketAssumption DEF MessageInv, AudienceIsInRoom, RoomInv, ReachableUnlessDisturbed, TypeOK
<1>4. CASE pc[c] = "looking" /\ groups[chat[c]] = None /\ Continue(c)
  <2>1. /\ pc' = [pc EXCEPT ![c] = "ready"] /\ chat' = [chat EXCEPT ![c] = None]
        /\ group' = [group EXCEPT ![c] = None] /\ msg' = [msg EXCEPT ![c] = None] /\ left' = left
    BY <1>4 DEF Continue
  <2>2. SendersKnown'
    BY <1>1, <2>1 DEF MessageInv, SendersKnown, InBroadcast, TypeOK
  <2>3. AudienceIsInRoom' /\ BroadcastOnItsWay'
    BY <1>1, <1>4, <2>1 DEF MessageInv, AudienceIsInRoom, BroadcastOnItsWay, Due, InRoom, TypeOK
  <2>4. SavedReachesRoom'
    <3>1. \A n \in db : n # msg[c] => (Broadcasting(n) => Broadcasting(n)')
      BY <2>1 DEF Broadcasting, TypeOK
    <3> QED
      BY <1>1, <1>2, <1>3, <1>4, <3>1 DEF MessageInv, SavedReachesRoom, TypeOK
  <2> QED
    BY <2>2, <2>3, <2>4 DEF MessageInv
<1>5. ASSUME pc'[c] \in {"copying", "sending"}, \A d \in Conns : d # c => pc'[d] = pc[d],
             UNCHANGED <<chat, msg>>, \A d \in Conns : d # c => group'[d] = group[d] /\ left'[d] = left[d],
             pc'[c] = "copying" => group'[c] = groups[chat[c]],
             pc'[c] = "sending" => \A d \in Conns : Due(c, d) => d \in left'[c]
      PROVE  MessageInv'
  <2>1. \A d \in Conns : pc'[d] # pc[d] => pc'[d] \in {"copying", "sending"}
    BY <1>5
  <2>2. SendersKnown'
    BY <1>1, <1>2, <1>5, <2>1 DEF MessageInv, SendersKnown, InBroadcast
  <2>3. AudienceIsInRoom'
    BY <1>1, <1>2, <1>5, <2>1 DEF MessageInv, AudienceIsInRoom, InRoom, TypeOK
  <2>4. BroadcastOnItsWay'
    BY <1>1, <1>5 DEF MessageInv, BroadcastOnItsWay, Due
  <2>5. SavedReachesRoom'
    <3>1. \A n \in db : Broadcasting(n) => Broadcasting(n)'
      BY <1>5 DEF Broadcasting
    <3> QED
      BY <1>1, <3>1 DEF MessageInv, SavedReachesRoom
  <2> QED
    BY <2>2, <2>3, <2>4, <2>5 DEF MessageInv
<1>6. CASE BroadcastCopy(c)
  <2>1. /\ pc[c] = "copying" /\ pc' = [pc EXCEPT ![c] = "sending"]
        /\ left' = [left EXCEPT ![c] = members[group[c]]] /\ UNCHANGED <<chat, group, msg>>
    BY <1>6 DEF BroadcastCopy, Goto
  <2>2. \A d \in Conns : Due(c, d) => d \in members[group[c]]
    BY <1>3, <2>1 DEF MessageInv, BroadcastOnItsWay, Due
  <2> QED
    BY <1>5, <2>1, <2>2 DEF TypeOK
<1>7. CASE pc[c] = "looking" /\ Goto(c, "looking", "copying") /\ UNCHANGED <<chat, msg, left>>
           /\ group' = [group EXCEPT ![c] = groups[chat[c]]]
  BY <1>5, <1>7 DEF Goto, TypeOK
<1> QED
  BY <1>4, <1>6, <1>7 DEF BroadcastLookup

LEMMA WriteKeepsMessages ==
  ASSUME TypeOK, MessageInv, NEW c \in Conns, NEW d \in Conns, Write(c, d) PROVE MessageInv'
<1>1. /\ pc[c] = "sending" /\ left' = [left EXCEPT ![c] = @ \ {d}]
      /\ UNCHANGED <<groups, aborted, pc, chat, group, msg, db, sender, stays, disturbed, audience>>
  BY DEF Write, groupVars, hist
<1>2. msg[c] \in Messages
  BY <1>1 DEF TypeOK
<1>3. /\ \A e \in Conns : got[e] \subseteq got'[e] /\ (open'[e] => open[e])
      /\ ~aborted[c] /\ open[d] => msg[c] \in got'[d]
  BY DEF Write, TypeOK
<1>4. SendersKnown' /\ AudienceIsInRoom'
  BY <1>1 DEF MessageInv, SendersKnown, AudienceIsInRoom, InRoom
<1>5. BroadcastOnItsWay'
  BY <1>1, <1>3 DEF MessageInv, BroadcastOnItsWay, Due, TypeOK
<1>6. SavedReachesRoom'
  BY <1>1, <1>3 DEF MessageInv, SavedReachesRoom, Broadcasting, TypeOK
<1> QED
  BY <1>4, <1>5, <1>6 DEF MessageInv

LEMMA BroadcastDoneKeepsMessages ==
  ASSUME TypeOK, MessageInv, NEW c \in Conns, BroadcastDone(c) PROVE MessageInv'
<1>1. /\ pc[c] = "sending" /\ left[c] = {} /\ pc' = [pc EXCEPT ![c] = "ready"]
      /\ chat' = [chat EXCEPT ![c] = None] /\ msg' = [msg EXCEPT ![c] = None]
      /\ group' = [group EXCEPT ![c] = None] /\ left' = left
      /\ UNCHANGED <<groups, open, aborted, db, sender, got, stays, disturbed, audience>>
  BY DEF BroadcastDone, Continue, groupVars, sockVars, sendVars, hist
<1>2. msg[c] \in Messages /\ chat[c] = MsgChat[msg[c]] /\ sender[msg[c]] = c
  BY <1>1 DEF MessageInv, SendersKnown, TypeOK
<1>3. \A d \in Conns : Due(c, d) => msg[c] \in got[d]
  BY <1>1 DEF MessageInv, BroadcastOnItsWay
<1>4. SendersKnown'
  BY <1>1 DEF MessageInv, SendersKnown, InBroadcast, TypeOK
<1>5. AudienceIsInRoom' /\ BroadcastOnItsWay'
  BY <1>1 DEF MessageInv, AudienceIsInRoom, BroadcastOnItsWay, Due, InRoom, TypeOK
<1>6. SavedReachesRoom'
  <2>1. \A n \in db : n # msg[c] => (Broadcasting(n) => Broadcasting(n)')
    BY <1>1 DEF Broadcasting, TypeOK
  <2> QED
    BY <1>1, <1>2, <1>3, <2>1 DEF MessageInv, SavedReachesRoom, Due, TypeOK
<1> QED
  BY <1>4, <1>5, <1>6 DEF MessageInv

LEMMA MessageStep == TypeOK /\ RoomInv /\ MessageInv /\ [Next]_vars => MessageInv'
<1> SUFFICES ASSUME TypeOK, RoomInv, MessageInv, [Next]_vars PROVE MessageInv'
  OBVIOUS
<1>1. CASE UNCHANGED vars
  BY <1>1 DEF vars, groupVars, sockVars, local, sendVars, hist, MessageInv, SendersKnown, AudienceIsInRoom,
     BroadcastOnItsWay, SavedReachesRoom, Broadcasting, Due, InRoom
<1>2. ASSUME NEW c \in Conns, HandlerStops(c) \/ SaveFails(c) PROVE MessageInv'
  BY <1>2, BreakKeepsMessages DEF HandlerStops, SaveFails
<1>3. ASSUME NEW c \in Conns, NEW ch \in Chats, Sweep(c, ch) PROVE MessageInv'
  BY <1>3 DEF Sweep, sockVars, local, sendVars, hist, MessageInv, SendersKnown, AudienceIsInRoom,
     BroadcastOnItsWay, SavedReachesRoom, Broadcasting, Due, InRoom
<1>4. ASSUME NEW c \in Conns, HandlerStep(c) PROVE MessageInv'
  BY <1>2, <1>3, <1>4, JoinAddKeepsMessages, LeavingKeepsMessages, SavedKeepsMessages,
     ReadingKeepsMessages, BroadcastDoneKeepsMessages DEF HandlerStep
<1> QED
  BY <1>1, <1>2, <1>4, ConnectionKeepsMessages, JoinKeepsMessages, LeaveKeepsMessages, SendKeepsMessages,
     WriteKeepsMessages DEF Next

THEOREM MessageInvariant == Spec => []MessageInv
BY MessageInit, MessageStep, TypeHolds, RoomInvariant, PTL DEF Spec

\* A saved message reaches who was in the room, and stays there undisturbed with an open socket.
THEOREM SavedReachesRoomHolds == Spec => []SavedReachesRoom
<1>1. MessageInv => SavedReachesRoom
  BY DEF MessageInv
<1> QED
  BY <1>1, MessageInvariant, PTL
=============================================================================
