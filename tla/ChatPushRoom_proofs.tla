------------------------- MODULE ChatPushRoom_proofs -------------------------
(***************************************************************************)
(* What holds of the push rooms for any ids and any number of guards:      *)
(* their types, that no message is shown twice, and that none is missing   *)
(* but those that were announced to no one.                                *)
(***************************************************************************)
EXTENDS ChatPushRoom, TLAPS

-----------------------------------------------------------------------------
(* Lists *)

(***************************************************************************)
(* What appending to a list, and taking its head, does to what is in it.   *)
(***************************************************************************)
LEMMA InAppend ==
  ASSUME NEW S, NEW q \in Seq(S), NEW x \in S
  PROVE  ToSet(Append(q, x)) = ToSet(q) \union {x}
<1>1. /\ DOMAIN Append(q, x) = 1..(Len(q) + 1)
      /\ DOMAIN q = 1..Len(q) /\ Len(q) \in Nat
      /\ Append(q, x)[Len(q) + 1] = x
      /\ \A i \in 1..Len(q) : Append(q, x)[i] = q[i]
  OBVIOUS
<1>2. 1..(Len(q) + 1) = 1..Len(q) \union {Len(q) + 1}
  BY <1>1
<1>. QED
  BY <1>1, <1>2 DEF ToSet

LEMMA InTail ==
  ASSUME NEW S, NEW q \in Seq(S), q # <<>>
  PROVE  ToSet(q) = ToSet(Tail(q)) \union {Head(q)}
<1>1. /\ DOMAIN q = 1..Len(q) /\ Len(q) \in Nat \ {0}
      /\ DOMAIN Tail(q) = 1..(Len(q) - 1)
      /\ Head(q) = q[1]
      /\ \A i \in 1..(Len(q) - 1) : Tail(q)[i] = q[i + 1]
  OBVIOUS
<1>2. \A i \in 1..Len(q) : i # 1 => i - 1 \in 1..(Len(q) - 1) /\ Tail(q)[i - 1] = q[i]
  BY <1>1
<1>3. \A i \in 1..(Len(q) - 1) : i + 1 \in 1..Len(q)
  BY <1>1
<1>4. \A i \in 1..Len(q) : q[i] \in ToSet(Tail(q)) \union {Head(q)}
  BY <1>1, <1>2 DEF ToSet
<1>5. \A i \in 1..(Len(q) - 1) : Tail(q)[i] \in ToSet(q)
  BY <1>1, <1>3 DEF ToSet
<1>6. Head(q) \in ToSet(q)
  BY <1>1 DEF ToSet
<1>. QED
  BY <1>1, <1>4, <1>5, <1>6 DEF ToSet

(***************************************************************************)
(* A list in order has what it is of, and nothing twice.                   *)
(***************************************************************************)
LEMMA InOrderLists ==
  ASSUME NEW S, S \subseteq Nat, NEW q \in InOrder(S)
  PROVE  q \in Seq(S) /\ ToSet(q) = S /\ IsInjective(q)
<1>1. PICK n \in 0..Cardinality(S) : q \in [1..n -> S]
  BY DEF InOrder, SeqOf
<1>2. n \in Nat /\ DOMAIN q = 1..n /\ q \in Seq(S)
  BY <1>1
<1>3. \A i, j \in 1..n : i < j => q[i] < q[j]
  BY <1>2 DEF InOrder
<1>4. \A i, j \in 1..n : q[i] = q[j] => i = j
  <2>1. \A i \in 1..n : q[i] \in Nat
    BY <1>1
  <2>2. \A i, j \in 1..n : i < j \/ j < i \/ i = j
    BY <1>2
  <2>3. \A i, j \in 1..n : i < j => q[i] # q[j]
    BY <1>3, <2>1
  <2>. QED
    BY <2>2, <2>3
<1>. QED
  BY <1>2, <1>4 DEF InOrder, IsInjective

-----------------------------------------------------------------------------
(* Types *)

(***************************************************************************)
(* What counts the guards right: the one of a first join stands until the  *)
(* join is answered.                                                       *)
(***************************************************************************)
GuardStands ==
  tech = "SocketIO" /\ ~handler /\ (phase = "joining" \/ 0 \in ToSet(wire)) => guards > 0

\* What is on its way has been saved.
WireSaved == OnWire \subseteq inserted

\* So has the user's own message, once the server has answered with its id.
OwnSaved == own = "created" => ownId \in inserted

TypeInv == TypeOK /\ GuardStands /\ WireSaved /\ OwnSaved

LEMMA TypeInit == Init => TypeInv
<1>1. ToSet(<<>>) = {}
  BY DEF ToSet
<1>. SUFFICES ASSUME Init PROVE TypeInv
  OBVIOUS
<1>2. TypeOK
  <2>1. handler \in BOOLEAN /\ member = FALSE
    BY DEF Init
  <2>2. load \in [Loads -> {"none", "asked", "chat", "read", "done", "failed"}]
    BY DEF Init
  <2>3. tech \in Techs /\ phase \in Phases /\ snapshot \in [Loads -> SUBSET Ids]
    BY DEF Init, Phases
  <2>4. messages \in Seq(Ids) /\ wire \in Seq(Ids \union {0}) /\ guards \in 0..MaxGuards
    BY PushAssumption DEF Init
  <2>. QED
    BY <2>1, <2>2, <2>3, <2>4 DEF Init, TypeOK
<1>3. GuardStands /\ WireSaved /\ OwnSaved
  BY <1>1 DEF Init, GuardStands, WireSaved, OnWire, OwnSaved
<1>. QED
  BY <1>2, <1>3 DEF TypeInv

(***************************************************************************)
(* A connection that goes takes its wire along, and what was on it is lost.*)
(***************************************************************************)
LEMMA Gone ==
  ASSUME TypeInv, NEW next \in Phases, Disconnect(next)
  PROVE  /\ phase' = next /\ member' = FALSE
         /\ wire' = <<>> /\ ToSet(wire') = {} /\ wire' \in Seq(Ids \union {0})
         /\ lost' = lost \union OnWire /\ lost' \subseteq inserted
<1>1. ToSet(<<>>) = {}
  BY DEF ToSet
<1>. QED
  BY <1>1 DEF Disconnect, TypeInv, TypeOK, WireSaved

\* What a step of the connection alone is to keep.
ConnTyped ==
  /\ phase \in Phases /\ member \in BOOLEAN /\ handler \in BOOLEAN
  /\ wire \in Seq(Ids \union {0}) /\ guards \in 0..MaxGuards
  /\ lost \subseteq inserted /\ abandoned \in BOOLEAN
  /\ member => phase \in {"joining", "live", "leaving"}
  /\ GuardStands /\ WireSaved

LEMMA ConnKeepsTypes == ASSUME TypeInv, ConnStep, ConnTyped' PROVE TypeInv'
  BY DEF TypeInv, TypeOK, ConnTyped, ConnStep, viewVars, loadVars, serverVars, ownVars, GuardStands, WireSaved, OwnSaved

LEMMA OpensKeepTypes == ASSUME TypeInv, Opens PROVE TypeInv'
<1>1. ConnStep /\ ConnTyped'
  <2>. USE DEF TypeInv, TypeOK, ConnTyped, ConnStep, GuardStands, WireSaved, OnWire, OwnSaved, Phases, serverVars, viewVars
  <2>1. CASE WsOpens
    BY <2>1 DEF WsOpens, Attempting
  <2>2. CASE SseOpens
    BY <2>2 DEF SseOpens, Attempting
  <2>3. CASE SignalRConnects
    BY <2>3 DEF SignalRConnects, Attempting
  <2>4. CASE SocketConnects
    BY <2>4, PushAssumption DEF SocketConnects, Attempting
  <2>. QED
    BY <2>1, <2>2, <2>3, <2>4 DEF Opens
<1>. QED
  BY <1>1, ConnKeepsTypes

LEMMA JoinsKeepTypes == ASSUME TypeInv, Joins PROVE TypeInv'
<1>1. ToSet(Append(wire, 0)) = ToSet(wire) \union {0} /\ Append(wire, 0) \in Seq(Ids \union {0})
  <2>. 0 \in Ids \union {0} /\ wire \in Seq(Ids \union {0})
    BY DEF TypeInv, TypeOK
  <2>. QED
    BY InAppend
<1>2. ConnStep /\ ConnTyped'
  BY <1>1 DEF Joins, WsJoins, SignalRJoins, SignalRJoinCompletes, SocketJoins, TypeInv, TypeOK, ConnTyped, ConnStep,
         GuardStands, WireSaved, OnWire, OwnSaved, Phases, serverVars, viewVars
<1>. QED
  BY <1>2, ConnKeepsTypes

LEMMA GoingKeepsTypes ==
  ASSUME TypeInv, NEW next \in Phases, next # "joining", Disconnect(next), ConnStep,
         handler' \in BOOLEAN, guards' \in 0..MaxGuards, abandoned' \in BOOLEAN
  PROVE  TypeInv'
<1>1. ConnTyped'
  BY Gone DEF ConnTyped, ConnStep, serverVars, GuardStands, WireSaved, OnWire, OwnSaved
<1>. QED
  BY <1>1, ConnKeepsTypes

LEMMA RefusesKeepTypes == ASSUME TypeInv, Refuses PROVE TypeInv'
<1>1. CASE SseRefused \/ SignalRGivesUp \/ SocketConnectFails
  BY <1>1, GoingKeepsTypes DEF SseRefused, SignalRGivesUp, SocketConnectFails, TypeInv, TypeOK, Phases
<1>2. CASE SignalRJoinFails
  <2>1. ConnStep /\ ConnTyped'
    BY <1>2 DEF SignalRJoinFails, ConnStep, ConnTyped, TypeInv, TypeOK, Phases, serverVars, viewVars,
                GuardStands, WireSaved, OnWire, OwnSaved
  <2>. QED
    BY <2>1, ConnKeepsTypes
<1>3. CASE SocketJoinRefused
  <2>1. guards' \in 0..MaxGuards
    BY <1>3, PushAssumption DEF SocketJoinRefused, TypeInv, TypeOK, GuardStands
  <2>. QED
    BY <1>3, <2>1, GoingKeepsTypes DEF SocketJoinRefused, TypeInv, TypeOK, Phases
<1>. QED
  BY <1>1, <1>2, <1>3 DEF Refuses

LEMMA DropsKeepTypes == ASSUME TypeInv, Drops PROVE TypeInv'
<1>1. CASE WsCloses \/ SseErrs \/ SocketDrops
  BY <1>1, GoingKeepsTypes DEF WsCloses, SseErrs, SocketDrops, TypeInv, TypeOK, Phases
<1>2. CASE SignalRDrops
  BY <1>2, GoingKeepsTypes DEF SignalRDrops, TypeInv, TypeOK, Phases
<1>. QED
  BY <1>1, <1>2 DEF Drops

LEMMA EndsKeepTypes == ASSUME TypeInv, GuardFires \/ SignalRLeft PROVE TypeInv'
<1>1. CASE GuardFires
  <2>1. guards' \in 0..MaxGuards
    BY <1>1, PushAssumption DEF GuardFires, TypeInv, TypeOK
  <2>. QED
    BY <1>1, <2>1, GoingKeepsTypes DEF GuardFires, TypeInv, TypeOK, Phases
<1>2. CASE SignalRLeft
  BY <1>2, GoingKeepsTypes DEF SignalRLeft, TypeInv, TypeOK, Phases
<1>. QED
  BY <1>1, <1>2

LEMMA AddTyped == ASSUME TypeInv, NEW m \in Ids PROVE Add(m) \in Seq(Ids)
  BY DEF Add, TypeInv, TypeOK

LEMMA ArrivesKeepTypes == ASSUME TypeInv, Arrives PROVE TypeInv'
<1>. wire \in Seq(Ids \union {0}) /\ wire # <<>>
  BY DEF Arrives, JoinAnswered, MessageArrives, TypeInv, TypeOK
<1>1. Tail(wire) \in Seq(Ids \union {0}) /\ Head(wire) \in Ids \union {0}
  OBVIOUS
<1>2. ToSet(wire) = ToSet(Tail(wire)) \union {Head(wire)}
  BY InTail
<1>3. CASE JoinAnswered
  <2>1. JoinGuards \in 0..MaxGuards
    BY <1>2, <1>3, PushAssumption DEF JoinAnswered, JoinGuards, TypeInv, TypeOK, GuardStands
  <2>2. ConnStep /\ ConnTyped'
    BY <1>1, <1>2, <1>3, <2>1 DEF JoinAnswered, ConnStep, ConnTyped, TypeInv, TypeOK, Phases, serverVars,
                                  GuardStands, WireSaved, OnWire, OwnSaved
  <2>. QED
    BY <2>2, ConnKeepsTypes
<1>4. CASE MessageArrives
  <2>1. messages' \in Seq(Ids)
    BY <1>1, <1>4, AddTyped DEF MessageArrives, TypeInv, TypeOK
  <2>2. GuardStands' /\ WireSaved'
    BY <1>2, <1>4 DEF MessageArrives, GuardStands, WireSaved, OnWire, TypeInv, viewVars, serverVars
  <2>. QED
    BY <1>1, <1>4, <2>1, <2>2
    DEF MessageArrives, TypeInv, TypeOK, viewVars, loadVars, serverVars, ownVars, OwnSaved
<1>. QED
  BY <1>3, <1>4 DEF Arrives

LEMMA HubKeepsTypes ==
  ASSUME TypeInv, NewHub
  PROVE  /\ phase' = "connecting" /\ member' = FALSE /\ handler' \in BOOLEAN
         /\ wire' \in Seq(Ids \union {0}) /\ ToSet(wire') = {}
         /\ guards' \in 0..MaxGuards /\ lost' \subseteq inserted
<1>1. "connecting" \in Phases
  BY DEF Phases
<1>. QED
  <2>1. handler' \in BOOLEAN
    BY DEF NewHub
  <2>2. guards' \in 0..MaxGuards
    BY PushAssumption DEF NewHub
  <2>. QED
    BY <1>1, <2>1, <2>2, Gone DEF NewHub

LEMMA UserKnownKeepsTypes ==
  ASSUME TypeInv, WsUserKnown \/ SignalRUserKnown \/ SocketUserKnown \/ SseUserKnown
  PROVE  TypeInv'
<1>1. PICK loads \in {{}, {"second"}} : UserKnown(loads)
  BY DEF WsUserKnown, SignalRUserKnown, SocketUserKnown, SseUserKnown
<1>2. load' \in [Loads -> {"none", "asked", "chat", "read", "done", "failed"}]
  BY <1>1 DEF UserKnown, TypeInv, TypeOK
<1>3. GuardStands' /\ WireSaved'
  BY <1>1, HubKeepsTypes DEF UserKnown, GuardStands, WireSaved, OnWire, OwnSaved
<1>. QED
  BY <1>1, <1>2, <1>3, HubKeepsTypes
  DEF UserKnown, TypeInv, TypeOK, serverVars, ownVars, Phases, OwnSaved

LEMMA LoadingKeepsTypes ==
  ASSUME TypeInv, NEW l \in Loads, ChatKnown(l) \/ MessagesRead(l) \/ LoadFails(l) \/ LoadDone(l)
  PROVE  TypeInv'
<1>. load \in [Loads -> {"none", "asked", "chat", "read", "done", "failed"}]
  BY DEF TypeInv, TypeOK
<1>1. CASE ChatKnown(l)
  <2>1. load' \in [Loads -> {"none", "asked", "chat", "read", "done", "failed"}]
    BY <1>1 DEF ChatKnown
  <2>2. CASE NewHub
    <3>1. GuardStands' /\ WireSaved'
      BY <1>1, <2>2, HubKeepsTypes DEF ChatKnown, GuardStands, WireSaved, OnWire, OwnSaved
    <3>. QED
      BY <1>1, <2>1, <2>2, <3>1, HubKeepsTypes
      DEF ChatKnown, TypeInv, TypeOK, serverVars, ownVars, viewVars, Phases, OwnSaved
  <2>3. CASE UNCHANGED <<connVars, lost>>
    BY <1>1, <2>1, <2>3 DEF ChatKnown, TypeInv, TypeOK, serverVars, ownVars, viewVars, connVars,
                            GuardStands, WireSaved, OnWire, OwnSaved
  <2>. QED
    BY <1>1, <2>2, <2>3 DEF ChatKnown
<1>2. CASE MessagesRead(l)
  BY <1>2 DEF MessagesRead, TypeInv, TypeOK, serverVars, ownVars, viewVars, connVars, GuardStands, WireSaved, OnWire, OwnSaved
<1>3. CASE LoadFails(l)
  BY <1>3 DEF LoadFails, TypeInv, TypeOK, serverVars, ownVars, viewVars, connVars, GuardStands, WireSaved, OnWire, OwnSaved
<1>4. CASE LoadDone(l)
  <2>1. messages' \in Seq(Ids)
    <3>1. snapshot[l] \subseteq Ids /\ snapshot[l] \subseteq Nat /\ messages' \in InOrder(snapshot[l])
      BY <1>4, PushAssumption DEF LoadDone, TypeInv, TypeOK
    <3>2. messages' \in Seq(snapshot[l])
      BY <3>1, InOrderLists
    <3>. QED
      BY <3>1, <3>2
  <2>. QED
    BY <1>4, <2>1 DEF LoadDone, TypeInv, TypeOK, serverVars, ownVars, viewVars, connVars,
                      GuardStands, WireSaved, OnWire, OwnSaved
<1>. QED
  BY <1>1, <1>2, <1>3, <1>4

LEMMA ServerKeepsTypes ==
  ASSUME TypeInv, NEW m \in Ids,
         OtherSends(m) \/ Announce(m) \/ Overlooked(m) \/ UpstreamTimesOut(m) \/ Delete(m) \/ SseSaved(m)
  PROVE  TypeInv'
<1>1. CASE OtherSends(m)
  BY <1>1 DEF OtherSends, Insert, TypeInv, TypeOK, viewVars, loadVars, connVars, ownVars, GuardStands, WireSaved, OnWire, OwnSaved
<1>2. CASE Announce(m)
  <2>. wire \in Seq(Ids \union {0}) /\ m \in Ids \union {0}
    BY DEF TypeInv, TypeOK
  <2>1. Append(wire, m) \in Seq(Ids \union {0}) /\ ToSet(Append(wire, m)) = ToSet(wire) \union {m}
    BY InAppend
  <2>2. wire' \in Seq(Ids \union {0}) /\ ToSet(wire') \subseteq ToSet(wire) \union {m} /\ m # 0
    BY <1>2, <2>1, PushAssumption DEF Announce
  <2>3. lost' \subseteq inserted /\ m \in inserted
    BY <1>2 DEF Announce, TypeInv, TypeOK
  <2>4. GuardStands' /\ WireSaved'
    BY <1>2, <2>2, <2>3 DEF Announce, TypeInv, GuardStands, WireSaved, OnWire, viewVars
  <2>. QED
    BY <1>2, <2>2, <2>3, <2>4 DEF Announce, TypeInv, TypeOK, viewVars, loadVars, ownVars, OwnSaved
<1>3. CASE Overlooked(m) \/ UpstreamTimesOut(m)
  BY <1>3 DEF Overlooked, UpstreamTimesOut, TypeInv, TypeOK, viewVars, loadVars, connVars, ownVars, GuardStands, WireSaved, OnWire, OwnSaved
<1>4. CASE Delete(m)
  BY <1>4 DEF Delete, TypeInv, TypeOK, viewVars, connVars, ownVars, GuardStands, WireSaved, OnWire, OwnSaved
<1>5. CASE SseSaved(m)
  BY <1>5 DEF SseSaved, Insert, TypeInv, TypeOK, viewVars, loadVars, connVars, GuardStands, WireSaved, OnWire, OwnSaved
<1>. QED
  BY <1>1, <1>2, <1>3, <1>4, <1>5

LEMMA LeavingKeepsTypes == ASSUME TypeInv, Leave \/ SignalRLeaves PROVE TypeInv'
<1>1. CASE Leave
  <2>1. "off" \in Phases
    BY DEF Phases
  <2>2. GuardStands' /\ WireSaved'
    BY <1>1, <2>1, Gone DEF Leave, GuardStands, WireSaved, OnWire, serverVars
  <2>. QED
    <3>1. /\ phase' = "off" /\ member' = FALSE /\ wire' \in Seq(Ids \union {0}) /\ lost' \subseteq inserted
          /\ guards' \in 0..MaxGuards
      <4>1. Disconnect("off") /\ guards' = 0
        BY <1>1 DEF Leave
      <4>2. guards' \in 0..MaxGuards
        BY <4>1, PushAssumption
      <4>. QED
        BY <2>1, <4>1, <4>2, Gone
    <3>. QED
      BY <1>1, <2>1, <2>2, <3>1 DEF Leave, TypeInv, TypeOK, loadVars, serverVars, ownVars, OwnSaved
<1>2. CASE SignalRLeaves
  <2>1. abandoned' \in BOOLEAN
    BY <1>2 DEF SignalRLeaves
  <2>2. phase' \in Phases /\ (member' => phase' \in {"joining", "live", "leaving"})
    BY <1>2 DEF SignalRLeaves, TypeInv, TypeOK, Phases
  <2>3. GuardStands' /\ WireSaved' /\ OwnSaved'
    BY <1>2 DEF SignalRLeaves, TypeInv, GuardStands, WireSaved, OnWire, OwnSaved, serverVars, ownVars
  <2>. QED
    BY <1>2, <2>1, <2>2, <2>3 DEF SignalRLeaves, TypeInv, TypeOK, loadVars, serverVars, ownVars
<1>. QED
  BY <1>1, <1>2

LEMMA SendingKeepsTypes == ASSUME TypeInv, SseSend \/ SseSendReturns \/ SseSendFails PROVE TypeInv'
<1>. USE DEF TypeInv, TypeOK, viewVars, loadVars, serverVars, connVars, GuardStands, WireSaved, OnWire, OwnSaved
<1>1. CASE SseSend
  BY <1>1 DEF SseSend
<1>2. CASE SseSendReturns
  <2>1. ownId \in Ids
    BY <1>2 DEF SseSendReturns, OwnSaved
  <2>2. messages' \in Seq(Ids)
    BY <1>2, <2>1, AddTyped DEF SseSendReturns
  <2>. QED
    BY <1>2, <2>2 DEF SseSendReturns, OwnSaved
<1>3. CASE SseSendFails
  BY <1>3 DEF SseSendFails
<1>. QED
  BY <1>1, <1>2, <1>3

LEMMA TypeStep == TypeInv /\ [Next]_vars => TypeInv'
<1>. SUFFICES ASSUME TypeInv, [Next]_vars PROVE TypeInv'
  OBVIOUS
<1>1. CASE UNCHANGED vars
  BY <1>1 DEF vars, viewVars, loadVars, serverVars, connVars, ownVars, TypeInv, TypeOK, GuardStands, WireSaved, OnWire, OwnSaved
<1>. QED
  BY <1>1, OpensKeepTypes, JoinsKeepTypes, RefusesKeepTypes, DropsKeepTypes, EndsKeepTypes, ArrivesKeepTypes,
     UserKnownKeepsTypes, LoadingKeepsTypes, ServerKeepsTypes, LeavingKeepsTypes, SendingKeepsTypes DEF Next

(***************************************************************************)
(* No order of events of browser, network and server takes a room out of   *)
(* its types; in particular the answer to a join never releases a guard    *)
(* that is not set.                                                        *)
(***************************************************************************)
THEOREM PushTypeHolds == Spec => []TypeInv
  BY TypeInit, TypeStep, PTL DEF Spec

-----------------------------------------------------------------------------
(* No message twice *)

LEMMA AddOnce ==
  ASSUME TypeOK, NoDuplicates, NEW m \in Ids
  PROVE  IsInjective(Add(m)) /\ ToSet(Add(m)) = Shown \union {m}
<1>. messages \in Seq(Ids)
  BY DEF TypeOK
<1>1. CASE m \in Shown
  BY <1>1 DEF Add, NoDuplicates, Shown
<1>2. CASE m \notin Shown
  <2>1. Add(m) = Append(messages, m) /\ ToSet(Append(messages, m)) = Shown \union {m}
    BY <1>2, InAppend DEF Add, Shown
  <2>2. \A i \in 1..Len(messages) : messages[i] # m
    BY <1>2 DEF Shown, ToSet
  <2>3. \A i, j \in 1..Len(messages) : messages[i] = messages[j] => i = j
    BY DEF NoDuplicates, IsInjective
  <2>4. /\ DOMAIN Append(messages, m) = 1..(Len(messages) + 1) /\ Len(messages) \in Nat
        /\ Append(messages, m)[Len(messages) + 1] = m
        /\ \A i \in 1..Len(messages) : Append(messages, m)[i] = messages[i]
    OBVIOUS
  <2>5. \A i \in 1..(Len(messages) + 1) : i \in 1..Len(messages) \/ i = Len(messages) + 1
    BY <2>4
  <2>. QED
    BY <2>1, <2>2, <2>3, <2>4, <2>5 DEF IsInjective
<1>. QED
  BY <1>1, <1>2

(***************************************************************************)
(* Who touches the list on the screen: a message that arrives or has been  *)
(* sent is added, a load that is done takes the list's place.              *)
(***************************************************************************)
LEMMA ScreenChanges ==
  ASSUME TypeInv, [Next]_vars
  PROVE  \/ UNCHANGED messages
         \/ \E m \in Ids : messages' = Add(m)
         \/ \E l \in Loads : LoadDone(l)
<1>1. CASE MessageArrives
  <2>1. Head(wire) \in Ids
    BY <1>1 DEF MessageArrives, TypeInv, TypeOK
  <2>. QED
    BY <1>1, <2>1 DEF MessageArrives
<1>2. CASE SseSendReturns
  BY <1>2 DEF SseSendReturns, TypeInv, TypeOK, OwnSaved
<1>3. CASE Opens \/ Joins \/ Refuses \/ Drops \/ JoinAnswered \/ GuardFires \/ SignalRLeft
  <2>1. ConnStep
    BY <1>3
    DEF Opens, WsOpens, SseOpens, SignalRConnects, SocketConnects, Joins, WsJoins, SignalRJoins,
        SignalRJoinCompletes, SocketJoins, Refuses, SseRefused, SignalRGivesUp, SignalRJoinFails,
        SocketConnectFails, SocketJoinRefused, Drops, WsCloses, SseErrs, SignalRDrops, SocketDrops,
        JoinAnswered, GuardFires, SignalRLeft
  <2>. QED
    BY <2>1 DEF ConnStep
<1>4. CASE WsUserKnown \/ SignalRUserKnown \/ SocketUserKnown \/ SseUserKnown \/ Leave \/ SignalRLeaves
  BY <1>4 DEF WsUserKnown, SignalRUserKnown, SocketUserKnown, SseUserKnown, UserKnown, Leave, SignalRLeaves
<1>5. ASSUME NEW l \in Loads, ChatKnown(l) \/ MessagesRead(l) \/ LoadFails(l) PROVE UNCHANGED messages
  BY <1>5 DEF ChatKnown, MessagesRead, LoadFails
<1>6. ASSUME NEW m \in Ids, OtherSends(m) \/ Announce(m) \/ Overlooked(m) \/ UpstreamTimesOut(m) \/ Delete(m) \/ SseSaved(m)
      PROVE  UNCHANGED messages
  BY <1>6 DEF OtherSends, Announce, Overlooked, UpstreamTimesOut, Delete, SseSaved
<1>7. CASE SseSend \/ SseSendFails
  BY <1>7 DEF SseSend, SseSendFails
<1>8. CASE UNCHANGED vars
  BY <1>8 DEF vars
<1>. QED
  BY <1>1, <1>2, <1>3, <1>4, <1>5, <1>6, <1>7, <1>8 DEF Next, Arrives

LEMMA Loaded ==
  ASSUME TypeInv, NEW l \in Loads, LoadDone(l)
  PROVE  IsInjective(messages') /\ ToSet(messages') = snapshot[l]
<1>1. snapshot[l] \subseteq Nat /\ messages' \in InOrder(snapshot[l])
  BY PushAssumption DEF LoadDone, TypeInv, TypeOK
<1>. QED
  BY <1>1, InOrderLists

LEMMA OnceStep == TypeInv /\ NoDuplicates /\ [Next]_vars => NoDuplicates'
<1>. SUFFICES ASSUME TypeInv, NoDuplicates, [Next]_vars PROVE NoDuplicates'
  OBVIOUS
<1>. TypeOK
  BY DEF TypeInv
<1>1. CASE UNCHANGED messages
  BY <1>1 DEF NoDuplicates
<1>2. CASE \E m \in Ids : messages' = Add(m)
  BY <1>2, AddOnce DEF NoDuplicates
<1>3. CASE \E l \in Loads : LoadDone(l)
  BY <1>3, Loaded DEF NoDuplicates
<1>. QED
  BY <1>1, <1>2, <1>3, ScreenChanges

(***************************************************************************)
(* Loads, the hub and the answer to a send of one's own may bring the same *)
(* message in any order and any number of times: it is shown once.         *)
(***************************************************************************)
THEOREM NoDuplicatesHolds == Spec => []NoDuplicates
<1>1. Init => NoDuplicates
  BY DEF Init, NoDuplicates, IsInjective
<1>. QED
  BY <1>1, PushTypeHolds, OnceStep, PTL DEF Spec

-----------------------------------------------------------------------------
(* No message missing *)

(***************************************************************************)
(* The invariant.  A message that leaves the wire must be on the screen,   *)
(* or lost: so the ones that come before the callback is registered, which *)
(* it is when the answer to the join comes, must have been counted as lost *)
(* when they were announced (EarlyIsLost).  That they were follows from    *)
(* who registers a callback, and when: a Socket.IO connection in the room  *)
(* has the answer on its wire, and WebSockets and SSE do without.          *)
(***************************************************************************)
EarlyIsLost ==
  ~handler => \A i \in DOMAIN wire : (\A j \in 1..i : wire[j] # 0) => wire[i] \in lost

Registers ==
  /\ tech \in {"WebSockets", "SSE"} => handler
  /\ phase = "leaving" => tech = "SignalR"
  /\ tech = "SocketIO" /\ ~handler /\ member => 0 \in ToSet(wire)

WireInv == EarlyIsLost /\ Registers

LEMMA WireInit == Init => WireInv
<1>. SUFFICES ASSUME Init PROVE WireInv
  OBVIOUS
<1>1. tech \in {"WebSockets", "SSE"} => handler
  BY DEF Init
<1>2. wire = <<>> /\ member = FALSE /\ phase # "leaving"
  BY DEF Init
<1>. QED
  BY <1>1, <1>2 DEF WireInv, EarlyIsLost, Registers

\* A wire that is empty, as when its connection has gone, holds nothing back.
LEMMA GoingKeepsWire ==
  ASSUME TypeInv, WireInv, NEW next \in Phases \ {"leaving"}, Disconnect(next), UNCHANGED tech,
         handler' = handler \/ handler' = (tech \in {"WebSockets", "SSE"}) \/ (handler' = FALSE /\ tech = "SignalR")
  PROVE  WireInv'
<1>1. /\ wire' = <<>> /\ member' = FALSE /\ phase' # "leaving"
  BY Gone
<1>2. EarlyIsLost'
  BY <1>1 DEF EarlyIsLost
<1>3. tech' \in {"WebSockets", "SSE"} => handler'
  BY DEF WireInv, Registers
<1>. QED
  BY <1>1, <1>2, <1>3 DEF WireInv, Registers

\* Appending to the wire adds at most the last message to those before the answer.
LEMMA WireGrows ==
  ASSUME TypeInv, EarlyIsLost, NEW x \in Ids \union {0}, wire' = Append(wire, x), handler' = handler,
         lost \subseteq lost',
         ~handler => x = 0 \/ x \in lost' \/ 0 \in ToSet(wire)
  PROVE  EarlyIsLost'
<1>. wire \in Seq(Ids \union {0})
  BY DEF TypeInv, TypeOK
<1>1. /\ DOMAIN wire' = 1..(Len(wire) + 1) /\ DOMAIN wire = 1..Len(wire) /\ Len(wire) \in Nat
      /\ wire'[Len(wire) + 1] = x
      /\ \A i \in 1..Len(wire) : wire'[i] = wire[i]
  OBVIOUS
<1>. SUFFICES ASSUME ~handler, NEW i \in 1..(Len(wire) + 1), \A j \in 1..i : wire'[j] # 0
              PROVE  wire'[i] \in lost'
  BY <1>1 DEF EarlyIsLost
<1>2. CASE i \in 1..Len(wire)
  <2>1. \A j \in 1..i : j \in 1..Len(wire)
    BY <1>1, <1>2
  <2>2. \A j \in 1..i : wire[j] # 0
    BY <1>1, <2>1
  <2>. QED
    BY <1>1, <1>2, <2>2 DEF EarlyIsLost
<1>3. CASE i = Len(wire) + 1
  <2>1. \A j \in 1..Len(wire) : j \in 1..i
    BY <1>1, <1>3
  <2>2. \A j \in 1..Len(wire) : wire[j] # 0
    BY <1>1, <2>1
  <2>3. 0 \notin ToSet(wire)
    BY <1>1, <2>2 DEF ToSet
  <2>. QED
    BY <1>1, <1>3, <2>3
<1>. QED
  BY <1>1, <1>2, <1>3

\* Taking a message off the wire, too, leaves those that follow it where they were.
LEMMA WireShrinks ==
  ASSUME TypeInv, EarlyIsLost, wire # <<>>, Head(wire) # 0, wire' = Tail(wire), handler' = handler, lost' = lost
  PROVE  EarlyIsLost'
<1>. wire \in Seq(Ids \union {0})
  BY DEF TypeInv, TypeOK
<1>1. /\ DOMAIN wire = 1..Len(wire) /\ Len(wire) \in Nat \ {0}
      /\ DOMAIN wire' = 1..(Len(wire) - 1)
      /\ Head(wire) = wire[1]
      /\ \A i \in 1..(Len(wire) - 1) : wire'[i] = wire[i + 1] /\ i + 1 \in 1..Len(wire)
  OBVIOUS
<1>. SUFFICES ASSUME ~handler, NEW i \in 1..(Len(wire) - 1), \A j \in 1..i : wire'[j] # 0
              PROVE  wire'[i] \in lost'
  BY <1>1 DEF EarlyIsLost
<1>2. \A j \in 1..(i + 1) : j = 1 \/ (j - 1 \in 1..i /\ j - 1 \in 1..(Len(wire) - 1) /\ wire'[j - 1] = wire[j])
  BY <1>1
<1>3. \A j \in 1..(i + 1) : wire[j] # 0
  BY <1>1, <1>2
<1>. QED
  BY <1>1, <1>3 DEF EarlyIsLost

\* Nor does anything change when neither the wire nor the callback does.
LEMMA WireKept ==
  ASSUME WireInv, UNCHANGED <<tech, wire, handler>>, lost \subseteq lost',
         phase' = "leaving" => tech = "SignalR",
         tech = "SocketIO" /\ member' => member
  PROVE  WireInv'
  BY DEF WireInv, EarlyIsLost, Registers

LEMMA ConnKeepsWire ==
  ASSUME TypeInv, WireInv, Opens \/ Joins \/ Refuses \/ Drops \/ GuardFires \/ SignalRLeft
  PROVE  WireInv'
<1>. tech' = tech
  BY DEF Opens, WsOpens, SseOpens, SignalRConnects, SocketConnects, Joins, WsJoins, SignalRJoins,
         SignalRJoinCompletes, SocketJoins, Refuses, SseRefused, SignalRGivesUp, SignalRJoinFails,
         SocketConnectFails, SocketJoinRefused, Drops, WsCloses, SseErrs, SignalRDrops, SocketDrops,
         GuardFires, SignalRLeft, ConnStep, viewVars
<1>1. CASE Opens
  BY <1>1, WireKept DEF Opens, WsOpens, SseOpens, SignalRConnects, SocketConnects
<1>2. CASE WsJoins \/ SignalRJoins \/ SignalRJoinFails
  BY <1>2, WireKept DEF WsJoins, SignalRJoins, SignalRJoinFails, WireInv, Registers
<1>3. CASE SignalRJoinCompletes \/ SocketJoins
  <2>1. wire' = Append(wire, 0) /\ handler' = handler /\ lost' = lost /\ phase' = phase
    BY <1>3 DEF SignalRJoinCompletes, SocketJoins
  <2>2. EarlyIsLost'
    BY <2>1, WireGrows DEF WireInv
  <2>3. 0 \in ToSet(wire')
    <3>. wire \in Seq(Ids \union {0}) /\ 0 \in Ids \union {0}
      BY DEF TypeInv, TypeOK
    <3>. QED
      BY <2>1, InAppend
  <2>. QED
    BY <2>1, <2>2, <2>3 DEF WireInv, Registers
<1>4. ASSUME NEW next \in {"waiting", "outside", "dead", "off"}, Disconnect(next),
             handler' = handler \/ (handler' = FALSE /\ tech = "SignalR")
      PROVE  WireInv'
  BY <1>4, GoingKeepsWire DEF Phases
<1>5. CASE SseRefused \/ SignalRGivesUp \/ SocketConnectFails \/ SocketJoinRefused \/ GuardFires
  BY <1>5, <1>4 DEF SseRefused, SignalRGivesUp, SocketConnectFails, SocketJoinRefused, GuardFires
<1>6. CASE WsCloses \/ SseErrs \/ SocketDrops
  BY <1>6, <1>4 DEF WsCloses, SseErrs, SocketDrops
<1>7. CASE SignalRDrops
  BY <1>7, <1>4 DEF SignalRDrops
<1>8. CASE SignalRLeft
  <2>1. tech = "SignalR"
    BY <1>8 DEF SignalRLeft, WireInv, Registers
  <2>. QED
    BY <1>8, <2>1, <1>4 DEF SignalRLeft
<1>. QED
  BY <1>1, <1>2, <1>3, <1>5, <1>6, <1>7, <1>8 DEF Joins, Refuses, Drops

LEMMA ArrivesKeepsWire == ASSUME TypeInv, WireInv, Arrives PROVE WireInv'
<1>1. CASE JoinAnswered
  <2>1. handler' = TRUE /\ tech' = tech
    BY <1>1 DEF JoinAnswered, ConnStep, viewVars
  <2>2. phase' = "leaving" => tech = "SignalR"
    BY <1>1 DEF JoinAnswered, WireInv, Registers
  <2>. QED
    BY <2>1, <2>2 DEF WireInv, EarlyIsLost, Registers
<1>2. CASE MessageArrives
  <2>1. wire # <<>> /\ Head(wire) # 0 /\ wire' = Tail(wire) /\ UNCHANGED <<tech, phase, member, handler, lost>>
    BY <1>2 DEF MessageArrives, viewVars
  <2>2. EarlyIsLost'
    BY <2>1, WireShrinks DEF WireInv
  <2>3. 0 \in ToSet(wire) => 0 \in ToSet(wire')
    <3>. wire \in Seq(Ids \union {0})
      BY DEF TypeInv, TypeOK
    <3>. QED
      BY <2>1, InTail
  <2>. QED
    BY <2>1, <2>2, <2>3 DEF WireInv, Registers
<1>. QED
  BY <1>1, <1>2 DEF Arrives

\* Whoever listens without a callback has the answer to the join before the message.
LEMMA AnnounceKeepsWire == ASSUME TypeInv, WireInv, NEW m \in Ids, Announce(m) PROVE WireInv'
<1>0. UNCHANGED <<tech, phase, member, handler>> /\ lost \subseteq lost'
  BY DEF Announce, viewVars
<1>1. CASE ~member
  BY <1>0, <1>1, WireKept DEF Announce, WireInv, Registers
<1>2. CASE member
  <2>1. wire' = Append(wire, m)
    BY <1>2 DEF Announce
  <2>2. Listening /\ ~handler => 0 \in ToSet(wire)
    BY DEF Listening, WireInv, Registers, TypeInv, TypeOK, Techs
  <2>3. ~Listening => m \in lost'
    BY DEF Announce
  <2>4. EarlyIsLost'
    BY <1>0, <2>1, <2>2, <2>3, WireGrows DEF WireInv
  <2>5. 0 \in ToSet(wire) => 0 \in ToSet(wire')
    <3>. wire \in Seq(Ids \union {0}) /\ m \in Ids \union {0}
      BY DEF TypeInv, TypeOK
    <3>. QED
      BY <2>1, InAppend
  <2>. QED
    BY <1>0, <2>4, <2>5 DEF WireInv, Registers
<1>. QED
  BY <1>1, <1>2

LEMMA HubKeepsWire == ASSUME TypeInv, WireInv, NewHub, UNCHANGED tech PROVE WireInv'
<1>1. Disconnect("connecting") /\ handler' = (tech \in {"WebSockets", "SSE"})
  BY DEF NewHub
<1>2. "connecting" \in Phases \ {"leaving"}
  BY DEF Phases
<1>. QED
  BY <1>1, <1>2, GoingKeepsWire

LEMMA ViewKeepsWire ==
  ASSUME TypeInv, WireInv,
         \/ WsUserKnown \/ SignalRUserKnown \/ SocketUserKnown \/ SseUserKnown
         \/ Leave \/ SignalRLeaves
         \/ \E l \in Loads : ChatKnown(l) \/ MessagesRead(l) \/ LoadFails(l) \/ LoadDone(l)
         \/ SseSend \/ SseSendReturns \/ SseSendFails
  PROVE  WireInv'
<1>0. phase = "leaving" => tech = "SignalR"
  BY DEF WireInv, Registers
<1>1. CASE WsUserKnown \/ SignalRUserKnown \/ SocketUserKnown \/ SseUserKnown
  BY <1>1, HubKeepsWire DEF WsUserKnown, SignalRUserKnown, SocketUserKnown, SseUserKnown, UserKnown
<1>2. CASE Leave
  BY <1>2, GoingKeepsWire DEF Leave, Phases
<1>3. CASE SignalRLeaves
  BY <1>3, WireKept DEF SignalRLeaves
<1>4. ASSUME NEW l \in Loads, ChatKnown(l) PROVE WireInv'
  <2>1. CASE NewHub
    BY <1>4, <2>1, HubKeepsWire DEF ChatKnown, viewVars
  <2>2. CASE UNCHANGED <<connVars, lost>>
    BY <1>0, <1>4, <2>2, WireKept DEF ChatKnown, viewVars, connVars
  <2>. QED
    BY <1>4, <2>1, <2>2 DEF ChatKnown
<1>5. ASSUME NEW l \in Loads, MessagesRead(l) \/ LoadFails(l) \/ LoadDone(l) PROVE WireInv'
  BY <1>0, <1>5, WireKept DEF MessagesRead, LoadFails, LoadDone, viewVars, connVars
<1>6. CASE SseSend \/ SseSendReturns \/ SseSendFails
  BY <1>0, <1>6, WireKept DEF SseSend, SseSendReturns, SseSendFails, viewVars, connVars
<1>. QED
  BY <1>1, <1>2, <1>3, <1>4, <1>5, <1>6

LEMMA WireStep == TypeInv /\ WireInv /\ [Next]_vars => WireInv'
<1>. SUFFICES ASSUME TypeInv, WireInv, [Next]_vars PROVE WireInv'
  OBVIOUS
<1>0. phase = "leaving" => tech = "SignalR"
  BY DEF WireInv, Registers
<1>1. ASSUME NEW m \in Ids, OtherSends(m) \/ Overlooked(m) \/ UpstreamTimesOut(m) \/ Delete(m) \/ SseSaved(m) PROVE WireInv'
  BY <1>0, <1>1, WireKept DEF OtherSends, Overlooked, UpstreamTimesOut, Delete, SseSaved, viewVars, connVars
<1>2. CASE UNCHANGED vars
  BY <1>0, <1>2, WireKept DEF vars, viewVars, connVars
<1>. QED
  BY <1>1, <1>2, ConnKeepsWire, ArrivesKeepsWire, AnnounceKeepsWire, ViewKeepsWire DEF Next

\* Everything in the database is accounted for.
Accounted == db \subseteq Shown \union unannounced \union OnWire \union lost

LEMMA ShownKept == ASSUME UNCHANGED messages PROVE Shown' = Shown
  BY DEF Shown

LEMMA WireLost ==
  ASSUME TypeInv, Accounted, NEW next \in Phases, Disconnect(next), UNCHANGED <<db, unannounced, messages>>
  PROVE  Accounted'
  BY Gone, ShownKept DEF Accounted

LEMMA ConnAccounts ==
  ASSUME TypeInv, Accounted, Opens \/ Joins \/ Refuses \/ Drops \/ JoinAnswered \/ GuardFires \/ SignalRLeft
  PROVE  Accounted'
<1>0. UNCHANGED <<db, unannounced, messages>>
  BY DEF Opens, WsOpens, SseOpens, SignalRConnects, SocketConnects, Joins, WsJoins, SignalRJoins,
         SignalRJoinCompletes, SocketJoins, Refuses, SseRefused, SignalRGivesUp, SignalRJoinFails,
         SocketConnectFails, SocketJoinRefused, Drops, WsCloses, SseErrs, SignalRDrops, SocketDrops,
         JoinAnswered, GuardFires, SignalRLeft, ConnStep, serverVars
<1>1. CASE UNCHANGED <<wire, lost>>
  BY <1>0, <1>1, ShownKept DEF Accounted, OnWire
<1>2. CASE SignalRJoinCompletes \/ SocketJoins
  <2>1. wire' = Append(wire, 0) /\ lost' = lost
    BY <1>2 DEF SignalRJoinCompletes, SocketJoins
  <2>2. ToSet(wire') = ToSet(wire) \union {0}
    <3>. wire \in Seq(Ids \union {0}) /\ 0 \in Ids \union {0}
      BY DEF TypeInv, TypeOK
    <3>. QED
      BY <2>1, InAppend
  <2>. QED
    BY <1>0, <2>1, <2>2, ShownKept DEF Accounted, OnWire
<1>3. CASE JoinAnswered
  <2>1. wire # <<>> /\ Head(wire) = 0 /\ wire' = Tail(wire) /\ lost' = lost
    BY <1>3 DEF JoinAnswered
  <2>2. ToSet(wire) = ToSet(wire') \union {0}
    <3>. wire \in Seq(Ids \union {0})
      BY DEF TypeInv, TypeOK
    <3>. QED
      BY <2>1, InTail
  <2>. QED
    BY <1>0, <2>1, <2>2, ShownKept DEF Accounted, OnWire
<1>4. ASSUME NEW next \in {"waiting", "outside", "dead", "off"}, Disconnect(next) PROVE Accounted'
  BY <1>0, <1>4, WireLost DEF Phases
<1>5. CASE SseRefused \/ SignalRGivesUp \/ SocketConnectFails \/ SocketJoinRefused \/ GuardFires \/ SignalRLeft
  BY <1>5, <1>4 DEF SseRefused, SignalRGivesUp, SocketConnectFails, SocketJoinRefused, GuardFires, SignalRLeft
<1>6. CASE WsCloses \/ SseErrs \/ SocketDrops
  BY <1>6, <1>4 DEF WsCloses, SseErrs, SocketDrops
<1>7. CASE SignalRDrops
  BY <1>7, <1>4 DEF SignalRDrops
<1>8. CASE Opens \/ WsJoins \/ SignalRJoins \/ SignalRJoinFails
  BY <1>1, <1>8 DEF Opens, WsOpens, SseOpens, SignalRConnects, SocketConnects, WsJoins, SignalRJoins, SignalRJoinFails
<1>. QED
  BY <1>2, <1>3, <1>5, <1>6, <1>7, <1>8 DEF Joins, Refuses, Drops

\* The message at the head of the wire is shown; if there is no callback yet, it is lost already.
LEMMA MessageAccounts == ASSUME TypeInv, WireInv, Accounted, mounted, MessageArrives PROVE Accounted'
<1>. DEFINE m == Head(wire)
<1>. wire \in Seq(Ids \union {0}) /\ wire # <<>> /\ TypeOK
  BY DEF MessageArrives, TypeInv, TypeOK
<1>1. ToSet(wire) = ToSet(wire') \union {m} /\ m \in Ids
  <2>1. m \in Ids \union {0} /\ m # 0 /\ wire' = Tail(wire)
    BY DEF MessageArrives
  <2>. QED
    BY <2>1, InTail
<1>2. UNCHANGED <<db, unannounced, lost>>
  BY DEF MessageArrives, serverVars
<1>3. CASE handler
  <2>1. Shown' = Shown \union {m}
    <3>1. messages' = Add(m)
      BY <1>3 DEF MessageArrives
    <3>2. CASE m \in Shown
      BY <3>1, <3>2 DEF Add, Shown
    <3>3. CASE m \notin Shown
      <4>1. messages' = Append(messages, m) /\ messages \in Seq(Ids)
        BY <3>1, <3>3 DEF Add, TypeOK
      <4>. QED
        BY <1>1, <4>1, InAppend DEF Shown
    <3>. QED
      BY <3>2, <3>3
  <2>. QED
    BY <1>1, <1>2, <2>1 DEF Accounted, OnWire
<1>4. CASE ~handler
  <2>1. m = wire[1] /\ 1 \in DOMAIN wire /\ \A j \in 1..1 : j = 1
    OBVIOUS
  <2>2. m \in lost
    BY <1>4, <2>1 DEF WireInv, EarlyIsLost, MessageArrives
  <2>3. Shown' = Shown
    BY <1>4, ShownKept DEF MessageArrives
  <2>. QED
    BY <1>1, <1>2, <2>2, <2>3 DEF Accounted, OnWire
<1>. QED
  BY <1>3, <1>4

\* A broadcast goes on the wire, or to no one.
LEMMA AnnounceAccounts == ASSUME TypeInv, Accounted, NEW m \in Ids, Announce(m) PROVE Accounted'
<1>. wire \in Seq(Ids \union {0}) /\ m \in Ids \union {0} /\ m # 0
  BY PushAssumption DEF TypeInv, TypeOK
<1>0. unannounced' = unannounced \ {m} /\ UNCHANGED <<db, messages>> /\ lost \subseteq lost'
  BY DEF Announce
<1>1. CASE member
  <2>1. ToSet(wire') = ToSet(wire) \union {m}
    BY <1>1, InAppend DEF Announce
  <2>. QED
    BY <1>0, <2>1, ShownKept DEF Accounted, OnWire
<1>2. CASE ~member
  <2>1. wire' = wire /\ m \in lost'
    BY <1>2 DEF Announce, Listening
  <2>. QED
    BY <1>0, <2>1, ShownKept DEF Accounted, OnWire
<1>. QED
  BY <1>1, <1>2

LEMMA ServerAccounts ==
  ASSUME TypeInv, Accounted, NEW m \in Ids, OtherSends(m) \/ Overlooked(m) \/ UpstreamTimesOut(m) \/ Delete(m) \/ SseSaved(m)
  PROVE  Accounted'
<1>. UNCHANGED messages
  BY DEF OtherSends, Overlooked, UpstreamTimesOut, Delete, SseSaved
<1>1. CASE OtherSends(m) \/ SseSaved(m)
  BY <1>1, ShownKept DEF OtherSends, SseSaved, Insert, Accounted, OnWire, connVars
<1>2. CASE Overlooked(m) \/ UpstreamTimesOut(m)
  BY <1>2, ShownKept DEF Overlooked, UpstreamTimesOut, Accounted, OnWire, connVars
<1>3. CASE Delete(m)
  BY <1>3, ShownKept DEF Delete, Accounted, OnWire, connVars
<1>. QED
  BY <1>1, <1>2, <1>3

\* What a load takes off the list has been noted, or is not in the database any more.
LEMMA LoadAccounts == ASSUME TypeInv, Accounted, NEW l \in Loads, LoadDone(l) PROVE Accounted'
<1>1. Shown' = snapshot[l]
  BY Loaded DEF Shown
<1>. QED
  BY <1>1 DEF LoadDone, Accounted, OnWire, serverVars, connVars

LEMMA ViewAccounts ==
  ASSUME TypeInv, Accounted,
         \/ WsUserKnown \/ SignalRUserKnown \/ SocketUserKnown \/ SseUserKnown \/ SignalRLeaves
         \/ \E l \in Loads : ChatKnown(l) \/ MessagesRead(l) \/ LoadFails(l)
         \/ SseSend \/ SseSendReturns \/ SseSendFails
  PROVE  Accounted'
<1>. "connecting" \in Phases
  BY DEF Phases
<1>1. CASE WsUserKnown \/ SignalRUserKnown \/ SocketUserKnown \/ SseUserKnown
  BY <1>1, WireLost
  DEF WsUserKnown, SignalRUserKnown, SocketUserKnown, SseUserKnown, UserKnown, NewHub, serverVars
<1>2. CASE SignalRLeaves
  BY <1>2, ShownKept DEF SignalRLeaves, Accounted, OnWire, serverVars
<1>3. ASSUME NEW l \in Loads, ChatKnown(l) PROVE Accounted'
  <2>1. CASE NewHub
    BY <1>3, <2>1, WireLost DEF ChatKnown, NewHub, serverVars
  <2>2. CASE UNCHANGED <<connVars, lost>>
    BY <1>3, <2>2, ShownKept DEF ChatKnown, connVars, serverVars, Accounted, OnWire
  <2>. QED
    BY <1>3, <2>1, <2>2 DEF ChatKnown
<1>4. ASSUME NEW l \in Loads, MessagesRead(l) \/ LoadFails(l) PROVE Accounted'
  BY <1>4, ShownKept DEF MessagesRead, LoadFails, connVars, serverVars, Accounted, OnWire
<1>5. CASE SseSend \/ SseSendFails
  BY <1>5, ShownKept DEF SseSend, SseSendFails, connVars, serverVars, Accounted, OnWire
<1>6. CASE SseSendReturns
  <2>1. ownId \in Ids /\ messages \in Seq(Ids)
    BY <1>6 DEF SseSendReturns, TypeInv, TypeOK, OwnSaved
  <2>2. Shown \subseteq ToSet(Add(ownId))
    <3>1. ToSet(Append(messages, ownId)) = Shown \union {ownId}
      BY <2>1, InAppend DEF Shown
    <3>. QED
      BY <3>1 DEF Add, Shown
  <2>3. Shown \subseteq Shown'
    BY <1>6, <2>2 DEF SseSendReturns, Shown
  <2>. QED
    BY <1>6, <2>3 DEF SseSendReturns, connVars, serverVars, Accounted, OnWire
<1>. QED
  BY <1>1, <1>2, <1>3, <1>4, <1>5, <1>6

\* A room is mounted once: it is not again after it has been left.
LEMMA MountedBefore == ASSUME [Next]_vars, mounted' PROVE mounted
<1>1. CASE Opens \/ Joins \/ Refuses \/ Drops \/ JoinAnswered \/ GuardFires \/ SignalRLeft
  BY <1>1
  DEF Opens, WsOpens, SseOpens, SignalRConnects, SocketConnects, Joins, WsJoins, SignalRJoins,
      SignalRJoinCompletes, SocketJoins, Refuses, SseRefused, SignalRGivesUp, SignalRJoinFails,
      SocketConnectFails, SocketJoinRefused, Drops, WsCloses, SseErrs, SignalRDrops, SocketDrops,
      JoinAnswered, GuardFires, SignalRLeft, ConnStep, viewVars
<1>2. CASE ~(Opens \/ Joins \/ Refuses \/ Drops \/ JoinAnswered \/ GuardFires \/ SignalRLeft)
  BY <1>2
  DEF Next, Arrives, MessageArrives, WsUserKnown, SignalRUserKnown, SocketUserKnown, SseUserKnown, UserKnown,
      Leave, SignalRLeaves, ChatKnown, MessagesRead, LoadFails, LoadDone, OtherSends, Announce, Overlooked, UpstreamTimesOut,
      Delete, SseSaved, SseSend, SseSendReturns, SseSendFails, viewVars, vars
<1>. QED
  BY <1>1, <1>2

LEMMA MissingStep == TypeInv /\ WireInv /\ NothingMissing /\ [Next]_vars => NothingMissing'
<1>. SUFFICES ASSUME TypeInv, WireInv, NothingMissing, [Next]_vars, mounted' PROVE Accounted'
  BY DEF NothingMissing, Accounted
<1>. mounted /\ Accounted
  BY MountedBefore DEF NothingMissing, Accounted
<1>1. CASE UNCHANGED vars
  BY <1>1, ShownKept DEF vars, serverVars, connVars, Accounted, OnWire
<1>2. CASE Leave
  BY <1>2 DEF Leave
<1>. QED
  BY <1>1, <1>2, ConnAccounts, MessageAccounts, AnnounceAccounts, ServerAccounts, LoadAccounts, ViewAccounts
  DEF Next, Arrives

(***************************************************************************)
(* Over each of the four techniques, whatever is dropped, refused, timed   *)
(* out or read late, a message of the database that a room in use does not *)
(* show is yet to be announced, on its way, or one of those noted as lost. *)
(***************************************************************************)
THEOREM NothingMissingHolds == Spec => []NothingMissing
<1>1. Init => NothingMissing
  BY DEF Init, NothingMissing
<1>. QED
  BY <1>1, PushTypeHolds, WireInit, WireStep, MissingStep, PTL DEF Spec
=============================================================================
