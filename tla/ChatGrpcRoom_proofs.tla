------------------------- MODULE ChatGrpcRoom_proofs -------------------------
(***************************************************************************)
(* What holds of the gRPC room for any ids, streams and sends: what the    *)
(* list shows, that the room always has a stream or will have one, and     *)
(* that the hub is an ordered feed over all its streams.                   *)
(***************************************************************************)
EXTENDS ChatGrpcRoom, TLAPS

-----------------------------------------------------------------------------
(* Lists *)

(***************************************************************************)
(* What appending to a list does to what is in it.                         *)
(***************************************************************************)
LEMMA InAppend ==
  ASSUME NEW S, NEW q \in Seq(S), NEW x \in S
  PROVE  ToSet(Append(q, x)) = ToSet(q) \union {x}
<1>1. /\ DOMAIN Append(q, x) = 1..(Len(q) + 1)
      /\ DOMAIN q = 1..Len(q) /\ Len(q) \in Nat
      /\ Append(q, x)[Len(q) + 1] = x
      /\ \A i \in 1..Len(q) : Append(q, x)[i] = q[i]
  OBVIOUS
<1>2. 1..(Len(q) + 1) = 1..Len(q) \union {Len(q) + 1}
  BY <1>1
<1>. QED
  BY <1>1, <1>2 DEF ToSet

(***************************************************************************)
(* A list in order has what it is of, and nothing twice.                   *)
(***************************************************************************)
LEMMA InOrderLists ==
  ASSUME NEW S, S \subseteq Nat, NEW q \in InOrder(S)
  PROVE  q \in Seq(S) /\ ToSet(q) = S /\ IsInjective(q)
<1>1. PICK n \in 0..Cardinality(S) : q \in [1..n -> S]
  BY DEF InOrder, SeqOf
<1>2. n \in Nat /\ DOMAIN q = 1..n /\ q \in Seq(S)
  BY <1>1
<1>3. \A i, j \in 1..n : i < j => q[i] < q[j]
  BY <1>2 DEF InOrder
<1>4. \A i, j \in 1..n : q[i] = q[j] => i = j
  <2>1. \A i \in 1..n : q[i] \in Nat
    BY <1>1
  <2>2. \A i, j \in 1..n : i < j \/ j < i \/ i = j
    BY <1>2
  <2>3. \A i, j \in 1..n : i < j => q[i] # q[j]
    BY <1>3, <2>1
  <2>. QED
    BY <2>2, <2>3
<1>. QED
  BY <1>2, <1>4 DEF InOrder, IsInjective

(***************************************************************************)
(* Math.max over a list in order: it is the last, or 0 if there is none.   *)
(***************************************************************************)
LEMMA MaxOfList ==
  ASSUME NEW S, S \subseteq Nat, NEW q \in InOrder(S)
  PROVE  /\ Max(S \union {0}) \in S \union {0}
         /\ \A x \in S : x <= Max(S \union {0})
<1>1. PICK n \in 0..Cardinality(S) : q \in [1..n -> S]
  BY DEF InOrder, SeqOf
<1>2. n \in Nat /\ DOMAIN q = 1..n
  BY <1>1
<1>3. \A x \in S : \E i \in 1..n : q[i] = x
  BY <1>2 DEF InOrder, ToSet
<1>4. \E x \in S \union {0} : \A y \in S \union {0} : x >= y
  <2>1. CASE n = 0
    BY <1>3, <2>1
  <2>2. CASE n # 0
    <3>1. n \in 1..n /\ q[n] \in S /\ \A i \in 1..n : q[i] \in Nat
      <4>1. n \in 1..n
        BY <1>2, <2>2
      <4>. QED
        BY <1>1, <4>1
    <3>2. \A i, j \in 1..n : i < j => q[i] < q[j]
      BY <1>2 DEF InOrder
    <3>3. \A i \in 1..n : q[i] <= q[n]
      BY <1>2, <3>1, <3>2
    <3>4. \A y \in S \union {0} : q[n] >= y
      BY <1>3, <3>1, <3>3
    <3>. QED
      BY <3>1, <3>4
  <2>. QED
    BY <2>1, <2>2
<1>. QED
  BY <1>4 DEF Max

-----------------------------------------------------------------------------
(* Types *)

\* A send that the server has answered has the id of its message.
SendsKnown == \A x \in Sends : send[x] \in {"created", "waiting"} => sendId[x] \in Ids

TypeInv == TypeOK /\ SendsKnown

LEMMA TypeInit == Init => TypeInv
<1>. SUFFICES ASSUME Init PROVE TypeInv
  OBVIOUS
<1>1. load \in [Loads -> {"none", "asked", "answered", "done"}]
  BY DEF Init
<1>2. messages \in Seq(Ids) /\ handed \in Seq(Ids)
  BY DEF Init
<1>3. TypeOK
  BY <1>1, <1>2, RoomAssumption DEF Init, TypeOK
<1>. QED
  BY <1>3 DEF Init, TypeInv, SendsKnown

\* What startConnection leaves, wherever it is called from.
LEMMA Started ==
  ASSUME TypeOK, NEW since, StartConnection(since)
  PROVE  \E r \in Streams :
           /\ state[r] = "unused" /\ stream' = r /\ stopRequested' = FALSE
           /\ state' = [k \in Streams |-> IF k = r THEN "open" ELSE StopCurrentStream(state)[k]]
           /\ state' \in [Streams -> {"unused", "open", "closing", "over"}]
           /\ cursor' = since /\ lastMessageId' = since /\ passedOver' = {}
<1>1. PICK r \in Streams :
        /\ state[r] = "unused" /\ stream' = r /\ stopRequested' = FALSE
        /\ state' = [StopCurrentStream(state) EXCEPT ![r] = "open"]
        /\ cursor' = since /\ lastMessageId' = since /\ passedOver' = {}
  BY DEF StartConnection
<1>2. StopCurrentStream(state) \in [Streams -> {"unused", "open", "closing", "over"}]
  BY DEF StopCurrentStream, TypeOK
<1>. QED
  BY <1>1, <1>2

LEMMA ShowTyped == ASSUME TypeOK, NEW m \in Ids PROVE Show(m) \in Seq(Ids)
  BY DEF Show, TypeOK

LEMMA ServerKeepsTypes == ASSUME TypeInv, NEW m \in Ids, OtherSends(m) \/ Delete(m) PROVE TypeInv'
<1>1. CASE OtherSends(m)
  BY <1>1 DEF OtherSends, Insert, TypeInv, TypeOK, SendsKnown, loadVars, sendVars, hubVars, connVars
<1>2. CASE Delete(m)
  BY <1>2 DEF Delete, TypeInv, TypeOK, SendsKnown, sendVars, hubVars, connVars
<1>. QED
  BY <1>1, <1>2

LEMMA PassOverKeepsTypes == ASSUME TypeInv, NEW r \in Streams, NEW m \in Ids, PassOver(r, m) PROVE TypeInv'
  BY DEF PassOver, TypeInv, TypeOK, SendsKnown, serverVars, loadVars, sendVars, connVars

LEMMA DataKeepsTypes == ASSUME TypeInv, NEW r \in Streams, NEW m \in Ids, Data(r, m) PROVE TypeInv'
<1>1. messages' \in Seq(Ids)
  BY ShowTyped DEF Data, TypeInv
<1>. QED
  BY <1>1 DEF Data, TypeInv, TypeOK, SendsKnown, serverVars, loadVars, connVars

LEMMA StartKeepsTypes ==
  ASSUME TypeInv, NEW since \in Ids \union {0}, StartConnection(since), fellBack' \in BOOLEAN, timers' \in Nat,
         load' \in [Loads -> {"none", "asked", "answered", "done"}], userId' \in BOOLEAN,
         UNCHANGED <<serverVars, mounted, snapshot, lastLoaded, messages, sendVars, handed, lost, overwritten>>
  PROVE  TypeInv'
<1>1. /\ stream' \in Streams /\ stopRequested' = FALSE /\ cursor' = since /\ lastMessageId' = since
      /\ passedOver' = {}
      /\ state' \in [Streams -> {"unused", "open", "closing", "over"}]
  BY Started DEF TypeInv
<1>. QED
  BY <1>1 DEF TypeInv, TypeOK, SendsKnown, serverVars, sendVars

LEMMA StreamKeepsTypes ==
  ASSUME TypeInv, NEW r \in Streams, FallBack(r) \/ StreamError(r) \/ StreamEnd(r)
  PROVE  TypeInv'
<1>1. CASE FallBack(r)
  <2>1. ResumeFrom \in Ids \union {0} /\ fellBack' \in BOOLEAN /\ timers' \in Nat
    BY <1>1 DEF FallBack, ResumeFrom, TypeInv, TypeOK
  <2>. QED
    BY <1>1, <2>1, StartKeepsTypes DEF FallBack, TypeInv, TypeOK, loadVars
<1>2. CASE StreamError(r)
  BY <1>2 DEF StreamError, ScheduleReconnect, TypeInv, TypeOK, SendsKnown, serverVars, loadVars, sendVars
<1>3. CASE StreamEnd(r)
  BY <1>3 DEF StreamEnd, ScheduleReconnect, TypeInv, TypeOK, SendsKnown, serverVars, loadVars, sendVars
<1>. QED
  BY <1>1, <1>2, <1>3

LEMMA TimerKeepsTypes == ASSUME TypeInv, TimerFires PROVE TypeInv'
<1>1. timers' \in Nat /\ ResumeFrom \in Ids \union {0}
  BY DEF TimerFires, ResumeFrom, TypeInv, TypeOK
<1>2. CASE StartConnection(ResumeFrom)
  BY <1>1, <1>2, StartKeepsTypes DEF TimerFires, TypeInv, TypeOK, loadVars
<1>3. CASE UNCHANGED <<cursor, passedOver, stream, state, stopRequested, lastMessageId>>
  BY <1>1, <1>3 DEF TimerFires, TypeInv, TypeOK, SendsKnown, serverVars, loadVars, sendVars
<1>. QED
  BY <1>2, <1>3 DEF TimerFires

LEMMA RoomKeepsTypes == ASSUME TypeInv, EnterRoom \/ LeaveRoom PROVE TypeInv'
<1>1. CASE EnterRoom
  <2>1. load' \in [Loads -> {"none", "asked", "answered", "done"}]
    BY <1>1 DEF EnterRoom, TypeInv, TypeOK
  <2>. QED
    BY <1>1, <2>1, StartKeepsTypes DEF EnterRoom, TypeInv, TypeOK
<1>2. CASE LeaveRoom
  <2>1. messages' \in Seq(Ids) /\ snapshot' \in [Loads -> SUBSET Ids]
    BY <1>2 DEF LeaveRoom
  <2>2. load' \in [Loads -> {"none", "asked", "answered", "done"}]
    BY <1>2 DEF LeaveRoom
  <2>. QED
    BY <1>2, <2>1, <2>2 DEF LeaveRoom, StopCurrentStream, TypeInv, TypeOK, SendsKnown, serverVars, sendVars
<1>. QED
  BY <1>1, <1>2

\* What a load leaves on the screen.
LEMMA Loaded ==
  ASSUME TypeInv, NEW l \in Loads, LoadDone(l)
  PROVE  /\ messages' \in Seq(Ids) /\ Shown' = snapshot[l] /\ NoDuplicates'
         /\ LET top == Max(snapshot[l] \union {0})
            IN  top \in snapshot[l] \union {0} /\ \A m \in snapshot[l] : m <= top
<1>1. snapshot[l] \subseteq Ids /\ snapshot[l] \subseteq Nat /\ messages' \in InOrder(snapshot[l])
  BY RoomAssumption DEF LoadDone, TypeInv, TypeOK
<1>2. messages' \in Seq(snapshot[l]) /\ ToSet(messages') = snapshot[l] /\ IsInjective(messages')
  BY <1>1, InOrderLists
<1>3. messages' \in Seq(Ids) /\ Shown' = snapshot[l] /\ NoDuplicates'
  BY <1>1, <1>2 DEF Shown, NoDuplicates, IsInjective
<1>. QED
  BY <1>1, <1>3, MaxOfList

LEMMA LoadingKeepsTypes == ASSUME TypeInv, NEW l \in Loads, LoadAnswered(l) \/ LoadDone(l) PROVE TypeInv'
<1>1. CASE LoadAnswered(l)
  <2>1. load' \in [Loads -> {"none", "asked", "answered", "done"}]
    BY <1>1 DEF LoadAnswered, TypeInv, TypeOK
  <2>2. snapshot' \in [Loads -> SUBSET Ids]
    BY <1>1 DEF LoadAnswered, TypeInv, TypeOK
  <2>. QED
    BY <1>1, <2>1, <2>2 DEF LoadAnswered, TypeInv, TypeOK, SendsKnown, serverVars, sendVars, hubVars, connVars
<1>2. CASE LoadDone(l)
  <2>1. messages' \in Seq(Ids) /\ lastLoaded' \in Ids \union {0} /\ overwritten' \in BOOLEAN
    <3>1. lastLoaded' \in Ids \union {0}
      BY <1>2, Loaded DEF LoadDone, TypeInv, TypeOK
    <3>2. overwritten' \in BOOLEAN
      BY <1>2 DEF LoadDone
    <3>. QED
      BY <1>2, <3>1, <3>2, Loaded
  <2>. QED
    BY <1>2, <2>1 DEF LoadDone, TypeInv, TypeOK, SendsKnown, serverVars, sendVars, hubVars, connVars
<1>. QED
  BY <1>1, <1>2

LEMMA SendingKeepsTypes ==
  ASSUME TypeInv, NEW x \in Sends,
         Send(x) \/ SendFails(x) \/ SendReturns(x) \/ ReceiveTimesOut(x) \/ \E m \in Ids : SendCreated(x, m)
  PROVE  TypeInv'
<1>. USE DEF TypeInv, TypeOK, SendsKnown, serverVars, loadVars, hubVars, connVars
<1>1. CASE Send(x)
  BY <1>1 DEF Send
<1>2. CASE SendFails(x)
  BY <1>2 DEF SendFails
<1>3. CASE SendReturns(x)
  <2>1. sendId[x] \in Ids
    BY <1>3 DEF SendReturns
  <2>2. messages' \in Seq(Ids)
    BY <1>3, <2>1, ShowTyped DEF SendReturns
  <2>. QED
    BY <1>3, <2>1, <2>2 DEF SendReturns
<1>4. CASE ReceiveTimesOut(x)
  BY <1>4 DEF ReceiveTimesOut
<1>5. ASSUME NEW m \in Ids, SendCreated(x, m) PROVE TypeInv'
  BY <1>5 DEF SendCreated, Insert
<1>. QED
  BY <1>1, <1>2, <1>3, <1>4, <1>5

LEMMA TypeStep == TypeInv /\ [Next]_vars => TypeInv'
<1>. SUFFICES ASSUME TypeInv, [Next]_vars PROVE TypeInv'
  OBVIOUS
<1>1. CASE UNCHANGED vars
  BY <1>1 DEF vars, TypeInv, TypeOK, SendsKnown, serverVars, loadVars, sendVars, hubVars, connVars
<1>. QED
  BY <1>1, ServerKeepsTypes, PassOverKeepsTypes, DataKeepsTypes, StreamKeepsTypes, TimerKeepsTypes, RoomKeepsTypes, LoadingKeepsTypes,
     SendingKeepsTypes DEF Next

\* The room stays within its types, whatever loads, sends, streams and timers do.
THEOREM GrpcTypeHolds == Spec => []TypeInv
  BY TypeInit, TypeStep, PTL DEF Spec

-----------------------------------------------------------------------------
(* No message twice *)

LEMMA ShowOnce ==
  ASSUME TypeOK, NoDuplicates, NEW m \in Ids, messages' = Show(m)
  PROVE  NoDuplicates' /\ Shown' = Shown \union {m}
<1>. messages \in Seq(Ids)
  BY DEF TypeOK
<1>1. CASE m \in Shown
  BY <1>1 DEF Show, NoDuplicates, Shown
<1>2. CASE m \notin Shown
  <2>1. messages' = Append(messages, m) /\ ToSet(Append(messages, m)) = Shown \union {m}
    BY <1>2, InAppend DEF Show, Shown
  <2>2. \A i \in 1..Len(messages) : messages[i] # m
    BY <1>2 DEF Shown, ToSet
  <2>3. /\ DOMAIN messages' = 1..(Len(messages) + 1) /\ Len(messages) \in Nat
        /\ messages'[Len(messages) + 1] = m
        /\ \A i \in 1..Len(messages) : messages'[i] = messages[i]
    BY <2>1
  <2>4. \A i \in 1..(Len(messages) + 1) : i \in 1..Len(messages) \/ i = Len(messages) + 1
    BY <2>3
  <2>. QED
    BY <2>1, <2>2, <2>3, <2>4 DEF NoDuplicates, Shown
<1>. QED
  BY <1>1, <1>2

(***************************************************************************)
(* Who touches the list on the screen: the stream and a send show one      *)
(* message, a load that is done takes the list's place, and leaving the    *)
(* room takes it away.                                                     *)
(***************************************************************************)
LEMMA ScreenChanges ==
  ASSUME TypeInv, [Next]_vars
  PROVE  \/ UNCHANGED messages
         \/ \E r \in Streams, m \in Ids : Data(r, m) /\ messages' = Show(m)
         \/ \E x \in Sends : SendReturns(x) /\ sendId[x] \in Ids /\ messages' = Show(sendId[x])
         \/ \E l \in Loads : LoadDone(l)
         \/ LeaveRoom
<1>1. ASSUME NEW m \in Ids, OtherSends(m) \/ Delete(m) PROVE UNCHANGED messages
  BY <1>1 DEF OtherSends, Delete
<1>2. ASSUME NEW r \in Streams, NEW m \in Ids, Data(r, m) PROVE messages' = Show(m)
  BY <1>2 DEF Data
<1>3. ASSUME NEW r \in Streams, FallBack(r) \/ StreamError(r) \/ StreamEnd(r) PROVE UNCHANGED messages
  BY <1>3 DEF FallBack, StreamError, StreamEnd
<1>4. CASE TimerFires \/ EnterRoom
  BY <1>4 DEF TimerFires, EnterRoom
<1>5. ASSUME NEW l \in Loads, LoadAnswered(l) PROVE UNCHANGED messages
  BY <1>5 DEF LoadAnswered
<1>6. ASSUME NEW x \in Sends, NEW m \in Ids, SendCreated(x, m) PROVE UNCHANGED messages
  BY <1>6 DEF SendCreated
<1>7. ASSUME NEW x \in Sends, Send(x) \/ SendFails(x) \/ ReceiveTimesOut(x) PROVE UNCHANGED messages
  BY <1>7 DEF Send, SendFails, ReceiveTimesOut
<1>8. ASSUME NEW x \in Sends, SendReturns(x) PROVE sendId[x] \in Ids /\ messages' = Show(sendId[x])
  BY <1>8 DEF SendReturns, TypeInv, SendsKnown
<1>9. CASE UNCHANGED vars
  BY <1>9 DEF vars
<1>10. ASSUME NEW r \in Streams, NEW m \in Ids, PassOver(r, m) PROVE UNCHANGED messages
  BY <1>10 DEF PassOver
<1>. QED
  BY <1>1, <1>2, <1>3, <1>4, <1>5, <1>6, <1>7, <1>8, <1>9, <1>10 DEF Next

LEMMA OnceStep == TypeInv /\ NoDuplicates /\ [Next]_vars => NoDuplicates'
<1>. SUFFICES ASSUME TypeInv, NoDuplicates, [Next]_vars PROVE NoDuplicates'
  OBVIOUS
<1>. TypeOK
  BY DEF TypeInv
<1>1. CASE UNCHANGED messages
  BY <1>1 DEF NoDuplicates
<1>2. CASE LeaveRoom
  BY <1>2 DEF LeaveRoom, NoDuplicates
<1>. QED
  BY <1>1, <1>2, ScreenChanges, ShowOnce, Loaded

(***************************************************************************)
(* Loads, the stream (after a reconnect, from an id before what is shown)  *)
(* and a send may bring the same message in any order: it is shown once.   *)
(***************************************************************************)
THEOREM NoDuplicatesHolds == Spec => []NoDuplicates
<1>1. Init => NoDuplicates
  BY DEF Init, NoDuplicates
<1>. QED
  BY <1>1, GrpcTypeHolds, OnceStep, PTL DEF Spec

-----------------------------------------------------------------------------
(* The hub *)

(***************************************************************************)
(* stopRequested says whether the room was left, since only a room in use  *)
(* starts a connection; so a timer that fires later starts none.  Before   *)
(* the hub is made there are no streams, no timers, and nothing was handed *)
(* on.                                                                     *)
(***************************************************************************)
StopsOnLeaving == stopRequested <=> ~mounted

NoHubYet == ~userId => (\A r \in Streams : state[r] = "unused") /\ timers = 0 /\ handed = <<>>

HubInv == StopsOnLeaving /\ NoHubYet /\ OneStream /\ NeverStranded

LEMMA HubInit == Init => HubInv
  BY DEF Init, HubInv, StopsOnLeaving, NoHubYet, OneStream, NeverStranded

\* A connection that is started replaces the one there was.
LEMMA StartKeepsHub ==
  ASSUME TypeInv, HubInv, NEW since, StartConnection(since), mounted, mounted', userId'
  PROVE  HubInv'
<1>1. PICK r \in Streams :
        /\ stream' = r /\ stopRequested' = FALSE
        /\ state' = [k \in Streams |-> IF k = r THEN "open" ELSE StopCurrentStream(state)[k]]
  BY Started DEF TypeInv
<1>2. \A k \in Streams : StopCurrentStream(state)[k] # "open"
  BY DEF StopCurrentStream, HubInv, OneStream
<1>3. r # NoStream
  BY RoomAssumption
<1>. QED
  BY <1>1, <1>2, <1>3 DEF HubInv, StopsOnLeaving, NoHubYet, OneStream, NeverStranded

\* An event that leaves the hub alone.
LEMMA HubLeftAlone ==
  ASSUME HubInv, UNCHANGED <<mounted, userId, stream, state, stopRequested, timers, handed>>
  PROVE  HubInv'
  BY DEF HubInv, StopsOnLeaving, NoHubYet, OneStream, NeverStranded

LEMMA StreamKeepsHub ==
  ASSUME TypeInv, HubInv, NEW r \in Streams, FallBack(r) \/ StreamError(r) \/ StreamEnd(r)
  PROVE  HubInv'
<1>1. userId
  BY DEF FallBack, StreamError, StreamEnd, CanFail, HubInv, NoHubYet
<1>2. mounted
  BY DEF FallBack, StreamError, StreamEnd, HubInv, StopsOnLeaving
<1>3. CASE FallBack(r)
  BY <1>1, <1>2, <1>3, StartKeepsHub DEF FallBack
<1>4. CASE StreamError(r) \/ StreamEnd(r)
  <2>1. /\ UNCHANGED <<mounted, userId, stream, stopRequested>> /\ timers' = timers + 1 /\ timers \in Nat
        /\ \A k \in Streams : state'[k] = "open" => state[k] = "open"
    BY <1>4 DEF StreamError, StreamEnd, ScheduleReconnect, TypeInv, TypeOK
  <2>. QED
    BY <1>1, <1>2, <2>1 DEF HubInv, StopsOnLeaving, NoHubYet, OneStream, NeverStranded
<1>. QED
  BY <1>3, <1>4

LEMMA TimerKeepsHub == ASSUME TypeInv, HubInv, TimerFires PROVE HubInv'
<1>1. userId /\ UNCHANGED <<mounted, userId>>
  BY DEF TimerFires, HubInv, NoHubYet
<1>2. CASE stopRequested
  <2>1. ~mounted /\ UNCHANGED <<stream, state, stopRequested>>
    BY <1>2 DEF TimerFires, HubInv, StopsOnLeaving
  <2>. QED
    BY <1>1, <2>1 DEF HubInv, StopsOnLeaving, NoHubYet, OneStream, NeverStranded
<1>3. CASE ~stopRequested
  BY <1>1, <1>3, StartKeepsHub DEF TimerFires, HubInv, StopsOnLeaving
<1>. QED
  BY <1>2, <1>3

LEMMA LeaveKeepsHub == ASSUME TypeInv, HubInv, LeaveRoom PROVE HubInv'
<1>1. ~mounted' /\ stopRequested' /\ userId' /\ state' = StopCurrentStream(state)
  BY DEF LeaveRoom
<1>2. \A k \in Streams : StopCurrentStream(state)[k] # "open"
  BY DEF StopCurrentStream, HubInv, OneStream
<1>. QED
  BY <1>1, <1>2 DEF HubInv, StopsOnLeaving, NoHubYet, OneStream, NeverStranded

LEMMA DataKeepsHub == ASSUME TypeInv, HubInv, NEW r \in Streams, NEW m \in Ids, Data(r, m) PROVE HubInv'
<1>1. userId /\ UNCHANGED <<mounted, userId, stream, state, stopRequested, timers>>
  BY DEF Data, HubInv, NoHubYet, connVars
<1>. QED
  BY <1>1 DEF HubInv, StopsOnLeaving, NoHubYet, OneStream, NeverStranded

LEMMA HubStep == TypeInv /\ HubInv /\ [Next]_vars => HubInv'
<1>. SUFFICES ASSUME TypeInv, HubInv, [Next]_vars PROVE HubInv'
  OBVIOUS
<1>. USE DEF hubVars, connVars
<1>1. ASSUME NEW m \in Ids, OtherSends(m) \/ Delete(m) PROVE HubInv'
  BY <1>1, HubLeftAlone DEF OtherSends, Delete
<1>2. CASE EnterRoom
  BY <1>2, StartKeepsHub DEF EnterRoom
<1>3. ASSUME NEW l \in Loads, LoadAnswered(l) \/ LoadDone(l) PROVE HubInv'
  BY <1>3, HubLeftAlone DEF LoadAnswered, LoadDone
<1>4. ASSUME NEW x \in Sends, NEW m \in Ids, SendCreated(x, m) PROVE HubInv'
  BY <1>4, HubLeftAlone DEF SendCreated
<1>5. ASSUME NEW x \in Sends, Send(x) \/ SendFails(x) \/ SendReturns(x) \/ ReceiveTimesOut(x) PROVE HubInv'
  BY <1>5, HubLeftAlone DEF Send, SendFails, SendReturns, ReceiveTimesOut
<1>6. CASE UNCHANGED vars
  BY <1>6, HubLeftAlone DEF vars
<1>7. ASSUME NEW r \in Streams, NEW m \in Ids, PassOver(r, m) PROVE HubInv'
  BY <1>7, HubLeftAlone DEF PassOver
<1>. QED
  BY <1>1, <1>2, <1>3, <1>4, <1>5, <1>6, <1>7, DataKeepsHub, StreamKeepsHub, TimerKeepsHub, LeaveKeepsHub DEF Next

THEOREM HubInvariant == Spec => []HubInv
  BY GrpcTypeHolds, HubInit, HubStep, PTL DEF Spec

(***************************************************************************)
(* However 'error', 'end', the fallback and any number of timers that are  *)
(* pending at once are ordered, a room in use is never left without a      *)
(* stream or a timer that will open one.                                   *)
(***************************************************************************)
THEOREM NeverStrandedHolds == Spec => []NeverStranded
<1>1. HubInv => NeverStranded
  BY DEF HubInv
<1>. QED
  BY <1>1, HubInvariant, PTL

(***************************************************************************)
(* Nor does it ever have two streams open, or one after it has been left.  *)
(***************************************************************************)
THEOREM OneStreamHolds == Spec => []OneStream
<1>1. HubInv => OneStream
  BY DEF HubInv
<1>. QED
  BY <1>1, HubInvariant, PTL

-----------------------------------------------------------------------------
(* No message missing *)

(***************************************************************************)
(* The invariant.  Ids are given out in order and a load is read at once,  *)
(* so an answer lacks nothing up to any id in it, however much is inserted *)
(* and deleted while it is on its way (AnswersWhole).  The hub starts from *)
(* the list as the last load left it (WholeBefore), and the server's place *)
(* on the stream is the id the hub last moved to (InStep): what a stream   *)
(* passed over is lost only when the hub moves beyond it.                  *)
(***************************************************************************)
Issued ==
  /\ lastLoaded <= issued /\ lastMessageId <= issued
  /\ \A m \in db : m <= issued
  /\ \A l \in Loads : \A m \in snapshot[l] : m <= issued

AnswersWhole == \A l \in Loads : \A m \in db : \A k \in snapshot[l] : m <= k => m \in snapshot[l]

WholeBefore == ~userId => load["refresh"] = "none" /\ \A m \in db : m <= lastLoaded => m \in Shown

InStep == cursor = lastMessageId

ListInv == Issued /\ AnswersWhole /\ WholeBefore /\ InStep /\ NothingMissing

LEMMA ListInit == Init => ListInv
<1>. SUFFICES ASSUME Init PROVE ListInv
  OBVIOUS
<1>1. load["refresh"] = "none"
  BY DEF Init, Loads
<1>2. \A l \in Loads : snapshot[l] = {}
  BY DEF Init
<1>. QED
  BY <1>1, <1>2 DEF Init, ListInv, Issued, AnswersWhole, WholeBefore, InStep, NothingMissing

LEMMA ShownKept == ASSUME UNCHANGED messages PROVE Shown' = Shown
  BY DEF Shown

\* A step that gives out no id and puts nothing new in the lists it keeps in step.
LEMMA ListLeftAlone ==
  ASSUME ListInv, db' \subseteq db, Shown \subseteq Shown', userId,
         UNCHANGED <<issued, userId, snapshot, lastLoaded, lastMessageId, cursor>>,
         mounted' => mounted, overwritten => overwritten', lost' = lost
  PROVE  ListInv'
  BY DEF ListInv, Issued, AnswersWhole, WholeBefore, InStep, NothingMissing

LEMMA InsertKeepsList ==
  ASSUME TypeInv, ListInv, NEW m \in Ids, Insert(m),
         UNCHANGED <<mounted, userId, loadVars, messages, cursor, lastMessageId, lost, overwritten>>
  PROVE  ListInv'
<1>1. m > issued /\ issued' = m /\ db' = db \union {m} /\ Shown' = Shown
  BY ShownKept DEF Insert
<1>2. /\ m \in Nat /\ issued \in Nat /\ lastLoaded \in Nat /\ lastMessageId \in Nat /\ db \subseteq Nat
      /\ \A l \in Loads : snapshot[l] \subseteq Nat
  <2>1. Ids \subseteq Nat
    BY RoomAssumption
  <2>2. \A l \in Loads : snapshot[l] \subseteq Ids
    BY DEF TypeInv, TypeOK
  <2>3. issued \in Nat /\ lastLoaded \in Nat /\ lastMessageId \in Nat
    BY <2>1 DEF TypeInv, TypeOK
  <2>4. db \subseteq Nat
    BY <2>1 DEF TypeInv, TypeOK
  <2>. QED
    BY <2>1, <2>2, <2>3, <2>4
<1>3. Issued'
  BY <1>1, <1>2 DEF ListInv, Issued, loadVars
<1>4. AnswersWhole'
  <2>. SUFFICES ASSUME NEW l \in Loads, NEW n \in db \union {m}, NEW k \in snapshot[l], n <= k
                PROVE  n \in snapshot[l]
    BY <1>1 DEF AnswersWhole, loadVars
  <2>1. k <= issued
    BY DEF ListInv, Issued
  <2>2. n # m
    BY <1>1, <1>2, <2>1
  <2>. QED
    BY <2>2 DEF ListInv, AnswersWhole
<1>5. WholeBefore' /\ NothingMissing' /\ InStep'
  <2>1. ~(m <= lastLoaded) /\ ~(m <= lastMessageId)
    BY <1>1, <1>2 DEF ListInv, Issued
  <2>. QED
    BY <1>1, <2>1 DEF ListInv, WholeBefore, NothingMissing, InStep, loadVars
<1>. QED
  BY <1>3, <1>4, <1>5 DEF ListInv

LEMMA DataKeepsList ==
  ASSUME TypeInv, HubInv, ListInv, NEW r \in Streams, NEW m \in Ids, Data(r, m), Shown' = Shown \union {m}
  PROVE  ListInv'
<1>1. /\ m > cursor /\ m <= issued /\ cursor' = m /\ lastMessageId' = m
      /\ \A k \in db : cursor < k /\ k < m => k \in passedOver
      /\ lost' = lost \union {k \in passedOver : k < m}
      /\ UNCHANGED <<issued, db, mounted, userId, load, snapshot, lastLoaded, overwritten>>
  BY DEF Data, serverVars, loadVars
<1>2. m \in Nat /\ issued \in Nat /\ cursor \in Nat /\ db \subseteq Nat
  BY RoomAssumption DEF TypeInv, TypeOK
<1>3. Issued' /\ AnswersWhole' /\ InStep'
  BY <1>1 DEF ListInv, Issued, AnswersWhole, InStep
<1>4. WholeBefore'
  BY <1>1 DEF ListInv, WholeBefore
<1>5. ASSUME NEW k \in db, k <= m, userId, mounted, ~overwritten
      PROVE  k \in Shown \union {m} \/ k \in lost \union {n \in passedOver : n < m}
  <2>1. CASE k <= cursor
    BY <1>5, <2>1 DEF ListInv, InStep, NothingMissing
  <2>2. CASE k = m
    BY <2>2
  <2>3. CASE cursor < k /\ k < m
    BY <1>1, <2>3
  <2>. QED
    BY <1>2, <1>5, <2>1, <2>2, <2>3
<1>6. NothingMissing'
  BY <1>1, <1>5 DEF NothingMissing
<1>. QED
  BY <1>3, <1>4, <1>6 DEF ListInv

\* A reconnect takes up where the hub was; the first connection where the list is.
LEMMA ResumeKeepsList ==
  ASSUME TypeInv, ListInv, userId, StartConnection(ResumeFrom),
         UNCHANGED <<serverVars, mounted, userId, loadVars, messages, lost, overwritten>>
  PROVE  ListInv'
<1>1. cursor' = lastMessageId /\ lastMessageId' = lastMessageId
  BY Started DEF ResumeFrom, TypeInv
<1>. QED
  BY <1>1, ShownKept
  DEF ListInv, Issued, AnswersWhole, WholeBefore, InStep, NothingMissing, serverVars, loadVars

LEMMA EnterKeepsList == ASSUME TypeInv, ListInv, EnterRoom PROVE ListInv'
<1>1. cursor' = lastLoaded /\ lastMessageId' = lastLoaded
  BY Started DEF EnterRoom, TypeInv
<1>2. ~userId /\ userId' /\ UNCHANGED <<serverVars, snapshot, lastLoaded, messages>>
  BY DEF EnterRoom
<1>. QED
  BY <1>1, <1>2, ShownKept DEF ListInv, Issued, AnswersWhole, WholeBefore, InStep, NothingMissing, serverVars

LEMMA AnswerKeepsList == ASSUME TypeInv, ListInv, NEW l \in Loads, LoadAnswered(l) PROVE ListInv'
<1>1. /\ Shown' = Shown
      /\ UNCHANGED <<issued, db, mounted, userId, lastLoaded, lastMessageId, cursor, lost, overwritten>>
  BY ShownKept DEF LoadAnswered, serverVars, hubVars
<1>2. \A k \in Loads : snapshot'[k] = snapshot[k] \/ snapshot'[k] = db
  BY DEF LoadAnswered, TypeInv, TypeOK
<1>3. load["refresh"] = "none" => load'["refresh"] = "none"
  BY DEF LoadAnswered, TypeInv, TypeOK, Loads
<1>4. Issued' /\ AnswersWhole'
  BY <1>1, <1>2 DEF ListInv, Issued, AnswersWhole
<1>. QED
  BY <1>1, <1>3, <1>4 DEF ListInv, WholeBefore, InStep, NothingMissing

LEMMA LoadKeepsList == ASSUME TypeInv, ListInv, NEW l \in Loads, LoadDone(l) PROVE ListInv'
<1>. DEFINE top == Max(snapshot[l] \union {0})
<1>1. Shown' = snapshot[l] /\ top \in snapshot[l] \union {0} /\ \A m \in snapshot[l] : m <= top
  BY Loaded
<1>2. /\ load[l] = "answered" /\ load' = [load EXCEPT ![l] = "done"]
      /\ snapshot' = [snapshot EXCEPT ![l] = {}]
      /\ lastLoaded' = IF l = "refresh" THEN lastLoaded ELSE top
      /\ UNCHANGED <<issued, db, mounted, userId, lastMessageId, cursor, lost>>
  BY DEF LoadDone, serverVars, hubVars
<1>3. issued \in Nat /\ db \subseteq Nat \ {0}
  BY RoomAssumption DEF TypeInv, TypeOK
<1>4. \A k \in Loads : snapshot'[k] \subseteq snapshot[k]
  BY <1>2 DEF TypeInv, TypeOK
<1>5. \A k \in Loads : snapshot'[k] = snapshot[k] \/ snapshot'[k] = {}
  BY <1>2 DEF TypeInv, TypeOK
<1>6. lastLoaded' <= issued
  BY <1>1, <1>2, <1>3 DEF ListInv, Issued
<1>7. Issued'
  BY <1>2, <1>4, <1>6 DEF ListInv, Issued
<1>8. AnswersWhole'
  BY <1>2, <1>5 DEF ListInv, AnswersWhole
<1>9. WholeBefore'
  <2>. SUFFICES ASSUME ~userId
                PROVE  load'["refresh"] = "none" /\ \A m \in db : m <= lastLoaded' => m \in snapshot[l]
    BY <1>1, <1>2 DEF WholeBefore
  <2>1. load["refresh"] = "none" /\ l # "refresh"
    BY <1>2 DEF ListInv, WholeBefore
  <2>2. load'["refresh"] = "none" /\ lastLoaded' = top
    BY <1>2, <2>1 DEF TypeInv, TypeOK, Loads
  <2>3. ASSUME NEW m \in db, m <= top PROVE m \in snapshot[l]
    <3>1. top # 0
      BY <1>3, <2>3
    <3>. QED
      BY <1>1, <2>3, <3>1 DEF ListInv, AnswersWhole
  <2>. QED
    BY <2>2, <2>3
<1>10. NothingMissing'
  <2>1. ~overwritten' => ~overwritten /\ \A m \in Shown \intersect db : m \in snapshot[l]
    BY DEF LoadDone
  <2>. QED
    BY <1>1, <1>2, <2>1 DEF ListInv, NothingMissing
<1>. QED
  BY <1>2, <1>7, <1>8, <1>9, <1>10 DEF ListInv, InStep

LEMMA SendKeepsList ==
  ASSUME TypeInv, NoDuplicates, ListInv, NEW x \in Sends,
         Send(x) \/ SendFails(x) \/ SendReturns(x) \/ ReceiveTimesOut(x) \/ \E m \in Ids : SendCreated(x, m)
  PROVE  ListInv'
<1>1. CASE Send(x) \/ SendFails(x) \/ SendReturns(x) \/ ReceiveTimesOut(x)
  <2>1. Shown \subseteq Shown'
    <3>1. CASE SendReturns(x)
      <4>1. sendId[x] \in Ids /\ messages' = Show(sendId[x])
        BY <3>1 DEF SendReturns, TypeInv, SendsKnown
      <4>. QED
        BY <4>1, ShowOnce DEF TypeInv
    <3>2. CASE UNCHANGED messages
      BY <3>2, ShownKept
    <3>. QED
      BY <1>1, <3>1, <3>2 DEF Send, SendFails, ReceiveTimesOut
  <2>2. /\ UNCHANGED <<issued, db, userId, load, snapshot, lastLoaded, lastMessageId, cursor>>
        /\ UNCHANGED <<mounted, lost, overwritten>>
    BY <1>1 DEF Send, SendFails, SendReturns, ReceiveTimesOut, serverVars, loadVars, hubVars
  <2>. QED
    BY <2>1, <2>2 DEF ListInv, Issued, AnswersWhole, WholeBefore, InStep, NothingMissing
<1>2. ASSUME NEW m \in Ids, SendCreated(x, m) PROVE ListInv'
  BY <1>2, InsertKeepsList DEF SendCreated, hubVars
<1>. QED
  BY <1>1, <1>2

LEMMA ListStep == TypeInv /\ NoDuplicates /\ HubInv /\ ListInv /\ [Next]_vars => ListInv'
<1>. SUFFICES ASSUME TypeInv, NoDuplicates, HubInv, ListInv, [Next]_vars PROVE ListInv'
  OBVIOUS
<1>1. ASSUME NEW m \in Ids, OtherSends(m) PROVE ListInv'
  BY <1>1, InsertKeepsList DEF OtherSends, hubVars
<1>2. ASSUME NEW m \in Ids, Delete(m) PROVE ListInv'
  BY <1>2, ShownKept, ListLeftAlone DEF Delete, hubVars
<1>3. ASSUME NEW r \in Streams, NEW m \in Ids, Data(r, m) PROVE ListInv'
  <2>1. Shown' = Shown \union {m}
    BY <1>3, ShowOnce DEF Data, TypeInv
  <2>. QED
    BY <1>3, <2>1, DataKeepsList
<1>4. ASSUME NEW r \in Streams, FallBack(r) \/ StreamError(r) \/ StreamEnd(r) PROVE ListInv'
  <2>1. userId
    BY <1>4 DEF FallBack, StreamError, StreamEnd, CanFail, HubInv, NoHubYet
  <2>2. CASE FallBack(r)
    BY <2>1, <2>2, ResumeKeepsList DEF FallBack
  <2>3. CASE StreamError(r) \/ StreamEnd(r)
    <3>1. UNCHANGED <<serverVars, mounted, userId, loadVars, messages, cursor, lastMessageId, lost, overwritten>>
      BY <2>3 DEF StreamError, StreamEnd
    <3>. QED
      BY <2>1, <3>1, ShownKept, ListLeftAlone DEF serverVars, loadVars
  <2>. QED
    BY <1>4, <2>2, <2>3
<1>5. CASE TimerFires
  <2>1. userId
    BY <1>5 DEF TimerFires, HubInv, NoHubYet
  <2>2. CASE stopRequested
    BY <1>5, <2>1, <2>2, ShownKept, ListLeftAlone DEF TimerFires, serverVars, loadVars
  <2>3. CASE ~stopRequested
    BY <1>5, <2>1, <2>3, ResumeKeepsList DEF TimerFires
  <2>. QED
    BY <2>2, <2>3
<1>6. CASE LeaveRoom
  <2>1. /\ userId' /\ ~mounted' /\ \A l \in Loads : snapshot'[l] = {}
        /\ lastLoaded' = 0 /\ UNCHANGED <<issued, db, cursor, lastMessageId>>
    BY <1>6 DEF LeaveRoom, serverVars
  <2>2. issued >= 0
    BY RoomAssumption DEF TypeInv, TypeOK
  <2>3. Issued' /\ AnswersWhole' /\ InStep'
    BY <2>1, <2>2 DEF ListInv, Issued, AnswersWhole, InStep
  <2>. QED
    BY <2>1, <2>3 DEF ListInv, WholeBefore, NothingMissing
<1>7. CASE UNCHANGED vars
  BY <1>7, ShownKept DEF vars, serverVars, loadVars, hubVars, ListInv, Issued, AnswersWhole, WholeBefore, InStep,
                         NothingMissing
<1>8. ASSUME NEW r \in Streams, NEW m \in Ids, PassOver(r, m) PROVE ListInv'
  BY <1>8, ShownKept DEF PassOver, serverVars, loadVars, ListInv, Issued, AnswersWhole, WholeBefore, InStep,
                         NothingMissing
<1>. QED
  BY <1>1, <1>2, <1>3, <1>4, <1>5, <1>6, <1>7, <1>8, EnterKeepsList, AnswerKeepsList, LoadKeepsList, SendKeepsList DEF Next

THEOREM ListInvariant == Spec => []ListInv
  BY GrpcTypeHolds, NoDuplicatesHolds, HubInvariant, ListInit, ListStep, PTL DEF Spec

(***************************************************************************)
(* Up to where the hub has got, the list of a room in use is whole: loads  *)
(* that overlap, errors, the fallback, reconnects and deletes leave no     *)
(* message out, but for what the server passed over on a stream the hub    *)
(* moved on with, and a load that overwrote the list with an older one.    *)
(***************************************************************************)
THEOREM NothingMissingHolds == Spec => []NothingMissing
<1>1. ListInv => NothingMissing
  BY DEF ListInv
<1>. QED
  BY <1>1, ListInvariant, PTL

-----------------------------------------------------------------------------
(* The hub as a feed *)

\* What one event does to what the feed is made of.
LEMMA FeedRefined ==
  ASSUME TypeInv, HubInv, ListInv, [Next]_vars
  PROVE  [HubFeed!FeedNext]_(HubFeed!feedVars)
<1>. USE DEF HubFeed!FeedNext, HubFeed!feedVars, HubFeed!Issue, HubFeed!Start, HubFeed!Deliver
<1>1. CASE UNCHANGED <<issued, lastMessageId, handed>>
  BY <1>1
<1>2. ASSUME NEW m \in Ids, Insert(m), UNCHANGED <<lastMessageId, handed>>
      PROVE  \E n \in Ids : HubFeed!Issue(n)
  BY <1>2 DEF Insert
<1>3. ASSUME NEW r \in Streams, NEW m \in Ids, Data(r, m)
      PROVE  \E h \in {"hub"}, n \in Ids : HubFeed!Deliver(h, n)
  <2>1. m <= issued /\ m > lastMessageId /\ lastMessageId' = m /\ handed' = Append(handed, m) /\ issued' = issued
    BY <1>3 DEF Data, ListInv, InStep, serverVars
  <2>2. m \in Nat /\ lastMessageId \in Nat
    BY <2>1, RoomAssumption DEF ListInv, Issued, TypeInv, TypeOK
  <2>. QED
    BY <2>1, <2>2
<1>4. CASE EnterRoom
  <2>1. lastMessageId' = lastLoaded
    BY <1>4, Started DEF EnterRoom, TypeInv
  <2>2. handed = <<>> /\ UNCHANGED <<issued, handed>>
    BY <1>4 DEF EnterRoom, HubInv, NoHubYet, serverVars
  <2>3. lastLoaded \in Ids \union {0} /\ lastLoaded <= issued
    BY DEF TypeInv, TypeOK, ListInv, Issued
  <2>4. \E h \in {"hub"}, since \in Ids \union {0} : HubFeed!Start(h, since)
    BY <2>1, <2>2, <2>3
  <2>. QED
    BY <2>4
<1>5. ASSUME UNCHANGED <<serverVars, handed>>, StartConnection(ResumeFrom) PROVE UNCHANGED <<issued, lastMessageId, handed>>
  BY <1>5, Started DEF ResumeFrom, TypeInv, serverVars
<1>6. ASSUME NEW r \in Streams, FallBack(r) \/ StreamError(r) \/ StreamEnd(r)
      PROVE  UNCHANGED <<issued, lastMessageId, handed>>
  BY <1>5, <1>6 DEF FallBack, StreamError, StreamEnd, serverVars
<1>7. CASE TimerFires
  <2>1. UNCHANGED <<issued, lastMessageId, handed>>
    BY <1>5, <1>7 DEF TimerFires, serverVars
  <2>. QED
    BY <1>1, <2>1
<1>8. ASSUME NEW m \in Ids, Delete(m) PROVE UNCHANGED <<issued, lastMessageId, handed>>
  BY <1>8 DEF Delete, hubVars
<1>9. ASSUME NEW l \in Loads, LoadAnswered(l) \/ LoadDone(l) PROVE UNCHANGED <<issued, lastMessageId, handed>>
  BY <1>9 DEF LoadAnswered, LoadDone, serverVars, hubVars
<1>10. ASSUME NEW x \in Sends, Send(x) \/ SendFails(x) \/ SendReturns(x) \/ ReceiveTimesOut(x)
       PROVE  UNCHANGED <<issued, lastMessageId, handed>>
  BY <1>10 DEF Send, SendFails, SendReturns, ReceiveTimesOut, serverVars, hubVars
<1>11. CASE LeaveRoom \/ UNCHANGED vars
  BY <1>1, <1>11 DEF LeaveRoom, vars, serverVars, hubVars
<1>12. ASSUME NEW m \in Ids, OtherSends(m) \/ \E x \in Sends : SendCreated(x, m)
       PROVE  \E n \in Ids : HubFeed!Issue(n)
  BY <1>2, <1>12 DEF OtherSends, SendCreated, hubVars
<1>13. ASSUME NEW r \in Streams, NEW m \in Ids, PassOver(r, m) PROVE UNCHANGED <<issued, lastMessageId, handed>>
  BY <1>13 DEF PassOver, serverVars
<1>. QED
  BY <1>1, <1>3, <1>4, <1>6, <1>7, <1>8, <1>9, <1>10, <1>11, <1>12, <1>13 DEF Next

(***************************************************************************)
(* The hub, over any number of streams, implements the ordered feed: what  *)
(* it hands on is past where it started, issued and strictly increasing.   *)
(***************************************************************************)
THEOREM ImplementsFeedHolds == Spec => ImplementsFeed
<1>1. Init => HubFeed!FeedInit
  BY DEF Init, HubFeed!FeedInit
<1>2. TypeInv /\ HubInv /\ ListInv /\ [Next]_vars => [HubFeed!FeedNext]_(HubFeed!feedVars)
  BY FeedRefined
<1>. QED
  BY <1>1, <1>2, GrpcTypeHolds, HubInvariant, ListInvariant, PTL DEF Spec, ImplementsFeed, HubFeed!FeedSpec
=============================================================================
