------------------------- MODULE ChatPolling_proofs -------------------------
(***************************************************************************)
(* What holds of the polling room for any ids and sends: a room in use     *)
(* polls and one that was left does not, nothing is handed to a view that  *)
(* was left, the list is whole but for the gap between two loads, and what *)
(* the hub hands on is an ordered feed.                                    *)
(***************************************************************************)
EXTENDS ChatPolling, FiniteSetTheorems, TLAPS

-----------------------------------------------------------------------------
(* Lists *)

(***************************************************************************)
(* What appending to a list, and taking its head, does to what is in it.   *)
(***************************************************************************)
LEMMA InAppend ==
  ASSUME NEW S, NEW q \in Seq(S), NEW x \in S
  PROVE  ToSet(Append(q, x)) = ToSet(q) \union {x}
<1>1. /\ DOMAIN Append(q, x) = 1..(Len(q) + 1)
      /\ DOMAIN q = 1..Len(q) /\ Len(q) \in Nat
      /\ Append(q, x)[Len(q) + 1] = x
      /\ \A i \in 1..Len(q) : Append(q, x)[i] = q[i]
  OBVIOUS
<1>2. 1..(Len(q) + 1) = 1..Len(q) \union {Len(q) + 1}
  BY <1>1
<1>. QED
  BY <1>1, <1>2 DEF ToSet

LEMMA InTail ==
  ASSUME NEW S, NEW q \in Seq(S), q # <<>>
  PROVE  ToSet(q) = ToSet(Tail(q)) \union {Head(q)}
<1>1. /\ DOMAIN q = 1..Len(q) /\ Len(q) \in Nat \ {0}
      /\ DOMAIN Tail(q) = 1..(Len(q) - 1)
      /\ Head(q) = q[1]
      /\ \A i \in 1..(Len(q) - 1) : Tail(q)[i] = q[i + 1]
  OBVIOUS
<1>2. \A i \in 1..Len(q) : i # 1 => i - 1 \in 1..(Len(q) - 1) /\ Tail(q)[i - 1] = q[i]
  BY <1>1
<1>3. \A i \in 1..(Len(q) - 1) : i + 1 \in 1..Len(q)
  BY <1>1
<1>4. \A i \in 1..Len(q) : q[i] \in ToSet(Tail(q)) \union {Head(q)}
  BY <1>1, <1>2 DEF ToSet
<1>5. \A i \in 1..(Len(q) - 1) : Tail(q)[i] \in ToSet(q)
  BY <1>1, <1>3 DEF ToSet
<1>6. Head(q) \in ToSet(q)
  BY <1>1 DEF ToSet
<1>. QED
  BY <1>1, <1>4, <1>5, <1>6 DEF ToSet

(***************************************************************************)
(* A list in order has what it is of, and nothing twice.                   *)
(***************************************************************************)
LEMMA InOrderLists ==
  ASSUME NEW S, S \subseteq Nat, NEW q \in InOrder(S)
  PROVE  q \in Seq(S) /\ ToSet(q) = S /\ IsInjective(q)
<1>1. PICK n \in 0..Cardinality(S) : q \in [1..n -> S]
  BY DEF InOrder, SeqOf
<1>2. n \in Nat /\ DOMAIN q = 1..n /\ q \in Seq(S)
  BY <1>1
<1>3. \A i, j \in 1..n : i < j => q[i] < q[j]
  BY <1>2 DEF InOrder
<1>4. \A i, j \in 1..n : q[i] = q[j] => i = j
  <2>1. \A i \in 1..n : q[i] \in Nat
    BY <1>1
  <2>2. \A i, j \in 1..n : i < j \/ j < i \/ i = j
    BY <1>2
  <2>3. \A i, j \in 1..n : i < j => q[i] # q[j]
    BY <1>3, <2>1
  <2>. QED
    BY <2>2, <2>3
<1>. QED
  BY <1>2, <1>4 DEF InOrder, IsInjective

LEMMA ListOfMore == ASSUME NEW S, NEW T, S \subseteq T, NEW q \in Seq(S) PROVE q \in Seq(T)
  OBVIOUS

(***************************************************************************)
(* The elements of a finite set of ids have ranks, from the first to the   *)
(* last: there is a list of them in order, and a last one for Math.max.    *)
(***************************************************************************)
LEMMA Ranks ==
  ASSUME NEW S \in SUBSET Nat, IsFiniteSet(S)
  PROVE  \E f \in [S -> 1..Cardinality(S)] :
           /\ \A x, y \in S : x < y => f[x] < f[y]
           /\ \A i \in 1..Cardinality(S) : \E x \in S : f[x] = i
<1>. DEFINE Upto(x) == {y \in S : y <= x}
            n == Cardinality(S)
            f == [x \in S |-> Cardinality(Upto(x))]
<1>1. n \in Nat
  BY FS_CardinalityType
<1>2. ASSUME NEW x \in S PROVE IsFiniteSet(Upto(x)) /\ Cardinality(Upto(x)) \in 1..n
  <2>1. IsFiniteSet(Upto(x)) /\ Cardinality(Upto(x)) <= n
    BY FS_Subset
  <2>2. Cardinality(Upto(x)) \in Nat
    BY <2>1, FS_CardinalityType
  <2>3. Cardinality(Upto(x)) # 0
    <3>1. Upto(x) # {}
      OBVIOUS
    <3>. QED
      BY <2>1, <3>1, FS_EmptySet
  <2>. QED
    BY <1>1, <2>1, <2>2, <2>3
<1>3. ASSUME NEW x \in S, NEW y \in S, x < y PROVE Cardinality(Upto(x)) < Cardinality(Upto(y))
  <2>1. Upto(x) \subseteq Upto(y) /\ Upto(x) # Upto(y)
    <3>1. y \in Upto(y) /\ y \notin Upto(x)
      BY <1>3
    <3>2. Upto(x) \subseteq Upto(y)
      <4>1. \A z \in Nat : z <= x => z <= y
        BY <1>3
      <4>. QED
        BY <4>1
    <3>. QED
      BY <3>1, <3>2
  <2>2. /\ Cardinality(Upto(x)) <= Cardinality(Upto(y))
        /\ Cardinality(Upto(x)) # Cardinality(Upto(y))
    BY <1>2, <2>1, FS_Subset
  <2>3. Cardinality(Upto(x)) \in Nat /\ Cardinality(Upto(y)) \in Nat
    BY <1>2
  <2>. QED
    BY <2>2, <2>3
<1>4. f \in [S -> 1..n] /\ \A x, y \in S : x < y => f[x] < f[y]
  BY <1>2, <1>3
<1>. HIDE DEF f
<1>5. f \in Injection(S, 1..n)
  <2>1. \A x, y \in S : x < y \/ y < x \/ x = y
    OBVIOUS
  <2>2. \A x \in S : f[x] \in Nat
    BY <1>1, <1>4
  <2>3. \A x, y \in S : f[x] = f[y] => x = y
    BY <1>4, <2>1, <2>2
  <2>. QED
    BY <1>4, <2>3 DEF Injection, IsInjective
<1>6. IsFiniteSet(1..n) /\ Cardinality(1..n) = n
  <2>1. Cardinality(1..n) = IF 1 > n THEN 0 ELSE n - 1 + 1
    BY <1>1, FS_Interval
  <2>2. IsFiniteSet(1..n)
    BY <1>1, FS_Interval
  <2>. QED
    BY <1>1, <2>1, <2>2
<1>7. f \in Surjection(S, 1..n)
  BY <1>5, <1>6, FS_Injection
<1>. QED
  BY <1>4, <1>7 DEF Surjection

LEMMA MaxOf ==
  ASSUME NEW S \in SUBSET Nat, IsFiniteSet(S), S # {}
  PROVE  Max(S) \in S /\ \A x \in S : x <= Max(S)
<1>1. PICK f \in [S -> 1..Cardinality(S)] :
         /\ \A x, y \in S : x < y => f[x] < f[y]
         /\ \A i \in 1..Cardinality(S) : \E x \in S : f[x] = i
  BY Ranks
<1>2. Cardinality(S) \in Nat \ {0}
  BY FS_CardinalityType, FS_EmptySet
<1>3. PICK x \in S : f[x] = Cardinality(S)
  BY <1>1, <1>2
<1>4. \A y \in S : ~(x < y)
  BY <1>1, <1>2, <1>3
<1>5. \E z \in S : \A y \in S : z >= y
  BY <1>4
<1>. QED
  BY <1>5 DEF Max

LEMMA MaxIs ==
  ASSUME NEW S \in SUBSET Nat, NEW m \in S, \A x \in S : x <= m
  PROVE  Max(S) = m
<1>1. \E x \in S : \A y \in S : x >= y
  OBVIOUS
<1>2. Max(S) \in S /\ Max(S) >= m
  BY <1>1 DEF Max
<1>3. Max(S) \in Nat /\ m \in Nat /\ Max(S) <= m
  BY <1>2
<1>. QED
  BY <1>2, <1>3

\* So the room's list can always be had from what the server answers with.
LEMMA InOrderExists ==
  ASSUME NEW S \in SUBSET Nat, IsFiniteSet(S)
  PROVE  InOrder(S) # {}
<1>. DEFINE n == Cardinality(S)
<1>1. PICK f \in [S -> 1..n] :
         /\ \A x, y \in S : x < y => f[x] < f[y]
         /\ \A i \in 1..n : \E x \in S : f[x] = i
  BY Ranks
<1>2. n \in Nat
  BY FS_CardinalityType
<1>. DEFINE q == [i \in 1..n |-> CHOOSE x \in S : f[x] = i]
<1>3. \A i \in 1..n : q[i] \in S /\ f[q[i]] = i
  BY <1>1
<1>4. q \in [1..n -> S] /\ DOMAIN q = 1..n
  BY <1>3
<1>. HIDE DEF q
<1>5. \A i, j \in 1..n : i < j => q[i] < q[j]
  <2>. SUFFICES ASSUME NEW i \in 1..n, NEW j \in 1..n, i < j, ~(q[i] < q[j]) PROVE FALSE
    OBVIOUS
  <2>1. q[i] \in S /\ q[j] \in S /\ f[q[i]] = i /\ f[q[j]] = j
    BY <1>3
  <2>2. q[i] \in Nat /\ q[j] \in Nat /\ i \in Nat /\ j \in Nat
    <3>1. q[i] \in Nat /\ q[j] \in Nat
      BY <2>1
    <3>2. i \in Nat /\ j \in Nat
      BY <1>2
    <3>. QED
      BY <3>1, <3>2
  <2>3. q[j] < q[i] \/ q[i] = q[j]
    BY <2>2
  <2>4. CASE q[j] < q[i]
    <3>1. j < i
      BY <1>1, <2>1, <2>4
    <3>. QED
      BY <2>2, <3>1
  <2>5. CASE q[i] = q[j]
    BY <2>1, <2>2, <2>5
  <2>. QED
    BY <2>3, <2>4, <2>5
<1>6. \A x \in S : \E i \in 1..n : q[i] = x
  <2>. SUFFICES ASSUME NEW x \in S PROVE q[f[x]] = x
    BY <1>1
  <2>1. f[x] \in 1..n /\ q[f[x]] \in S /\ f[q[f[x]]] = f[x]
    BY <1>1, <1>3
  <2>2. x \in Nat /\ q[f[x]] \in Nat /\ f[x] \in Nat
    <3>1. x \in Nat /\ q[f[x]] \in Nat
      BY <2>1
    <3>2. f[x] \in Nat
      BY <1>2, <2>1
    <3>. QED
      BY <3>1, <3>2
  <2>3. q[f[x]] < x \/ x < q[f[x]] \/ q[f[x]] = x
    BY <2>2
  <2>4. ~(f[x] < f[x])
    BY <2>2
  <2>. QED
    BY <1>1, <2>1, <2>3, <2>4
<1>7. ToSet(q) = S
  <2>1. ToSet(q) = {q[i] : i \in 1..n}
    BY <1>4 DEF ToSet
  <2>. QED
    <3>1. \A i \in 1..n : q[i] \in S
      BY <1>3
    <3>. QED
      BY <1>6, <2>1, <3>1
<1>8. n \in 0..n
  BY <1>2
<1>9. q \in SeqOf(S, n)
  BY <1>4, <1>8 DEF SeqOf
<1>. QED
  BY <1>4, <1>5, <1>7, <1>9 DEF InOrder
-----------------------------------------------------------------------------
(* Types, and the life of the hub *)

\* A send that the server has answered has the id of its message.
SendsKnown == \A x \in Sends : send[x] \in {"created", "waiting"} => sendId[x] \in Ids

TypeInv == TypeOK /\ SendsKnown

(***************************************************************************)
(* `running' and pollToken say where the room is: before, in or after its  *)
(* use.  A poll that is under way has the token of that use, so that it is *)
(* fresh until the room is left, and the view is not left while messages   *)
(* are being handed to it.                                                 *)
(***************************************************************************)
Session ==
  /\ running <=> mounted /\ userId
  /\ ~userId => mounted /\ pollToken = 0
  /\ userId /\ mounted => pollToken = 1
  /\ ~mounted => pollToken = 2

Polls ==
  /\ token <= 1
  /\ request \in {"after", "all"} => token = 1
  /\ ~userId => request = "none" /\ load["refresh"] = "none"
  /\ PollsWhileInUse

Hands ==
  /\ ~userId \/ request = "load" => queue = <<>> /\ handed = <<>>
  /\ queue # <<>> => mounted /\ userId /\ request = "timer"

HubInv == Session /\ Polls /\ Hands

LEMMA HubInit == Init => TypeInv /\ HubInv
<1>. SUFFICES ASSUME Init PROVE TypeInv /\ HubInv
  OBVIOUS
<1>1. load \in [Loads -> {"none", "asked", "answered", "done", "failed"}] /\ load["refresh"] = "none"
  BY DEF Init, Loads
<1>2. messages \in Seq(Ids) /\ queue \in Seq(Ids) /\ handed \in Seq(Ids)
  BY DEF Init
<1>3. pollToken \in 0..2 /\ token \in 0..pollToken
  BY DEF Init
<1>4. TypeOK
  BY <1>1, <1>2, <1>3, PollingAssumption DEF Init, TypeOK
<1>5. SendsKnown
  BY DEF Init, SendsKnown
<1>6. HubInv
  BY <1>1 DEF Init, HubInv, Session, Polls, Hands, PollsWhileInUse
<1>. QED
  BY <1>4, <1>5, <1>6 DEF TypeInv

LEMMA ServerKeepsTypes == ASSUME TypeInv, ServerStep PROVE TypeInv'
<1>. USE DEF TypeInv, TypeOK, SendsKnown, loadVars, sendVars, pollVars, hubVars, viewVars, serverVars
<1>1. ASSUME NEW m \in Ids, OtherSends(m) PROVE TypeInv'
  BY <1>1 DEF OtherSends, Insert
<1>2. ASSUME NEW m \in Ids, NEW x \in Sends, SendCreated(x, m) PROVE TypeInv'
  BY <1>2 DEF SendCreated, Insert
<1>3. ASSUME NEW l \in Loads, LoadAnswered(l) PROVE TypeInv'
  <2>1. load' \in [Loads -> {"none", "asked", "answered", "done", "failed"}]
    BY <1>3 DEF LoadAnswered
  <2>2. snapshot' \in [Loads -> SUBSET Ids] /\ readAt' \in [Loads -> Ids \union {0}]
    BY <1>3 DEF LoadAnswered
  <2>. QED
    BY <1>3, <2>1, <2>2 DEF LoadAnswered
<1>4. CASE HubAnswered
  BY <1>4 DEF HubAnswered
<1>5. CASE HubRefused
  BY <1>5 DEF HubRefused
<1>. QED
  BY <1>1, <1>2, <1>3, <1>4, <1>5 DEF ServerStep

\* The hub's own load sets lastMessageId to an id of the answer, or to 0.
LEMMA LoadedId ==
  ASSUME TypeInv, \A m \in rows : m <= issued
  PROVE  LET top == Max(rows \union {0})
         IN  top \in rows \union {0} /\ top <= issued
<1>. DEFINE top == Max(rows \union {0})
<1>1. rows \union {0} \in SUBSET Nat /\ issued \in Nat /\ \A m \in rows \union {0} : m <= issued
  BY PollingAssumption DEF TypeInv, TypeOK
<1>2. IsFiniteSet(rows \union {0})
  BY <1>1, FS_BoundedSetOfNaturals
<1>3. top \in rows \union {0}
  BY <1>1, <1>2, MaxOf
<1>. QED
  BY <1>1, <1>3

\* The new messages are handed on in the order of their ids.
LEMMA QueueOrdered ==
  ASSUME TypeInv, PollDone
  PROVE  /\ queue' \in Seq(Ids)
         /\ ToSet(queue') \subseteq NewMessages
         /\ \A i, j \in DOMAIN queue' : i < j => queue'[i] < queue'[j]
         /\ Fresh => ToSet(queue') = NewMessages
         /\ ~Fresh => queue' = <<>>
<1>1. ToSet(<<>>) = {}
  BY DEF ToSet
<1>2. CASE Fresh
  <2>1. NewMessages \subseteq Ids /\ NewMessages \subseteq Nat /\ queue' \in InOrder(NewMessages)
    BY <1>2, PollingAssumption DEF PollDone, NewMessages, TypeInv, TypeOK
  <2>2. queue' \in Seq(NewMessages) /\ ToSet(queue') = NewMessages
    BY <2>1, InOrderLists
  <2>3. \A i, j \in DOMAIN queue' : i < j => queue'[i] < queue'[j]
    BY <2>1 DEF InOrder
  <2>4. queue' \in Seq(Ids)
    BY <2>1, <2>2, ListOfMore
  <2>. QED
    BY <1>2, <2>2, <2>3, <2>4
<1>3. CASE ~Fresh
  <2>1. queue' = <<>>
    BY <1>3 DEF PollDone
  <2>. QED
    BY <1>1, <1>3, <2>1
<1>. QED
  BY <1>2, <1>3

LEMMA EventKeepsTypes ==
  ASSUME TypeInv, HubInv, \A m \in rows : m <= issued, HubEvent
  PROVE  TypeInv'
<1>. USE DEF TypeInv, TypeOK, SendsKnown, loadVars, sendVars, pollVars, hubVars, viewVars, serverVars,
             Ask, ScheduleNext
<1>1. CASE HubLoaded
  <2>1. lastMessageId' \in Ids \union {0}
    BY <1>1, LoadedId DEF HubLoaded
  <2>. QED
    BY <1>1, <2>1 DEF HubLoaded
<1>2. CASE TimerFires
  BY <1>2 DEF TimerFires
<1>3. CASE PollFallsBack
  BY <1>3 DEF PollFallsBack
<1>4. CASE PollFails
  BY <1>4 DEF PollFails
<1>5. CASE PollDone
  <2>1. queue' \in Seq(Ids)
    BY <1>5, QueueOrdered
  <2>. QED
    BY <1>5, <2>1 DEF PollDone
<1>. QED
  BY <1>1, <1>2, <1>3, <1>4, <1>5 DEF HubEvent

LEMMA HandKeepsTypes == ASSUME TypeInv, Hand PROVE TypeInv'
<1>1. Head(queue) \in Ids /\ Tail(queue) \in Seq(Ids)
  BY DEF Hand, TypeInv, TypeOK
<1>2. messages' \in Seq(Ids) /\ handed' \in Seq(Ids)
  BY <1>1 DEF Hand, TypeInv, TypeOK
<1>. QED
  BY <1>1, <1>2 DEF Hand, TypeInv, TypeOK, SendsKnown, serverVars, loadVars, pollVars

\* What a load leaves on the screen.
LEMMA Loaded ==
  ASSUME TypeInv, NEW l \in Loads, LoadDone(l)
  PROVE  messages' \in Seq(Ids) /\ Shown' = snapshot[l]
<1>1. snapshot[l] \subseteq Ids /\ snapshot[l] \subseteq Nat /\ messages' \in InOrder(snapshot[l])
  BY PollingAssumption DEF LoadDone, TypeInv, TypeOK
<1>2. messages' \in Seq(snapshot[l]) /\ ToSet(messages') = snapshot[l]
  BY <1>1, InOrderLists
<1>. QED
  BY <1>1, <1>2 DEF Shown

LEMMA ViewKeepsTypes == ASSUME TypeInv, HubInv, ViewEvent PROVE TypeInv'
<1>. USE DEF TypeInv, TypeOK, SendsKnown, loadVars, sendVars, pollVars, hubVars, viewVars, serverVars
<1>1. CASE EnterRoom
  <2>1. pollToken' \in 0..2 /\ token' \in 0..pollToken'
    BY <1>1 DEF EnterRoom, HubInv, Session, Polls
  <2>. QED
    BY <1>1, <2>1 DEF EnterRoom, Ask
<1>2. CASE LeaveRoom
  <2>1. pollToken' \in 0..2 /\ token' \in 0..pollToken'
    BY <1>2 DEF LeaveRoom, HubInv, Session, Polls
  <2>. QED
    BY <1>2, <2>1 DEF LeaveRoom
<1>3. ASSUME NEW l \in Loads, LoadDone(l) PROVE TypeInv'
  <2>1. messages' \in Seq(Ids) /\ overwritten' \in BOOLEAN
    <3>1. overwritten' \in BOOLEAN
      BY <1>3 DEF LoadDone
    <3>. QED
      BY <1>3, <3>1, Loaded
  <2>. QED
    BY <1>3, <2>1 DEF LoadDone
<1>4. ASSUME NEW m \in Ids, Delete(m) PROVE TypeInv'
  BY <1>4 DEF Delete
<1>5. ASSUME NEW x \in Sends, Send(x) \/ SendFails(x) PROVE TypeInv'
  BY <1>5 DEF Send, SendFails
<1>6. ASSUME NEW x \in Sends, SendReturns(x) PROVE TypeInv'
  BY <1>6 DEF SendReturns
<1>7. ASSUME NEW x \in Sends, ReceiveTimesOut(x) PROVE TypeInv'
  BY <1>7 DEF ReceiveTimesOut
<1>. QED
  BY <1>1, <1>2, <1>3, <1>4, <1>5, <1>6, <1>7 DEF ViewEvent

-----------------------------------------------------------------------------
\* An event that leaves the life of the hub alone.
HubLeft ==
  /\ UNCHANGED <<mounted, userId, running, pollToken, token, request, queue, handed>>
  /\ load["refresh"] = "none" => load'["refresh"] = "none" \/ userId

LEMMA HubLeftAlone == ASSUME HubInv, HubLeft PROVE HubInv'
  BY DEF HubInv, HubLeft, Session, Polls, Hands, PollsWhileInUse

LEMMA ServerKeepsHub == ASSUME TypeInv, HubInv, ServerStep PROVE HubInv'
<1>. USE DEF loadVars, sendVars, pollVars, hubVars, viewVars, serverVars
<1>1. ASSUME NEW m \in Ids, OtherSends(m) PROVE HubLeft
  BY <1>1 DEF OtherSends, HubLeft
<1>2. ASSUME NEW m \in Ids, NEW x \in Sends, SendCreated(x, m) PROVE HubLeft
  BY <1>2 DEF SendCreated, HubLeft
<1>3. ASSUME NEW l \in Loads, LoadAnswered(l) PROVE HubLeft
  BY <1>3 DEF LoadAnswered, HubLeft, TypeInv, TypeOK, Loads
<1>4. CASE HubAnswered \/ HubRefused
  BY <1>4, HubLeftAlone DEF HubAnswered, HubRefused, HubLeft
<1>. QED
  BY <1>1, <1>2, <1>3, <1>4, HubLeftAlone DEF ServerStep

LEMMA EventKeepsHub == ASSUME TypeInv, HubInv, queue = <<>>, HubEvent PROVE HubInv'
<1>. USE DEF loadVars, sendVars, pollVars, hubVars, viewVars, serverVars, Ask, ScheduleNext,
             HubInv, Session, Polls, Hands, PollsWhileInUse
<1>1. CASE HubLoaded
  BY <1>1 DEF HubLoaded
<1>2. CASE TimerFires
  BY <1>2 DEF TimerFires
<1>3. CASE PollFallsBack
  BY <1>3 DEF PollFallsBack
<1>4. CASE PollFails
  BY <1>4 DEF PollFails
<1>5. CASE PollDone
  <2>1. userId
    BY <1>5 DEF PollDone
  <2>2. queue' # <<>> => mounted /\ running
    <3>1. Fresh => pollToken # 2
      BY <1>5 DEF PollDone, Fresh
    <3>2. queue' # <<>> => Fresh
      BY <1>5, QueueOrdered
    <3>. QED
      BY <2>1, <3>1, <3>2
  <2>3. UNCHANGED <<mounted, userId, running, pollToken, token, load, handed>>
    BY <1>5 DEF PollDone
  <2>4. request' = IF running THEN "timer" ELSE "none"
    BY <1>5 DEF PollDone
  <2>. QED
    BY <2>1, <2>2, <2>3, <2>4
<1>. QED
  BY <1>1, <1>2, <1>3, <1>4, <1>5 DEF HubEvent

LEMMA HandKeepsHub == ASSUME TypeInv, HubInv, Hand PROVE HubInv'
<1>1. userId /\ mounted /\ request = "timer"
  BY DEF Hand, HubInv, Hands
<1>2. UNCHANGED <<mounted, userId, running, pollToken, token, request, load>>
  BY DEF Hand, pollVars, loadVars
<1>. QED
  BY <1>1, <1>2 DEF HubInv, Session, Polls, Hands, PollsWhileInUse

LEMMA ViewKeepsHub == ASSUME TypeInv, HubInv, queue = <<>>, ViewEvent PROVE HubInv'
<1>. USE DEF loadVars, sendVars, pollVars, hubVars, viewVars, serverVars
<1>1. CASE EnterRoom
  BY <1>1 DEF EnterRoom, Ask, HubInv, Session, Polls, Hands, PollsWhileInUse
<1>2. CASE LeaveRoom
  BY <1>2 DEF LeaveRoom, HubInv, Session, Polls, Hands, PollsWhileInUse
<1>3. ASSUME NEW l \in Loads, LoadDone(l) PROVE HubLeft
  BY <1>3 DEF LoadDone, HubLeft, TypeInv, TypeOK, Loads
<1>4. ASSUME NEW m \in Ids, Delete(m) PROVE HubLeft
  BY <1>4 DEF Delete, HubLeft
<1>5. ASSUME NEW x \in Sends, Send(x) \/ SendFails(x) \/ SendReturns(x) \/ ReceiveTimesOut(x) PROVE HubLeft
  BY <1>5 DEF Send, SendFails, SendReturns, ReceiveTimesOut, HubLeft
<1>. QED
  BY <1>1, <1>2, <1>3, <1>4, <1>5, HubLeftAlone DEF ViewEvent

LEMMA HubStep == TypeInv /\ HubInv /\ [Next]_vars => HubInv'
<1>. SUFFICES ASSUME TypeInv, HubInv, [Next]_vars PROVE HubInv'
  OBVIOUS
<1>1. CASE UNCHANGED vars
  BY <1>1, HubLeftAlone DEF vars, HubLeft, loadVars, pollVars, hubVars, viewVars
<1>. QED
  BY <1>1, ServerKeepsHub, EventKeepsHub, HandKeepsHub, ViewKeepsHub DEF Next

\* Nothing anywhere is newer than the newest id.
Issued ==
  /\ lastMessageId <= issued /\ shownAt <= issued
  /\ \A m \in db : m <= issued
  /\ \A m \in rows : m <= issued
  /\ \A m \in ToSet(queue) : m <= issued
  /\ \A l \in Loads : readAt[l] <= issued

\* Ids are only given out by the server; everything else is handed on from where it was.
LEMMA IssuedKept ==
  ASSUME TypeInv, TypeInv', Issued, issued <= issued', db' \subseteq db \union {issued'}, rows' \subseteq rows \union db,
         ToSet(queue') \subseteq ToSet(queue) \union rows,
         lastMessageId' \in {lastMessageId, 0} \union rows \union ToSet(queue),
         shownAt' = shownAt \/ \E l \in Loads : shownAt' = readAt[l],
         \A l \in Loads : readAt'[l] \in {readAt[l], issued, 0}
  PROVE  Issued'
<1>1. issued \in Nat /\ issued' \in Nat
  BY PollingAssumption DEF TypeInv, TypeOK
<1>. DEFINE Old(n) == n \in Nat /\ n <= issued
<1>2. \A n : Old(n) => n <= issued'
  BY <1>1
<1>3. Ids \union {0} \subseteq Nat /\ db \subseteq Ids /\ rows \subseteq Ids
  BY PollingAssumption DEF TypeInv, TypeOK
<1>4. ToSet(queue) \subseteq Ids
  <2>1. queue \in Seq(Ids)
    BY DEF TypeInv, TypeOK
  <2>. QED
    BY <2>1 DEF ToSet
<1>5. Old(0) /\ Old(issued) /\ Old(lastMessageId) /\ Old(shownAt)
  BY <1>1, <1>3 DEF TypeInv, TypeOK, Issued
<1>6. (\A n \in db : Old(n)) /\ (\A n \in rows : Old(n)) /\ (\A n \in ToSet(queue) : Old(n))
  BY <1>3, <1>4 DEF Issued
<1>7. \A l \in Loads : Old(readAt[l])
  BY <1>3 DEF TypeInv, TypeOK, Issued
<1>. HIDE DEF Old
<1>8. \A m \in db' : m <= issued'
  BY <1>1, <1>2, <1>6
<1>9. (\A m \in rows' : m <= issued') /\ (\A m \in ToSet(queue') : m <= issued')
  BY <1>2, <1>6
<1>10. lastMessageId' <= issued'
  BY <1>2, <1>5, <1>6
<1>11. shownAt' <= issued'
  BY <1>2, <1>5, <1>7
<1>12. \A l \in Loads : readAt'[l] <= issued'
  BY <1>2, <1>5, <1>7
<1>. QED
  BY <1>8, <1>9, <1>10, <1>11, <1>12 DEF Issued

LEMMA HeadAndTail ==
  ASSUME TypeInv, Hand
  PROVE  /\ Head(queue) \in ToSet(queue) /\ Head(queue) \in Ids
         /\ queue' = Tail(queue) /\ ToSet(queue) = ToSet(queue') \union {Head(queue)}
<1>. queue \in Seq(Ids) /\ queue # <<>> /\ queue' = Tail(queue)
  BY DEF Hand, TypeInv, TypeOK
<1>. QED
  BY InTail

LEMMA IssuedStep == TypeInv /\ TypeInv' /\ HubInv /\ Issued /\ [Next]_vars => Issued'
<1>. SUFFICES ASSUME TypeInv, TypeInv', HubInv, Issued, [Next]_vars PROVE Issued'
  OBVIOUS
<1>0. /\ issued \in Nat /\ readAt \in [Loads -> Ids \union {0}]
      /\ issued <= issued /\ db \subseteq db \union {issued}
  BY PollingAssumption DEF TypeInv, TypeOK
<1>. USE DEF loadVars, sendVars, pollVars, hubVars, viewVars, serverVars
<1>1. ASSUME NEW m \in Ids, Insert(m), UNCHANGED <<rows, queue, lastMessageId, shownAt, readAt>> PROVE Issued'
  <2>1. issued' = m /\ db' = db \union {m} /\ m > issued /\ m \in Nat
    BY <1>1, PollingAssumption DEF Insert
  <2>2. issued <= issued' /\ db' \subseteq db \union {issued'}
    BY <1>0, <2>1
  <2>. QED
    BY <1>0, <1>1, <2>2, IssuedKept
<1>2. ASSUME NEW m \in Ids, OtherSends(m) \/ \E x \in Sends : SendCreated(x, m) PROVE Issued'
  BY <1>1, <1>2 DEF OtherSends, SendCreated
<1>3. ASSUME NEW l \in Loads, LoadAnswered(l) PROVE Issued'
  <2>1. \A k \in Loads : readAt'[k] \in {readAt[k], issued, 0}
    BY <1>0, <1>3 DEF LoadAnswered
  <2>2. UNCHANGED <<issued, db, rows, queue, lastMessageId, shownAt>>
    BY <1>3 DEF LoadAnswered
  <2>. QED
    BY <1>0, <2>1, <2>2, IssuedKept
<1>4. CASE HubAnswered
  <2>1. rows' \subseteq db /\ UNCHANGED <<issued, db, queue, lastMessageId, shownAt, readAt>>
    BY <1>4 DEF HubAnswered
  <2>. QED
    BY <1>0, <2>1, IssuedKept
<1>5. CASE HubRefused
  <2>1. UNCHANGED <<issued, db, rows, queue, lastMessageId, shownAt, readAt>>
    BY <1>5 DEF HubRefused
  <2>. QED
    BY <1>0, <2>1, IssuedKept
<1>6. CASE HubLoaded
  <2>1. rows' = {} /\ UNCHANGED <<issued, db, queue, shownAt, readAt>>
    BY <1>6 DEF HubLoaded, Ask, ScheduleNext
  <2>2. lastMessageId' \in {lastMessageId, 0} \union rows \union ToSet(queue)
    BY <1>6, LoadedId DEF HubLoaded, Issued
  <2>. QED
    BY <1>0, <2>1, <2>2, IssuedKept
<1>7. CASE TimerFires \/ PollFallsBack \/ PollFails
  <2>1. rows' = {} /\ UNCHANGED <<issued, db, queue, lastMessageId, shownAt, readAt>>
    BY <1>7 DEF TimerFires, PollFallsBack, PollFails, Ask, ScheduleNext
  <2>. QED
    BY <1>0, <2>1, IssuedKept
<1>8. CASE PollDone
  <2>1. rows' = {} /\ UNCHANGED <<issued, db, lastMessageId, shownAt, readAt>>
    BY <1>8 DEF PollDone, Ask, ScheduleNext
  <2>2. ToSet(queue') \subseteq rows
    BY <1>8, QueueOrdered DEF NewMessages
  <2>. QED
    BY <1>0, <2>1, <2>2, IssuedKept
<1>9. CASE Hand
  <2>1. UNCHANGED <<issued, db, rows, shownAt, readAt>>
    BY <1>9 DEF Hand
  <2>2. ToSet(queue') \subseteq ToSet(queue) /\ lastMessageId' \in {lastMessageId} \union ToSet(queue)
    BY <1>9, HeadAndTail DEF Hand
  <2>. QED
    BY <1>0, <2>1, <2>2, IssuedKept
<1>10. CASE EnterRoom \/ LeaveRoom
  <2>1. rows' \subseteq rows /\ UNCHANGED <<issued, db, queue, lastMessageId, shownAt, readAt>>
    BY <1>10 DEF EnterRoom, LeaveRoom, Ask
  <2>. QED
    BY <1>0, <2>1, IssuedKept
<1>11. ASSUME NEW l \in Loads, LoadDone(l) PROVE Issued'
  <2>1. shownAt' = readAt[l] /\ \A k \in Loads : readAt'[k] \in {readAt[k], issued, 0}
    BY <1>0, <1>11 DEF LoadDone
  <2>2. UNCHANGED <<issued, db, rows, queue, lastMessageId>>
    BY <1>11 DEF LoadDone
  <2>. QED
    BY <1>0, <2>1, <2>2, IssuedKept
<1>12. ASSUME NEW m \in Ids, Delete(m) PROVE Issued'
  <2>1. db' \subseteq db /\ UNCHANGED <<issued, rows, queue, lastMessageId, shownAt, readAt>>
    BY <1>12 DEF Delete
  <2>. QED
    BY <1>0, <2>1, IssuedKept
<1>13. ASSUME NEW x \in Sends, Send(x) \/ SendFails(x) \/ SendReturns(x) \/ ReceiveTimesOut(x) PROVE Issued'
  BY <1>13 DEF Send, SendFails, SendReturns, ReceiveTimesOut, Issued
<1>14. CASE UNCHANGED vars
  BY <1>14 DEF vars, Issued
<1>. QED
  BY <1>2, <1>3, <1>4, <1>5, <1>6, <1>7, <1>8, <1>9, <1>10, <1>11, <1>12, <1>13, <1>14
  DEF Next, ServerStep, HubEvent, ViewEvent

LEMMA TypeStep == TypeInv /\ HubInv /\ Issued /\ [Next]_vars => TypeInv'
<1>. SUFFICES ASSUME TypeInv, HubInv, Issued, [Next]_vars PROVE TypeInv'
  OBVIOUS
<1>1. CASE UNCHANGED vars
  BY <1>1 DEF vars, TypeInv, TypeOK, SendsKnown, loadVars, sendVars, pollVars, hubVars, viewVars, serverVars
<1>2. \A m \in rows : m <= issued
  BY DEF Issued
<1>. QED
  BY <1>1, <1>2, ServerKeepsTypes, EventKeepsTypes, HandKeepsTypes, ViewKeepsTypes DEF Next

\* Types, the life of the hub and the bound on ids are kept together.
PollInv == TypeInv /\ HubInv /\ Issued

THEOREM PollInvariant == Spec => []PollInv
<1>1. Init => Issued
  BY DEF Init, Issued, ToSet
<1>2. Init => PollInv
  BY <1>1, HubInit DEF PollInv
<1>3. PollInv /\ [Next]_vars => PollInv'
  BY TypeStep, HubStep, IssuedStep DEF PollInv
<1>. QED
  BY <1>2, <1>3, PTL DEF Spec

(***************************************************************************)
(* Whatever requests fail or are refused, and whenever the room is left, a *)
(* room in use has a timer or a request, and one that was left no timer.   *)
(***************************************************************************)
THEOREM PollsWhileInUseHolds == Spec => []PollsWhileInUse
<1>1. PollInv => PollsWhileInUse
  BY DEF PollInv, HubInv, Polls
<1>. QED
  BY <1>1, PollInvariant, PTL

(***************************************************************************)
(* An answer that comes after the room was left is not handed to the view, *)
(* whether to the poll, to its fallback or to the hub's own load.          *)
(***************************************************************************)
THEOREM NothingAfterLeavingHolds == Spec => NothingAfterLeaving
<1>1. PollInv /\ [Next]_vars => [handed' # handed => mounted]_vars
  <2>. SUFFICES ASSUME PollInv, [Next]_vars, handed' # handed PROVE mounted
    OBVIOUS
  <2>1. CASE Hand
    BY <2>1 DEF Hand, PollInv, HubInv, Hands
  <2>2. CASE ~Hand
    BY <2>2 DEF Next, ServerStep, HubEvent, ViewEvent, OtherSends, SendCreated, LoadAnswered, HubAnswered,
                HubRefused, HubLoaded, TimerFires, PollFallsBack, PollFails, PollDone, EnterRoom, LeaveRoom,
                LoadDone, Delete, Send, SendFails, SendReturns, ReceiveTimesOut, hubVars, vars
  <2>. QED
    BY <2>1, <2>2
<1>. QED
  BY <1>1, PollInvariant, PTL DEF Spec, NothingAfterLeaving

-----------------------------------------------------------------------------
(* What is on the screen *)

(***************************************************************************)
(* Why nothing is missing.  An answer to a load has every message up to    *)
(* the id it was read at, so the list has every message up to shownAt; an  *)
(* answer to a poll has every new message up to any in it, and so have the *)
(* queue that is made of it and the list that grows by it.                 *)
(***************************************************************************)
AnswersWhole == \A l \in Loads : load[l] = "answered" => \A m \in db : m <= readAt[l] => m \in snapshot[l]

RowsWhole ==
  request \in {"after", "all"} /\ answer = "ok" =>
    \A m \in db, k \in rows : lastMessageId < m /\ m <= k => m \in rows

QueueWhole ==
  \A m \in db, k \in ToSet(queue) : lastMessageId < m /\ m <= k => m \in Shown \/ m \in ToSet(queue)

ShownWhole == mounted => \A m \in db : m <= shownAt => m \in Shown

ListInv == AnswersWhole /\ RowsWhole /\ QueueWhole /\ ShownWhole /\ NothingMissing

LEMMA ListInit == Init => ListInv
<1>. SUFFICES ASSUME Init PROVE ListInv
  OBVIOUS
<1>1. \A l \in Loads : load[l] # "answered"
  BY DEF Init
<1>. QED
  BY <1>1 DEF Init, ListInv, AnswersWhole, RowsWhole, QueueWhole, ShownWhole, NothingMissing

LEMMA ShownKept == ASSUME UNCHANGED messages PROVE Shown' = Shown
  BY DEF Shown

\* A step that adds no message, moves nothing on, and takes nothing off the screen.
LEMMA ListKept ==
  ASSUME ListInv, db' \subseteq db, Shown \subseteq Shown',
         UNCHANGED <<queue, lastMessageId, shownAt, start>>,
         mounted' => mounted, overwritten => overwritten', AnswersWhole', RowsWhole'
  PROVE  ListInv'
  BY DEF ListInv, QueueWhole, ShownWhole, NothingMissing

\* The loads have been left alone, but for those that start.
LEMMA AnswersKept ==
  ASSUME AnswersWhole, db' \subseteq db, UNCHANGED <<snapshot, readAt>>,
         \A l \in Loads : load'[l] = "answered" => load[l] = "answered"
  PROVE  AnswersWhole'
  BY DEF AnswersWhole

LEMMA InsertKeepsList ==
  ASSUME TypeInv, Issued, ListInv, NEW m \in Ids, Insert(m),
         UNCHANGED <<loadVars, pollVars, hubVars, viewVars>>
  PROVE  ListInv'
<1>. USE DEF loadVars, pollVars, hubVars, viewVars
<1>1. m > issued /\ issued' = m /\ db' = db \union {m} /\ Shown' = Shown
  BY ShownKept DEF Insert
<1>2. m \in Nat /\ issued \in Nat /\ lastMessageId \in Nat /\ shownAt \in Nat
  BY PollingAssumption DEF TypeInv, TypeOK
<1>3. /\ rows \subseteq Nat
      /\ \A l \in Loads : readAt[l] \in Nat
  <2>1. Ids \union {0} \subseteq Nat
    BY PollingAssumption
  <2>2. rows \subseteq Ids /\ readAt \in [Loads -> Ids \union {0}]
    BY DEF TypeInv, TypeOK
  <2>. QED
    BY <2>1, <2>2
<1>4. ToSet(queue) \subseteq Nat
  <2>1. queue \in Seq(Ids)
    BY DEF TypeInv, TypeOK
  <2>2. ToSet(queue) \subseteq Ids
    BY <2>1 DEF ToSet
  <2>. QED
    BY <2>2, PollingAssumption
<1>5. ~(m <= lastMessageId) /\ ~(m <= shownAt)
  BY <1>1, <1>2 DEF Issued
<1>6. \A l \in Loads : ~(m <= readAt[l])
  BY <1>1, <1>2, <1>3 DEF Issued
<1>7. \A k \in rows : ~(m <= k)
  BY <1>1, <1>2, <1>3 DEF Issued
<1>8. \A k \in ToSet(queue) : ~(m <= k)
  BY <1>1, <1>2, <1>4 DEF Issued
<1>9. AnswersWhole'
  BY <1>1, <1>6 DEF ListInv, AnswersWhole
<1>10. RowsWhole'
  BY <1>1, <1>7 DEF ListInv, RowsWhole
<1>11. QueueWhole'
  BY <1>1, <1>8 DEF ListInv, QueueWhole
<1>12. ShownWhole' /\ NothingMissing'
  BY <1>1, <1>5 DEF ListInv, ShownWhole, NothingMissing
<1>. QED
  BY <1>9, <1>10, <1>11, <1>12 DEF ListInv

LEMMA ServerKeepsList == ASSUME TypeInv, Issued, ListInv, ServerStep PROVE ListInv'
<1>. USE DEF loadVars, sendVars, pollVars, hubVars, viewVars, serverVars
<1>1. ASSUME NEW m \in Ids, OtherSends(m) \/ \E x \in Sends : SendCreated(x, m) PROVE ListInv'
  BY <1>1, InsertKeepsList DEF OtherSends, SendCreated
<1>2. ASSUME NEW l \in Loads, LoadAnswered(l) PROVE ListInv'
  <2>1. UNCHANGED <<serverVars, sendVars, pollVars, hubVars, viewVars>> /\ Shown' = Shown
    BY <1>2, ShownKept DEF LoadAnswered
  <2>2. \A k \in Loads : load'[k] = "answered" =>
          \/ snapshot'[k] = db
          \/ load[k] = "answered" /\ snapshot'[k] = snapshot[k] /\ readAt'[k] = readAt[k]
    <3>1. CASE /\ load' = [load EXCEPT ![l] = "answered"]
               /\ snapshot' = [snapshot EXCEPT ![l] = db]
               /\ readAt' = [readAt EXCEPT ![l] = issued]
      BY <3>1 DEF TypeInv, TypeOK
    <3>2. CASE load' = [load EXCEPT ![l] = "failed"] /\ UNCHANGED <<snapshot, readAt>>
      BY <3>2 DEF TypeInv, TypeOK
    <3>. QED
      BY <1>2, <3>1, <3>2 DEF LoadAnswered
  <2>3. AnswersWhole'
    BY <2>1, <2>2 DEF ListInv, AnswersWhole
  <2>4. RowsWhole'
    BY <2>1 DEF ListInv, RowsWhole
  <2>. QED
    BY <2>1, <2>3, <2>4, ListKept
<1>3. CASE HubAnswered \/ HubRefused
  <2>1. UNCHANGED <<serverVars, loadVars, sendVars, request, hubVars, viewVars>> /\ Shown' = Shown
    BY <1>3, ShownKept DEF HubAnswered, HubRefused
  <2>2. AnswersWhole'
    BY <2>1 DEF ListInv, AnswersWhole
  <2>3. RowsWhole'
    <3>1. CASE HubAnswered
      BY <2>1, <3>1, PollingAssumption DEF HubAnswered, RowsWhole, TypeInv, TypeOK
    <3>2. CASE HubRefused
      BY <3>2 DEF HubRefused, RowsWhole
    <3>. QED
      BY <1>3, <3>1, <3>2
  <2>. QED
    BY <2>1, <2>2, <2>3, ListKept
<1>. QED
  BY <1>1, <1>2, <1>3 DEF ServerStep

LEMMA EventKeepsList == ASSUME TypeInv, HubInv, Issued, ListInv, queue = <<>>, HubEvent PROVE ListInv'
<1>. USE DEF loadVars, sendVars, pollVars, hubVars, viewVars, serverVars, Ask, ScheduleNext
<1>0. UNCHANGED <<serverVars, loadVars, viewVars>> /\ Shown' = Shown
  BY ShownKept DEF HubEvent, HubLoaded, TimerFires, PollFallsBack, PollFails, PollDone
<1>1. AnswersWhole' /\ ShownWhole'
  BY <1>0 DEF ListInv, AnswersWhole, ShownWhole
<1>2. RowsWhole'
  BY DEF HubEvent, HubLoaded, TimerFires, PollFallsBack, PollFails, PollDone, RowsWhole
<1>3. CASE HubLoaded
  <2>1. queue' = <<>> /\ start' = lastMessageId'
    BY <1>3 DEF HubLoaded
  <2>2. QueueWhole'
    BY <2>1 DEF QueueWhole, ToSet
  <2>3. shownAt \in Nat /\ db \subseteq Nat
    BY PollingAssumption DEF TypeInv, TypeOK
  <2>4. \A m \in db : m <= shownAt \/ shownAt < m
    BY <2>3
  <2>5. NothingMissing'
    BY <1>0, <2>1, <2>4 DEF ListInv, ShownWhole, NothingMissing
  <2>. QED
    BY <1>1, <1>2, <2>2, <2>5 DEF ListInv
<1>4. CASE TimerFires \/ PollFallsBack \/ PollFails
  <2>1. UNCHANGED <<queue, lastMessageId, start>>
    BY <1>4 DEF TimerFires, PollFallsBack, PollFails
  <2>. QED
    BY <1>0, <1>1, <1>2, <2>1, ListKept
<1>5. CASE PollDone
  <2>1. UNCHANGED <<lastMessageId, start>> /\ RowsWhole /\ request \in {"after", "all"} /\ answer = "ok"
    BY <1>5 DEF PollDone, ListInv
  <2>2. QueueWhole'
    <3>1. CASE Fresh
      <4>1. ToSet(queue') = NewMessages
        BY <1>5, <3>1, QueueOrdered
      <4>. QED
        BY <1>0, <2>1, <4>1 DEF QueueWhole, RowsWhole, NewMessages
    <3>2. CASE ~Fresh
      <4>1. queue' = <<>>
        BY <1>5, <3>2, QueueOrdered
      <4>. QED
        BY <4>1 DEF QueueWhole, ToSet
    <3>. QED
      BY <3>1, <3>2
  <2>3. NothingMissing'
    BY <1>0, <2>1 DEF ListInv, NothingMissing
  <2>. QED
    BY <1>1, <1>2, <2>2, <2>3 DEF ListInv
<1>. QED
  BY <1>3, <1>4, <1>5 DEF HubEvent

LEMMA HandKeepsList == ASSUME TypeInv, HubInv, ListInv, Hand PROVE ListInv'
<1>. DEFINE n == Head(queue)
<1>1. /\ n \in Ids /\ n \in ToSet(queue) /\ queue' = Tail(queue)
      /\ ToSet(queue) = ToSet(queue') \union {n}
  BY HeadAndTail
<1>2. /\ UNCHANGED <<db, load, snapshot, readAt, mounted, shownAt, start, overwritten, request, answer, rows>>
      /\ lastMessageId' = IF Tail(queue) = <<>> THEN n ELSE lastMessageId
  BY DEF Hand, serverVars, loadVars, pollVars
<1>3. Shown' = Shown \union {n}
  <2>. messages \in Seq(Ids)
    BY DEF TypeInv, TypeOK
  <2>1. CASE n \in Shown
    BY <2>1 DEF Hand, Shown
  <2>2. CASE n \notin Shown
    BY <1>1, <2>2, InAppend DEF Hand, Shown
  <2>. QED
    BY <2>1, <2>2
<1>4. request = "timer"
  BY DEF Hand, HubInv, Hands
<1>5. AnswersWhole' /\ RowsWhole' /\ ShownWhole'
  BY <1>2, <1>3, <1>4 DEF ListInv, AnswersWhole, RowsWhole, ShownWhole
<1>6. CASE Tail(queue) = <<>>
  <2>1. lastMessageId' = n /\ ToSet(queue') = {}
    BY <1>1, <1>2, <1>6 DEF ToSet
  <2>2. QueueWhole'
    BY <2>1 DEF QueueWhole
  <2>3. lastMessageId \in Nat /\ db \subseteq Nat
    BY PollingAssumption DEF TypeInv, TypeOK
  <2>4. \A m \in db : m <= lastMessageId \/ lastMessageId < m
    BY <2>3
  <2>5. ASSUME NEW m \in db, m <= n, lastMessageId < m PROVE m \in Shown'
    BY <1>1, <1>3, <2>1, <2>5 DEF ListInv, QueueWhole
  <2>6. NothingMissing'
    BY <1>2, <1>3, <2>1, <2>4, <2>5 DEF ListInv, NothingMissing
  <2>. QED
    BY <1>5, <2>2, <2>6 DEF ListInv
<1>7. CASE Tail(queue) # <<>>
  <2>1. lastMessageId' = lastMessageId
    BY <1>2, <1>7
  <2>. QED
    BY <1>1, <1>2, <1>3, <1>5, <2>1 DEF ListInv, QueueWhole, NothingMissing
<1>. QED
  BY <1>6, <1>7

LEMMA ViewKeepsList == ASSUME TypeInv, HubInv, ListInv, queue = <<>>, ViewEvent PROVE ListInv'
<1>. USE DEF loadVars, sendVars, pollVars, hubVars, viewVars, serverVars
<1>0. load \in [Loads -> {"none", "asked", "answered", "done", "failed"}]
  BY DEF TypeInv, TypeOK
<1>1. CASE EnterRoom
  <2>1. /\ UNCHANGED <<db, snapshot, readAt, queue, lastMessageId, shownAt, start, mounted, overwritten>>
        /\ Shown' = Shown
    BY <1>1, ShownKept DEF EnterRoom
  <2>2. \A l \in Loads : load'[l] = "answered" => load[l] = "answered"
    BY <1>0, <1>1 DEF EnterRoom
  <2>3. RowsWhole'
    BY <1>1 DEF EnterRoom, Ask, RowsWhole
  <2>. QED
    BY <2>1, <2>2, <2>3, AnswersKept, ListKept DEF ListInv
<1>2. CASE LeaveRoom
  <2>1. /\ UNCHANGED <<db, loadVars, queue, lastMessageId, shownAt, start, overwritten, answer, rows>>
        /\ Shown' = Shown
    BY <1>2, ShownKept DEF LeaveRoom
  <2>2. RowsWhole'
    BY <1>2, <2>1 DEF LeaveRoom, RowsWhole, ListInv
  <2>. QED
    BY <1>2, <2>1, <2>2, AnswersKept, ListKept DEF ListInv, LeaveRoom
<1>3. ASSUME NEW l \in Loads, LoadDone(l) PROVE ListInv'
  <2>1. /\ UNCHANGED <<db, request, answer, rows, queue, lastMessageId, start, mounted>>
        /\ shownAt' = readAt[l] /\ load[l] = "answered"
        /\ overwritten' = (overwritten \/ \E m \in Shown \intersect db : m \notin snapshot[l])
    BY <1>3 DEF LoadDone
  <2>2. Shown' = snapshot[l]
    BY <1>3, Loaded
  <2>3. \A k \in Loads : load'[k] = "answered" =>
          load[k] = "answered" /\ snapshot'[k] = snapshot[k] /\ readAt'[k] = readAt[k]
    BY <1>0, <1>3 DEF LoadDone, TypeInv, TypeOK
  <2>4. AnswersWhole' /\ RowsWhole' /\ QueueWhole'
    <3>1. AnswersWhole'
      BY <2>1, <2>3 DEF ListInv, AnswersWhole
    <3>2. RowsWhole'
      BY <2>1 DEF ListInv, RowsWhole
    <3>3. ToSet(queue') = {}
      BY <2>1 DEF ToSet
    <3>. QED
      BY <3>1, <3>2, <3>3 DEF QueueWhole
  <2>5. \A m \in db : m <= readAt[l] => m \in snapshot[l]
    BY <2>1 DEF ListInv, AnswersWhole
  <2>6. ShownWhole'
    BY <2>1, <2>2, <2>5 DEF ShownWhole
  <2>7. \A m \in db : m <= readAt[l] \/ readAt[l] < m
    <3>1. Ids \union {0} \subseteq Nat
      BY PollingAssumption
    <3>2. db \subseteq Ids /\ readAt \in [Loads -> Ids \union {0}]
      BY DEF TypeInv, TypeOK
    <3>3. readAt[l] \in Nat /\ db \subseteq Nat
      BY <3>1, <3>2
    <3>. QED
      BY <3>3
  <2>8. NothingMissing'
    <3>. SUFFICES ASSUME mounted, ~overwritten', NEW m \in db, m <= lastMessageId, readAt[l] < m
                  PROVE  m \in snapshot[l] \/ m <= start
      BY <2>1, <2>2, <2>5, <2>7 DEF NothingMissing
    <3>1. ~overwritten /\ (m \in Shown => m \in snapshot[l])
      BY <2>1
    <3>. QED
      BY <3>1 DEF ListInv, NothingMissing
  <2>. QED
    BY <2>4, <2>6, <2>8 DEF ListInv
<1>4. ASSUME NEW m \in Ids, Delete(m) PROVE ListInv'
  <2>1. /\ db' \subseteq db /\ UNCHANGED <<snapshot, readAt, pollVars, hubVars, viewVars>> /\ Shown' = Shown
    BY <1>4, ShownKept DEF Delete
  <2>2. \A l \in Loads : load'[l] = "answered" => load[l] = "answered"
    BY <1>0, <1>4 DEF Delete
  <2>3. RowsWhole'
    BY <2>1 DEF ListInv, RowsWhole
  <2>. QED
    BY <2>1, <2>2, <2>3, AnswersKept, ListKept DEF ListInv
<1>5. ASSUME NEW x \in Sends, Send(x) \/ SendFails(x) \/ SendReturns(x) \/ ReceiveTimesOut(x) PROVE ListInv'
  <2>1. UNCHANGED <<serverVars, loadVars, pollVars, hubVars, viewVars>> /\ Shown' = Shown
    BY <1>5, ShownKept DEF Send, SendFails, SendReturns, ReceiveTimesOut
  <2>2. RowsWhole'
    BY <2>1 DEF ListInv, RowsWhole
  <2>. QED
    BY <2>1, <2>2, AnswersKept, ListKept DEF ListInv
<1>. QED
  BY <1>1, <1>2, <1>3, <1>4, <1>5 DEF ViewEvent

LEMMA ListStep == PollInv /\ ListInv /\ [Next]_vars => ListInv'
<1>. SUFFICES ASSUME PollInv, ListInv, [Next]_vars PROVE ListInv'
  OBVIOUS
<1>1. TypeInv /\ HubInv /\ Issued
  BY DEF PollInv
<1>2. CASE UNCHANGED vars
  BY <1>2, ShownKept DEF vars, loadVars, pollVars, hubVars, viewVars, serverVars, ListInv, AnswersWhole,
                         RowsWhole, QueueWhole, ShownWhole, NothingMissing
<1>. QED
  BY <1>1, <1>2, ServerKeepsList, EventKeepsList, HandKeepsList, ViewKeepsList DEF Next

THEOREM ListInvariant == Spec => []ListInv
  BY PollInvariant, ListInit, ListStep, PTL DEF Spec

(***************************************************************************)
(* Up to where the hub has got, a room in use shows every message but      *)
(* those between the view's load and the hub's own, which neither brings,  *)
(* whatever polls fail or fall back and however loads overlap with them.   *)
(***************************************************************************)
THEOREM NothingMissingHolds == Spec => []NothingMissing
<1>1. ListInv => NothingMissing
  BY DEF ListInv
<1>. QED
  BY <1>1, ListInvariant, PTL

-----------------------------------------------------------------------------
(* The hub as a feed *)

(***************************************************************************)
(* What is still to be handed on is ahead of what was, in order; and       *)
(* lastMessageId has caught up whenever a poll's messages are all handed   *)
(* on, so that the next poll's are ahead of them too.                      *)
(***************************************************************************)
Ahead ==
  /\ \A k \in ToSet(queue) : lastMessageId < k /\ \A h \in ToSet(handed) : h < k
  /\ \A i, j \in DOMAIN queue : i < j => queue[i] < queue[j]
  /\ \A h \in ToSet(handed) : h <= issued
  /\ queue = <<>> => \A h \in ToSet(handed) : h <= lastMessageId

LEMMA InLists == ASSUME TypeInv PROVE ToSet(queue) \subseteq Nat /\ ToSet(handed) \subseteq Nat
<1>1. queue \in Seq(Ids) /\ handed \in Seq(Ids)
  BY DEF TypeInv, TypeOK
<1>2. ToSet(queue) \subseteq Ids /\ ToSet(handed) \subseteq Ids
  BY <1>1 DEF ToSet
<1>. QED
  BY <1>2, PollingAssumption

(***************************************************************************)
(* Who moves the hub: its own load, an answer to a poll, and the handing   *)
(* on of a message.                                                        *)
(***************************************************************************)
LEMMA HubMoves ==
  ASSUME [Next]_vars
  PROVE  \/ UNCHANGED <<queue, lastMessageId, handed>>
         \/ queue = <<>> /\ HubLoaded
         \/ queue = <<>> /\ PollDone
         \/ Hand
<1>1. CASE ServerStep
  BY <1>1 DEF ServerStep, OtherSends, SendCreated, LoadAnswered, HubAnswered, HubRefused, hubVars
<1>2. CASE queue = <<>> /\ HubEvent
  BY <1>2 DEF HubEvent, TimerFires, PollFallsBack, PollFails, hubVars
<1>3. CASE ViewEvent
  BY <1>3 DEF ViewEvent, EnterRoom, LeaveRoom, LoadDone, Delete, Send, SendFails, SendReturns, ReceiveTimesOut,
              hubVars
<1>4. CASE UNCHANGED vars
  BY <1>4 DEF vars, hubVars
<1>. QED
  BY <1>1, <1>2, <1>3, <1>4 DEF Next

LEMMA IssuedGrows == ASSUME TypeInv, [Next]_vars PROVE issued <= issued'
<1>1. issued \in Nat
  BY PollingAssumption DEF TypeInv, TypeOK
<1>2. ASSUME NEW m \in Ids, Insert(m) PROVE issued <= issued'
  BY <1>1, <1>2, PollingAssumption DEF Insert
<1>3. CASE UNCHANGED issued
  BY <1>1, <1>3
<1>4. UNCHANGED issued \/ \E m \in Ids : Insert(m)
  <2>1. CASE ServerStep
    BY <2>1 DEF ServerStep, OtherSends, SendCreated, LoadAnswered, HubAnswered, HubRefused, serverVars
  <2>2. CASE HubEvent \/ Hand
    BY <2>2 DEF HubEvent, HubLoaded, TimerFires, PollFallsBack, PollFails, PollDone, Hand, serverVars
  <2>3. CASE ViewEvent
    BY <2>3 DEF ViewEvent, EnterRoom, LeaveRoom, LoadDone, Delete, Send, SendFails, SendReturns,
                ReceiveTimesOut, serverVars
  <2>4. CASE UNCHANGED vars
    BY <2>4 DEF vars, serverVars
  <2>. QED
    BY <2>1, <2>2, <2>3, <2>4 DEF Next
<1>. QED
  BY <1>2, <1>3, <1>4

\* What comes after the head of a list in order is past the head.
LEMMA HeadFirst ==
  ASSUME NEW q \in Seq(Ids), q # <<>>, \A i, j \in DOMAIN q : i < j => q[i] < q[j]
  PROVE  /\ \A k \in ToSet(Tail(q)) : Head(q) < k
         /\ \A i, j \in DOMAIN Tail(q) : i < j => Tail(q)[i] < Tail(q)[j]
<1>1. /\ DOMAIN q = 1..Len(q) /\ Len(q) \in Nat \ {0}
      /\ DOMAIN Tail(q) = 1..(Len(q) - 1)
      /\ Head(q) = q[1]
      /\ \A i \in 1..(Len(q) - 1) : Tail(q)[i] = q[i + 1]
  OBVIOUS
<1>2. \A i \in 1..(Len(q) - 1) : i + 1 \in 1..Len(q) /\ 1 < i + 1 /\ 1 \in 1..Len(q)
  BY <1>1
<1>3. \A i, j \in 1..(Len(q) - 1) : i < j => i + 1 < j + 1
  BY <1>1
<1>4. \A i \in 1..(Len(q) - 1) : Head(q) < Tail(q)[i]
  BY <1>1, <1>2
<1>5. \A i, j \in DOMAIN Tail(q) : i < j => Tail(q)[i] < Tail(q)[j]
  BY <1>1, <1>2, <1>3
<1>. QED
  BY <1>1, <1>4, <1>5 DEF ToSet

LEMMA HandKeepsAhead == ASSUME TypeInv, Issued, Ahead, Hand PROVE Ahead'
<1>. DEFINE n == Head(queue)
<1>1. /\ queue \in Seq(Ids) /\ queue # <<>> /\ handed \in Seq(Ids)
      /\ handed' = Append(handed, n) /\ issued' = issued
      /\ lastMessageId' = IF Tail(queue) = <<>> THEN n ELSE lastMessageId
  BY DEF Hand, TypeInv, TypeOK, serverVars
<1>2. /\ n \in Ids /\ n \in ToSet(queue) /\ queue' = Tail(queue)
      /\ ToSet(queue) = ToSet(queue') \union {n}
  BY HeadAndTail
<1>3. /\ \A k \in ToSet(queue') : n < k
      /\ \A i, j \in DOMAIN queue' : i < j => queue'[i] < queue'[j]
  BY <1>1, <1>2, HeadFirst DEF Ahead
<1>4. ToSet(handed') = ToSet(handed) \union {n}
  BY <1>1, <1>2, InAppend
<1>5. \A h \in ToSet(handed) : h < n
  BY <1>2 DEF Ahead
<1>6. n \in Nat /\ ToSet(handed) \subseteq Nat /\ n <= issued
  BY <1>2, InLists DEF Issued
<1>7. \A h \in ToSet(handed') : h <= n
  BY <1>4, <1>5, <1>6
<1>8. \A h \in ToSet(handed') : h <= issued'
  BY <1>1, <1>4, <1>6 DEF Ahead
<1>9. \A k \in ToSet(queue') : lastMessageId' < k /\ \A h \in ToSet(handed') : h < k
  <2>1. \A k \in ToSet(queue') : \A h \in ToSet(handed') : h < k
    BY <1>2, <1>3, <1>4 DEF Ahead
  <2>2. \A k \in ToSet(queue') : lastMessageId' < k
    BY <1>1, <1>2, <1>3 DEF Ahead
  <2>. QED
    BY <2>1, <2>2
<1>10. queue' = <<>> => lastMessageId' = n
  BY <1>1, <1>2
<1>. QED
  BY <1>3, <1>7, <1>8, <1>9, <1>10 DEF Ahead

LEMMA AheadStep == PollInv /\ Ahead /\ [Next]_vars => Ahead'
<1>. SUFFICES ASSUME PollInv, Ahead, [Next]_vars PROVE Ahead'
  OBVIOUS
<1>1. TypeInv /\ HubInv /\ Issued
  BY DEF PollInv
<1>2. TypeInv' /\ HubInv' /\ Issued'
  BY TypeStep, HubStep, IssuedStep DEF PollInv
<1>3. /\ issued \in Nat /\ issued' \in Nat /\ ToSet(handed) \subseteq Nat /\ issued <= issued'
  BY <1>1, <1>2, InLists, IssuedGrows, PollingAssumption DEF TypeInv, TypeOK
<1>4. \A h \in ToSet(handed) : h <= issued'
  BY <1>3 DEF Ahead
<1>5. CASE UNCHANGED <<queue, lastMessageId, handed>>
  BY <1>4, <1>5 DEF Ahead
<1>6. CASE queue = <<>> /\ HubLoaded
  <2>1. handed' = <<>> /\ queue' = <<>>
    BY <1>1, <1>6 DEF HubLoaded, HubInv, Hands
  <2>2. ToSet(handed') = {} /\ ToSet(queue') = {} /\ DOMAIN queue' = {}
    BY <2>1 DEF ToSet
  <2>. QED
    BY <2>2 DEF Ahead
<1>7. CASE queue = <<>> /\ PollDone
  <2>1. UNCHANGED <<lastMessageId, handed>>
    BY <1>7 DEF PollDone
  <2>2. /\ ToSet(queue') \subseteq NewMessages
        /\ \A i, j \in DOMAIN queue' : i < j => queue'[i] < queue'[j]
    BY <1>1, <1>7, QueueOrdered
  <2>3. \A h \in ToSet(handed) : h <= lastMessageId
    BY <1>7 DEF Ahead
  <2>4. lastMessageId \in Nat /\ NewMessages \subseteq Nat /\ \A k \in NewMessages : lastMessageId < k
    <3>1. lastMessageId \in Ids \union {0} /\ rows \subseteq Ids
      BY <1>1 DEF TypeInv, TypeOK
    <3>2. Ids \subseteq Nat /\ Ids \union {0} \subseteq Nat
      BY PollingAssumption
    <3>3. lastMessageId \in Nat /\ rows \subseteq Nat
      BY <3>1, <3>2
    <3>. QED
      BY <3>3 DEF NewMessages
  <2>5. \A k \in NewMessages : \A h \in ToSet(handed) : h < k
    BY <1>3, <2>3, <2>4
  <2>. QED
    BY <1>4, <2>1, <2>2, <2>3, <2>4, <2>5 DEF Ahead
<1>8. CASE Hand
  BY <1>1, <1>8, HandKeepsAhead
<1>. QED
  BY <1>5, <1>6, <1>7, <1>8, HubMoves

THEOREM AheadInvariant == Spec => []Ahead
<1>1. Init => Ahead
  BY DEF Init, Ahead, ToSet
<1>. QED
  BY <1>1, PollInvariant, AheadStep, PTL DEF Spec

LEMMA PositionOf ==
  ASSUME TypeInv, Ahead, Issued
  PROVE  Position \in {lastMessageId} \union ToSet(handed)
<1>. DEFINE S == {lastMessageId} \union ToSet(handed)
<1>1. S \in SUBSET Nat /\ S # {} /\ issued \in Nat
  BY InLists, PollingAssumption DEF TypeInv, TypeOK
<1>2. \A x \in S : x <= issued
  BY DEF Ahead, Issued
<1>3. IsFiniteSet(S)
  BY <1>1, <1>2, FS_BoundedSetOfNaturals
<1>. QED
  BY <1>1, <1>3, MaxOf DEF Position

\* What one event does to what the feed is made of.
LEMMA FeedRefined ==
  ASSUME PollInv, PollInv', Ahead, [Next]_vars
  PROVE  [HubFeed!FeedNext]_(HubFeed!feedVars)
<1>. USE DEF HubFeed!FeedNext, HubFeed!feedVars, HubFeed!Issue, HubFeed!Start, HubFeed!Deliver
<1>0. TypeInv /\ HubInv /\ Issued /\ TypeInv' /\ Issued'
  BY DEF PollInv
<1>1. CASE UNCHANGED <<issued, lastMessageId, handed>>
  BY <1>1 DEF Position
<1>2. ASSUME NEW m \in Ids, Insert(m), UNCHANGED <<lastMessageId, handed>>
      PROVE  \E n \in Ids : HubFeed!Issue(n)
  BY <1>2 DEF Insert, Position
<1>3. CASE Hand
  <2>. DEFINE n == Head(queue)
  <2>1. /\ n \in Ids /\ n \in ToSet(queue) /\ queue \in Seq(Ids) /\ handed \in Seq(Ids)
        /\ handed' = Append(handed, n) /\ issued' = issued
        /\ lastMessageId' = IF Tail(queue) = <<>> THEN n ELSE lastMessageId
    BY <1>0, <1>3, HeadAndTail DEF Hand, TypeInv, TypeOK, serverVars
  <2>2. /\ lastMessageId < n /\ \A h \in ToSet(handed) : h < n
        /\ n <= issued
    BY <1>0, <2>1 DEF Ahead, Issued
  <2>3. Position < n
    BY <1>0, <2>2, PositionOf
  <2>4. ToSet(handed') = ToSet(handed) \union {n}
    BY <2>1, InAppend
  <2>5. n \in Nat /\ lastMessageId \in Nat /\ ToSet(handed) \subseteq Nat
    <3>1. lastMessageId \in Ids \union {0}
      BY <1>0 DEF TypeInv, TypeOK
    <3>2. ToSet(handed) \subseteq Nat
      BY <1>0, InLists
    <3>3. Ids \subseteq Nat /\ Ids \union {0} \subseteq Nat
      BY PollingAssumption
    <3>. QED
      BY <2>1, <3>1, <3>2, <3>3
  <2>6. /\ {lastMessageId'} \union ToSet(handed') \in SUBSET Nat
        /\ n \in {lastMessageId'} \union ToSet(handed')
        /\ \A x \in {lastMessageId'} \union ToSet(handed') : x <= n
    BY <2>1, <2>2, <2>4, <2>5
  <2>7. Position' = n
    BY <2>6, MaxIs DEF Position
  <2>8. \E h \in {"hub"}, m \in Ids : HubFeed!Deliver(h, m)
    BY <2>1, <2>2, <2>3, <2>7
  <2>. QED
    BY <2>8
<1>4. CASE HubLoaded
  <2>1. handed = <<>> /\ UNCHANGED <<issued, handed>>
    BY <1>0, <1>4 DEF HubLoaded, HubInv, Hands, serverVars
  <2>2. lastMessageId' \in Ids \union {0} /\ lastMessageId' <= issued /\ lastMessageId' \in Nat
    BY <1>0, <2>1, PollingAssumption DEF TypeInv, TypeOK, Issued
  <2>3. Position' = lastMessageId'
    <3>1. {lastMessageId'} \union ToSet(handed') = {lastMessageId'}
      BY <2>1 DEF ToSet
    <3>2. /\ {lastMessageId'} \in SUBSET Nat /\ lastMessageId' \in {lastMessageId'}
          /\ \A x \in {lastMessageId'} : x <= lastMessageId'
      BY <2>2
    <3>. QED
      BY <3>1, <3>2, MaxIs DEF Position
  <2>4. \E h \in {"hub"}, since \in Ids \union {0} : HubFeed!Start(h, since)
    BY <2>1, <2>2, <2>3
  <2>. QED
    BY <2>4
<1>5. CASE ServerStep
  <2>1. ASSUME NEW m \in Ids, OtherSends(m) \/ \E x \in Sends : SendCreated(x, m)
        PROVE  \E n \in Ids : HubFeed!Issue(n)
    BY <1>2, <2>1 DEF OtherSends, SendCreated, hubVars
  <2>2. CASE HubAnswered \/ HubRefused \/ \E l \in Loads : LoadAnswered(l)
    BY <1>1, <2>2 DEF LoadAnswered, HubAnswered, HubRefused, hubVars, serverVars
  <2>. QED
    BY <1>5, <2>1, <2>2 DEF ServerStep
<1>6. CASE HubEvent /\ ~HubLoaded
  BY <1>1, <1>6 DEF HubEvent, TimerFires, PollFallsBack, PollFails, PollDone, hubVars, serverVars
<1>7. CASE ViewEvent
  BY <1>1, <1>7 DEF ViewEvent, EnterRoom, LeaveRoom, LoadDone, Delete, Send, SendFails, SendReturns,
                    ReceiveTimesOut, hubVars, serverVars
<1>8. CASE UNCHANGED vars
  BY <1>1, <1>8 DEF vars, hubVars, serverVars
<1>. QED
  BY <1>3, <1>4, <1>5, <1>6, <1>7, <1>8 DEF Next

(***************************************************************************)
(* The hub implements the ordered feed: across its own load, polls that    *)
(* fail and fallbacks that bring all messages again, what it hands on is   *)
(* past where it started, issued and strictly increasing.                  *)
(***************************************************************************)
THEOREM ImplementsFeedHolds == Spec => ImplementsFeed
<1>1. Init => HubFeed!FeedInit
  <2>. SUFFICES ASSUME Init PROVE HubFeed!FeedInit
    OBVIOUS
  <2>1. {lastMessageId} \union ToSet(handed) = {0}
    BY DEF Init, ToSet
  <2>2. {0} \in SUBSET Nat /\ 0 \in {0} /\ \A x \in {0} : x <= 0
    OBVIOUS
  <2>3. Position = 0
    BY <2>1, <2>2, MaxIs DEF Position
  <2>. QED
    BY <2>3 DEF Init, HubFeed!FeedInit
<1>2. PollInv /\ PollInv' /\ Ahead /\ [Next]_vars => [HubFeed!FeedNext]_(HubFeed!feedVars)
  BY FeedRefined
<1>. QED
  BY <1>1, <1>2, PollInvariant, AheadInvariant, PTL DEF Spec, ImplementsFeed, HubFeed!FeedSpec
=============================================================================
