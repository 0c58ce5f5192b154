----------------------- MODULE ChatGrpcStream_proofs -----------------------
(***************************************************************************)
(* Proofs about ChatMessageBus, for any chats, subscribers, messages and   *)
(* channel capacity: type correctness, and that a removal disturbs no      *)
(* subscription it has no business with.  Then about ChatGrpcStream, for   *)
(* any number of calls: the streams use the bus as ChatMessageBus          *)
(* specifies it, so all that is proved of the bus holds there; each stream *)
(* is ordered, and leaves no gap while publishing is in order; and the     *)
(* handler implements OrderedFeed.                                         *)
(***************************************************************************)
EXTENDS ChatGrpcStream, TLAPS

USE DEF ListOrNone

(***************************************************************************)
(* RemoveFromList keeps the dictionary and the lists well typed.           *)
(***************************************************************************)
LEMMA RemoveFromListTyped ==
  ASSUME BusTypeOK, NEW l \in Subs, NEW gone \in SUBSET Subs, NEW c \in Chats,
         RemoveFromList(l, gone, c)
  PROVE  dict' \in [Chats -> ListOrNone] /\ list' \in [Subs -> SUBSET Subs]
BY DEF BusTypeOK, RemoveFromList

(***************************************************************************)
(* RemoveFromList only takes away: from one list, and one chat's entry.    *)
(***************************************************************************)
LEMMA RemoveFromListShrinks ==
  ASSUME BusTypeOK, NEW l \in Subs, NEW gone, NEW c \in Chats, RemoveFromList(l, gone, c)
  PROVE  /\ list'[l] = list[l] \ gone
         /\ \A k \in Subs : k # l => list'[k] = list[k]
         /\ \A k \in Subs : list'[k] \subseteq list[k]
         /\ \A d \in Chats : d # c => dict'[d] = dict[d]
         /\ dict'[c] = dict[c] \/ dict'[c] = NoList
         /\ list'[l] = {} => dict'[c] = NoList
BY DEF BusTypeOK, RemoveFromList

(***************************************************************************)
(* TryWrite keeps a channel within its capacity.                           *)
(***************************************************************************)
LEMMA WriteTyped ==
  ASSUME BusTypeOK, NEW m \in Messages, NEW s \in Subs, PublishWrite(m, s)
  PROVE  /\ chan' \in [Subs -> Seq(Messages)]
         /\ \A t \in Subs : Len(chan'[t]) <= Capacity
         /\ dropped' \in [Subs -> SUBSET Messages]
<1>1. chan[s] \in Seq(Messages) /\ Len(chan[s]) <= Capacity /\ Capacity \in Nat \ {0}
  BY BusAssumption DEF BusTypeOK
<1>2. CASE UNCHANGED <<chan, dropped>>
  BY <1>2 DEF BusTypeOK
<1>3. CASE /\ Len(chan[s]) < Capacity
           /\ chan' = [chan EXCEPT ![s] = Append(@, m)]
           /\ UNCHANGED dropped
  <2>1. Append(chan[s], m) \in Seq(Messages) /\ Len(Append(chan[s], m)) = Len(chan[s]) + 1
    BY <1>1
  <2>2. Len(chan[s]) \in Nat
    BY <1>1
  <2> QED
    BY <1>1, <1>3, <2>1, <2>2 DEF BusTypeOK
<1>4. CASE /\ Len(chan[s]) = Capacity
           /\ chan' = [chan EXCEPT ![s] = Append(Tail(@), m)]
           /\ dropped' = [dropped EXCEPT ![s] = @ \union {Head(chan[s])}]
  <2>1. chan[s] # <<>>
    BY <1>1, <1>4
  <2>2. /\ Head(chan[s]) \in Messages
        /\ Tail(chan[s]) \in Seq(Messages)
        /\ Len(Tail(chan[s])) = Len(chan[s]) - 1
    BY <1>1, <2>1
  <2>3. /\ Append(Tail(chan[s]), m) \in Seq(Messages)
        /\ Len(Append(Tail(chan[s]), m)) = Len(chan[s])
    BY <1>1, <2>2
  <2> QED
    BY <1>1, <1>4, <2>2, <2>3 DEF BusTypeOK
<1> QED
  BY <1>1, <1>2, <1>3, <1>4 DEF PublishWrite, Full

(***************************************************************************)
(* Every step of the bus keeps its type invariant.                         *)
(***************************************************************************)
LEMMA BusTypeNext == BusTypeOK /\ Locals /\ [BusNext]_busVars => BusTypeOK'
<1> SUFFICES ASSUME BusTypeOK, Locals, [BusNext]_busVars PROVE BusTypeOK'
  OBVIOUS
<1> USE BusAssumption
<1>1. ASSUME NEW s \in Subs, SubscribeGetOrAdd(s) PROVE BusTypeOK'
  BY <1>1 DEF BusTypeOK, SubscribeGetOrAdd, GetOrAdd, cbVars, chanVars, pubVars
<1>2. ASSUME NEW s \in Subs, SubscribeAdd(s) PROVE BusTypeOK'
  <2>1. list' \in [Subs -> SUBSET Subs]
    BY <1>2 DEF BusTypeOK, SubscribeAdd
  <2>3. subPc' \in [Subs -> {"idle", "gotList", "added", "subscribed"}]
    BY <1>2 DEF BusTypeOK, SubscribeAdd
  <2>2. UNCHANGED <<dict, subList, settled, cbVars, chanVars, pubVars, got>>
    BY <1>2 DEF SubscribeAdd
  <2> QED
    BY <2>1, <2>2, <2>3 DEF BusTypeOK, cbVars, chanVars, pubVars
<1>3. ASSUME NEW s \in Subs, SubscribeRegister(s) PROVE BusTypeOK'
  BY <1>3 DEF BusTypeOK, SubscribeRegister, dictVars, cbVars, chanVars, pubVars
<1>4. ASSUME NEW s \in Subs, Cancel(s) PROVE BusTypeOK'
  BY <1>4 DEF BusTypeOK, Cancel, dictVars, subVars, chanVars, pubVars
<1>5. ASSUME NEW s \in Subs, CallbackComplete(s) PROVE BusTypeOK'
  BY <1>5 DEF BusTypeOK, CallbackComplete, dictVars, subVars, pubVars
<1>6. ASSUME NEW s \in Subs, CallbackLookup(s) PROVE BusTypeOK'
  BY <1>6 DEF BusTypeOK, CallbackLookup, dictVars, subVars, chanVars, pubVars
<1>7. ASSUME NEW s \in Subs, CallbackRemove(s) PROVE BusTypeOK'
  BY <1>7 DEF BusTypeOK, CallbackRemove, RemoveFromList, subVars, chanVars, pubVars
<1>8. ASSUME NEW s \in Subs, Read(s) PROVE BusTypeOK'
  <2>1. chan[s] \in Seq(Messages) /\ chan[s] # <<>> /\ got[s] \in Seq(Messages)
    BY <1>8 DEF BusTypeOK, Read
  <2>2. /\ Tail(chan[s]) \in Seq(Messages) /\ Len(Tail(chan[s])) = Len(chan[s]) - 1
        /\ Append(got[s], Head(chan[s])) \in Seq(Messages)
    BY <2>1
  <2>3. \A t \in Subs : Len(chan[t]) \in Nat
    BY DEF BusTypeOK
  <2> QED
    BY <1>8, <2>2, <2>3 DEF BusTypeOK, Read, dictVars, subVars, cbVars, pubVars
<1>9. ASSUME NEW m \in Messages, PublishLookup(m) PROVE BusTypeOK'
  BY <1>9 DEF BusTypeOK, PublishLookup, dictVars, subVars, cbVars, chanVars
<1>10. ASSUME NEW m \in Messages, PublishSnapshot(m) PROVE BusTypeOK'
  BY <1>10 DEF BusTypeOK, Locals, InFlight, PublishSnapshot, dictVars, subVars, cbVars, chanVars
<1>11. ASSUME NEW m \in Messages, NEW s \in Subs, PublishWrite(m, s) PROVE BusTypeOK'
  <2>1. pubLeft' \in [Messages -> SUBSET Subs]
    BY <1>11 DEF BusTypeOK, PublishWrite
  <2>2. pubFailed' \in [Messages -> SUBSET Subs]
    <3>1. CASE pubFailed' = [pubFailed EXCEPT ![m] = @ \union {s}]
      BY <3>1 DEF BusTypeOK
    <3>2. CASE UNCHANGED pubFailed
      BY <3>2 DEF BusTypeOK
    <3> QED
      BY <1>11, <3>1, <3>2 DEF PublishWrite
  <2> QED
    BY <1>11, <2>1, <2>2, WriteTyped DEF BusTypeOK, PublishWrite, dictVars, subVars, cbVars
<1>12. ASSUME NEW m \in Messages, PublishFinish(m) PROVE BusTypeOK'
  <2>1. CASE UNCHANGED <<dictVars, closed>>
    BY <1>12, <2>1 DEF BusTypeOK, PublishFinish, dictVars, subVars, cbVars
  <2>2. CASE /\ RemoveFromList(pubList[m], pubFailed[m], MsgChat[m])
             /\ closed' = [s \in Subs |-> closed[s] \/ s \in pubFailed[m]]
    <3>1. closed' \in [Subs -> BOOLEAN]
      BY <2>2, Zenon
    <3>2. pubList[m] \in Subs /\ MsgChat[m] \in Chats /\ pubFailed[m] \in SUBSET Subs
      BY <1>12 DEF BusTypeOK, Locals, InFlight, PublishFinish
    <3>3. dict' \in [Chats -> ListOrNone] /\ list' \in [Subs -> SUBSET Subs]
      BY <2>2, <3>2, RemoveFromListTyped
    <3> QED
      BY <1>12, <3>1, <3>3 DEF BusTypeOK, PublishFinish, subVars, cbVars
  <2> QED
    BY <1>12, <2>1, <2>2 DEF PublishFinish
<1>13. CASE UNCHANGED busVars
  BY <1>13 DEF BusTypeOK, busVars, dictVars, subVars, cbVars, chanVars, pubVars
<1> QED
  BY <1>1, <1>2, <1>3, <1>4, <1>5, <1>6, <1>7, <1>8, <1>9, <1>10, <1>11, <1>12, <1>13
  DEF BusNext, SubscribeStep, CallbackStep, PublishStep

(***************************************************************************)
(* The bus starts well typed.                                              *)
(***************************************************************************)
LEMMA BusTypeInit == BusInit => BusTypeOK
<1> SUFFICES ASSUME BusInit PROVE BusTypeOK
  OBVIOUS
<1>1. Capacity \in Nat
  BY BusAssumption
<1> QED
  BY <1>1 DEF BusInit, BusTypeOK

(***************************************************************************)
(* A call's local variables name a list from the step that gets one.       *)
(***************************************************************************)
LEMMA LocalsNext == BusTypeOK /\ Locals /\ [BusNext]_busVars => Locals'
<1> SUFFICES ASSUME BusTypeOK, Locals, [BusNext]_busVars PROVE Locals'
  OBVIOUS
<1> USE BusAssumption DEF BusTypeOK, Locals, InFlight
<1>1. ASSUME NEW s \in Subs, SubscribeGetOrAdd(s) PROVE Locals'
  BY <1>1 DEF SubscribeGetOrAdd, GetOrAdd, dictVars, subVars, cbVars, chanVars, pubVars
<1>2. ASSUME NEW s \in Subs, SubscribeAdd(s) PROVE Locals'
  BY <1>2 DEF SubscribeAdd, dictVars, subVars, cbVars, chanVars, pubVars
<1>3. ASSUME NEW s \in Subs, SubscribeRegister(s) PROVE Locals'
  BY <1>3 DEF SubscribeRegister, dictVars, subVars, cbVars, chanVars, pubVars
<1>4. ASSUME NEW s \in Subs, Cancel(s) PROVE Locals'
  BY <1>4 DEF Cancel, dictVars, subVars, cbVars, chanVars, pubVars
<1>5. ASSUME NEW s \in Subs, CallbackComplete(s) PROVE Locals'
  BY <1>5 DEF CallbackComplete, dictVars, subVars, cbVars, chanVars, pubVars
<1>6. ASSUME NEW s \in Subs, CallbackLookup(s) PROVE Locals'
  BY <1>6 DEF CallbackLookup, dictVars, subVars, cbVars, chanVars, pubVars
<1>7. ASSUME NEW s \in Subs, CallbackRemove(s) PROVE Locals'
  BY <1>7 DEF CallbackRemove, RemoveFromList, dictVars, subVars, cbVars, chanVars, pubVars
<1>8. ASSUME NEW s \in Subs, Read(s) PROVE Locals'
  BY <1>8 DEF Read, dictVars, subVars, cbVars, chanVars, pubVars
<1>9. ASSUME NEW m \in Messages, PublishLookup(m) PROVE Locals'
  BY <1>9 DEF PublishLookup, dictVars, subVars, cbVars, chanVars, pubVars
<1>10. ASSUME NEW m \in Messages, PublishSnapshot(m) PROVE Locals'
  BY <1>10 DEF PublishSnapshot, dictVars, subVars, cbVars, chanVars, pubVars
<1>11. ASSUME NEW m \in Messages, NEW s \in Subs, PublishWrite(m, s) PROVE Locals'
  BY <1>11 DEF PublishWrite, dictVars, subVars, cbVars, chanVars, pubVars
<1>12. ASSUME NEW m \in Messages, PublishFinish(m) PROVE Locals'
  BY <1>12 DEF PublishFinish, RemoveFromList, dictVars, subVars, cbVars, chanVars, pubVars
<1>13. CASE UNCHANGED busVars
  BY <1>13 DEF busVars, dictVars, subVars, cbVars, chanVars, pubVars
<1> QED
  BY <1>1, <1>2, <1>3, <1>4, <1>5, <1>6, <1>7, <1>8, <1>9, <1>10, <1>11, <1>12, <1>13
  DEF BusNext, SubscribeStep, CallbackStep, PublishStep

(***************************************************************************)
(* No step takes an uncancelled subscription off its list or closes its    *)
(* writer.                                                                 *)
(***************************************************************************)
LEMMA OnlyTheCancelledGoNext == BusTypeOK /\ Locals /\ OnlyTheCancelledGo /\ [BusNext]_busVars => OnlyTheCancelledGo'
<1> SUFFICES ASSUME BusTypeOK, Locals, OnlyTheCancelledGo, [BusNext]_busVars PROVE OnlyTheCancelledGo'
  OBVIOUS
<1> USE BusAssumption DEF BusTypeOK, Locals, InFlight, OnlyTheCancelledGo, Subscribed, TryWriteFails
<1>1. ASSUME NEW s \in Subs, SubscribeGetOrAdd(s) PROVE OnlyTheCancelledGo'
  BY <1>1 DEF SubscribeGetOrAdd, GetOrAdd, dictVars, subVars, cbVars, chanVars, pubVars
<1>2. ASSUME NEW s \in Subs, SubscribeAdd(s) PROVE OnlyTheCancelledGo'
  BY <1>2 DEF SubscribeAdd, dictVars, subVars, cbVars, chanVars, pubVars
<1>3. ASSUME NEW s \in Subs, SubscribeRegister(s) PROVE OnlyTheCancelledGo'
  BY <1>3 DEF SubscribeRegister, dictVars, subVars, cbVars, chanVars, pubVars
<1>4. ASSUME NEW s \in Subs, Cancel(s) PROVE OnlyTheCancelledGo'
  BY <1>4 DEF Cancel, dictVars, subVars, cbVars, chanVars, pubVars
<1>5. ASSUME NEW s \in Subs, CallbackComplete(s) PROVE OnlyTheCancelledGo'
  BY <1>5 DEF CallbackComplete, dictVars, subVars, cbVars, chanVars, pubVars
<1>6. ASSUME NEW s \in Subs, CallbackLookup(s) PROVE OnlyTheCancelledGo'
  BY <1>6 DEF CallbackLookup, dictVars, subVars, cbVars, chanVars, pubVars
<1>7. ASSUME NEW s \in Subs, CallbackRemove(s) PROVE OnlyTheCancelledGo'
  BY <1>7 DEF CallbackRemove, RemoveFromList, dictVars, subVars, cbVars, chanVars, pubVars
<1>8. ASSUME NEW s \in Subs, Read(s) PROVE OnlyTheCancelledGo'
  BY <1>8 DEF Read, dictVars, subVars, cbVars, chanVars, pubVars
<1>9. ASSUME NEW m \in Messages, PublishLookup(m) PROVE OnlyTheCancelledGo'
  BY <1>9 DEF PublishLookup, dictVars, subVars, cbVars, chanVars, pubVars
<1>10. ASSUME NEW m \in Messages, PublishSnapshot(m) PROVE OnlyTheCancelledGo'
  BY <1>10 DEF PublishSnapshot, dictVars, subVars, cbVars, chanVars, pubVars
<1>11. ASSUME NEW m \in Messages, NEW s \in Subs, PublishWrite(m, s) PROVE OnlyTheCancelledGo'
  <2>1. UNCHANGED <<list, subPc, subList, cancelled, cbPc, closed>>
    BY <1>11 DEF PublishWrite, dictVars, subVars, cbVars
  <2>2. CASE TryWriteFails(s) /\ pubFailed' = [pubFailed EXCEPT ![m] = @ \union {s}]
    BY <2>1, <2>2
  <2>3. CASE UNCHANGED pubFailed
    BY <2>1, <2>3
  <2> QED
    BY <1>11, <2>2, <2>3 DEF PublishWrite
<1>12. ASSUME NEW m \in Messages, PublishFinish(m) PROVE OnlyTheCancelledGo'
  <2>1. UNCHANGED <<subPc, subList, cancelled, cbPc, pubFailed>>
    BY <1>12 DEF PublishFinish, subVars, cbVars
  <2>2. \A s \in Subs : closed'[s] => closed[s] \/ s \in pubFailed[m]
    BY <1>12 DEF PublishFinish
  <2>9. \A s \in Subs : closed[s] => closed'[s]
    BY <1>12 DEF PublishFinish
  <2>3. UNCHANGED list \/ list' = [list EXCEPT ![pubList[m]] = @ \ pubFailed[m]]
    BY <1>12 DEF PublishFinish, RemoveFromList, dictVars
  <2>4. \A s \in pubFailed[m] : s \in Subs /\ cancelled[s]
    BY <1>12
  <2>5. \A s \in Subs : cbPc'[s] # "idle" => cancelled'[s] /\ subPc'[s] = "subscribed"
    BY <2>1
  <2>6. \A s \in Subs : closed'[s] => cancelled'[s]
    BY <2>1, <2>2, <2>4
  <2>7. \A k \in Messages : \A s \in pubFailed'[k] : closed'[s]
    <3>1. \A k \in Messages : \A s \in pubFailed[k] : s \in Subs /\ closed[s]
      OBVIOUS
    <3>2. pubFailed' = pubFailed
      BY <2>1
    <3> HIDE DEF BusTypeOK, Locals, OnlyTheCancelledGo
    <3> QED
      BY <2>9, <3>1, <3>2, Zenon
  <2>8. ASSUME NEW s \in Subs, Subscribed(s), ~cancelled[s]
        PROVE  s \in list'[subList[s]]
    <3>1. s \in list[subList[s]] /\ subList[s] \in Subs /\ s \notin pubFailed[m]
      BY <2>4, <2>8
    <3>2. list \in [Subs -> SUBSET Subs]
      OBVIOUS
    <3> HIDE DEF BusTypeOK, Locals, OnlyTheCancelledGo
    <3> QED
      BY <2>3, <3>1, <3>2
  <2> QED
    BY <2>1, <2>5, <2>6, <2>7, <2>8
<1>13. CASE UNCHANGED busVars
  BY <1>13 DEF busVars, dictVars, subVars, cbVars, chanVars, pubVars
<1> QED
  BY <1>1, <1>2, <1>3, <1>4, <1>5, <1>6, <1>7, <1>8, <1>9, <1>10, <1>11, <1>12, <1>13
  DEF BusNext, SubscribeStep, CallbackStep, PublishStep

(***************************************************************************)
(* Every list keeps to one chat.                                           *)
(***************************************************************************)
LEMMA ListsAreOfOneChatNext == BusTypeOK /\ Locals /\ ListsAreOfOneChat /\ [BusNext]_busVars => ListsAreOfOneChat'
<1> SUFFICES ASSUME BusTypeOK, Locals, ListsAreOfOneChat, [BusNext]_busVars PROVE ListsAreOfOneChat'
  OBVIOUS
<1> USE BusAssumption DEF BusTypeOK, Locals, InFlight, ListsAreOfOneChat, Subscribed, TryWriteFails
<1>1. ASSUME NEW s \in Subs, SubscribeGetOrAdd(s) PROVE ListsAreOfOneChat'
  BY <1>1 DEF SubscribeGetOrAdd, GetOrAdd, dictVars, subVars, cbVars, chanVars, pubVars
<1>2. ASSUME NEW s \in Subs, SubscribeAdd(s) PROVE ListsAreOfOneChat'
  BY <1>2 DEF SubscribeAdd, dictVars, subVars, cbVars, chanVars, pubVars
<1>3. ASSUME NEW s \in Subs, SubscribeRegister(s) PROVE ListsAreOfOneChat'
  BY <1>3 DEF SubscribeRegister, dictVars, subVars, cbVars, chanVars, pubVars
<1>4. ASSUME NEW s \in Subs, Cancel(s) PROVE ListsAreOfOneChat'
  BY <1>4 DEF Cancel, dictVars, subVars, cbVars, chanVars, pubVars
<1>5. ASSUME NEW s \in Subs, CallbackComplete(s) PROVE ListsAreOfOneChat'
  BY <1>5 DEF CallbackComplete, dictVars, subVars, cbVars, chanVars, pubVars
<1>6. ASSUME NEW s \in Subs, CallbackLookup(s) PROVE ListsAreOfOneChat'
  BY <1>6 DEF CallbackLookup, dictVars, subVars, cbVars, chanVars, pubVars
<1>7. ASSUME NEW s \in Subs, CallbackRemove(s) PROVE ListsAreOfOneChat'
  <2>1. UNCHANGED <<subPc, subList, pubPc, pubList, pubLeft, pubFailed>>
    BY <1>7 DEF CallbackRemove, subVars, pubVars
  <2>2. cbList[s] \in Subs /\ SubChat[s] \in Chats /\ RemoveFromList(cbList[s], {s}, SubChat[s])
    BY <1>7 DEF CallbackRemove
  <2>3. /\ \A k \in Subs : list'[k] \subseteq list[k]
        /\ \A d \in Chats : dict'[d] = dict[d] \/ dict'[d] = NoList
    BY <2>2, RemoveFromListShrinks
  <2> QED
    BY <2>1, <2>3
<1>8. ASSUME NEW s \in Subs, Read(s) PROVE ListsAreOfOneChat'
  BY <1>8 DEF Read, dictVars, subVars, cbVars, chanVars, pubVars
<1>9. ASSUME NEW m \in Messages, PublishLookup(m) PROVE ListsAreOfOneChat'
  BY <1>9 DEF PublishLookup, dictVars, subVars, cbVars, chanVars, pubVars
<1>10. ASSUME NEW m \in Messages, PublishSnapshot(m) PROVE ListsAreOfOneChat'
  BY <1>10 DEF PublishSnapshot, dictVars, subVars, cbVars, chanVars, pubVars
<1>11. ASSUME NEW m \in Messages, NEW s \in Subs, PublishWrite(m, s) PROVE ListsAreOfOneChat'
  BY <1>11 DEF PublishWrite, dictVars, subVars, cbVars, chanVars, pubVars
<1>12. ASSUME NEW m \in Messages, PublishFinish(m) PROVE ListsAreOfOneChat'
  <2>1. UNCHANGED <<subPc, subList, pubList, pubLeft, pubFailed>>
    BY <1>12 DEF PublishFinish, subVars, cbVars
  <2>2. \A k \in Messages : InFlight(k)' => InFlight(k)
    BY <1>12 DEF PublishFinish
  <2>3. CASE UNCHANGED dictVars
    BY <2>1, <2>2, <2>3 DEF dictVars
  <2>4. CASE RemoveFromList(pubList[m], pubFailed[m], MsgChat[m])
    <3>1. pubList[m] \in Subs /\ MsgChat[m] \in Chats
      BY <1>12 DEF PublishFinish
    <3>2. /\ \A k \in Subs : list'[k] \subseteq list[k]
          /\ \A d \in Chats : dict'[d] = dict[d] \/ dict'[d] = NoList
      BY <2>4, <3>1, RemoveFromListShrinks
    <3> QED
      BY <2>1, <2>2, <3>2
  <2> QED
    BY <1>12, <2>3, <2>4 DEF PublishFinish, dictVars
<1>13. CASE UNCHANGED busVars
  BY <1>13 DEF busVars, dictVars, subVars, cbVars, chanVars, pubVars
<1> QED
  BY <1>1, <1>2, <1>3, <1>4, <1>5, <1>6, <1>7, <1>8, <1>9, <1>10, <1>11, <1>12, <1>13
  DEF BusNext, SubscribeStep, CallbackStep, PublishStep

(***************************************************************************)
(* A removal that is over stays over.                                      *)
(***************************************************************************)
LEMMA RemovedForGoodNext == BusTypeOK /\ Locals /\ OnlyTheCancelledGo /\ ListsAreOfOneChat /\ RemovedForGood /\ [BusNext]_busVars => RemovedForGood'
<1> SUFFICES ASSUME BusTypeOK, Locals, OnlyTheCancelledGo, ListsAreOfOneChat, RemovedForGood, [BusNext]_busVars PROVE RemovedForGood'
  OBVIOUS
<1> USE BusAssumption DEF BusTypeOK, Locals, InFlight, OnlyTheCancelledGo, ListsAreOfOneChat, RemovedForGood, Subscribed, TryWriteFails
<1>1. ASSUME NEW s \in Subs, SubscribeGetOrAdd(s) PROVE RemovedForGood'
  <2>1. \A t \in Subs : cbPc[t] # "idle" => t # s /\ subList[t] # NoList /\ subList[t] # s
    BY <1>1 DEF SubscribeGetOrAdd, GetOrAdd
  <2>2. \A c \in Chats : dict'[c] = dict[c] \/ dict'[c] = s
    BY <1>1 DEF SubscribeGetOrAdd, GetOrAdd
  <2>3. UNCHANGED <<list, cbPc, cbList>> /\ \A t \in Subs : t # s => subList'[t] = subList[t]
    BY <1>1 DEF SubscribeGetOrAdd, GetOrAdd, cbVars
  <2> SUFFICES ASSUME NEW t \in Subs, cbPc[t] # "idle"
               PROVE  /\ cbPc'[t] = "done" => dict'[SubChat[t]] # subList'[t] \/ t \notin list'[subList'[t]]
                      /\ cbPc'[t] = "found" => dict'[SubChat[t]] # subList'[t] \/ cbList'[t] = subList'[t]
    BY <2>3
  <2>4. subList'[t] = subList[t] /\ subList[t] # s
    BY <2>1, <2>3
  <2>5. dict'[SubChat[t]] = subList[t] => dict[SubChat[t]] = subList[t]
    BY <2>2, <2>4
  <2> QED
    BY <2>3, <2>4, <2>5
<1>2. ASSUME NEW s \in Subs, SubscribeAdd(s) PROVE RemovedForGood'
  <2>1. cbPc[s] = "idle" /\ UNCHANGED <<dict, subList, cbPc, cbList>>
    BY <1>2 DEF SubscribeAdd, cbVars
  <2>2. \A l, t \in Subs : t # s => (t \in list'[l] <=> t \in list[l])
    BY <1>2 DEF SubscribeAdd
  <2>3. \A t \in Subs : cbPc[t] # "idle" => t # s /\ subList[t] \in Subs
    BY <2>1
  <2> QED
    BY <2>1, <2>2, <2>3 DEF RemovedForGood
<1>3. ASSUME NEW s \in Subs, SubscribeRegister(s) PROVE RemovedForGood'
  BY <1>3 DEF SubscribeRegister, dictVars, subVars, cbVars, chanVars, pubVars
<1>4. ASSUME NEW s \in Subs, Cancel(s) PROVE RemovedForGood'
  BY <1>4 DEF Cancel, dictVars, subVars, cbVars, chanVars, pubVars
<1>5. ASSUME NEW s \in Subs, CallbackComplete(s) PROVE RemovedForGood'
  BY <1>5 DEF CallbackComplete, dictVars, subVars, cbVars, chanVars, pubVars
<1>6. ASSUME NEW s \in Subs, CallbackLookup(s) PROVE RemovedForGood'
  <2>1. UNCHANGED <<dict, list, subList>> /\ subList[s] # NoList
    BY <1>6 DEF CallbackLookup, dictVars, subVars
  <2>2. /\ \A t \in Subs : t # s => cbPc'[t] = cbPc[t] /\ cbList'[t] = cbList[t]
        /\ cbList'[s] = dict[SubChat[s]]
        /\ cbPc'[s] = "done" => dict[SubChat[s]] = NoList
    BY <1>6 DEF CallbackLookup
  <2> SUFFICES ASSUME NEW t \in Subs
               PROVE  /\ cbPc'[t] = "done" => dict'[SubChat[t]] # subList'[t] \/ t \notin list'[subList'[t]]
                      /\ cbPc'[t] = "found" => dict'[SubChat[t]] # subList'[t] \/ cbList'[t] = subList'[t]
    BY DEF RemovedForGood
  <2>3. CASE t # s
    <3>1. /\ cbPc[t] = "done" => dict[SubChat[t]] # subList[t] \/ t \notin list[subList[t]]
          /\ cbPc[t] = "found" => dict[SubChat[t]] # subList[t] \/ cbList[t] = subList[t]
      BY DEF RemovedForGood
    <3> HIDE DEF RemovedForGood, ListsAreOfOneChat, OnlyTheCancelledGo, Locals, BusTypeOK
    <3> QED
      BY <2>1, <2>2, <2>3, <3>1
  <2>4. CASE t = s
    <3> HIDE DEF RemovedForGood, ListsAreOfOneChat, OnlyTheCancelledGo, Locals, BusTypeOK
    <3>1. dict'[SubChat[s]] = cbList'[s] /\ subList'[s] # NoList
      BY <2>1, <2>2
    <3>2. cbPc'[s] = "done" => dict'[SubChat[s]] = NoList
      BY <2>1, <2>2
    <3> QED
      BY <2>4, <3>1, <3>2
  <2> QED
    BY <2>3, <2>4
<1>7. ASSUME NEW s \in Subs, CallbackRemove(s) PROVE RemovedForGood'
  <2>1. cbList[s] \in Subs /\ SubChat[s] \in Chats /\ RemoveFromList(cbList[s], {s}, SubChat[s])
    BY <1>7 DEF CallbackRemove
  <2>2. UNCHANGED <<subPc, subList, cbList>>
    BY <1>7 DEF CallbackRemove, subVars
  <2>3. /\ list'[cbList[s]] = list[cbList[s]] \ {s}
        /\ \A k \in Subs : list'[k] \subseteq list[k]
        /\ \A d \in Chats : dict'[d] = dict[d] \/ dict'[d] = NoList
    BY <2>1, RemoveFromListShrinks
  <2>4. cbPc[s] = "found" /\ \A t \in Subs : t # s => cbPc'[t] = cbPc[t]
    BY <1>7 DEF CallbackRemove
  <2>5. \A t \in Subs : cbPc[t] # "idle" => subList[t] \in Subs
    OBVIOUS
  <2>6. cbPc'[s] = "done"
    BY <1>7 DEF CallbackRemove
  <2> SUFFICES ASSUME NEW t \in Subs
               PROVE  /\ cbPc'[t] = "done" => dict'[SubChat[t]] # subList'[t] \/ t \notin list'[subList'[t]]
                      /\ cbPc'[t] = "found" => dict'[SubChat[t]] # subList'[t] \/ cbList'[t] = subList'[t]
    BY DEF RemovedForGood
  <2>7. CASE t # s
    <3>1. /\ cbPc[t] = "done" => dict[SubChat[t]] # subList[t] \/ t \notin list[subList[t]]
          /\ cbPc[t] = "found" => dict[SubChat[t]] # subList[t] \/ cbList[t] = subList[t]
      BY DEF RemovedForGood
    <3>2. SubChat[t] \in Chats
      OBVIOUS
    <3> HIDE DEF RemovedForGood, ListsAreOfOneChat, OnlyTheCancelledGo, Locals
    <3> QED
      BY <2>2, <2>3, <2>4, <2>5, <2>7, <3>1, <3>2
  <2>8. CASE t = s /\ dict[SubChat[s]] # subList[s]
    BY <2>2, <2>3, <2>4, <2>5, <2>6, <2>8
  <2>9. CASE t = s /\ cbList[s] = subList[s]
    BY <2>2, <2>3, <2>6, <2>9
  <2> QED
    BY <2>4, <2>7, <2>8, <2>9
<1>8. ASSUME NEW s \in Subs, Read(s) PROVE RemovedForGood'
  BY <1>8 DEF Read, dictVars, subVars, cbVars, chanVars, pubVars
<1>9. ASSUME NEW m \in Messages, PublishLookup(m) PROVE RemovedForGood'
  BY <1>9 DEF PublishLookup, dictVars, subVars, cbVars, chanVars, pubVars
<1>10. ASSUME NEW m \in Messages, PublishSnapshot(m) PROVE RemovedForGood'
  BY <1>10 DEF PublishSnapshot, dictVars, subVars, cbVars, chanVars, pubVars
<1>11. ASSUME NEW m \in Messages, NEW s \in Subs, PublishWrite(m, s) PROVE RemovedForGood'
  BY <1>11 DEF PublishWrite, dictVars, subVars, cbVars, chanVars, pubVars
<1>12. ASSUME NEW m \in Messages, PublishFinish(m) PROVE RemovedForGood'
  <2>1. UNCHANGED <<subPc, subList, cbPc, cbList>>
    BY <1>12 DEF PublishFinish, subVars, cbVars
  <2>3. CASE UNCHANGED dictVars
    BY <2>1, <2>3 DEF dictVars
  <2>4. CASE RemoveFromList(pubList[m], pubFailed[m], MsgChat[m])
    <3>1. pubList[m] \in Subs /\ MsgChat[m] \in Chats
      BY <1>12 DEF PublishFinish
    <3>2. /\ \A k \in Subs : list'[k] \subseteq list[k]
          /\ \A d \in Chats : dict'[d] = dict[d] \/ dict'[d] = NoList
      BY <2>4, <3>1, RemoveFromListShrinks
    <3>3. \A t \in Subs : cbPc[t] # "idle" => subList[t] \in Subs
      OBVIOUS
    <3> SUFFICES ASSUME NEW t \in Subs, cbPc[t] # "idle"
                 PROVE  /\ cbPc[t] = "done" => dict'[SubChat[t]] # subList[t] \/ t \notin list'[subList[t]]
                        /\ cbPc[t] = "found" => dict'[SubChat[t]] # subList[t] \/ cbList[t] = subList[t]
      BY <2>1 DEF RemovedForGood
    <3> QED
      BY <3>2, <3>3
  <2> QED
    BY <1>12, <2>3, <2>4 DEF PublishFinish, dictVars
<1>13. CASE UNCHANGED busVars
  BY <1>13 DEF busVars, dictVars, subVars, cbVars, chanVars, pubVars
<1> QED
  BY <1>1, <1>2, <1>3, <1>4, <1>5, <1>6, <1>7, <1>8, <1>9, <1>10, <1>11, <1>12, <1>13
  DEF BusNext, SubscribeStep, CallbackStep, PublishStep

(***************************************************************************)
(* No publication under way holds a settled subscription.                  *)
(***************************************************************************)
LEMMA SettledStaysSettledNext == BusTypeOK /\ Locals /\ OnlyTheCancelledGo /\ ListsAreOfOneChat /\ RemovedForGood /\ SettledStaysSettled /\ [BusNext]_busVars => SettledStaysSettled'
<1> SUFFICES ASSUME BusTypeOK, Locals, OnlyTheCancelledGo, ListsAreOfOneChat, RemovedForGood, SettledStaysSettled, [BusNext]_busVars PROVE SettledStaysSettled'
  OBVIOUS
<1> USE BusAssumption DEF BusTypeOK, Locals, InFlight, OnlyTheCancelledGo, ListsAreOfOneChat, RemovedForGood, SettledStaysSettled, Subscribed, TryWriteFails
<1>1. ASSUME NEW s \in Subs, SubscribeGetOrAdd(s) PROVE SettledStaysSettled'
  BY <1>1 DEF SubscribeGetOrAdd, GetOrAdd, dictVars, subVars, cbVars, chanVars, pubVars
<1>2. ASSUME NEW s \in Subs, SubscribeAdd(s) PROVE SettledStaysSettled'
  <2>1. cbPc[s] = "idle" /\ UNCHANGED <<settled, cbPc, pubPc, pubList, pubLeft, pubFailed>>
    BY <1>2 DEF SubscribeAdd, cbVars, pubVars
  <2>2. \A l, t \in Subs : t # s => (t \in list'[l] <=> t \in list[l])
    BY <1>2 DEF SubscribeAdd
  <2>3. \A m \in Messages : pubPc[m] = "found" => pubList[m] \in Subs
    OBVIOUS
  <2> QED
    BY <2>1, <2>2, <2>3
<1>3. ASSUME NEW s \in Subs, SubscribeRegister(s) PROVE SettledStaysSettled'
  BY <1>3 DEF SubscribeRegister, dictVars, subVars, cbVars, chanVars, pubVars
<1>4. ASSUME NEW s \in Subs, Cancel(s) PROVE SettledStaysSettled'
  BY <1>4 DEF Cancel, dictVars, subVars, cbVars, chanVars, pubVars
<1>5. ASSUME NEW s \in Subs, CallbackComplete(s) PROVE SettledStaysSettled'
  BY <1>5 DEF CallbackComplete, dictVars, subVars, cbVars, chanVars, pubVars
<1>6. ASSUME NEW s \in Subs, CallbackLookup(s) PROVE SettledStaysSettled'
  BY <1>6 DEF CallbackLookup, dictVars, subVars, cbVars, chanVars, pubVars
<1>7. ASSUME NEW s \in Subs, CallbackRemove(s) PROVE SettledStaysSettled'
  BY <1>7 DEF CallbackRemove, RemoveFromList, dictVars, subVars, cbVars, chanVars, pubVars
<1>8. ASSUME NEW s \in Subs, Read(s) PROVE SettledStaysSettled'
  BY <1>8 DEF Read, dictVars, subVars, cbVars, chanVars, pubVars
<1>9. ASSUME NEW m \in Messages, PublishLookup(m) PROVE SettledStaysSettled'
  <2>1. UNCHANGED <<dict, list, settled, cbPc, pubLeft, pubFailed>>
    BY <1>9 DEF PublishLookup, dictVars, subVars, cbVars
  <2>2. /\ \A k \in Messages : k # m => pubPc'[k] = pubPc[k] /\ pubList'[k] = pubList[k]
        /\ pubList'[m] = dict[MsgChat[m]]
        /\ pubPc'[m] # "done" => dict[MsgChat[m]] # NoList
    BY <1>9 DEF PublishLookup
  <2>3. pubLeft[m] = {} /\ pubFailed[m] = {}
    BY <1>9 DEF PublishLookup
  <2>4. ASSUME dict[MsgChat[m]] # NoList, NEW t \in list[dict[MsgChat[m]]]
        PROVE  cbPc[t] # "done"
    <3>1. dict[MsgChat[m]] \in Subs /\ MsgChat[m] \in Chats
      BY <2>4
    <3>2. t \in Subs /\ subList[t] = dict[MsgChat[m]] /\ SubChat[t] = MsgChat[m]
      BY <2>4, <3>1
    <3> QED
      BY <2>4, <3>2
  <2>5. \A t \in Subs : settled[t] \intersect {u \in Subs : cbPc[u] # "done"} = {}
    OBVIOUS
  <2> SUFFICES ASSUME NEW t \in Subs, NEW k \in Messages, MsgChat[k] = SubChat[t]
               PROVE  /\ InFlight(k)' => settled[t] \intersect (pubLeft[k] \union pubFailed[k]) = {}
                      /\ pubPc'[k] = "found" => settled[t] \intersect list[pubList'[k]] = {}
    BY <2>1 DEF SettledStaysSettled
  <2>6. CASE k = m
    BY <2>2, <2>3, <2>4, <2>5, <2>6
  <2>7. CASE k # m
    BY <2>2, <2>7
  <2> QED
    BY <2>6, <2>7
<1>10. ASSUME NEW m \in Messages, PublishSnapshot(m) PROVE SettledStaysSettled'
  BY <1>10 DEF PublishSnapshot, dictVars, subVars, cbVars, chanVars, pubVars
<1>11. ASSUME NEW m \in Messages, NEW s \in Subs, PublishWrite(m, s) PROVE SettledStaysSettled'
  BY <1>11 DEF PublishWrite, dictVars, subVars, cbVars, chanVars, pubVars
<1>12. ASSUME NEW m \in Messages, PublishFinish(m) PROVE SettledStaysSettled'
  <2>1. UNCHANGED <<subPc, settled, cbPc, pubList, pubLeft, pubFailed>>
    BY <1>12 DEF PublishFinish, subVars, cbVars
  <2>2. \A k \in Messages : InFlight(k)' => InFlight(k)
    BY <1>12 DEF PublishFinish
  <2>5. \A k \in Messages : (pubPc[k] = "found")' => pubPc[k] = "found"
    BY <1>12 DEF PublishFinish
  <2>6. \A k \in Messages : pubPc[k] = "found" => pubList[k] \in Subs
    OBVIOUS
  <2>3. CASE UNCHANGED dictVars
    BY <2>1, <2>2, <2>5, <2>3 DEF dictVars
  <2>4. CASE RemoveFromList(pubList[m], pubFailed[m], MsgChat[m])
    <3>1. pubList[m] \in Subs /\ MsgChat[m] \in Chats
      BY <1>12 DEF PublishFinish
    <3>2. /\ \A k \in Subs : list'[k] \subseteq list[k]
          /\ \A d \in Chats : dict'[d] = dict[d] \/ dict'[d] = NoList
      BY <2>4, <3>1, RemoveFromListShrinks
    <3> QED
      BY <2>1, <2>2, <2>5, <2>6, <3>2
  <2> QED
    BY <1>12, <2>3, <2>4 DEF PublishFinish, dictVars
<1>13. CASE UNCHANGED busVars
  BY <1>13 DEF busVars, dictVars, subVars, cbVars, chanVars, pubVars
<1> QED
  BY <1>1, <1>2, <1>3, <1>4, <1>5, <1>6, <1>7, <1>8, <1>9, <1>10, <1>11, <1>12, <1>13
  DEF BusNext, SubscribeStep, CallbackStep, PublishStep

(***************************************************************************)
(* No step takes down the list of a subscription that has no rivals.       *)
(***************************************************************************)
LEMMA UndisturbedIsMappedNext == BusTypeOK /\ BusInv /\ [BusNext]_busVars => UndisturbedIsMapped'
<1> SUFFICES ASSUME BusTypeOK, BusInv, [BusNext]_busVars PROVE UndisturbedIsMapped'
  OBVIOUS
<1> USE BusAssumption DEF BusTypeOK, BusInv, Locals, InFlight, OnlyTheCancelledGo, ListsAreOfOneChat, SettledStaysSettled, UndisturbedIsMapped, Undisturbed, Rivals, Subscribed
<1>1. ASSUME NEW s \in Subs, SubscribeGetOrAdd(s) PROVE UndisturbedIsMapped'
  BY <1>1 DEF SubscribeGetOrAdd, GetOrAdd, dictVars, subVars, cbVars, chanVars, pubVars
<1>2. ASSUME NEW s \in Subs, SubscribeAdd(s) PROVE UndisturbedIsMapped'
  BY <1>2 DEF SubscribeAdd, dictVars, subVars, cbVars, chanVars, pubVars
<1>3. ASSUME NEW s \in Subs, SubscribeRegister(s) PROVE UndisturbedIsMapped'
  BY <1>3 DEF SubscribeRegister, dictVars, subVars, cbVars, chanVars, pubVars
<1>4. ASSUME NEW s \in Subs, Cancel(s) PROVE UndisturbedIsMapped'
  BY <1>4 DEF Cancel, dictVars, subVars, cbVars, chanVars, pubVars
<1>5. ASSUME NEW s \in Subs, CallbackComplete(s) PROVE UndisturbedIsMapped'
  BY <1>5 DEF CallbackComplete, dictVars, subVars, cbVars, chanVars, pubVars
<1>6. ASSUME NEW s \in Subs, CallbackLookup(s) PROVE UndisturbedIsMapped'
  BY <1>6 DEF CallbackLookup, dictVars, subVars, cbVars, chanVars, pubVars
<1>7. ASSUME NEW s \in Subs, CallbackRemove(s) PROVE UndisturbedIsMapped'
  <2>1. cbList[s] \in Subs /\ SubChat[s] \in Chats /\ RemoveFromList(cbList[s], {s}, SubChat[s])
    BY <1>7 DEF CallbackRemove
  <2>2. \A d \in Chats : d # SubChat[s] => dict'[d] = dict[d]
    BY <2>1, RemoveFromListShrinks
  <2>3. UNCHANGED <<subPc, subList, settled, cancelled>>
    BY <1>7 DEF CallbackRemove, subVars
  <2>4. cancelled[s] /\ cbPc[s] # "done"
    BY <1>7 DEF CallbackRemove
  <2>5. \A t \in Subs : Undisturbed(t) => SubChat[t] # SubChat[s]
    BY <2>4
  <2>6. \A t \in Subs : Undisturbed(t)' => Undisturbed(t)
    BY <2>3 DEF Undisturbed, Rivals
  <2> SUFFICES ASSUME NEW t \in Subs, Undisturbed(t)'
               PROVE  dict'[SubChat[t]] = subList'[t]
    BY DEF UndisturbedIsMapped
  <2>a. SubChat[t] \in Chats
    OBVIOUS
  <2> HIDE DEF Undisturbed
  <2>7. Undisturbed(t) /\ SubChat[t] # SubChat[s] /\ SubChat[t] \in Chats
    BY <2>5, <2>6, <2>a
  <2>8. dict[SubChat[t]] = subList[t]
    BY <2>7 DEF UndisturbedIsMapped
  <2> QED
    BY <2>2, <2>3, <2>7, <2>8
<1>8. ASSUME NEW s \in Subs, Read(s) PROVE UndisturbedIsMapped'
  BY <1>8 DEF Read, dictVars, subVars, cbVars, chanVars, pubVars
<1>9. ASSUME NEW m \in Messages, PublishLookup(m) PROVE UndisturbedIsMapped'
  BY <1>9 DEF PublishLookup, dictVars, subVars, cbVars, chanVars, pubVars
<1>10. ASSUME NEW m \in Messages, PublishSnapshot(m) PROVE UndisturbedIsMapped'
  BY <1>10 DEF PublishSnapshot, dictVars, subVars, cbVars, chanVars, pubVars
<1>11. ASSUME NEW m \in Messages, NEW s \in Subs, PublishWrite(m, s) PROVE UndisturbedIsMapped'
  BY <1>11 DEF PublishWrite, dictVars, subVars, cbVars, chanVars, pubVars
<1>12. ASSUME NEW m \in Messages, PublishFinish(m) PROVE UndisturbedIsMapped'
  <2>1. UNCHANGED <<subPc, subList, settled, cancelled>>
    BY <1>12 DEF PublishFinish, subVars, cbVars
  <2>2. InFlight(m) /\ pubList[m] \in Subs /\ SubChat[pubList[m]] = MsgChat[m] /\ MsgChat[m] \in Chats
    BY <1>12 DEF PublishFinish
  <2>3. \/ UNCHANGED dict
        \/ /\ dict' = [dict EXCEPT ![MsgChat[m]] = NoList]
           /\ pubFailed[m] # {} /\ list[pubList[m]] \subseteq pubFailed[m]
    BY <1>12 DEF PublishFinish, RemoveFromList, dictVars
  <2>4. \A t \in Subs : Undisturbed(t)' => Undisturbed(t)
    BY <2>1
  <2>5. ASSUME NEW t \in Subs, Undisturbed(t), SubChat[t] = MsgChat[m],
               pubFailed[m] # {}, list[pubList[m]] \subseteq pubFailed[m]
        PROVE  FALSE
    <3>1. PICK u \in pubFailed[m] : u \in Subs /\ closed[u] /\ cancelled[u] /\ SubChat[u] = MsgChat[m]
      BY <2>2, <2>5
    <3>2. u \in settled[t]
      BY <2>5, <3>1
    <3> QED
      BY <2>2, <2>5, <3>1, <3>2
  <2> SUFFICES ASSUME NEW t \in Subs, Undisturbed(t)'
               PROVE  dict'[SubChat[t]] = subList'[t]
    BY DEF UndisturbedIsMapped
  <2> HIDE DEF Undisturbed
  <2>6. Undisturbed(t) /\ dict[SubChat[t]] = subList[t] /\ SubChat[t] \in Chats
    BY <2>4
  <2>7. SubChat[t] = MsgChat[m] => UNCHANGED dict
    BY <2>3, <2>5, <2>6
  <2>8. dict'[SubChat[t]] = dict[SubChat[t]]
    BY <2>2, <2>3, <2>6, <2>7
  <2> QED
    BY <2>1, <2>6, <2>8
<1>13. CASE UNCHANGED busVars
  BY <1>13 DEF busVars, dictVars, subVars, cbVars, chanVars, pubVars
<1> QED
  BY <1>1, <1>2, <1>3, <1>4, <1>5, <1>6, <1>7, <1>8, <1>9, <1>10, <1>11, <1>12, <1>13
  DEF BusNext, SubscribeStep, CallbackStep, PublishStep

(***************************************************************************)
(* The inductive invariant holds at the start.                             *)
(***************************************************************************)
LEMMA BusInvInit == BusInit => BusInv
BY BusAssumption DEF BusInit, BusInv, Locals, InFlight, OnlyTheCancelledGo, ListsAreOfOneChat,
   RemovedForGood, SettledStaysSettled, UndisturbedIsMapped, Undisturbed, Subscribed

(***************************************************************************)
(* No step breaks it: the lemmas above, together.                          *)
(***************************************************************************)
LEMMA BusInvNext == BusTypeOK /\ BusInv /\ [BusNext]_busVars => (BusTypeOK /\ BusInv)'
BY BusTypeNext, LocalsNext, OnlyTheCancelledGoNext, ListsAreOfOneChatNext, RemovedForGoodNext,
   SettledStaysSettledNext, UndisturbedIsMappedNext DEF BusInv

(***************************************************************************)
(* BusInv is an invariant of the bus.                                      *)
(***************************************************************************)
THEOREM BusInvariant == BusSpec => [](BusTypeOK /\ BusInv)
<1>1. BusInit => BusTypeOK /\ BusInv
  BY BusTypeInit, BusInvInit
<1>2. BusTypeOK /\ BusInv /\ [BusNext]_busVars => (BusTypeOK /\ BusInv)'
  BY BusInvNext
<1> QED
  BY <1>1, <1>2, PTL DEF BusSpec

(***************************************************************************)
(* Type correctness of the bus: each call stays at one of its program      *)
(* points and no channel ever holds more than Capacity messages.           *)
(***************************************************************************)
THEOREM BusTypeCorrect == BusSpec => []BusTypeOK
BY BusInvariant, PTL

(***************************************************************************)
(* Publish's cleanup never evicts a subscription whose token has not       *)
(* fired.                                                                  *)
(***************************************************************************)
THEOREM LiveKeepsItsPlaceHolds == BusSpec => []LiveKeepsItsPlace
<1>1. BusTypeOK /\ BusInv => LiveKeepsItsPlace
  BY DEF BusTypeOK, BusInv, OnlyTheCancelledGo, LiveKeepsItsPlace, Live, Subscribed
<1> QED
  BY <1>1, BusInvariant, PTL

(***************************************************************************)
(* A subscription is cut off from its chat only by a removal that was not  *)
(* over when its Subscribe began.                                          *)
(***************************************************************************)
THEOREM ReachableUnlessRivalHolds == BusSpec => []ReachableUnlessRival
<1>1. BusTypeOK /\ BusInv => ReachableUnlessRival
  <2> SUFFICES ASSUME BusTypeOK, BusInv, NEW s \in Subs, Live(s), Rivals(s) = {}
               PROVE  Reachable(s)
    BY DEF ReachableUnlessRival
  <2>1. subPc[s] = "subscribed" /\ ~cancelled[s]
    BY DEF Live
  <2>2. dict[SubChat[s]] = subList[s]
    BY <2>1 DEF BusInv, UndisturbedIsMapped, Undisturbed
  <2>3. subList[s] # NoList /\ s \in list[subList[s]]
    BY <2>1 DEF BusInv, Locals, OnlyTheCancelledGo, Subscribed
  <2> QED
    BY <2>2, <2>3 DEF Reachable
<1> QED
  BY <1>1, BusInvariant, PTL

-----------------------------------------------------------------------------
(***************************************************************************)
(* What appending to a sequence, and taking its head, does to its range.   *)
(***************************************************************************)
LEMMA RangeOfAppend ==
  ASSUME NEW S, NEW q \in Seq(S), NEW x \in S
  PROVE  RangeOf(Append(q, x)) = RangeOf(q) \union {x}
<1>1. /\ DOMAIN Append(q, x) = 1..(Len(q) + 1)
      /\ DOMAIN q = 1..Len(q) /\ Len(q) \in Nat
      /\ Append(q, x)[Len(q) + 1] = x
      /\ \A i \in 1..Len(q) : Append(q, x)[i] = q[i]
  OBVIOUS
<1>2. 1..(Len(q) + 1) = 1..Len(q) \union {Len(q) + 1}
  BY <1>1
<1> QED
  BY <1>1, <1>2 DEF RangeOf

LEMMA RangeOfTail ==
  ASSUME NEW S, NEW q \in Seq(S), q # <<>>
  PROVE  RangeOf(q) = RangeOf(Tail(q)) \union {Head(q)}
<1>1. /\ DOMAIN q = 1..Len(q) /\ Len(q) \in Nat \ {0}
      /\ DOMAIN Tail(q) = 1..(Len(q) - 1)
      /\ Head(q) = q[1]
      /\ \A i \in 1..(Len(q) - 1) : Tail(q)[i] = q[i + 1]
  OBVIOUS
<1>2. RangeOf(q) \subseteq RangeOf(Tail(q)) \union {Head(q)}
  <2> SUFFICES ASSUME NEW i \in 1..Len(q)
               PROVE  q[i] \in RangeOf(Tail(q)) \union {Head(q)}
    BY <1>1 DEF RangeOf
  <2>1. CASE i = 1
    BY <1>1, <2>1
  <2>2. CASE i # 1
    <3>1. i - 1 \in 1..(Len(q) - 1) /\ Tail(q)[i - 1] = q[i]
      BY <1>1, <2>2
    <3> QED
      BY <1>1, <3>1 DEF RangeOf
  <2> QED
    BY <2>1, <2>2
<1>3. RangeOf(Tail(q)) \subseteq RangeOf(q)
  <2> SUFFICES ASSUME NEW i \in 1..(Len(q) - 1) PROVE Tail(q)[i] \in RangeOf(q)
    BY <1>1 DEF RangeOf
  <2>1. i + 1 \in 1..Len(q) /\ Tail(q)[i] = q[i + 1]
    BY <1>1
  <2> QED
    BY <1>1, <2>1 DEF RangeOf
<1>4. Head(q) \in RangeOf(q)
  BY <1>1 DEF RangeOf
<1> QED
  BY <1>2, <1>3, <1>4

(***************************************************************************)
(* Once a subscriber holds a message it goes on holding it: reading moves  *)
(* it from the channel to `got', DropOldest to `dropped'.  And it comes to *)
(* hold one only when Publish writes it.                                   *)
(***************************************************************************)
LEMMA HoldsChanges ==
  ASSUME BusTypeOK, [BusNext]_busVars, NEW s \in Subs, NEW m \in Messages
  PROVE  /\ Holds(s, m) => Holds(s, m)'
         /\ Holds(s, m)' => Holds(s, m) \/ PublishWrite(m, s)
<1>1. CASE UNCHANGED <<chan, got, dropped>>
  BY <1>1 DEF Holds, RangeOf
<1>2. ASSUME NEW t \in Subs, Read(t)
      PROVE  Holds(s, m)' <=> Holds(s, m)
  <2>1. /\ chan[t] \in Seq(Messages) /\ chan[t] # <<>> /\ got[t] \in Seq(Messages)
        /\ Head(chan[t]) \in Messages
    BY <1>2 DEF BusTypeOK, Read
  <2>2. /\ RangeOf(chan[t]) = RangeOf(Tail(chan[t])) \union {Head(chan[t])}
        /\ RangeOf(Append(got[t], Head(chan[t]))) = RangeOf(got[t]) \union {Head(chan[t])}
    BY <2>1, RangeOfAppend, RangeOfTail
  <2>3. /\ chan'[t] = Tail(chan[t]) /\ got'[t] = Append(got[t], Head(chan[t]))
        /\ \A u \in Subs : u # t => chan'[u] = chan[u] /\ got'[u] = got[u]
        /\ dropped' = dropped
    BY <1>2 DEF BusTypeOK, Read
  <2>4. CASE s = t
    BY <2>2, <2>3, <2>4 DEF Holds
  <2>5. CASE s # t
    BY <2>3, <2>5 DEF Holds
  <2> QED
    BY <2>4, <2>5
<1>3. ASSUME NEW k \in Messages, NEW t \in Subs, PublishWrite(k, t)
      PROVE  /\ Holds(s, m) => Holds(s, m)'
             /\ Holds(s, m)' => Holds(s, m) \/ PublishWrite(m, s)
  <2> DEFINE q == chan[t]
  <2>1. q \in Seq(Messages) /\ got' = got /\ Capacity \in Nat \ {0}
    BY <1>3, BusAssumption DEF BusTypeOK, PublishWrite
  <2>2. CASE UNCHANGED <<chan, dropped>>
    BY <2>1, <2>2 DEF Holds
  <2>3. CASE chan' = [chan EXCEPT ![t] = Append(@, k)] /\ UNCHANGED dropped
    <3>1. RangeOf(Append(q, k)) = RangeOf(q) \union {k}
      BY <2>1, RangeOfAppend
    <3>2. chan'[t] = Append(q, k) /\ \A u \in Subs : u # t => chan'[u] = chan[u]
      BY <2>3 DEF BusTypeOK
    <3> QED
      BY <1>3, <2>1, <2>3, <3>1, <3>2 DEF Holds
  <2>4. CASE /\ Len(q) = Capacity
             /\ chan' = [chan EXCEPT ![t] = Append(Tail(@), k)]
             /\ dropped' = [dropped EXCEPT ![t] = @ \union {Head(chan[t])}]
    <3>1. q # <<>> /\ Tail(q) \in Seq(Messages)
      BY <2>1, <2>4
    <3>2. RangeOf(Append(Tail(q), k)) = RangeOf(Tail(q)) \union {k}
      <4> DEFINE r == Tail(q)
      <4>1. r \in Seq(Messages)
        BY <3>1
      <4> HIDE DEF r
      <4>2. RangeOf(Append(r, k)) = RangeOf(r) \union {k}
        BY <4>1, RangeOfAppend
      <4> QED
        BY <4>2 DEF r
    <3>6. RangeOf(q) = RangeOf(Tail(q)) \union {Head(q)}
      BY <2>1, <3>1, RangeOfTail
    <3>3. /\ chan'[t] = Append(Tail(q), k) /\ dropped'[t] = dropped[t] \union {Head(q)}
          /\ \A u \in Subs : u # t => chan'[u] = chan[u] /\ dropped'[u] = dropped[u]
      BY <2>4 DEF BusTypeOK
    <3>4. CASE s = t
      BY <1>3, <2>1, <3>2, <3>3, <3>4, <3>6 DEF Holds
    <3>5. CASE s # t
      BY <2>1, <3>3, <3>5 DEF Holds
    <3> QED
      BY <3>4, <3>5
  <2> QED
    BY <1>3, <2>2, <2>3, <2>4 DEF PublishWrite, Full
<1>4. (\E t \in Subs : Read(t)) \/ (\E k \in Messages, t \in Subs : PublishWrite(k, t))
      \/ UNCHANGED <<chan, got, dropped>>
  BY DEF BusNext, busVars, chanVars, SubscribeStep, CallbackStep, PublishStep,
     SubscribeGetOrAdd,
     SubscribeAdd, SubscribeRegister, Cancel, CallbackComplete, CallbackLookup, CallbackRemove,
     PublishLookup, PublishSnapshot, PublishFinish
<1> QED
  BY <1>1, <1>2, <1>3, <1>4

(***************************************************************************)
(* A subscriber's channel carries its own chat's messages only.            *)
(***************************************************************************)
THEOREM OwnChatOnlyHolds == BusSpec => []OwnChatOnly
<1>1. BusInit => OwnChatOnly
  BY DEF BusInit, OwnChatOnly, Holds, RangeOf
<1>2. BusTypeOK /\ BusInv /\ OwnChatOnly /\ [BusNext]_busVars => OwnChatOnly'
  <2> SUFFICES ASSUME BusTypeOK, BusInv, OwnChatOnly, [BusNext]_busVars,
                      NEW s \in Subs, NEW m \in Messages, Holds(s, m)'
               PROVE  MsgChat[m] = SubChat[s]
    BY DEF OwnChatOnly
  <2>1. CASE Holds(s, m)
    BY <2>1 DEF OwnChatOnly
  <2>2. CASE PublishWrite(m, s)
    BY <2>2 DEF PublishWrite, BusInv, ListsAreOfOneChat
  <2> QED
    BY <2>1, <2>2, HoldsChanges
<1> QED
  BY <1>1, <1>2, BusInvariant, PTL DEF BusSpec

(***************************************************************************)
(* A subscription that has no rivals now had none before.                  *)
(***************************************************************************)
LEMMA UndisturbedBefore ==
  ASSUME BusTypeOK, BusInv, [BusNext]_busVars, NEW s \in Subs,
         subPc[s] = "subscribed", Undisturbed(s)'
  PROVE  Undisturbed(s)
<1>1. settled'[s] = settled[s]
  <2>1. CASE UNCHANGED settled
    BY <2>1
  <2>2. CASE \E t \in Subs : SubscribeGetOrAdd(t)
    BY <2>2 DEF BusTypeOK, SubscribeGetOrAdd
  <2>3. UNCHANGED settled \/ \E t \in Subs : SubscribeGetOrAdd(t)
    BY DEF BusNext, busVars, subVars, SubscribeStep, CallbackStep, PublishStep,
       SubscribeAdd, SubscribeRegister, Cancel, CallbackComplete, CallbackLookup,
       CallbackRemove, Read, PublishLookup, PublishSnapshot, PublishWrite, PublishFinish
  <2> QED
    BY <2>1, <2>2, <2>3
<1>2. \A t \in Subs : cancelled[t] => cancelled'[t]
  BY DEF BusTypeOK, BusNext, busVars, cbVars, SubscribeStep, CallbackStep, PublishStep,
     SubscribeGetOrAdd, SubscribeAdd, SubscribeRegister, Cancel, CallbackComplete, CallbackLookup,
     CallbackRemove, Read, PublishLookup, PublishSnapshot, PublishWrite, PublishFinish
<1> QED
  BY <1>1, <1>2 DEF Undisturbed, Rivals

(***************************************************************************)
(* A Publish call is moved by its own steps only.                          *)
(***************************************************************************)
LEMMA PublishMoves ==
  ASSUME BusTypeOK, [BusNext]_busVars, NEW m \in Messages
  PROVE  \/ UNCHANGED <<pubPc[m], pubList[m], pubLeft[m], audience[m]>>
         \/ PublishLookup(m) \/ PublishSnapshot(m) \/ PublishFinish(m)
         \/ \E t \in Subs : PublishWrite(m, t)
<1>1. CASE UNCHANGED pubVars
  BY <1>1 DEF pubVars
<1>2. ASSUME NEW k \in Messages, PublishLookup(k) \/ PublishSnapshot(k) \/ PublishFinish(k)
      PROVE  UNCHANGED <<pubPc[m], pubList[m], pubLeft[m], audience[m]>> \/ k = m
  BY <1>2 DEF BusTypeOK, PublishLookup, PublishSnapshot, PublishFinish
<1>3. ASSUME NEW k \in Messages, NEW t \in Subs, PublishWrite(k, t)
      PROVE  UNCHANGED <<pubPc[m], pubList[m], pubLeft[m], audience[m]>> \/ k = m
  BY <1>3 DEF BusTypeOK, PublishWrite
<1>4. \/ UNCHANGED pubVars
      \/ \E k \in Messages : PublishLookup(k) \/ PublishSnapshot(k) \/ PublishFinish(k)
      \/ \E k \in Messages, t \in Subs : PublishWrite(k, t)
  BY DEF BusNext, busVars, SubscribeStep, CallbackStep, PublishStep,
   SubscribeGetOrAdd,
     SubscribeAdd, SubscribeRegister, Cancel, CallbackComplete, CallbackLookup, CallbackRemove, Read
<1> QED
  BY <1>1, <1>2, <1>3, <1>4

(***************************************************************************)
(* A write to an open channel puts the message there.                      *)
(***************************************************************************)
LEMMA WriteArrives ==
  ASSUME BusTypeOK, NEW m \in Messages, NEW t \in Subs, PublishWrite(m, t)
  PROVE  ~closed[t] => m \in RangeOf(chan'[t])
<1>1. chan[t] \in Seq(Messages) /\ Capacity \in Nat \ {0}
  BY BusAssumption DEF BusTypeOK
<1>2. Len(chan[t]) = Capacity => chan[t] # <<>> /\ Tail(chan[t]) \in Seq(Messages)
  BY <1>1
<1>3. m \in RangeOf(Append(chan[t], m))
  BY <1>1, RangeOfAppend
<1>4. ASSUME Len(chan[t]) = Capacity PROVE m \in RangeOf(Append(Tail(chan[t]), m))
  <2> DEFINE r == Tail(chan[t])
  <2>1. r \in Seq(Messages)
    BY <1>2, <1>4
  <2> HIDE DEF r
  <2>2. m \in RangeOf(Append(r, m))
    BY <2>1, RangeOfAppend
  <2> QED
    BY <2>2 DEF r
<1> QED
  BY <1>3, <1>4 DEF PublishWrite, TryWriteFails, BusTypeOK, Full

(***************************************************************************)
(* Publish keeps hold of everyone it owes the message to.                  *)
(***************************************************************************)
LEMMA AudienceServedNext ==
  BusTypeOK /\ BusInv /\ AudienceServed /\ [BusNext]_busVars => AudienceServed'
<1> DEFINE Due(k, s) ==
      /\ SubChat[s] = MsgChat[k] /\ subPc[s] = "subscribed"
      /\ Undisturbed(s) =>
           /\ pubPc[k] = "found" => pubList[k] = subList[s]
           /\ pubPc[k] = "writing" => s \in pubLeft[k] \/ Holds(s, k)
           /\ pubPc[k] = "done" => Holds(s, k)
<1> SUFFICES ASSUME BusTypeOK, BusInv, AudienceServed, [BusNext]_busVars, NEW m \in Messages
             PROVE  /\ pubPc'[m] = "idle" => audience'[m] = {}
                    /\ \A s \in audience'[m] : Due(m, s)'
  BY DEF AudienceServed
<1>1. \A s \in Subs : subPc[s] = "subscribed" =>
        /\ subPc'[s] = "subscribed" /\ subList'[s] = subList[s]
        /\ Undisturbed(s)' => Undisturbed(s)
        /\ Holds(s, m) => Holds(s, m)'
  <2> SUFFICES ASSUME NEW s \in Subs, subPc[s] = "subscribed"
               PROVE  /\ subPc'[s] = "subscribed" /\ subList'[s] = subList[s]
                      /\ Undisturbed(s)' => Undisturbed(s)
                      /\ Holds(s, m) => Holds(s, m)'
    OBVIOUS
  <2>1. subPc'[s] = "subscribed" /\ subList'[s] = subList[s]
    <3>1. CASE UNCHANGED <<subPc, subList>>
      BY <3>1
    <3>2. CASE \E t \in Subs : SubscribeStep(t)
      BY <3>2 DEF BusTypeOK, SubscribeStep, SubscribeGetOrAdd, SubscribeAdd, SubscribeRegister
    <3>3. UNCHANGED <<subPc, subList>> \/ \E t \in Subs : SubscribeStep(t)
      BY DEF BusNext, busVars, subVars, CallbackStep, PublishStep,
         Cancel, CallbackComplete, CallbackLookup,
         CallbackRemove, Read, PublishLookup, PublishSnapshot, PublishWrite, PublishFinish
    <3> QED
      BY <3>1, <3>2, <3>3
  <2> QED
    BY <2>1, UndisturbedBefore, HoldsChanges
<1>2. audience[m] \subseteq Subs
  BY DEF BusTypeOK
<1>3. CASE UNCHANGED <<pubPc[m], pubList[m], pubLeft[m], audience[m]>>
  BY <1>1, <1>2, <1>3 DEF AudienceServed
<1>4. CASE PublishLookup(m)
  <2>1. /\ audience'[m] = {s \in Subs : SubChat[s] = MsgChat[m] /\ Live(s)}
        /\ pubList'[m] = dict[MsgChat[m]]
        /\ pubPc'[m] = IF dict[MsgChat[m]] = NoList THEN "done" ELSE "found"
    BY <1>4 DEF BusTypeOK, PublishLookup
  <2> SUFFICES ASSUME NEW s \in audience'[m] PROVE Due(m, s)'
    BY <2>1
  <2>2. s \in Subs /\ SubChat[s] = MsgChat[m] /\ subPc[s] = "subscribed"
    BY <2>1 DEF Live
  <2>3. Undisturbed(s) => dict[MsgChat[m]] = subList[s] /\ subList[s] # NoList
    BY <2>2 DEF BusInv, UndisturbedIsMapped, Locals
  <2> QED
    BY <1>1, <2>1, <2>2, <2>3
<1>5. CASE PublishSnapshot(m)
  <2>1. /\ pubPc[m] = "found" /\ pubPc'[m] = "writing"
        /\ pubLeft'[m] = list[pubList[m]] /\ audience' = audience
    BY <1>5 DEF BusTypeOK, PublishSnapshot
  <2> SUFFICES ASSUME NEW s \in audience[m] PROVE Due(m, s)'
    BY <2>1
  <2>2. s \in Subs /\ Due(m, s)
    BY <1>2 DEF AudienceServed
  <2>3. Undisturbed(s) => s \in list[subList[s]]
    BY <2>2 DEF BusInv, OnlyTheCancelledGo, Subscribed, Undisturbed
  <2> QED
    BY <1>1, <2>1, <2>2, <2>3
<1>6. ASSUME NEW t \in Subs, PublishWrite(m, t)
      PROVE  /\ pubPc'[m] = "idle" => audience'[m] = {}
             /\ \A s \in audience'[m] : Due(m, s)'
  <2>1. /\ pubPc[m] = "writing" /\ UNCHANGED <<pubPc, audience>>
        /\ pubLeft'[m] = pubLeft[m] \ {t}
    BY <1>6 DEF BusTypeOK, PublishWrite
  <2>2. ~closed[t] => m \in RangeOf(chan'[t])
    BY <1>6, WriteArrives
  <2> SUFFICES ASSUME NEW s \in audience[m] PROVE Due(m, s)'
    BY <2>1
  <2>3. s \in Subs /\ Due(m, s)
    BY <1>2 DEF AudienceServed
  <2>4. CASE s # t
    BY <1>1, <2>1, <2>3, <2>4
  <2>5. CASE s = t
    <3>1. Undisturbed(s) => ~closed[s]
      BY <2>3 DEF BusInv, OnlyTheCancelledGo, Undisturbed
    <3> QED
      BY <1>1, <2>1, <2>2, <2>3, <2>5, <3>1 DEF Holds
  <2> QED
    BY <2>4, <2>5
<1>7. CASE PublishFinish(m)
  <2>1. /\ pubPc[m] = "writing" /\ pubPc'[m] = "done" /\ pubLeft[m] = {}
        /\ audience' = audience
    BY <1>7 DEF BusTypeOK, PublishFinish
  <2> QED
    BY <1>1, <1>2, <2>1 DEF AudienceServed
<1> QED
  BY <1>3, <1>4, <1>5, <1>6, <1>7, PublishMoves

\* Publish keeps hold of its audience in every run of the bus.
LEMMA AudienceServedInvariant == BusSpec => []AudienceServed
<1>1. BusInit => AudienceServed
  BY DEF BusInit, AudienceServed
<1> QED
  BY <1>1, BusInvariant, AudienceServedNext, PTL DEF BusSpec

(***************************************************************************)
(* A Publish that is over has reached everyone who was subscribed when it  *)
(* began, is not cancelled and has no rivals.                              *)
(***************************************************************************)
THEOREM PublishReachesAudienceHolds == BusSpec => []PublishReachesAudience
<1>1. BusTypeOK /\ AudienceServed => PublishReachesAudience
  <2> SUFFICES ASSUME BusTypeOK, AudienceServed, NEW m \in Messages, pubPc[m] = "done",
                      NEW s \in audience[m], ~cancelled[s], Rivals(s) = {}
               PROVE  Holds(s, m)
    BY DEF PublishReachesAudience
  <2>1. subPc[s] = "subscribed"
    BY DEF AudienceServed
  <2>2. Undisturbed(s)
    BY <2>1 DEF Undisturbed
  <2> QED
    BY <2>2 DEF AudienceServed
<1> QED
  BY <1>1, BusInvariant, AudienceServedInvariant, PTL

-----------------------------------------------------------------------------
(***************************************************************************)
(* Each step of the system is a step of the bus, or leaves the bus alone.  *)
(***************************************************************************)
LEMMA BusRefined == [Next]_vars => [BusNext]_busVars
<1> SUFFICES ASSUME [Next]_vars PROVE [BusNext]_busVars
  OBVIOUS
<1>1. ASSUME NEW m \in Messages, Insert(m) \/ Publish(m) \/ DeleteMessage(m)
      PROVE  [BusNext]_busVars
  BY <1>1 DEF Insert, Publish, DeleteMessage, BusNext
<1>2. ASSUME NEW s \in Subs, NEW n \in Messages \union {0}, Call(s, n)
      PROVE  [BusNext]_busVars
  BY <1>2 DEF Call
<1>3. ASSUME NEW s \in Subs,
             Refuse(s) \/ Subscribe(s) \/ CatchUpQuery(s) \/ CatchUpFails(s) \/ StreamEnds(s)
      PROVE  [BusNext]_busVars
  BY <1>3 DEF Refuse, Subscribe, CatchUpQuery, CatchUpFails, StreamEnds, BusNext
<1>4. ASSUME NEW s \in Subs, CatchUpEmit(s) \/ LiveEmit(s)
      PROVE  [BusNext]_busVars
  BY <1>4 DEF CatchUpEmit, LiveEmit, BusNext
<1>5. CASE BusStep
  BY <1>5 DEF BusStep, BusNext
<1>6. CASE UNCHANGED vars
  BY <1>6 DEF vars
<1> QED
  BY <1>1, <1>2, <1>3, <1>4, <1>5, <1>6 DEF Next

(***************************************************************************)
(* The bus within the system behaves as the bus specification says: every  *)
(* theorem about BusSpec is one about Spec.                                *)
(***************************************************************************)
THEOREM UsesTheBus == Spec => BusSpec
<1>1. Init => BusInit
  BY DEF Init
<1> QED
  BY <1>1, BusRefined, PTL DEF Spec, BusSpec

(***************************************************************************)
(* So the types and the inductive invariant of the bus hold in the system. *)
(***************************************************************************)
LEMMA BusHere == Spec => [](BusTypeOK /\ BusInv)
BY UsesTheBus, BusInvariant, PTL

(***************************************************************************)
(* Appending to what was emitted keeps it a sequence of messages.          *)
(***************************************************************************)
LEMMA EmitTyped ==
  ASSUME TypeOK, NEW s \in Subs, NEW m \in Messages, Emit(s, m)
  PROVE  emitted' \in [Subs -> Seq(Messages)] /\ lastId' \in [Subs -> Messages \union {0}]
<1>1. Append(emitted[s], m) \in Seq(Messages)
  BY DEF TypeOK
<1> QED
  BY <1>1 DEF TypeOK, Emit

(***************************************************************************)
(* Every step keeps the types.                                             *)
(***************************************************************************)
LEMMA TypeNext == TypeOK /\ BusTypeOK' /\ [Next]_vars => TypeOK'
<1> SUFFICES ASSUME TypeOK, BusTypeOK', [Next]_vars PROVE TypeOK'
  OBVIOUS
<1> USE StreamAssumption, BusAssumption DEF TypeOK, sessionVars, streamVars
<1>1. ASSUME NEW m \in Messages, Insert(m) PROVE TypeOK'
  BY <1>1 DEF Insert
<1>2. ASSUME NEW m \in Messages, Publish(m) PROVE TypeOK'
  <2>1. inOrder' \in [Chats -> BOOLEAN]
    <3> DEFINE ok == inOrder[MsgChat[m]] /\ \A k \in Messages : k < m /\ MsgChat[k] = MsgChat[m] => pubPc[k] = "done"
    <3>1. ok \in BOOLEAN
      OBVIOUS
    <3>2. inOrder' = [inOrder EXCEPT ![MsgChat[m]] = ok]
      BY <1>2, Zenon DEF Publish
    <3> HIDE DEF ok
    <3> QED
      BY <3>1, <3>2
  <2> QED
    BY <1>2, <2>1 DEF Publish
<1>3. ASSUME NEW m \in Messages, DeleteMessage(m) PROVE TypeOK'
  BY <1>3 DEF DeleteMessage
<1>4. ASSUME NEW s \in Subs, NEW n \in Messages \union {0}, Call(s, n) PROVE TypeOK'
  BY <1>4 DEF Call
<1>5. ASSUME NEW s \in Subs, Refuse(s) \/ Subscribe(s) \/ StreamEnds(s) PROVE TypeOK'
  BY <1>5 DEF Refuse, Subscribe, StreamEnds
<1>6. ASSUME NEW s \in Subs, CatchUpQuery(s) PROVE TypeOK'
  BY <1>6 DEF CatchUpQuery
<1>7. ASSUME NEW s \in Subs, CatchUpFails(s) PROVE TypeOK'
  BY <1>7 DEF CatchUpFails
<1>8. ASSUME NEW s \in Subs, CatchUpEmit(s) PROVE TypeOK'
  <2>1. PICK m \in rows[s] : Emit(s, m) /\ rows' = [rows EXCEPT ![s] = @ \ {m}]
                             /\ UNCHANGED <<busVars, issued, db, phase, since, gaveUp, inOrder>>
    BY <1>8 DEF CatchUpEmit
  <2>2. m \in Messages
    OBVIOUS
  <2> QED
    BY <2>1, <2>2, EmitTyped
<1>9. ASSUME NEW s \in Subs, LiveEmit(s) PROVE TypeOK'
  <2>1. Head(chan[s]) \in Messages
    BY <1>9 DEF LiveEmit, Read, BusTypeOK
  <2>2. CASE Emit(s, Head(chan[s]))
    BY <1>9, <2>1, <2>2, EmitTyped DEF LiveEmit
  <2>3. CASE UNCHANGED <<emitted, lastId>>
    BY <1>9, <2>3 DEF LiveEmit
  <2> QED
    BY <1>9, <2>2, <2>3 DEF LiveEmit
<1>10. CASE BusStep
  BY <1>10 DEF BusStep
<1>11. CASE UNCHANGED vars
  BY <1>11 DEF vars
<1> QED
  BY <1>1, <1>2, <1>3, <1>4, <1>5, <1>6, <1>7, <1>8, <1>9, <1>10, <1>11 DEF Next

(***************************************************************************)
(* Type correctness of the streams, and of the bus they use.               *)
(***************************************************************************)
THEOREM TypeCorrect == Spec => []TypeOK
<1>1. Init => TypeOK
  <2> SUFFICES ASSUME Init PROVE TypeOK
    OBVIOUS
  <2>1. BusTypeOK
    BY BusTypeInit DEF Init
  <2> QED
    BY <2>1 DEF Init, TypeOK
<1> QED
  BY <1>1, TypeNext, BusHere, PTL DEF Spec

-----------------------------------------------------------------------------
(***************************************************************************)
(* Nothing but issued ids is ever in the database or on the bus.           *)
(***************************************************************************)
LEMMA OnlyIssuedNext ==
  TypeOK /\ TypeOK' /\ BusInv /\ OnlyIssued /\ [Next]_vars => OnlyIssued'
<1> SUFFICES ASSUME TypeOK, TypeOK', BusInv, OnlyIssued, [Next]_vars PROVE OnlyIssued'
  OBVIOUS
<1> USE StreamAssumption
<1>1. issued <= issued' /\ issued \in Nat /\ issued' \in Nat
  <2>1. Messages \union {0} \in SUBSET Nat
    OBVIOUS
  <2>2. issued \in Nat /\ issued' \in Nat
    BY <2>1 DEF TypeOK
  <2>3. ASSUME NEW m \in Messages, Insert(m) PROVE issued <= issued'
    BY <2>2, <2>3 DEF Insert
  <2>4. (\E m \in Messages : Insert(m)) \/ issued' = issued
    BY DEF Next, Publish, DeleteMessage, Call, Refuse, Subscribe, CatchUpQuery, CatchUpFails,
       CatchUpEmit, LiveEmit, StreamEnds, BusStep, vars, streamVars
  <2> QED
    BY <2>2, <2>3, <2>4
<1>2. \A m \in db' : m <= issued'
  <2>1. CASE db' \subseteq db
    BY <1>1, <2>1 DEF TypeOK, OnlyIssued
  <2>2. ASSUME NEW m \in Messages, Insert(m) PROVE \A k \in db' : k <= issued'
    BY <1>1, <2>2 DEF TypeOK, OnlyIssued, Insert
  <2> QED
    BY <2>1, <2>2 DEF Next, Publish, DeleteMessage, Call, Refuse, Subscribe, CatchUpQuery,
       CatchUpFails, CatchUpEmit, LiveEmit, StreamEnds, BusStep, vars, streamVars
<1>3. \A m \in Messages : pubPc'[m] # "idle" => m <= issued'
  <2> SUFFICES ASSUME NEW m \in Messages, pubPc'[m] # "idle" PROVE m <= issued'
    OBVIOUS
  <2>1. CASE pubPc[m] # "idle"
    BY <1>1, <2>1 DEF OnlyIssued
  <2>2. ASSUME NEW k \in Messages, Publish(k) PROVE pubPc[m] # "idle" \/ m <= issued'
    BY <2>2 DEF TypeOK, BusTypeOK, Publish, PublishLookup
  <2>3. CASE UNCHANGED pubPc
    BY <2>1, <2>3
  <2>4. ASSUME NEW k \in Messages, PublishStep(k) PROVE pubPc[m] # "idle"
    BY <2>4 DEF TypeOK, BusTypeOK, PublishStep, PublishSnapshot, PublishWrite, PublishFinish
  <2> QED
    BY <2>1, <2>2, <2>3, <2>4 DEF Next, Insert, DeleteMessage, Call, Refuse, Subscribe,
       SubscribeStep, SubscribeGetOrAdd, SubscribeAdd, SubscribeRegister, CatchUpQuery,
       CatchUpFails, CatchUpEmit, LiveEmit, Read, StreamEnds, BusStep, Cancel, CallbackStep,
       CallbackComplete, CallbackLookup, CallbackRemove, vars, busVars, pubVars
<1>4. ASSUME NEW s \in Subs, NEW m \in Messages, Holds(s, m)' PROVE m <= issued'
  <2>1. Holds(s, m) \/ PublishWrite(m, s)
    BY <1>4, BusRefined, HoldsChanges DEF TypeOK
  <2>2. PublishWrite(m, s) => pubPc[m] # "idle"
    BY DEF PublishWrite
  <2> QED
    BY <1>1, <2>1, <2>2 DEF OnlyIssued
<1> QED
  BY <1>2, <1>3, <1>4 DEF OnlyIssued

(***************************************************************************)
(* Emitting an id past the cursor keeps what was emitted in order.         *)
(***************************************************************************)
LEMMA EmitOrdered ==
  ASSUME TypeOK, CursorBetween, StreamOrdered, NEW s \in Subs, NEW m \in Messages,
         Emit(s, m), InChat(s, m), lastId[s] < m, m <= issued, UNCHANGED since,
         issued' = issued
  PROVE  /\ StreamOrdered'
         /\ \A t \in Subs : since'[t] <= lastId'[t] /\ lastId'[t] <= issued'
         /\ \A t \in Subs : \A i \in DOMAIN emitted'[t] : emitted'[t][i] <= lastId'[t]
<1> USE StreamAssumption
<1> DEFINE e == emitted[s]
<1>1. /\ e \in Seq(Messages) /\ DOMAIN e = 1..Len(e) /\ Len(e) \in Nat
      /\ emitted'[s] = Append(e, m) /\ lastId'[s] = m
      /\ \A t \in Subs : t # s => emitted'[t] = emitted[t] /\ lastId'[t] = lastId[t]
  BY DEF TypeOK, Emit
<1>2. /\ DOMAIN Append(e, m) = 1..(Len(e) + 1)
      /\ Append(e, m)[Len(e) + 1] = m
      /\ \A i \in 1..Len(e) : Append(e, m)[i] = e[i]
  BY <1>1
<1>3. /\ \A t \in Subs : since[t] \in Nat /\ lastId[t] \in Nat
      /\ issued \in Nat /\ m \in Nat
      /\ \A i \in 1..Len(e) : e[i] \in Nat
  BY <1>1 DEF TypeOK
<1>4. \A i \in 1..Len(e) : since[s] < e[i] /\ e[i] <= lastId[s] /\ e[i] <= issued /\ InChat(s, e[i])
  BY <1>1, <1>3 DEF CursorBetween, StreamOrdered
<1>5. since[s] <= lastId[s]
  BY DEF CursorBetween
<1>6. /\ \A i \in DOMAIN emitted'[s] : /\ InChat(s, emitted'[s][i]) /\ since[s] < emitted'[s][i]
                                       /\ emitted'[s][i] <= issued /\ emitted'[s][i] <= m
      /\ \A i, j \in DOMAIN emitted'[s] : i < j => emitted'[s][i] < emitted'[s][j]
  <2>1. \A i \in 1..(Len(e) + 1) : i \in 1..Len(e) \/ i = Len(e) + 1
    BY <1>1
  <2>2. \A i, j \in 1..Len(e) : i < j => e[i] < e[j]
    BY <1>1 DEF StreamOrdered
  <2>3. ASSUME NEW i \in 1..(Len(e) + 1)
        PROVE  /\ InChat(s, Append(e, m)[i]) /\ since[s] < Append(e, m)[i]
               /\ Append(e, m)[i] <= issued /\ Append(e, m)[i] <= m
    <3>1. CASE i \in 1..Len(e)
      <4>1. Append(e, m)[i] = e[i] /\ e[i] \in Nat
        BY <1>2, <1>3, <3>1
      <4> HIDE DEF e
      <4> QED
        BY <1>3, <1>4, <3>1, <4>1
    <3>2. CASE i = Len(e) + 1
      <4>1. Append(e, m)[i] = m
        BY <1>2, <3>2
      <4> HIDE DEF e
      <4> QED
        BY <1>3, <1>5, <4>1
    <3> QED
      BY <2>1, <3>1, <3>2
  <2>4. ASSUME NEW i \in 1..(Len(e) + 1), NEW j \in 1..(Len(e) + 1), i < j
        PROVE  Append(e, m)[i] < Append(e, m)[j]
    <3>1. i \in 1..Len(e)
      BY <1>1, <2>4
    <3>2. CASE j = Len(e) + 1
      BY <1>2, <1>3, <1>4, <3>1, <3>2
    <3>3. CASE j \in 1..Len(e)
      BY <1>2, <2>2, <2>4, <3>1, <3>3
    <3> QED
      BY <2>1, <3>2, <3>3
  <2> QED
    BY <1>1, <1>2, <2>3, <2>4
<1> HIDE DEF e
<1>7. StreamOrdered'
  <2> SUFFICES ASSUME NEW t \in Subs
               PROVE  /\ \A i \in DOMAIN emitted'[t] :
                           InChat(t, emitted'[t][i]) /\ since[t] < emitted'[t][i] /\ emitted'[t][i] <= issued
                      /\ \A i, j \in DOMAIN emitted'[t] : i < j => emitted'[t][i] < emitted'[t][j]
    BY DEF StreamOrdered, InChat
  <2>1. CASE t = s
    BY <1>6, <2>1
  <2>2. CASE t # s
    BY <1>1, <2>2 DEF StreamOrdered
  <2> QED
    BY <2>1, <2>2
<1>8. \A t \in Subs : since'[t] <= lastId'[t] /\ lastId'[t] <= issued'
  BY <1>1, <1>3, <1>5 DEF CursorBetween
<1>9. \A t \in Subs : \A i \in DOMAIN emitted'[t] : emitted'[t][i] <= lastId'[t]
  BY <1>1, <1>6 DEF CursorBetween
<1> QED
  BY <1>7, <1>8, <1>9

(***************************************************************************)
(* No step but an emission moves a cursor of a call under way or adds to   *)
(* what was emitted, and each emission is of an id past the cursor.        *)
(***************************************************************************)
LEMMA CursorNext ==
  TypeOK /\ StreamInv /\ [Next]_vars => CursorBetween' /\ StreamOrdered'
<1> SUFFICES ASSUME TypeOK, OnlyIssued, CursorBetween, StreamOrdered, [Next]_vars
             PROVE  CursorBetween' /\ StreamOrdered'
  BY DEF StreamInv
<1> USE StreamAssumption
<1>0. /\ issued \in Nat
      /\ \A s \in Subs : since[s] \in Nat /\ lastId[s] \in Nat /\ rows[s] \subseteq Messages
                         /\ emitted[s] \in Seq(Messages)
      /\ \A s \in Subs : \A i \in DOMAIN emitted[s] : emitted[s][i] \in Nat
      /\ \A m \in Messages : m \in Nat
  <2>1. ASSUME NEW s \in Subs, NEW i \in DOMAIN emitted[s] PROVE emitted[s][i] \in Nat
    <3>1. emitted[s] \in Seq(Messages)
      BY DEF TypeOK
    <3>2. emitted[s][i] \in Messages
      BY <3>1
    <3> QED
      BY <3>2
  <2>2. issued \in Nat /\ \A m \in Messages : m \in Nat
    BY DEF TypeOK
  <2>3. ASSUME NEW s \in Subs
        PROVE  since[s] \in Nat /\ lastId[s] \in Nat /\ rows[s] \subseteq Messages
               /\ emitted[s] \in Seq(Messages)
    <3>1. since[s] \in Messages \union {0} /\ lastId[s] \in Messages \union {0}
      BY DEF TypeOK
    <3>2. rows[s] \subseteq Messages
      BY DEF TypeOK
    <3>3. emitted[s] \in Seq(Messages)
      BY DEF TypeOK
    <3>4. \A x \in Messages \union {0} : x \in Nat
      BY <2>2
    <3> QED
      BY <3>1, <3>2, <3>3, <3>4, Zenon
  <2> QED
    BY <2>1, <2>2, <2>3
<1>1. ASSUME NEW m \in Messages, Insert(m) PROVE CursorBetween' /\ StreamOrdered'
  <2>1. /\ UNCHANGED <<phase, since, lastId, rows, emitted>>
        /\ issued' \in Nat /\ issued < issued'
    BY <1>0, <1>1 DEF Insert, sessionVars
  <2>2. CursorBetween'
    <3> SUFFICES ASSUME NEW s \in Subs
                 PROVE  /\ phase[s] = "idle" => since[s] = 0 /\ lastId[s] = 0
                        /\ phase[s] \in {"idle", "subscribing"} => emitted[s] = <<>> /\ rows[s] = {}
                        /\ since[s] <= lastId[s] /\ lastId[s] <= issued'
                        /\ \A k \in rows[s] : InChat(s, k) /\ lastId[s] < k /\ k <= issued'
                        /\ \A i \in DOMAIN emitted[s] : emitted[s][i] <= lastId[s]
      BY <2>1 DEF CursorBetween, InChat
    <3>1. lastId[s] <= issued'
      BY <1>0, <2>1 DEF CursorBetween
    <3>2. ASSUME NEW k \in rows[s] PROVE k <= issued'
      <4>1. k \in Nat /\ k <= issued
        BY <1>0 DEF CursorBetween
      <4> QED
        BY <1>0, <2>1, <4>1
    <3> QED
      BY <3>1, <3>2 DEF CursorBetween
  <2>3. StreamOrdered'
    BY <1>0, <2>1 DEF StreamOrdered, InChat
  <2> QED
    BY <2>2, <2>3
<1>2. CASE UNCHANGED <<issued, sessionVars>>
  <2>1. UNCHANGED <<issued, phase, since, lastId, rows, emitted>>
    BY <1>2 DEF sessionVars
  <2>2. CursorBetween'
    BY <2>1 DEF CursorBetween, InChat
  <2>3. StreamOrdered'
    BY <2>1 DEF StreamOrdered, InChat
  <2> QED
    BY <2>2, <2>3
<1>3. ASSUME NEW m \in Messages, Publish(m) \/ DeleteMessage(m)
      PROVE  CursorBetween' /\ StreamOrdered'
  BY <1>2, <1>3 DEF Publish, DeleteMessage
<1>4. ASSUME NEW s \in Subs, NEW n \in Messages \union {0}, Call(s, n)
      PROVE  CursorBetween' /\ StreamOrdered'
  <2>1. CursorBetween'
    BY <1>0, <1>4 DEF Call, TypeOK, CursorBetween, InChat
  <2>2. emitted[s] = <<>>
    BY <1>4 DEF Call, CursorBetween
  <2>3. StreamOrdered'
    BY <1>0, <1>4, <2>2 DEF Call, TypeOK, StreamOrdered, InChat
  <2> QED
    BY <2>1, <2>3
<1>5. ASSUME NEW s \in Subs, Refuse(s) \/ StreamEnds(s)
      PROVE  CursorBetween' /\ StreamOrdered'
  <2>1. /\ UNCHANGED <<issued, since, lastId, rows, emitted>>
        /\ phase' = [phase EXCEPT ![s] = "ended"]
    BY <1>5 DEF Refuse, StreamEnds
  <2>2. CursorBetween'
    BY <2>1 DEF TypeOK, CursorBetween, InChat
  <2>3. StreamOrdered'
    BY <2>1 DEF StreamOrdered, InChat
  <2> QED
    BY <2>2, <2>3
<1>6. ASSUME (\E s \in Subs : Subscribe(s)) \/ BusStep
      PROVE  CursorBetween' /\ StreamOrdered'
  BY <1>2, <1>6 DEF Subscribe, BusStep, streamVars
<1>7. ASSUME NEW s \in Subs, CatchUpQuery(s) PROVE CursorBetween' /\ StreamOrdered'
  BY <1>0, <1>7 DEF CatchUpQuery, TypeOK, OnlyIssued, CursorBetween, StreamOrdered, InChat
<1>8. ASSUME NEW s \in Subs, CatchUpFails(s) PROVE CursorBetween' /\ StreamOrdered'
  BY <1>0, <1>8 DEF CatchUpFails, TypeOK, CursorBetween, StreamOrdered, InChat
<1>9. ASSUME NEW s \in Subs, CatchUpEmit(s) PROVE CursorBetween' /\ StreamOrdered'
  <2>1. PICK m \in rows[s] :
          /\ phase[s] = "streaming"
          /\ \A k \in rows[s] : m <= k
          /\ Emit(s, m)
          /\ rows' = [rows EXCEPT ![s] = @ \ {m}]
          /\ UNCHANGED <<busVars, issued, db, phase, since, gaveUp, inOrder>>
    BY <1>9, Zenon DEF CatchUpEmit
  <2>2. m \in Messages /\ InChat(s, m) /\ lastId[s] < m /\ m <= issued
    BY <1>0 DEF CursorBetween
  <2>3. /\ StreamOrdered'
        /\ \A t \in Subs : since'[t] <= lastId'[t] /\ lastId'[t] <= issued'
        /\ \A t \in Subs : \A i \in DOMAIN emitted'[t] : emitted'[t][i] <= lastId'[t]
    BY <2>1, <2>2, EmitOrdered
  <2>4. ASSUME NEW t \in Subs, NEW k \in rows'[t]
        PROVE  InChat(t, k) /\ lastId'[t] < k /\ k <= issued'
    <3>1. k \in rows[t] /\ (t = s => k # m)
      BY <2>1, <2>4 DEF TypeOK
    <3>2. t = s => m <= k
      BY <2>1, <3>1
    <3>3. k \in Nat /\ m \in Nat
      BY <1>0, <2>2, <3>1
    <3>4. lastId'[t] = IF t = s THEN m ELSE lastId[t]
      BY <2>1 DEF Emit, TypeOK
    <3>5. InChat(t, k) /\ lastId[t] < k /\ k <= issued
      BY <3>1 DEF CursorBetween
    <3> QED
      BY <2>1, <3>1, <3>2, <3>3, <3>4, <3>5
  <2>5. ASSUME NEW t \in Subs
        PROVE  /\ phase'[t] = "idle" => since'[t] = 0 /\ lastId'[t] = 0
               /\ phase'[t] \in {"idle", "subscribing"} => emitted'[t] = <<>> /\ rows'[t] = {}
    BY <2>1 DEF TypeOK, Emit, CursorBetween
  <2> QED
    BY <2>3, <2>4, <2>5 DEF CursorBetween, InChat
<1>10. ASSUME NEW s \in Subs, LiveEmit(s) PROVE CursorBetween' /\ StreamOrdered'
  <2> DEFINE m == Head(chan[s])
  <2>1. /\ phase[s] = "streaming" /\ rows[s] = {} /\ chan[s] # <<>>
        /\ UNCHANGED <<issued, db, phase, since, rows, gaveUp, inOrder>>
    BY <1>10 DEF LiveEmit, Read
  <2>2. CASE UNCHANGED <<emitted, lastId>>
    BY <2>1, <2>2 DEF CursorBetween, StreamOrdered, InChat
  <2>3. CASE Passes(s, m) /\ Emit(s, m)
    <3>1. m \in Messages /\ m \in RangeOf(chan[s])
      BY <2>1 DEF TypeOK, BusTypeOK, RangeOf
    <3>2. m <= issued
      BY <3>1 DEF OnlyIssued, Holds
    <3> HIDE DEF m
    <3>3. InChat(s, m) /\ lastId[s] < m
      BY <1>0, <2>3, <3>1 DEF Passes
    <3>4. /\ StreamOrdered'
          /\ \A t \in Subs : since'[t] <= lastId'[t] /\ lastId'[t] <= issued'
          /\ \A t \in Subs : \A i \in DOMAIN emitted'[t] : emitted'[t][i] <= lastId'[t]
      BY <2>1, <2>3, <3>1, <3>2, <3>3, EmitOrdered
    <3>5. ASSUME NEW t \in Subs
          PROVE  /\ phase'[t] = "idle" => since'[t] = 0 /\ lastId'[t] = 0
                 /\ phase'[t] \in {"idle", "subscribing"} => emitted'[t] = <<>> /\ rows'[t] = {}
                 /\ \A k \in rows'[t] : InChat(t, k) /\ lastId'[t] < k /\ k <= issued'
      BY <2>1, <2>3 DEF TypeOK, Emit, CursorBetween
    <3> QED
      BY <3>4, <3>5 DEF CursorBetween, InChat
  <2> QED
    BY <1>10, <2>2, <2>3 DEF LiveEmit
<1>11. CASE UNCHANGED vars
  BY <1>2, <1>11 DEF vars, streamVars
<1> QED
  BY <1>1, <1>3, <1>4, <1>5, <1>6, <1>7, <1>8, <1>9, <1>10, <1>11 DEF Next

(***************************************************************************)
(* The inductive invariant of the streams holds of every run.              *)
(***************************************************************************)
LEMMA StreamInvariant == Spec => []StreamInv
<1>1. Init => StreamInv
  BY DEF Init, BusInit, StreamInv, OnlyIssued, CursorBetween, StreamOrdered, Holds, RangeOf
<1>2. TypeOK /\ TypeOK' /\ BusInv /\ StreamInv /\ [Next]_vars => StreamInv'
  BY OnlyIssuedNext, CursorNext DEF StreamInv
<1> QED
  BY <1>1, <1>2, TypeCorrect, BusHere, PTL DEF Spec

(***************************************************************************)
(* Every response stream is of its chat, past `since' and strictly         *)
(* increasing: neither the overlap of catch-up and bus, nor a publish out  *)
(* of order, makes StreamChat emit a message twice or backwards.           *)
(***************************************************************************)
THEOREM StreamOrderedHolds == Spec => []StreamOrdered
<1>1. StreamInv => StreamOrdered
  BY DEF StreamInv
<1> QED
  BY <1>1, StreamInvariant, PTL

-----------------------------------------------------------------------------
(***************************************************************************)
(* Who moves what of a stream under way: its cursor, rows and emissions    *)
(* are its own.                                                            *)
(***************************************************************************)
LEMMA StreamMoves ==
  ASSUME TypeOK, [Next]_vars, NEW s \in Subs, phase[s] = "streaming"
  PROVE  /\ since'[s] = since[s]
         /\ gaveUp[s] => gaveUp'[s]
         /\ \/ UNCHANGED <<lastId[s], rows[s], emitted[s]>>
            \/ CatchUpEmit(s) \/ LiveEmit(s) \/ gaveUp'[s]
<1> DEFINE Stays == /\ since'[s] = since[s] /\ gaveUp'[s] = gaveUp[s]
                    /\ UNCHANGED <<lastId[s], rows[s], emitted[s]>>
<1>1. ASSUME NEW m \in Messages, Insert(m) \/ Publish(m) \/ DeleteMessage(m) PROVE Stays
  BY <1>1 DEF Insert, Publish, DeleteMessage, sessionVars
<1>2. ASSUME NEW t \in Subs, NEW n \in Messages \union {0}, Call(t, n) PROVE Stays
  BY <1>2 DEF TypeOK, Call
<1>3. ASSUME NEW t \in Subs, Refuse(t) \/ Subscribe(t) \/ StreamEnds(t) PROVE Stays
  BY <1>3 DEF Refuse, Subscribe, StreamEnds, streamVars, sessionVars
<1>4. ASSUME NEW t \in Subs, CatchUpQuery(t) PROVE Stays
  BY <1>4 DEF TypeOK, CatchUpQuery
<1>5. ASSUME NEW t \in Subs, CatchUpFails(t)
      PROVE  Stays \/ (since'[s] = since[s] /\ gaveUp'[s])
  <2>1. CASE t = s
    BY <1>5, <2>1 DEF TypeOK, CatchUpFails
  <2>2. CASE t # s
    BY <1>5, <2>2 DEF TypeOK, CatchUpFails
  <2> QED
    BY <2>1, <2>2
<1>6. ASSUME NEW t \in Subs, CatchUpEmit(t) \/ LiveEmit(t)
      PROVE  /\ since'[s] = since[s] /\ gaveUp'[s] = gaveUp[s]
             /\ t # s => Stays
  <2>1. CASE CatchUpEmit(t)
    BY <2>1 DEF TypeOK, CatchUpEmit, Emit
  <2>2. CASE LiveEmit(t)
    BY <2>2 DEF TypeOK, LiveEmit, Emit
  <2> QED
    BY <1>6, <2>1, <2>2
<1>7. CASE BusStep \/ UNCHANGED vars
  BY <1>7 DEF BusStep, vars, streamVars, sessionVars
<1> QED
  BY <1>1, <1>2, <1>3, <1>4, <1>5, <1>6, <1>7 DEF Next

(***************************************************************************)
(* A stream that is owed a message was owed it before, unless the row is   *)
(* new or the stream has just asked the database.                          *)
(***************************************************************************)
LEMMA OwedBefore ==
  ASSUME TypeOK, [Next]_vars, NEW s \in Subs, NEW m \in Messages, Owed(s, m)', ~gaveUp'[s]
  PROVE  \/ Owed(s, m)
         \/ (phase[s] = "streaming" /\ Insert(m))
         \/ CatchUpQuery(s)
<1>1. phase[s] = "streaming" \/ CatchUpQuery(s)
  <2>1. CASE UNCHANGED phase
    BY <2>1 DEF Owed
  <2>2. ASSUME NEW t \in Subs, NEW n \in Messages \union {0}, Call(t, n)
        PROVE  phase[s] = "streaming"
    BY <2>2 DEF TypeOK, Owed, Call
  <2>3. ASSUME NEW t \in Subs, Refuse(t) \/ StreamEnds(t) PROVE phase[s] = "streaming"
    BY <2>3 DEF TypeOK, Owed, Refuse, StreamEnds
  <2>4. ASSUME NEW t \in Subs, CatchUpQuery(t) PROVE phase[s] = "streaming" \/ CatchUpQuery(s)
    BY <2>4 DEF TypeOK, Owed, CatchUpQuery
  <2>5. ASSUME NEW t \in Subs, CatchUpFails(t) PROVE phase[s] = "streaming"
    BY <2>5 DEF TypeOK, Owed, CatchUpFails
  <2> QED
    BY <2>1, <2>2, <2>3, <2>4, <2>5 DEF Next, Insert, Publish, DeleteMessage, Subscribe,
       CatchUpEmit, LiveEmit, BusStep, vars, streamVars, sessionVars
<1>2. m \in db \/ Insert(m)
  <2>1. CASE db' \subseteq db
    BY <2>1 DEF Owed
  <2>2. ASSUME NEW k \in Messages, Insert(k) PROVE m \in db \/ Insert(m)
    BY <2>2 DEF Owed, Insert
  <2> QED
    BY <2>1, <2>2 DEF Next, Publish, DeleteMessage, Call, Refuse, Subscribe, CatchUpQuery,
       CatchUpFails, CatchUpEmit, LiveEmit, StreamEnds, BusStep, vars, streamVars
<1>3. phase[s] = "streaming" => since'[s] = since[s]
  BY StreamMoves
<1> QED
  BY <1>1, <1>2, <1>3 DEF Owed, InChat

(***************************************************************************)
(* An emission adds its message and moves the cursor to it.                *)
(***************************************************************************)
LEMMA EmittedGrows ==
  ASSUME TypeOK, NEW s \in Subs, NEW m \in Messages, Emit(s, m)
  PROVE  /\ Emitted(s)' = Emitted(s) \union {m}
         /\ lastId'[s] = m
<1>1. emitted[s] \in Seq(Messages)
  BY DEF TypeOK
<1>2. emitted'[s] = Append(emitted[s], m) /\ lastId'[s] = m
  BY DEF TypeOK, Emit
<1> QED
  BY <1>1, <1>2, RangeOfAppend DEF Emitted

(***************************************************************************)
(* What the catch-up has or has emitted, it keeps, while it does not fail. *)
(***************************************************************************)
LEMMA CaughtKept ==
  ASSUME TypeOK, [Next]_vars, NEW s \in Subs, NEW m \in Messages,
         phase[s] = "streaming", ~gaveUp'[s], Caught(s, m)
  PROVE  Caught(s, m)'
<1>1. CASE UNCHANGED <<lastId[s], rows[s], emitted[s]>>
  BY <1>1 DEF Caught, Emitted
<1>2. CASE CatchUpEmit(s)
  <2>1. PICK k \in rows[s] : Emit(s, k) /\ rows' = [rows EXCEPT ![s] = @ \ {k}]
    BY <1>2, Zenon DEF CatchUpEmit
  <2>2. k \in Messages /\ rows'[s] = rows[s] \ {k}
    BY <2>1 DEF TypeOK
  <2>3. Emitted(s)' = Emitted(s) \union {k}
    BY <2>1, <2>2, EmittedGrows
  <2> QED
    BY <2>2, <2>3 DEF Caught
<1>3. CASE LiveEmit(s)
  <2>1. rows'[s] = rows[s] /\ Head(chan[s]) \in Messages
    BY <1>3 DEF LiveEmit, Read, TypeOK, BusTypeOK
  <2>2. Emit(s, Head(chan[s])) \/ UNCHANGED emitted
    BY <1>3 DEF LiveEmit
  <2>3. Emitted(s) \subseteq Emitted(s)'
    BY <2>1, <2>2, EmittedGrows DEF Emitted
  <2> QED
    BY <2>1, <2>3 DEF Caught
<1> QED
  BY <1>1, <1>2, <1>3, StreamMoves

(***************************************************************************)
(* A stream that is not excused now was not excused before.                *)
(***************************************************************************)
LEMMA ExcusedBefore ==
  ASSUME TypeOK, BusInv, [Next]_vars, NEW s \in Subs,
         phase[s] = "streaming", subPc[s] = "subscribed", ~Excused(s)'
  PROVE  ~Excused(s) /\ Undisturbed(s) /\ Undisturbed(s)'
<1>1. subPc'[s] = "subscribed"
  <2>1. CASE UNCHANGED subPc
    BY <2>1
  <2>2. ASSUME NEW t \in Subs, SubscribeStep(t) PROVE subPc'[s] = "subscribed"
    BY <2>2 DEF TypeOK, BusTypeOK, SubscribeStep, SubscribeGetOrAdd, SubscribeAdd, SubscribeRegister
  <2>3. UNCHANGED subPc \/ \E t \in Subs : SubscribeStep(t)
    BY BusRefined DEF BusNext, busVars, subVars, CallbackStep, PublishStep, Cancel, CallbackComplete,
       CallbackLookup, CallbackRemove, Read, PublishLookup, PublishSnapshot, PublishWrite, PublishFinish
  <2> QED
    BY <2>1, <2>2, <2>3
<1>2. Undisturbed(s)'
  BY <1>1 DEF Undisturbed, Excused
<1>3. Undisturbed(s)
  BY <1>2, BusRefined, UndisturbedBefore DEF TypeOK
<1>4. ~gaveUp[s]
  BY StreamMoves DEF Excused
<1> QED
  BY <1>2, <1>3, <1>4 DEF Undisturbed, Excused

(***************************************************************************)
(* A stream has subscribed before it queries.                              *)
(***************************************************************************)
LEMMA SubscribedFirstNext == TypeOK /\ SubscribedFirst /\ [Next]_vars => SubscribedFirst'
<1> SUFFICES ASSUME TypeOK, SubscribedFirst, [Next]_vars, NEW s \in Subs
             PROVE  /\ phase'[s] = "streaming" => subPc'[s] = "subscribed"
                    /\ phase'[s] = "subscribing" => lastId'[s] = since'[s]
  BY DEF SubscribedFirst
<1> USE DEF TypeOK, SubscribedFirst
<1>1. CASE UNCHANGED <<subPc, phase, lastId, since>>
  BY <1>1
<1>2. ASSUME NEW t \in Subs, NEW n \in Messages \union {0}, Call(t, n)
      PROVE  /\ phase'[s] = "streaming" => subPc'[s] = "subscribed"
             /\ phase'[s] = "subscribing" => lastId'[s] = since'[s]
  BY <1>2 DEF Call, busVars, subVars
<1>3. ASSUME NEW t \in Subs, Refuse(t) \/ StreamEnds(t) \/ CatchUpQuery(t) \/ CatchUpFails(t)
      PROVE  /\ phase'[s] = "streaming" => subPc'[s] = "subscribed"
             /\ phase'[s] = "subscribing" => lastId'[s] = since'[s]
  BY <1>3 DEF Refuse, StreamEnds, CatchUpQuery, CatchUpFails, busVars, subVars
<1>4. ASSUME NEW t \in Subs, Subscribe(t)
      PROVE  /\ phase'[s] = "streaming" => subPc'[s] = "subscribed"
             /\ phase'[s] = "subscribing" => lastId'[s] = since'[s]
  <2>1. phase[t] = "subscribing" /\ UNCHANGED <<phase, lastId, since>>
    BY <1>4 DEF Subscribe, streamVars, sessionVars
  <2>2. s # t => subPc'[s] = subPc[s]
    BY <1>4 DEF BusTypeOK, Subscribe, SubscribeStep, SubscribeGetOrAdd, SubscribeAdd, SubscribeRegister
  <2> QED
    BY <2>1, <2>2
<1>5. ASSUME NEW t \in Subs, CatchUpEmit(t) \/ LiveEmit(t)
      PROVE  /\ phase'[s] = "streaming" => subPc'[s] = "subscribed"
             /\ phase'[s] = "subscribing" => lastId'[s] = since'[s]
  <2>1. phase[t] = "streaming" /\ UNCHANGED <<subPc, phase, since>>
    BY <1>5 DEF CatchUpEmit, LiveEmit, Read, busVars, subVars
  <2>2. s # t => lastId'[s] = lastId[s]
    BY <1>5 DEF CatchUpEmit, LiveEmit, Emit
  <2> QED
    BY <2>1, <2>2
<1>6. CASE BusStep
  BY <1>6 DEF BusStep, streamVars, sessionVars, subVars, Cancel, CallbackStep, CallbackComplete,
     CallbackLookup, CallbackRemove, PublishStep, PublishSnapshot, PublishWrite, PublishFinish
<1> QED
  BY <1>1, <1>2, <1>3, <1>4, <1>5, <1>6 DEF Next, Insert, Publish, PublishLookup, DeleteMessage,
     vars, busVars, subVars, streamVars, sessionVars

(***************************************************************************)
(* In-order publishing is either kept or given up for good, chat by chat.  *)
(***************************************************************************)
LEMMA InOrderBefore ==
  ASSUME TypeOK, [Next]_vars, NEW c \in Chats, inOrder'[c]
  PROVE  inOrder[c]
<1>1. CASE UNCHANGED inOrder
  BY <1>1
<1>2. ASSUME NEW m \in Messages, Publish(m) PROVE inOrder[c]
  <2> DEFINE older == \A k \in Messages : k < m /\ MsgChat[k] = MsgChat[m] => pubPc[k] = "done"
  <2>1. inOrder' = [inOrder EXCEPT ![MsgChat[m]] = inOrder[MsgChat[m]] /\ older]
    BY <1>2, Zenon DEF Publish
  <2>2. c # MsgChat[m] => inOrder'[c] = inOrder[c]
    BY <2>1 DEF TypeOK
  <2>3. c = MsgChat[m] => (inOrder'[c] <=> inOrder[c] /\ older)
    <3> HIDE DEF older
    <3> QED
      BY <2>1, Zenon DEF TypeOK
  <2> QED
    BY <2>2, <2>3
<1> QED
  BY <1>1, <1>2 DEF Next, Insert, DeleteMessage, Call, Refuse, Subscribe, CatchUpQuery,
     CatchUpFails, CatchUpEmit, LiveEmit, StreamEnds, BusStep, vars, streamVars

(***************************************************************************)
(* A Publish that begins in order finds its older ones done.               *)
(***************************************************************************)
LEMMA PublishedInOrder ==
  ASSUME TypeOK, NEW m \in Messages, Publish(m), inOrder'[MsgChat[m]],
         NEW k \in Messages, k < m, MsgChat[k] = MsgChat[m]
  PROVE  pubPc[k] = "done"
<1> DEFINE older == \A i \in Messages : i < m /\ MsgChat[i] = MsgChat[m] => pubPc[i] = "done"
<1>1. inOrder' = [inOrder EXCEPT ![MsgChat[m]] = inOrder[MsgChat[m]] /\ older]
  BY Zenon DEF Publish
<1>2. MsgChat[m] \in Chats
  BY BusAssumption
<1>3. inOrder'[MsgChat[m]] => older
  <2> HIDE DEF older
  <2> QED
    BY <1>1, <1>2, Zenon DEF TypeOK
<1> QED
  BY <1>3

\* So while publishing is in order, each Publish that has begun has its older ones done.
LEMMA OrderedPublishNext == TypeOK /\ OrderedPublish /\ [Next]_vars => OrderedPublish'
<1> SUFFICES ASSUME TypeOK, OrderedPublish, [Next]_vars, NEW m \in Messages, NEW k \in Messages,
                    inOrder'[MsgChat[m]], MsgChat[k] = MsgChat[m], k < m, pubPc'[m] # "idle"
             PROVE  pubPc'[k] = "done"
  BY DEF OrderedPublish
<1>1. pubPc[k] = "done" => pubPc'[k] = "done"
  <2>1. pubPc[k] = "done" => UNCHANGED <<pubPc[k], pubList[k], pubLeft[k], audience[k]>>
    BY BusRefined, PublishMoves DEF TypeOK, PublishLookup, PublishSnapshot, PublishFinish, PublishWrite
  <2> QED
    BY <2>1
<1>2. MsgChat[m] \in Chats
  BY BusAssumption
<1>3. inOrder[MsgChat[m]]
  BY <1>2, InOrderBefore
<1>4. CASE pubPc[m] # "idle"
  BY <1>1, <1>3, <1>4 DEF OrderedPublish
<1>5. CASE pubPc[m] = "idle"
  <2>1. PublishLookup(m)
    BY <1>5, BusRefined, PublishMoves DEF TypeOK, PublishSnapshot, PublishFinish, PublishWrite
  <2>2. Publish(m)
    <3>1. \A i \in Messages : Publish(i) => i = m
      BY <1>5 DEF TypeOK, BusTypeOK, Publish, PublishLookup
    <3>2. CASE UNCHANGED pubPc
      BY <1>5, <3>2
    <3>3. ASSUME NEW i \in Messages, PublishStep(i) PROVE FALSE
      BY <1>5, <3>3 DEF TypeOK, BusTypeOK, PublishStep, PublishSnapshot, PublishWrite, PublishFinish
    <3> QED
      BY <3>1, <3>2, <3>3 DEF Next, Insert, DeleteMessage, Call, Refuse, Subscribe,
         SubscribeStep, SubscribeGetOrAdd, SubscribeAdd, SubscribeRegister, CatchUpQuery,
         CatchUpFails, CatchUpEmit, LiveEmit, Read, StreamEnds, BusStep, Cancel, CallbackStep,
         CallbackComplete, CallbackLookup, CallbackRemove, vars, busVars, pubVars
  <2> QED
    BY <1>1, <2>2, PublishedInOrder
<1> QED
  BY <1>4, <1>5

(***************************************************************************)
(* Publish writes a message to a subscriber once: it comes to hold one     *)
(* when the write is no longer to come.                                    *)
(***************************************************************************)
LEMMA ComingBefore ==
  ASSUME BusTypeOK, [BusNext]_busVars, NEW s \in Subs, NEW m \in Messages, Coming(s, m)'
  PROVE  Coming(s, m) /\ ~PublishWrite(m, s)
<1>1. Coming(s, m)
  <2>1. CASE UNCHANGED <<pubPc[m], pubList[m], pubLeft[m], audience[m]>>
    BY <2>1 DEF Coming
  <2>2. CASE PublishLookup(m) \/ PublishSnapshot(m)
    BY <2>2 DEF Coming, PublishLookup, PublishSnapshot
  <2>3. CASE PublishFinish(m)
    BY <2>3 DEF BusTypeOK, Coming, PublishFinish
  <2>4. ASSUME NEW t \in Subs, PublishWrite(m, t) PROVE Coming(s, m)
    BY <2>4 DEF BusTypeOK, Coming, PublishWrite
  <2> QED
    BY <2>1, <2>2, <2>3, <2>4, PublishMoves
<1>2. PublishWrite(m, s) => ~Coming(s, m)'
  BY DEF BusTypeOK, Coming, PublishWrite
<1> QED
  BY <1>1, <1>2

\* So no subscriber holds a message before its write.
LEMMA HeldOnceNext == BusTypeOK /\ HeldOnce /\ [BusNext]_busVars => HeldOnce'
<1> SUFFICES ASSUME BusTypeOK, HeldOnce, [BusNext]_busVars,
                    NEW s \in Subs, NEW m \in Messages, Coming(s, m)'
             PROVE  ~Holds(s, m)'
  BY DEF HeldOnce
<1>1. ~Holds(s, m)
  BY ComingBefore DEF HeldOnce
<1> QED
  BY <1>1, ComingBefore, HoldsChanges

(***************************************************************************)
(* A stream's channel is moved by its reader and by the writes to it.      *)
(***************************************************************************)
LEMMA ChannelMoves ==
  ASSUME TypeOK, [Next]_vars, NEW s \in Subs
  PROVE  \/ UNCHANGED <<chan[s], dropped[s]>>
         \/ LiveEmit(s)
         \/ \E m \in Messages : PublishWrite(m, s)
<1>1. CASE UNCHANGED <<chan, dropped>>
  BY <1>1
<1>2. ASSUME NEW t \in Subs, LiveEmit(t)
      PROVE  UNCHANGED <<chan[s], dropped[s]>> \/ LiveEmit(s)
  <2>1. t # s => UNCHANGED <<chan[s], dropped[s]>>
    BY <1>2 DEF TypeOK, BusTypeOK, LiveEmit, Read
  <2> QED
    BY <1>2, <2>1
<1>3. ASSUME NEW m \in Messages, NEW t \in Subs, PublishWrite(m, t)
      PROVE  UNCHANGED <<chan[s], dropped[s]>> \/ \E k \in Messages : PublishWrite(k, s)
  <2>1. t # s => UNCHANGED <<chan[s], dropped[s]>>
    BY <1>3 DEF TypeOK, BusTypeOK, PublishWrite
  <2> QED
    BY <1>3, <2>1
<1> QED
  BY <1>1, <1>2, <1>3 DEF Next, Insert, Publish, PublishLookup, DeleteMessage, Call, Refuse,
     Subscribe, SubscribeStep, SubscribeGetOrAdd, SubscribeAdd, SubscribeRegister, CatchUpQuery,
     CatchUpFails, CatchUpEmit, StreamEnds, BusStep, Cancel, CallbackStep, CallbackComplete,
     CallbackLookup, CallbackRemove, PublishStep, PublishSnapshot, PublishFinish,
     vars, busVars, chanVars

(***************************************************************************)
(* A write adds its message to the channel's end, over its oldest one if   *)
(* the channel is full.                                                    *)
(***************************************************************************)
LEMMA WriteChanges ==
  ASSUME BusTypeOK, NEW s \in Subs, NEW m \in Messages, PublishWrite(m, s)
  PROVE  \/ UNCHANGED <<chan[s], dropped[s]>>
         \/ chan'[s] = Append(chan[s], m) /\ dropped'[s] = dropped[s]
         \/ /\ chan[s] # <<>> /\ chan'[s] = Append(Tail(chan[s]), m)
            /\ dropped'[s] = dropped[s] \union {Head(chan[s])}
<1>1. chan[s] \in Seq(Messages) /\ Capacity \in Nat \ {0}
  BY BusAssumption DEF BusTypeOK
<1>2. Full(s) => chan[s] # <<>>
  BY <1>1 DEF Full
<1> QED
  BY <1>2 DEF BusTypeOK, PublishWrite

(***************************************************************************)
(* Ascending sequences stay ascending without their head, and with a       *)
(* bigger element at their end.                                            *)
(***************************************************************************)
LEMMA TailAscends ==
  ASSUME NEW q \in Seq(Nat), q # <<>>, Ascends(q)
  PROVE  Ascends(Tail(q)) /\ \A x \in RangeOf(Tail(q)) : Head(q) < x
<1>1. /\ DOMAIN q = 1..Len(q) /\ Len(q) \in Nat \ {0}
      /\ DOMAIN Tail(q) = 1..(Len(q) - 1)
      /\ Head(q) = q[1]
      /\ \A i \in 1..(Len(q) - 1) : Tail(q)[i] = q[i + 1]
  OBVIOUS
<1>2. \A i \in 1..(Len(q) - 1) : i + 1 \in 1..Len(q) /\ 1 < i + 1
  BY <1>1
<1>3. \A i \in 1..(Len(q) - 1) : Head(q) < Tail(q)[i]
  BY <1>1, <1>2 DEF Ascends
<1>4. Ascends(Tail(q))
  <2> SUFFICES ASSUME NEW i \in 1..(Len(q) - 1), NEW j \in 1..(Len(q) - 1), i < j
               PROVE  Tail(q)[i] < Tail(q)[j]
    BY <1>1 DEF Ascends
  <2>1. i + 1 < j + 1
    BY <1>1
  <2> QED
    BY <1>1, <1>2, <2>1 DEF Ascends
<1> QED
  BY <1>1, <1>3, <1>4 DEF RangeOf

\* The second half of it.
LEMMA AppendAscends ==
  ASSUME NEW q \in Seq(Nat), NEW m \in Nat, Ascends(q), \A x \in RangeOf(q) : x < m
  PROVE  Ascends(Append(q, m))
<1>1. /\ DOMAIN Append(q, m) = 1..(Len(q) + 1)
      /\ DOMAIN q = 1..Len(q) /\ Len(q) \in Nat
      /\ Append(q, m)[Len(q) + 1] = m
      /\ \A i \in 1..Len(q) : Append(q, m)[i] = q[i]
  OBVIOUS
<1> SUFFICES ASSUME NEW i \in 1..(Len(q) + 1), NEW j \in 1..(Len(q) + 1), i < j
             PROVE  Append(q, m)[i] < Append(q, m)[j]
  BY <1>1 DEF Ascends
<1>2. i \in 1..Len(q) /\ (j \in 1..Len(q) \/ j = Len(q) + 1)
  BY <1>1
<1>3. q[i] < m
  BY <1>1, <1>2 DEF RangeOf
<1>4. CASE j = Len(q) + 1
  BY <1>1, <1>2, <1>3, <1>4
<1>5. CASE j \in 1..Len(q)
  BY <1>1, <1>2, <1>5 DEF Ascends
<1> QED
  BY <1>2, <1>4, <1>5

(***************************************************************************)
(* A sequence of messages is one of numbers.                               *)
(***************************************************************************)
LEMMA SequencesOfIds == ASSUME NEW q \in Seq(Messages) PROVE q \in Seq(Nat)
<1>1. /\ q \in [1..Len(q) -> Messages] /\ Len(q) \in Nat
  OBVIOUS
<1>2. q \in [1..Len(q) -> Nat]
  BY <1>1, StreamAssumption
<1> QED
  BY <1>1, <1>2

(***************************************************************************)
(* In order, Publish only ever adds a newer message to a channel.          *)
(***************************************************************************)
LEMMA WritesAreNewer ==
  ASSUME TypeOK, BusInv, OwnChatOnly, OrderedPublish, HeldOnce,
         NEW s \in Subs, inOrder[SubChat[s]], NEW m \in Messages, PublishWrite(m, s),
         NEW k \in RangeOf(chan[s])
  PROVE  k < m
<1>1. k \in Messages /\ Holds(s, k)
  BY DEF TypeOK, BusTypeOK, RangeOf, Holds
<1>2. MsgChat[k] = SubChat[s] /\ MsgChat[m] = SubChat[s]
  BY <1>1 DEF OwnChatOnly, BusInv, ListsAreOfOneChat, PublishWrite
<1>3. pubPc[m] = "writing" /\ s \in pubLeft[m]
  BY DEF PublishWrite
<1>4. k # m
  BY <1>1, <1>3 DEF HeldOnce, Coming
<1>5. pubPc[k] # "idle"
  BY <1>1 DEF HeldOnce, Coming
<1>6. ~(m < k)
  BY <1>1, <1>2, <1>3, <1>5 DEF OrderedPublish
<1> QED
  BY <1>1, <1>4, <1>6, StreamAssumption

\* So a channel's ids ascend.
LEMMA ChannelAscendsNext ==
  /\ TypeOK /\ BusInv /\ OwnChatOnly /\ OrderedPublish /\ HeldOnce /\ ChannelAscends
  /\ [Next]_vars
  => ChannelAscends'
<1> SUFFICES ASSUME TypeOK, BusInv, OwnChatOnly, OrderedPublish, HeldOnce, ChannelAscends,
                    [Next]_vars, NEW s \in Subs, inOrder'[SubChat[s]]
             PROVE  Ascends(chan[s])'
  BY DEF ChannelAscends
<1>1. inOrder[SubChat[s]]
  BY InOrderBefore, BusAssumption
<1>2. Ascends(chan[s])
  BY <1>1 DEF ChannelAscends
<1>3. chan[s] \in Seq(Messages) /\ chan[s] \in Seq(Nat)
  BY SequencesOfIds DEF TypeOK, BusTypeOK
<1>4. CASE UNCHANGED <<chan[s], dropped[s]>>
  BY <1>2, <1>4
<1>5. CASE LiveEmit(s)
  <2>1. chan[s] # <<>> /\ chan'[s] = Tail(chan[s])
    BY <1>5 DEF LiveEmit, Read, TypeOK, BusTypeOK
  <2> QED
    BY <1>2, <1>3, <2>1, TailAscends
<1>6. ASSUME NEW m \in Messages, PublishWrite(m, s) PROVE Ascends(chan[s])'
  <2>1. m \in Nat /\ \A k \in RangeOf(chan[s]) : k < m
    BY <1>1, <1>6, WritesAreNewer, StreamAssumption
  <2>2. CASE chan'[s] = Append(chan[s], m)
    BY <1>2, <1>3, <2>1, <2>2, AppendAscends
  <2>3. CASE chan[s] # <<>> /\ chan'[s] = Append(Tail(chan[s]), m)
    <3> DEFINE r == Tail(chan[s])
    <3>1. r \in Seq(Nat)
      BY <1>3, <2>3
    <3>2. Ascends(r)
      BY <1>2, <1>3, <2>3, TailAscends
    <3>3. RangeOf(r) \subseteq RangeOf(chan[s])
      BY <1>3, <2>3, RangeOfTail
    <3> HIDE DEF r
    <3>4. Ascends(Append(r, m))
      BY <2>1, <3>1, <3>2, <3>3, AppendAscends
    <3> QED
      BY <2>3, <3>4 DEF r
  <2> QED
    BY <1>2, <1>6, <2>2, <2>3, WriteChanges DEF TypeOK
<1> QED
  BY <1>4, <1>5, <1>6, ChannelMoves

(***************************************************************************)
(* Ids, and the cursors that hold them, are numbers.                       *)
(***************************************************************************)
LEMMA IdsAreNat ==
  ASSUME TypeOK
  PROVE  /\ issued \in Nat
         /\ \A m \in Messages : m \in Nat
         /\ \A s \in Subs : since[s] \in Nat /\ lastId[s] \in Nat
         /\ \A s \in Subs : \A k \in rows[s] : k \in Messages /\ k \in Nat
<1>1. \A m \in Messages \union {0} : m \in Nat
  BY StreamAssumption
<1>2. issued \in Nat /\ \A m \in Messages : m \in Nat
  BY <1>1 DEF TypeOK
<1>3. ASSUME NEW s \in Subs PROVE since[s] \in Nat /\ lastId[s] \in Nat
  <2>1. since[s] \in Messages \union {0} /\ lastId[s] \in Messages \union {0}
    BY DEF TypeOK
  <2> QED
    BY <1>1, <2>1
<1>4. \A s \in Subs : \A k \in rows[s] : k \in Messages
  BY DEF TypeOK
<1> QED
  BY <1>2, <1>3, <1>4

-----------------------------------------------------------------------------
(***************************************************************************)
(* The catch-up emits the smallest of its rows: whatever it was owed up to *)
(* there it has, and the cursor stays short of everything it has not.      *)
(***************************************************************************)
LEMMA CursorShort ==
  ASSUME TypeOK, StreamInv, CatchUpHas, [Next]_vars, NEW s \in Subs, NEW m \in Messages,
         Owed(s, m), ~gaveUp'[s], ~Caught(s, m), ~LiveEmit(s)
  PROVE  /\ lastId[s] < m => lastId'[s] < m
         /\ m <= lastId'[s] => m <= lastId[s]
<1> USE StreamAssumption
<1>1. phase[s] = "streaming" /\ ~gaveUp[s]
  BY StreamMoves DEF Owed
<1>2. CASE UNCHANGED <<lastId[s], rows[s], emitted[s]>>
  BY <1>2
<1>3. CASE CatchUpEmit(s)
  <2>1. PICK k \in rows[s] : Emit(s, k)
    BY <1>3, Zenon DEF CatchUpEmit
  <2>2. k \in Messages /\ lastId'[s] = k
    BY <2>1, EmittedGrows DEF TypeOK
  <2>3. ~(m <= k)
    BY <1>1 DEF CatchUpHas
  <2> QED
    BY <2>2, <2>3
<1> QED
  BY <1>1, <1>2, <1>3, StreamMoves

(***************************************************************************)
(* What the live loop reads has been published in its turn.                *)
(***************************************************************************)
LEMMA LiveEmitsPublished ==
  ASSUME TypeOK, OwnChatOnly, OrderedPublish, HeldOnce, NEW s \in Subs, LiveEmit(s),
         inOrder[SubChat[s]], NEW m \in Messages, InChat(s, m), m < Head(chan[s])
  PROVE  pubPc[m] = "done"
<1> DEFINE h == Head(chan[s])
<1>1. h \in Messages /\ h \in RangeOf(chan[s])
  BY DEF LiveEmit, Read, TypeOK, BusTypeOK, RangeOf
<1>2. Holds(s, h)
  BY <1>1 DEF Holds
<1> HIDE DEF h
<1>3. MsgChat[h] = SubChat[s] /\ pubPc[h] # "idle"
  BY <1>1, <1>2 DEF OwnChatOnly, HeldOnce, Coming
<1> QED
  BY <1>1, <1>3 DEF OrderedPublish, InChat, h

(***************************************************************************)
(* A catch-up query that has just answered has all that is owed.           *)
(***************************************************************************)
LEMMA QueryCatchesAll ==
  ASSUME TypeOK, SubscribedFirst, NEW s \in Subs, CatchUpQuery(s), NEW m \in Messages, Owed(s, m)'
  PROVE  Caught(s, m)'
<1>1. /\ rows'[s] = {k \in db : InChat(s, k) /\ k > lastId[s]}
      /\ lastId[s] = since[s] /\ UNCHANGED <<db, since>>
  BY DEF TypeOK, CatchUpQuery, SubscribedFirst
<1>2. since[s] \in Nat /\ m \in Nat
  BY IdsAreNat
<1> QED
  BY <1>1, <1>2 DEF Owed, InChat, Caught

\* So every step keeps what the catch-up is trusted with.
LEMMA CatchUpHasNext ==
  /\ TypeOK /\ BusInv /\ OwnChatOnly /\ StreamInv /\ AudienceServed
  /\ SubscribedFirst /\ OrderedPublish /\ HeldOnce /\ CatchUpHas
  /\ [Next]_vars
  => CatchUpHas'
<1> SUFFICES ASSUME TypeOK, BusInv, OwnChatOnly, StreamInv, AudienceServed,
                    SubscribedFirst, OrderedPublish, HeldOnce, CatchUpHas,
                    [Next]_vars, NEW s \in Subs, NEW m \in Messages, Owed(s, m)', ~gaveUp'[s]
             PROVE  /\ \A k \in rows'[s] : m <= k => Caught(s, m)'
                    /\ inOrder'[SubChat[s]] /\ m <= lastId'[s] => Caught(s, m)' \/ pubPc'[m] = "done"
                    /\ ~Excused(s)' /\ pubPc'[m] # "idle" /\ s \notin audience'[m] => Caught(s, m)'
  BY DEF CatchUpHas
<1> USE StreamAssumption
<1>1. CASE CatchUpQuery(s)
  BY <1>1, QueryCatchesAll
<1>2. CASE phase[s] = "streaming" /\ Insert(m)
  <2>1. issued < m /\ pubPc'[m] = "idle"
    <3>1. m > issued /\ pubPc' = pubPc
      BY <1>2 DEF Insert, busVars, pubVars
    <3>2. pubPc[m] = "idle"
      BY <3>1 DEF StreamInv, OnlyIssued, TypeOK
    <3> QED
      BY <3>1, <3>2 DEF TypeOK
  <2>2. /\ \A k \in rows[s] : k \in Nat /\ k <= issued
        /\ lastId[s] \in Nat /\ lastId[s] <= issued /\ issued \in Nat /\ m \in Nat
    BY IdsAreNat DEF StreamInv, CursorBetween
  <2>3. UNCHANGED <<rows, lastId>>
    BY <1>2 DEF Insert, sessionVars
  <2> QED
    BY <2>1, <2>2, <2>3
<1>3. CASE Owed(s, m)
  <2>1. phase[s] = "streaming" /\ ~gaveUp[s] /\ subPc[s] = "subscribed"
    BY <1>3, StreamMoves DEF Owed, SubscribedFirst
  <2>2. CASE Caught(s, m)
    BY <2>1, <2>2, CaughtKept
  <2>3. CASE ~Caught(s, m)
    <3>1. ASSUME NEW k \in rows'[s], m <= k PROVE Caught(s, m)'
      <4>1. k \in rows[s]
        <5>1. CASE CatchUpEmit(s)
          BY <5>1 DEF CatchUpEmit, TypeOK
        <5>2. CASE LiveEmit(s)
          BY <5>2 DEF LiveEmit
        <5> QED
          BY <2>1, <5>1, <5>2, StreamMoves
      <4> QED
        BY <1>3, <2>1, <2>3, <3>1, <4>1 DEF CatchUpHas
    <3>2. ASSUME inOrder'[SubChat[s]], m <= lastId'[s]
          PROVE  Caught(s, m)' \/ pubPc'[m] = "done"
      <4>1. inOrder[SubChat[s]]
        BY <3>2, InOrderBefore, BusAssumption
      <4>2. pubPc[m] = "done" => pubPc'[m] = "done"
        BY BusRefined, PublishMoves DEF TypeOK, PublishLookup, PublishSnapshot, PublishFinish,
           PublishWrite
      <4>3. CASE m <= lastId[s]
        BY <1>3, <2>1, <2>3, <4>1, <4>2, <4>3 DEF CatchUpHas
      <4>4. CASE LiveEmit(s) /\ ~(m <= lastId[s])
        <5>1. Head(chan[s]) \in Messages
          BY <4>4 DEF LiveEmit, Read, TypeOK, BusTypeOK
        <5>2. Emit(s, Head(chan[s]))
          BY <3>2, <4>4 DEF LiveEmit
        <5>3. lastId'[s] = Head(chan[s]) /\ Emitted(s)' = Emitted(s) \union {Head(chan[s])}
          BY <5>1, <5>2, EmittedGrows
        <5>4. m < Head(chan[s]) => pubPc[m] = "done"
          BY <1>3, <4>1, <4>4, LiveEmitsPublished DEF Owed
        <5> QED
          BY <3>2, <4>2, <5>1, <5>3, <5>4 DEF Caught
      <4> QED
        BY <1>3, <2>3, <3>2, <4>3, <4>4, CursorShort
    <3>3. ASSUME ~Excused(s)', pubPc'[m] # "idle", s \notin audience'[m] PROVE Caught(s, m)'
      <4>1. ~Excused(s) /\ Undisturbed(s)
        BY <2>1, <3>3, ExcusedBefore
      <4>2. CASE pubPc[m] # "idle"
        <5>1. audience'[m] = audience[m]
          BY <4>2, BusRefined, PublishMoves DEF TypeOK, PublishLookup, PublishSnapshot,
             PublishFinish, PublishWrite
        <5> QED
          BY <1>3, <2>1, <2>3, <3>3, <4>1, <4>2, <5>1 DEF CatchUpHas
      <4>3. CASE pubPc[m] = "idle"
        <5>1. PublishLookup(m)
          BY <3>3, <4>3, BusRefined, PublishMoves DEF TypeOK, PublishSnapshot, PublishFinish,
             PublishWrite
        <5>2. audience'[m] = {t \in Subs : SubChat[t] = MsgChat[m] /\ Live(t)}
          BY <5>1 DEF PublishLookup, TypeOK, BusTypeOK
        <5>3. SubChat[s] = MsgChat[m] /\ Live(s)
          BY <1>3, <2>1, <4>1 DEF Owed, InChat, Live, Undisturbed
        <5> QED
          BY <3>3, <5>2, <5>3
      <4> QED
        BY <4>2, <4>3
    <3> QED
      BY <3>1, <3>2, <3>3
  <2> QED
    BY <2>2, <2>3
<1> QED
  BY <1>1, <1>2, <1>3, OwedBefore

(***************************************************************************)
(* What is still in the channel, past the cursor, is read in its turn, and *)
(* no older one is overtaken.                                              *)
(***************************************************************************)
LEMMA BufferedKept ==
  ASSUME TypeOK, StreamInv, OwnChatOnly, ChannelAscends, CatchUpHas, [Next]_vars,
         NEW s \in Subs, NEW m \in Messages, Owed(s, m), inOrder[SubChat[s]],
         ~gaveUp'[s], ~Caught(s, m), m \in RangeOf(chan[s]), m > lastId[s]
  PROVE  \/ Caught(s, m)' \/ m \in dropped'[s]
         \/ m \in RangeOf(chan'[s]) /\ m > lastId'[s]
<1>0. chan[s] \in Seq(Messages) /\ lastId[s] \in Nat /\ m \in Nat
  <2>1. chan[s] \in Seq(Messages)
    BY DEF TypeOK, BusTypeOK
  <2> QED
    BY <2>1, IdsAreNat
<1>1. CASE LiveEmit(s)
  <2> DEFINE h == Head(chan[s])
  <2>1. /\ chan[s] # <<>> /\ chan'[s] = Tail(chan[s])
        /\ IF Passes(s, h) THEN Emit(s, h) ELSE UNCHANGED <<emitted, lastId>>
    BY <1>1 DEF LiveEmit, Read, TypeOK, BusTypeOK
  <2>2. h \in Messages /\ h \in RangeOf(chan[s])
    BY <1>0, <2>1 DEF RangeOf
  <2>3. RangeOf(chan[s]) = RangeOf(Tail(chan[s])) \union {h}
    BY <1>0, <2>1, RangeOfTail
  <2>4. h # m => h < m
    <3>1. Ascends(chan[s])
      BY DEF ChannelAscends
    <3>2. chan[s] \in Seq(Nat)
      BY <1>0, SequencesOfIds
    <3>3. \A x \in RangeOf(Tail(chan[s])) : h < x
      BY <2>1, <3>1, <3>2, TailAscends
    <3> QED
      BY <2>3, <3>3
  <2> HIDE DEF h
  <2>5. CASE Passes(s, h)
    <3>1. Emitted(s)' = Emitted(s) \union {h} /\ lastId'[s] = h
      BY <2>1, <2>2, <2>5, EmittedGrows
    <3> QED
      BY <1>0, <2>1, <2>2, <2>3, <2>4, <3>1 DEF Caught
  <2>6. CASE ~Passes(s, h)
    <3>1. h # m
      BY <2>6 DEF Passes, Owed
    <3> QED
      BY <2>1, <2>3, <2>6, <3>1
  <2> QED
    BY <2>5, <2>6
<1>2. CASE ~LiveEmit(s)
  <2>1. m > lastId'[s]
    BY <1>0, <1>2, CursorShort
  <2>2. m \in RangeOf(chan'[s]) \/ m \in dropped'[s]
    <3>1. CASE UNCHANGED <<chan[s], dropped[s]>>
      BY <3>1
    <3>2. ASSUME NEW k \in Messages, PublishWrite(k, s)
          PROVE  m \in RangeOf(chan'[s]) \/ m \in dropped'[s]
      <4>1. CASE chan'[s] = Append(chan[s], k)
        BY <1>0, <4>1, RangeOfAppend
      <4>2. CASE /\ chan[s] # <<>> /\ chan'[s] = Append(Tail(chan[s]), k)
                 /\ dropped'[s] = dropped[s] \union {Head(chan[s])}
        <5> DEFINE r == Tail(chan[s])
        <5>1. r \in Seq(Messages)
          BY <1>0, <4>2
        <5>2. RangeOf(chan[s]) = RangeOf(r) \union {Head(chan[s])}
          BY <1>0, <4>2, RangeOfTail
        <5> HIDE DEF r
        <5>3. RangeOf(Append(r, k)) = RangeOf(r) \union {k}
          BY <5>1, RangeOfAppend
        <5>4. chan'[s] = Append(r, k)
          BY <4>2 DEF r
        <5> QED
          BY <4>2, <5>2, <5>3, <5>4
      <4> QED
        BY <3>2, <4>1, <4>2, WriteChanges DEF TypeOK
    <3> QED
      BY <1>2, <3>1, <3>2, ChannelMoves
  <2> QED
    BY <2>1, <2>2
<1> QED
  BY <1>1, <1>2

(***************************************************************************)
(* What Publish has yet to write, it goes on to write, to an open channel. *)
(***************************************************************************)
LEMMA ComingKept ==
  ASSUME TypeOK, BusInv, AudienceServed, AudienceServed', StreamInv, HeldOnce, CatchUpHas,
         [Next]_vars, NEW s \in Subs, NEW m \in Messages, Owed(s, m), inOrder[SubChat[s]],
         subPc[s] = "subscribed", ~Excused(s), ~Excused(s)', Undisturbed(s), Undisturbed(s)',
         ~Caught(s, m), Coming(s, m)
  PROVE  Coming(s, m)' \/ (m \in RangeOf(chan'[s]) /\ m > lastId'[s])
<1>0. ~gaveUp[s] /\ ~gaveUp'[s] /\ ~cancelled[s] /\ SubChat[s] = MsgChat[m]
  BY DEF Excused, Owed, InChat
<1>1. CASE UNCHANGED <<pubPc[m], pubList[m], pubLeft[m], audience[m]>>
  BY <1>1 DEF Coming
<1>2. CASE PublishLookup(m)
  <2>1. dict[MsgChat[m]] # NoList
    BY <1>0 DEF BusInv, UndisturbedIsMapped, Locals
  <2> QED
    BY <1>2, <2>1 DEF PublishLookup, TypeOK, BusTypeOK, Coming
<1>3. CASE PublishSnapshot(m)
  <2>1. /\ pubPc[m] = "found" /\ pubPc'[m] = "writing" /\ audience' = audience
        /\ UNCHANGED <<chan, got, dropped>>
    BY <1>3 DEF PublishSnapshot, TypeOK, BusTypeOK, chanVars
  <2>2. s \in audience[m]
    BY <1>0, <2>1 DEF CatchUpHas
  <2>3. s \in pubLeft'[m] \/ Holds(s, m)'
    BY <2>1, <2>2 DEF AudienceServed
  <2>4. ~Holds(s, m)'
    BY <2>1 DEF HeldOnce, Holds
  <2> QED
    BY <2>3, <2>4 DEF Coming
<1>4. ASSUME NEW t \in Subs, PublishWrite(m, t)
      PROVE  Coming(s, m)' \/ (m \in RangeOf(chan'[s]) /\ m > lastId'[s])
  <2>1. /\ pubPc[m] = "writing" /\ s \in pubLeft[m]
        /\ pubLeft'[m] = pubLeft[m] \ {t}
    BY <1>4 DEF PublishWrite, TypeOK, BusTypeOK, Coming
  <2>2. CASE t # s
    BY <2>1, <2>2 DEF Coming
  <2>3. CASE t = s
    <3>1. ~closed[s]
      BY <1>0 DEF BusInv, OnlyTheCancelledGo
    <3>2. m \in RangeOf(chan'[s])
      BY <1>4, <2>3, <3>1, WriteArrives DEF TypeOK
    <3>3. ~(m <= lastId[s])
      BY <1>0, <2>1 DEF CatchUpHas
    <3>4. ~LiveEmit(s)
      BY <2>1, <2>3 DEF LiveEmit, Read, pubVars
    <3>5. m \in Nat /\ lastId[s] \in Nat
      BY IdsAreNat
    <3>6. lastId'[s] < m
      BY <1>0, <3>3, <3>4, <3>5, CursorShort
    <3> QED
      BY <3>2, <3>6
  <2> QED
    BY <2>2, <2>3
<1>5. CASE PublishFinish(m)
  BY <1>5 DEF PublishFinish, Coming
<1> QED
  BY <1>1, <1>2, <1>3, <1>4, <1>5, BusRefined, PublishMoves DEF TypeOK

(***************************************************************************)
(* Dropped is dropped.                                                     *)
(***************************************************************************)
LEMMA DroppedKept ==
  ASSUME TypeOK, [Next]_vars, NEW s \in Subs, NEW m \in dropped[s]
  PROVE  m \in dropped'[s]
<1>1. CASE LiveEmit(s)
  BY <1>1 DEF LiveEmit, Read, chanVars
<1>2. ASSUME NEW k \in Messages, PublishWrite(k, s) PROVE m \in dropped'[s]
  BY <1>2, WriteChanges DEF TypeOK
<1> QED
  BY <1>1, <1>2, ChannelMoves

\* So a message is handed on from place to place, and never lost between two of them.
LEMMA NoGapNext ==
  /\ TypeOK /\ BusInv /\ OwnChatOnly /\ StreamInv /\ AudienceServed /\ AudienceServed'
  /\ NoGapInv /\ [Next]_vars
  => NoGapWhenInOrder'
<1> SUFFICES ASSUME TypeOK, BusInv, OwnChatOnly, StreamInv, AudienceServed, AudienceServed',
                    SubscribedFirst, OrderedPublish, HeldOnce, ChannelAscends, CatchUpHas,
                    NoGapWhenInOrder, [Next]_vars, NEW s \in Subs, NEW m \in Messages,
                    Owed(s, m)', inOrder'[SubChat[s]], ~Excused(s)'
             PROVE  \/ Caught(s, m)' \/ m \in dropped'[s]
                    \/ (m \in RangeOf(chan'[s]) /\ m > lastId'[s])
                    \/ Coming(s, m)'
  BY DEF NoGapInv, NoGapWhenInOrder
<1>1. ~gaveUp'[s] /\ inOrder[SubChat[s]]
  BY InOrderBefore, BusAssumption DEF Excused
<1>2. CASE CatchUpQuery(s)
  BY <1>2, QueryCatchesAll
<1>3. CASE phase[s] = "streaming" /\ Insert(m)
  <2>1. issued < m /\ pubPc' = pubPc
    BY <1>3, IdsAreNat DEF Insert, busVars, pubVars
  <2>2. pubPc[m] = "idle"
    BY <2>1, IdsAreNat DEF StreamInv, OnlyIssued
  <2> QED
    BY <2>1, <2>2 DEF Coming
<1>4. CASE Owed(s, m)
  <2>1. phase[s] = "streaming" /\ subPc[s] = "subscribed"
    BY <1>4 DEF Owed, SubscribedFirst
  <2>2. ~Excused(s) /\ Undisturbed(s) /\ Undisturbed(s)'
    BY <2>1, ExcusedBefore
  <2>3. CASE Caught(s, m)
    BY <1>1, <2>1, <2>3, CaughtKept
  <2>4. CASE m \in dropped[s]
    BY <2>4, DroppedKept
  <2>5. CASE ~Caught(s, m) /\ m \in RangeOf(chan[s]) /\ m > lastId[s]
    BY <1>1, <1>4, <2>5, BufferedKept
  <2>6. CASE ~Caught(s, m) /\ Coming(s, m)
    BY <1>1, <1>4, <2>1, <2>2, <2>6, ComingKept
  <2> QED
    BY <1>1, <1>4, <2>2, <2>3, <2>4, <2>5, <2>6 DEF NoGapWhenInOrder
<1> QED
  BY <1>1, <1>2, <1>3, <1>4, OwedBefore

\* The whole invariant holds of every run.
LEMMA NoGapInvariant == Spec => []NoGapInv
<1>1. Init => NoGapInv
  BY DEF Init, BusInit, NoGapInv, SubscribedFirst, OrderedPublish, HeldOnce, Holds, RangeOf,
     ChannelAscends, Ascends, CatchUpHas, NoGapWhenInOrder, Owed
<1>2. /\ TypeOK /\ BusInv /\ OwnChatOnly /\ StreamInv /\ AudienceServed /\ AudienceServed'
      /\ NoGapInv /\ [Next]_vars
      => NoGapInv'
  BY BusRefined, SubscribedFirstNext, OrderedPublishNext, HeldOnceNext, ChannelAscendsNext,
     CatchUpHasNext, NoGapNext DEF NoGapInv, TypeOK
<1>3. Spec => []OwnChatOnly /\ []AudienceServed
  BY UsesTheBus, OwnChatOnlyHolds, AudienceServedInvariant, PTL
<1> QED
  BY <1>1, <1>2, <1>3, TypeCorrect, BusHere, StreamInvariant, PTL DEF Spec

(***************************************************************************)
(* No message falls between the catch-up and the live stream: while its    *)
(* chat's messages are published one at a time in id order, each message   *)
(* past `since' that is still in the database is emitted, among the rows   *)
(* of the catch-up, in the channel, dropped by it, or still to be          *)
(* published, unless the stream is excused.                                *)
(***************************************************************************)
THEOREM NoGapWhenInOrderHolds == Spec => []NoGapWhenInOrder
<1>1. NoGapInv => NoGapWhenInOrder
  BY DEF NoGapInv
<1> QED
  BY <1>1, NoGapInvariant, PTL

-----------------------------------------------------------------------------
(***************************************************************************)
(* The handler's steps are steps of the ordered feed.                      *)
(***************************************************************************)
LEMMA FeedRefined == TypeOK /\ StreamInv /\ [Next]_vars => [Feed!FeedNext]_(Feed!feedVars)
<1> SUFFICES ASSUME TypeOK, StreamInv, [Next]_vars PROVE [Feed!FeedNext]_(Feed!feedVars)
  OBVIOUS
<1> USE StreamAssumption DEF Feed!feedVars
<1>1. CASE UNCHANGED <<issued, lastId, emitted>>
  BY <1>1
<1>2. ASSUME NEW m \in Messages, Insert(m) PROVE Feed!FeedNext
  BY <1>2 DEF Insert, sessionVars, Feed!FeedNext, Feed!Issue
<1>3. ASSUME NEW s \in Subs, NEW n \in Messages \union {0}, Call(s, n) PROVE Feed!FeedNext
  <2>1. Feed!Start(s, n)
    BY <1>3 DEF Call, Feed!Start, StreamInv, CursorBetween
  <2> QED
    BY <2>1 DEF Feed!FeedNext
<1>4. ASSUME NEW s \in Subs, NEW m \in Messages, Emit(s, m), InChat(s, m),
             lastId[s] < m, m <= issued, issued' = issued
      PROVE  Feed!FeedNext
  <2>1. Feed!Deliver(s, m)
    BY <1>4 DEF Emit, Feed!Deliver
  <2> QED
    BY <2>1 DEF Feed!FeedNext
<1>5. ASSUME NEW s \in Subs, CatchUpEmit(s) PROVE Feed!FeedNext
  <2>1. PICK m \in rows[s] : Emit(s, m) /\ issued' = issued
    BY <1>5 DEF CatchUpEmit
  <2>2. m \in Messages /\ InChat(s, m) /\ lastId[s] < m /\ m <= issued
    BY DEF TypeOK, StreamInv, CursorBetween
  <2> QED
    BY <1>4, <2>1, <2>2
<1>6. ASSUME NEW s \in Subs, LiveEmit(s) PROVE [Feed!FeedNext]_(Feed!feedVars)
  <2> DEFINE m == Head(chan[s])
  <2>1. m \in Messages /\ m \in RangeOf(chan[s])
    BY <1>6 DEF LiveEmit, Read, TypeOK, BusTypeOK, RangeOf
  <2>2. m <= issued
    BY <2>1 DEF StreamInv, OnlyIssued, Holds
  <2>3. CASE UNCHANGED <<emitted, lastId>>
    BY <1>6, <2>3 DEF LiveEmit
  <2>4. CASE Passes(s, m) /\ Emit(s, m)
    <3>1. InChat(s, m) /\ lastId[s] < m
      BY <2>1, <2>4 DEF Passes, TypeOK
    <3> QED
      BY <1>4, <1>6, <2>1, <2>2, <2>4, <3>1 DEF LiveEmit
  <2> QED
    BY <1>6, <2>3, <2>4 DEF LiveEmit
<1>7. ASSUME NEW m \in Messages, Publish(m) \/ DeleteMessage(m)
      PROVE  UNCHANGED <<issued, lastId, emitted>>
  BY <1>7 DEF Publish, DeleteMessage, sessionVars
<1>8. ASSUME NEW s \in Subs,
             Refuse(s) \/ Subscribe(s) \/ CatchUpQuery(s) \/ CatchUpFails(s) \/ StreamEnds(s)
      PROVE  UNCHANGED <<issued, lastId, emitted>>
  BY <1>8 DEF Refuse, Subscribe, CatchUpQuery, CatchUpFails, StreamEnds, streamVars, sessionVars
<1>9. ASSUME BusStep \/ UNCHANGED vars PROVE UNCHANGED <<issued, lastId, emitted>>
  BY <1>9 DEF BusStep, vars, streamVars, sessionVars
<1> QED
  BY <1>1, <1>2, <1>3, <1>5, <1>6, <1>7, <1>8, <1>9 DEF Next

(***************************************************************************)
(* The StreamChat handler on top of the bus implements OrderedFeed: every  *)
(* step of the system issues an id, starts a reader, delivers one message  *)
(* past the reader's cursor, or is not to be seen.                         *)
(***************************************************************************)
THEOREM ImplementsFeedHolds == Spec => ImplementsFeed
<1>1. Init => Feed!FeedInit
  BY DEF Init, Feed!FeedInit
<1> QED
  BY <1>1, FeedRefined, TypeCorrect, StreamInvariant, PTL DEF Spec, ImplementsFeed, Feed!FeedSpec
=============================================================================
