--------------------------- MODULE ChatMessageBus ---------------------------
(***************************************************************************)
(* The in-memory bus between MessageService.SendMessage and the gRPC       *)
(* streams (CoreService/RealTime/GRPC/Streaming/ChatMessageBus.cs).  One   *)
(* bus serves every chat: a ConcurrentDictionary from chat id to a List of *)
(* subscriptions, each list its own lock, each subscription the writer of  *)
(* a bounded channel.                                                      *)
(*                                                                         *)
(* A subscriber is one call of Subscribe, a message one call of Publish.   *)
(* A Subscribe call allocates at most one List, so a list object is named  *)
(* by the subscriber that allocated it.  A lock(list) block is one step:   *)
(* the list is seen only under its lock, so the block's last access to the *)
(* dictionary is where it takes effect.  Everything between two accesses   *)
(* to shared state is a step of its own, as other threads may run there.   *)
(***************************************************************************)
EXTENDS Naturals, Sequences, FiniteSets

CONSTANTS
  Chats,     (* chat ids, the dictionary's keys                            *)
  Subs,      (* calls of Subscribe                                         *)
  Messages,  (* messages, each the argument of one call of Publish         *)
  SubChat,   (* the chatId argument of each Subscribe                      *)
  MsgChat,   (* the ChatId of each message                                 *)
  Capacity,  (* the capacity of a subscriber's channel (1024 in the code)  *)
  NoList     (* TryGetValue found nothing                                  *)

ASSUME BusAssumption ==
  /\ SubChat \in [Subs -> Chats]
  /\ MsgChat \in [Messages -> Chats]
  /\ Capacity \in Nat \ {0}
  /\ NoList \notin Subs

VARIABLES
  dict,       (* _subsByChatId: chat -> list object                        *)
  list,       (* list object -> the subscriptions in it                    *)
  subPc,      (* where each Subscribe call is                              *)
  subList,    (* the local variable `list' of each Subscribe call          *)
  cancelled,  (* the CancellationToken each Subscribe call was given       *)
  cbPc,       (* where the callback registered on that token is            *)
  cbList,     (* the callback's local variable `current'                   *)
  chan,       (* the messages buffered in each subscriber's channel        *)
  closed,     (* the channel's writer has been completed                   *)
  pubPc,      (* where each Publish call is                                *)
  pubList,    (* the local variable `list' of each Publish call            *)
  pubLeft,    (* the part of `snapshot' not yet written to                 *)
  pubFailed,  (* the local variable `failed'                               *)
  got,        (* history: what each subscriber has read, in order          *)
  dropped,    (* history: what DropOldest took from each subscriber        *)
  audience,   (* history: who was subscribed when each Publish began       *)
  settled     (* history: whose removal was over when each Subscribe began *)

dictVars == <<dict, list>>
subVars  == <<subPc, subList, settled>>
cbVars   == <<cancelled, cbPc, cbList>>
chanVars == <<chan, closed, dropped>>
pubVars  == <<pubPc, pubList, pubLeft, pubFailed, audience>>
busVars  == <<dictVars, subVars, cbVars, chanVars, pubVars, got>>

ListOrNone == Subs \union {NoList}

RangeOf(seq) == {seq[i] : i \in DOMAIN seq}

(***************************************************************************)
(* Type invariant: each Subscribe, callback and Publish of ChatMessageBus  *)
(* is at one of its program points, and each channel holds at most         *)
(* Capacity messages.                                                      *)
(***************************************************************************)
BusTypeOK ==
  /\ dict \in [Chats -> ListOrNone]
  /\ list \in [Subs -> SUBSET Subs]
  /\ subPc \in [Subs -> {"idle", "gotList", "added", "subscribed"}]
  /\ subList \in [Subs -> ListOrNone]
  /\ cancelled \in [Subs -> BOOLEAN]
  /\ cbPc \in [Subs -> {"idle", "closed", "found", "done"}]
  /\ cbList \in [Subs -> ListOrNone]
  /\ chan \in [Subs -> Seq(Messages)]
  /\ \A s \in Subs : Len(chan[s]) <= Capacity
  /\ closed \in [Subs -> BOOLEAN]
  /\ pubPc \in [Messages -> {"idle", "found", "writing", "done"}]
  /\ pubList \in [Messages -> ListOrNone]
  /\ pubLeft \in [Messages -> SUBSET Subs]
  /\ pubFailed \in [Messages -> SUBSET Subs]
  /\ got \in [Subs -> Seq(Messages)]
  /\ dropped \in [Subs -> SUBSET Messages]
  /\ audience \in [Messages -> SUBSET Subs]
  /\ settled \in [Subs -> SUBSET Subs]

BusInit ==
  /\ dict = [c \in Chats |-> NoList]
  /\ list = [l \in Subs |-> {}]
  /\ subPc = [s \in Subs |-> "idle"]
  /\ subList = [s \in Subs |-> NoList]
  /\ cancelled = [s \in Subs |-> FALSE]
  /\ cbPc = [s \in Subs |-> "idle"]
  /\ cbList = [s \in Subs |-> NoList]
  /\ chan = [s \in Subs |-> <<>>]
  /\ closed = [s \in Subs |-> FALSE]
  /\ pubPc = [m \in Messages |-> "idle"]
  /\ pubList = [m \in Messages |-> NoList]
  /\ pubLeft = [m \in Messages |-> {}]
  /\ pubFailed = [m \in Messages |-> {}]
  /\ got = [s \in Subs |-> <<>>]
  /\ dropped = [s \in Subs |-> {}]
  /\ audience = [m \in Messages |-> {}]
  /\ settled = [s \in Subs |-> {}]

InFlight(m) == pubPc[m] \in {"found", "writing"}

Live(s) == subPc[s] = "subscribed" /\ ~cancelled[s]

(***************************************************************************)
(* Mutants: operators of the name they stand in for, each with a bug this  *)
(* code could have.  No specification uses them; with one put in the place *)
(* of the definition it names, TLC finds a property violated.              *)
(***************************************************************************)
\* For GetOrAdd: the indexer, which replaces the list others are on.
AlwaysANewList(c, s) == s

\* For CallbackComplete: the writer is completed, the subscription stays on its list.
CompleteWithoutRemoving(s) ==
  /\ cancelled[s] /\ subPc[s] = "subscribed" /\ cbPc[s] = "idle"
  /\ closed' = [closed EXCEPT ![s] = TRUE]
  /\ cbPc' = [cbPc EXCEPT ![s] = "done"]
  /\ UNCHANGED <<dictVars, subVars, cancelled, cbList, chan, dropped, pubVars, got>>

\* For RemoveFromList: the emptied list stays in the dictionary.
RemoveFromListOnly(l, gone, c) ==
  /\ list' = [list EXCEPT ![l] = @ \ gone]
  /\ UNCHANGED dict

\* For TryWriteFails: the channel has FullMode Wait, so a full one refuses the message.
FailsWhenFull(s) == closed[s] \/ Len(chan[s]) = Capacity

-----------------------------------------------------------------------------
(* Subscribe *)

(***************************************************************************)
(* _subsByChatId.GetOrAdd: the chat's list, or a new one put in its place. *)
(* `settled' notes which removals are over at this point, none of them if  *)
(* a Publish to the chat is under way (it may still clean up).             *)
(***************************************************************************)
GetOrAdd(c, s) == IF dict[c] = NoList THEN s ELSE dict[c]

SubscribeGetOrAdd(s) ==
  LET c == SubChat[s]
      l == GetOrAdd(c, s)
  IN /\ subPc[s] = "idle"
     /\ dict' = [dict EXCEPT ![c] = l]
     /\ subList' = [subList EXCEPT ![s] = l]
     /\ subPc' = [subPc EXCEPT ![s] = "gotList"]
     /\ settled' = [settled EXCEPT ![s] =
          IF \E m \in Messages : MsgChat[m] = c /\ InFlight(m)
          THEN {} ELSE {t \in Subs : cbPc[t] = "done"}]
     /\ UNCHANGED <<list, cbVars, chanVars, pubVars, got>>

SubscribeAdd(s) ==
  /\ subPc[s] = "gotList"
  /\ list' = [list EXCEPT ![subList[s]] = @ \union {s}]
  /\ subPc' = [subPc EXCEPT ![s] = "added"]
  /\ UNCHANGED <<dict, subList, settled, cbVars, chanVars, pubVars, got>>

SubscribeRegister(s) ==
  /\ subPc[s] = "added"
  /\ subPc' = [subPc EXCEPT ![s] = "subscribed"]
  /\ UNCHANGED <<dictVars, subList, settled, cbVars, chanVars, pubVars, got>>

-----------------------------------------------------------------------------
(* Cancellation: the token may fire at any time after the call began; the  *)
(* callback runs once it is registered, at once if the token had fired.    *)

Cancel(s) ==
  /\ subPc[s] # "idle"
  /\ ~cancelled[s]
  /\ cancelled' = [cancelled EXCEPT ![s] = TRUE]
  /\ UNCHANGED <<dictVars, subVars, cbPc, cbList, chanVars, pubVars, got>>

CallbackComplete(s) ==
  /\ cancelled[s] /\ subPc[s] = "subscribed" /\ cbPc[s] = "idle"
  /\ closed' = [closed EXCEPT ![s] = TRUE]
  /\ cbPc' = [cbPc EXCEPT ![s] = "closed"]
  /\ UNCHANGED <<dictVars, subVars, cancelled, cbList, chan, dropped, pubVars, got>>

CallbackLookup(s) ==
  LET current == dict[SubChat[s]]
  IN /\ cbPc[s] = "closed"
     /\ cbList' = [cbList EXCEPT ![s] = current]
     /\ cbPc' = [cbPc EXCEPT ![s] = IF current = NoList THEN "done" ELSE "found"]
     /\ UNCHANGED <<dictVars, subVars, cancelled, chanVars, pubVars, got>>

(***************************************************************************)
(* Take the subscriptions gone off list l and, if that leaves it empty,    *)
(* TryRemove the chat's entry, whichever list the entry holds by now.      *)
(***************************************************************************)
RemoveFromList(l, gone, c) ==
  /\ list' = [list EXCEPT ![l] = @ \ gone]
  /\ dict' = IF list[l] \ gone = {} THEN [dict EXCEPT ![c] = NoList] ELSE dict

CallbackRemove(s) ==
  /\ cbPc[s] = "found"
  /\ RemoveFromList(cbList[s], {s}, SubChat[s])
  /\ cbPc' = [cbPc EXCEPT ![s] = "done"]
  /\ UNCHANGED <<subVars, cancelled, cbList, chanVars, pubVars, got>>

-----------------------------------------------------------------------------
(* Publish *)

PublishLookup(m) ==
  LET l == dict[MsgChat[m]]
  IN /\ pubPc[m] = "idle"
     /\ pubList' = [pubList EXCEPT ![m] = l]
     /\ pubPc' = [pubPc EXCEPT ![m] = IF l = NoList THEN "done" ELSE "found"]
     /\ audience' = [audience EXCEPT ![m] = {s \in Subs : SubChat[s] = MsgChat[m] /\ Live(s)}]
     /\ UNCHANGED <<dictVars, subVars, cbVars, chanVars, pubLeft, pubFailed, got>>

PublishSnapshot(m) ==
  /\ pubPc[m] = "found"
  /\ pubLeft' = [pubLeft EXCEPT ![m] = list[pubList[m]]]
  /\ pubPc' = [pubPc EXCEPT ![m] = "writing"]
  /\ UNCHANGED <<dictVars, subVars, cbVars, chanVars, pubList, pubFailed, audience, got>>

(***************************************************************************)
(* sub.Writer.TryWrite on a DropOldest channel: it fails only when the     *)
(* writer is completed; on a full buffer the oldest message gives way.     *)
(***************************************************************************)
TryWriteFails(s) == closed[s]

Full(s) == Len(chan[s]) = Capacity

PublishWrite(m, s) ==
  /\ pubPc[m] = "writing"
  /\ s \in pubLeft[m]
  /\ pubLeft' = [pubLeft EXCEPT ![m] = @ \ {s}]
  /\ \/ /\ TryWriteFails(s)
        /\ pubFailed' = [pubFailed EXCEPT ![m] = @ \union {s}]
        /\ UNCHANGED <<chan, dropped>>
     \/ /\ ~TryWriteFails(s)
        /\ \/ /\ ~Full(s)
              /\ chan' = [chan EXCEPT ![s] = Append(@, m)]
              /\ UNCHANGED dropped
           \/ /\ Full(s)
              /\ chan' = [chan EXCEPT ![s] = Append(Tail(@), m)]
              /\ dropped' = [dropped EXCEPT ![s] = @ \union {Head(chan[s])}]
        /\ UNCHANGED pubFailed
  /\ UNCHANGED <<dictVars, subVars, cbVars, closed, pubPc, pubList, audience, got>>

(***************************************************************************)
(* After the writes: the failed subscriptions come off the list the        *)
(* message was published to, and their writers are completed.              *)
(***************************************************************************)
PublishFinish(m) ==
  /\ pubPc[m] = "writing"
  /\ pubLeft[m] = {}
  /\ pubPc' = [pubPc EXCEPT ![m] = "done"]
  /\ \/ /\ pubFailed[m] = {}
        /\ UNCHANGED <<dictVars, closed>>
     \/ /\ pubFailed[m] # {}
        /\ RemoveFromList(pubList[m], pubFailed[m], MsgChat[m])
        /\ closed' = [s \in Subs |-> closed[s] \/ s \in pubFailed[m]]
  /\ UNCHANGED <<subVars, cbVars, chan, dropped, pubList, pubLeft, pubFailed, audience, got>>

-----------------------------------------------------------------------------
(* The reader's end: ReadAllAsync takes what is buffered, in order.        *)

Read(s) ==
  /\ subPc[s] = "subscribed"
  /\ chan[s] # <<>>
  /\ chan' = [chan EXCEPT ![s] = Tail(@)]
  /\ got' = [got EXCEPT ![s] = Append(@, Head(chan[s]))]
  /\ UNCHANGED <<dictVars, subVars, cbVars, closed, dropped, pubVars>>

-----------------------------------------------------------------------------
SubscribeStep(s) == SubscribeGetOrAdd(s) \/ SubscribeAdd(s) \/ SubscribeRegister(s)
CallbackStep(s) == CallbackComplete(s) \/ CallbackLookup(s) \/ CallbackRemove(s)
PublishStep(m) ==
  PublishSnapshot(m) \/ (\E s \in Subs : PublishWrite(m, s)) \/ PublishFinish(m)

BusNext ==
  \/ \E s \in Subs : SubscribeStep(s) \/ Cancel(s) \/ CallbackStep(s) \/ Read(s)
  \/ \E m \in Messages : PublishLookup(m) \/ PublishStep(m)

BusSpec == BusInit /\ [][BusNext]_busVars

(***************************************************************************)
(* A started call runs on: neither Subscribe, nor the callback, nor        *)
(* Publish waits for anything but a lock that its holder gives back.       *)
(* Nothing obliges a caller to subscribe, cancel, publish or read.         *)
(***************************************************************************)
BusFairness ==
  /\ \A s \in Subs : WF_busVars(SubscribeAdd(s)) /\ WF_busVars(SubscribeRegister(s))
  /\ \A s \in Subs : WF_busVars(CallbackStep(s))
  /\ \A m \in Messages : WF_busVars(PublishStep(m))

BusFairSpec == BusSpec /\ BusFairness

-----------------------------------------------------------------------------
(* Properties *)

Rivals(s) == {t \in Subs \ {s} : SubChat[t] = SubChat[s] /\ cancelled[t] /\ t \notin settled[s]}

Reachable(s) == LET l == dict[SubChat[s]] IN l # NoList /\ s \in list[l]

Holds(s, m) == m \in RangeOf(got[s]) \union RangeOf(chan[s]) \union dropped[s]

(***************************************************************************)
(* A channel only ever carries the messages of its subscriber's chat, for  *)
(* all the lists that come and go under a chat's key: the ChatId test in   *)
(* StreamChat's live loop never fires.                                     *)
(***************************************************************************)
OwnChatOnly ==
  \A s \in Subs, m \in Messages : Holds(s, m) => MsgChat[m] = SubChat[s]

(***************************************************************************)
(* Publish's cleanup spares the living: a subscription whose token has not *)
(* fired keeps its place on the list it was added to and its writer open,  *)
(* however full its channel is.                                            *)
(***************************************************************************)
LiveKeepsItsPlace ==
  \A s \in Subs :
    Live(s) => s \in list[subList[s]] /\ ~closed[s] /\ \A m \in Messages : s \notin pubFailed[m]

(***************************************************************************)
(* Why that is so, and why the next two hold: the inductive invariant.     *)
(***************************************************************************)
Subscribed(s) == subPc[s] \in {"added", "subscribed"}

\* The local variables of a call name a list once the call has got one.
Locals ==
  /\ \A s \in Subs : subPc[s] # "idle" <=> subList[s] # NoList
  /\ \A s \in Subs : cbPc[s] = "found" => cbList[s] # NoList
  /\ \A m \in Messages : InFlight(m) => pubList[m] # NoList
  /\ \A m \in Messages : pubPc[m] \in {"idle", "found"} => pubLeft[m] = {} /\ pubFailed[m] = {}

\* Only a fired token completes a writer, starts a callback or fails a write.
OnlyTheCancelledGo ==
  /\ \A s \in Subs : cbPc[s] # "idle" => cancelled[s] /\ subPc[s] = "subscribed"
  /\ \A s \in Subs : closed[s] => cancelled[s]
  /\ \A m \in Messages : \A s \in pubFailed[m] : closed[s]
  /\ \A s \in Subs : Subscribed(s) /\ ~cancelled[s] => s \in list[subList[s]]

\* A list serves the chat of its subscribers, and is never put back once taken down.
ListsAreOfOneChat ==
  /\ \A l, s \in Subs : s \in list[l] => Subscribed(s) /\ subList[s] = l
  /\ \A s \in Subs : subList[s] # NoList =>
       subPc[subList[s]] # "idle" /\ SubChat[subList[s]] = SubChat[s]
  /\ \A c \in Chats : dict[c] # NoList => subPc[dict[c]] # "idle" /\ SubChat[dict[c]] = c
  /\ \A m \in Messages : InFlight(m) => SubChat[pubList[m]] = MsgChat[m]
  /\ \A m \in Messages : \A s \in pubLeft[m] \union pubFailed[m] : SubChat[s] = MsgChat[m]

\* A removal that is over has taken its subscription off the list the chat has now.
RemovedForGood ==
  \A s \in Subs :
    /\ cbPc[s] = "done" => dict[SubChat[s]] # subList[s] \/ s \notin list[subList[s]]
    /\ cbPc[s] = "found" => dict[SubChat[s]] # subList[s] \/ cbList[s] = subList[s]

\* No Publish under way can still fail to write to a settled subscription.
SettledStaysSettled ==
  \A s \in Subs :
    /\ \A t \in settled[s] : cbPc[t] = "done"
    /\ \A m \in Messages : MsgChat[m] = SubChat[s] /\ InFlight(m) =>
         settled[s] \intersect (pubLeft[m] \union pubFailed[m]) = {}
    /\ \A m \in Messages : MsgChat[m] = SubChat[s] /\ pubPc[m] = "found" =>
         settled[s] \intersect list[pubList[m]] = {}

Undisturbed(s) == subPc[s] # "idle" /\ ~cancelled[s] /\ Rivals(s) = {}

\* A subscription without rivals is on the chat's list.
UndisturbedIsMapped == \A s \in Subs : Undisturbed(s) => dict[SubChat[s]] = subList[s]

BusInv ==
  /\ Locals
  /\ OnlyTheCancelledGo
  /\ ListsAreOfOneChat
  /\ RemovedForGood
  /\ SettledStaysSettled
  /\ UndisturbedIsMapped

(***************************************************************************)
(* A live subscription drops out of Publish's sight only to a removal that *)
(* was not over when its Subscribe began: one viewer leaving a chat and    *)
(* another coming later cannot interfere.                                  *)
(***************************************************************************)
ReachableUnlessRival ==
  \A s \in Subs : Live(s) /\ Rivals(s) = {} => Reachable(s)

(***************************************************************************)
(* Whoever was subscribed when Publish began has the message once Publish  *)
(* is over, unless its token fired or a rival removal was about.           *)
(***************************************************************************)
PublishReachesAudience ==
  \A m \in Messages : pubPc[m] = "done" =>
    \A s \in audience[m] : ~cancelled[s] /\ Rivals(s) = {} => Holds(s, m)

\* Why: the list Publish found is the list they are on, until they are written to.
AudienceServed ==
  \A m \in Messages :
    /\ pubPc[m] = "idle" => audience[m] = {}
    /\ \A s \in audience[m] :
         /\ SubChat[s] = MsgChat[m] /\ subPc[s] = "subscribed"
         /\ Undisturbed(s) =>
              /\ pubPc[m] = "found" => pubList[m] = subList[s]
              /\ pubPc[m] = "writing" => s \in pubLeft[m] \/ Holds(s, m)
              /\ pubPc[m] = "done" => Holds(s, m)

(***************************************************************************)
(* The same without the exception, as SendMessage's comment has it ("Push  *)
(* to in-memory bus for realtime stream subscribers").  The code does not  *)
(* keep it: see the run bus_orphan.                                        *)
(***************************************************************************)
PublishReachesEveryone ==
  \A m \in Messages : pubPc[m] = "done" =>
    \A s \in audience[m] : ~cancelled[s] => Holds(s, m)

(***************************************************************************)
(* The bus forgets those who left: once every subscriber of a chat is      *)
(* cancelled for good, the chat's entry goes (ChatMessageBus is a          *)
(* singleton, an entry that stayed would be a leak).                       *)
(***************************************************************************)
AllCancelled(c) == \A s \in Subs : SubChat[s] = c => cancelled[s]
BusDrains == \A c \in Chats : AllCancelled(c) ~> dict[c] = NoList
=============================================================================
