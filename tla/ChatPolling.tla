----------------------------- MODULE ChatPolling -----------------------------
(***************************************************************************)
(* A chat room in the browser, over REST polling: the view                 *)
(* (ChatPolling.tsx) and its hub (ChatHubPolling.tsx), which asks for the  *)
(* messages past lastMessageId again and again, one request at a time.     *)
(*                                                                         *)
(* JavaScript runs one event at a time, so a step is what one event does;  *)
(* only the loop that hands new messages to the view is taken apart, and   *)
(* no other event comes before it is over.  A request is asked, read by    *)
(* the server and handled in the browser in three steps.  The delays, the  *)
(* backoff among them, are left out: a timer that is set may fire.  The    *)
(* view is one chat's, for one mounting of the component, with one hub.    *)
(***************************************************************************)
EXTENDS Naturals, FiniteSetsExt, SequencesExt, MessageList

CONSTANTS
  Ids,       (* message ids                                                *)
  Sends      (* calls of sendMessageWithMetrics                            *)

Loads == {"first", "second", "refresh"}

ASSUME PollingAssumption == Ids \subseteq Nat \ {0}

VARIABLES
  issued,        (* the newest id the database has given out               *)
  db,            (* the chat's messages in the database                    *)
  mounted,       (* the component is on the page                           *)
  userId,        (* whether the view knows its user, so that there is a hub*)
  load,          (* where each REST load of the view is                    *)
  snapshot,      (* the answer to each load, while it is on its way        *)
  readAt,        (* history: `issued' when the server read that answer      *)
  messages,      (* the list on the screen                                 *)
  send,          (* where each send is                                     *)
  sendId,        (* the id the server gave it                              *)
  received,      (* receivedMessageIdsRef                                  *)
  ready,         (* chatHubPolling is set: startConnection is over         *)
  running,       (* hub.running                                            *)
  request,       (* what the hub waits for: an answer, its timer, nothing  *)
  answer,        (* what came of the request                               *)
  rows,          (* the messages in the answer                             *)
  token,         (* the token of the poll under way                        *)
  pollToken,     (* hub.pollToken                                          *)
  lastMessageId, (* hub.lastMessageId                                      *)
  queue,         (* newMsgs not handed to the view yet                     *)
  handed,        (* history: what the hub handed to the view, in order     *)
  start,         (* history: lastMessageId as the hub's own load set it    *)
  shownAt,       (* history: readAt of the load that the list came from    *)
  overwritten    (* history: a load took a message off the screen that is  *)
                 (* in the database                                        *)

serverVars == <<issued, db>>
loadVars   == <<load, snapshot, readAt>>
sendVars   == <<send, sendId, received>>
pollVars   == <<request, answer, rows, token>>
hubVars    == <<ready, running, pollToken, lastMessageId, queue, handed, start>>
viewVars   == <<mounted, userId, messages, shownAt, overwritten>>
vars == <<serverVars, loadVars, sendVars, pollVars, hubVars, viewVars>>

Shown == ToSet(messages)

(***************************************************************************)
(* Type invariant.                                                         *)
(***************************************************************************)
TypeOK ==
  /\ issued \in Ids \union {0} /\ db \subseteq Ids
  /\ mounted \in BOOLEAN /\ userId \in BOOLEAN
  /\ load \in [Loads -> {"none", "asked", "answered", "done", "failed"}]
  /\ snapshot \in [Loads -> SUBSET Ids]
  /\ readAt \in [Loads -> Ids \union {0}]
  /\ messages \in Seq(Ids)
  /\ send \in [Sends -> {"idle", "sent", "created", "waiting", "over"}]
  /\ sendId \in [Sends -> Ids \union {0}]
  /\ received \subseteq Ids
  /\ ready \in BOOLEAN /\ running \in BOOLEAN
  /\ request \in {"none", "load", "after", "all", "timer"}
  /\ answer \in {"pending", "ok", "failed"}
  /\ rows \subseteq Ids
  /\ pollToken \in 0..2 /\ token \in 0..pollToken
  /\ lastMessageId \in Ids \union {0}
  /\ queue \in Seq(Ids) /\ handed \in Seq(Ids)
  /\ start \in Ids \union {0} /\ shownAt \in Ids \union {0}
  /\ overwritten \in BOOLEAN

\* The effects of mounting have run: the first load is on its way.
Init ==
  /\ issued = 0 /\ db = {}
  /\ mounted = TRUE /\ userId = FALSE
  /\ load = [l \in Loads |-> IF l = "first" THEN "asked" ELSE "none"]
  /\ snapshot = [l \in Loads |-> {}] /\ readAt = [l \in Loads |-> 0]
  /\ messages = <<>>
  /\ send = [x \in Sends |-> "idle"] /\ sendId = [x \in Sends |-> 0]
  /\ received = {}
  /\ ready = FALSE /\ running = FALSE
  /\ request = "none" /\ answer = "pending" /\ rows = {}
  /\ token = 0 /\ pollToken = 0
  /\ lastMessageId = 0
  /\ queue = <<>> /\ handed = <<>>
  /\ start = 0 /\ shownAt = 0
  /\ overwritten = FALSE

(***************************************************************************)
(* Mutants, as in ChatMessageBus.                                          *)
(***************************************************************************)
\* For Fresh: an answer is handed on whichever poll asked for it.
AlwaysFresh == TRUE

\* For NewMessages: the answer of the fallback, which has all messages, is not filtered.
AllRows == rows

\* For NewMessages: the newest alone.
NewestRow == {m \in rows : m > lastMessageId /\ \A k \in rows : k <= m}

-----------------------------------------------------------------------------
(* The server *)

Insert(m) ==
  /\ \A k \in Ids : k < m => k <= issued
  /\ m > issued
  /\ issued' = m
  /\ db' = db \union {m}

OtherSends(m) ==
  /\ Insert(m)
  /\ UNCHANGED <<loadVars, sendVars, pollVars, hubVars, viewVars>>

LoadAnswered(l) ==
  /\ load[l] = "asked"
  /\ \/ /\ load' = [load EXCEPT ![l] = "answered"]
        /\ snapshot' = [snapshot EXCEPT ![l] = db]
        /\ readAt' = [readAt EXCEPT ![l] = issued]
     \/ /\ load' = [load EXCEPT ![l] = "failed"]
        /\ UNCHANGED <<snapshot, readAt>>
  /\ UNCHANGED <<serverVars, sendVars, pollVars, hubVars, viewVars>>

Pending == request \in {"load", "after", "all"} /\ answer = "pending"

\* GetMessagesForChatAfterId, or GetMessagesForChat for the other two requests.
HubAnswered ==
  /\ Pending
  /\ answer' = "ok"
  /\ rows' = {m \in db : request = "after" => m > lastMessageId}
  /\ UNCHANGED <<serverVars, loadVars, sendVars, request, token, hubVars, viewVars>>

HubRefused ==
  /\ Pending
  /\ answer' = "failed"
  /\ UNCHANGED <<serverVars, loadVars, sendVars, request, rows, token, hubVars, viewVars>>

SendCreated(x, m) ==
  /\ send[x] = "sent"
  /\ Insert(m)
  /\ send' = [send EXCEPT ![x] = "created"]
  /\ sendId' = [sendId EXCEPT ![x] = m]
  /\ UNCHANGED <<loadVars, received, pollVars, hubVars, viewVars>>

-----------------------------------------------------------------------------
(* The hub *)

Ask(what) == request' = what /\ answer' = "pending" /\ rows' = {}

\* A mutant of ScheduleNext: no look at `running'.
ScheduleAnyway == Ask("timer")

\* scheduleNext
ScheduleNext == Ask(IF running THEN "timer" ELSE "none")

\* startConnection once its own load has come, or has failed.
HubLoaded ==
  /\ request = "load" /\ answer # "pending"
  /\ lastMessageId' = IF answer = "ok" THEN Max(rows \union {0}) ELSE 0
  /\ start' = lastMessageId'
  /\ ready' = TRUE
  /\ ScheduleNext
  /\ UNCHANGED <<serverVars, loadVars, sendVars, token, running, pollToken, queue, handed, viewVars>>

\* The timer fires: pollLoop, and pollOnce up to its first await.
TimerFires ==
  /\ request = "timer"
  /\ Ask("after")
  /\ token' = pollToken
  /\ UNCHANGED <<serverVars, loadVars, sendVars, hubVars, viewVars>>

\* "Fallback for older backends": the poll is refused, and asks for all messages.
PollFallsBack ==
  /\ request = "after" /\ answer = "failed"
  /\ Ask("all")
  /\ UNCHANGED <<serverVars, loadVars, sendVars, token, hubVars, viewVars>>

\* A mutant of PollFails: the error is not caught.
PollFailsForGood ==
  /\ request = "all" /\ answer = "failed"
  /\ Ask("none")
  /\ UNCHANGED <<serverVars, loadVars, sendVars, token, hubVars, viewVars>>

\* The error goes up to pollLoop, which schedules the next poll all the same.
PollFails ==
  /\ request = "all" /\ answer = "failed"
  /\ ScheduleNext
  /\ UNCHANGED <<serverVars, loadVars, sendVars, token, hubVars, viewVars>>

Fresh == token = pollToken

NewMessages == {m \in rows : m > lastMessageId}

PollDone ==
  /\ request \in {"after", "all"} /\ answer = "ok"
  /\ queue' \in IF Fresh THEN InOrder(NewMessages) ELSE {<<>>}
  /\ ScheduleNext
  /\ UNCHANGED <<serverVars, loadVars, sendVars, token, ready, running, pollToken, lastMessageId, handed,
                 start, viewVars>>

(***************************************************************************)
(* onMessageReceived of the next new message; after the last,              *)
(* lastMessageId moves to it.                                              *)
(***************************************************************************)
Hand ==
  LET m == Head(queue)
  IN /\ queue # <<>>
     /\ queue' = Tail(queue)
     /\ handed' = Append(handed, m)
     /\ received' = received \union {m}
     /\ send' = [x \in Sends |-> IF send[x] = "waiting" /\ sendId[x] = m THEN "over" ELSE send[x]]
     /\ messages' = IF m \in Shown THEN messages ELSE Append(messages, m)
     /\ lastMessageId' = IF Tail(queue) = <<>> THEN m ELSE lastMessageId
     /\ UNCHANGED <<serverVars, loadVars, sendId, pollVars, ready, running, pollToken, start, mounted,
                    userId, shownAt, overwritten>>

-----------------------------------------------------------------------------
(* The view *)

\* userId is set: both effects run, the second load starts and the hub is made and started.
EnterRoom ==
  /\ mounted /\ ~userId
  /\ userId' = TRUE
  /\ load' = [load EXCEPT !["second"] = "asked"]
  /\ running' = TRUE /\ pollToken' = pollToken + 1
  /\ Ask("load")
  /\ UNCHANGED <<serverVars, snapshot, readAt, sendVars, token, ready, lastMessageId, queue, handed,
                 start, mounted, messages, shownAt, overwritten>>

\* leaveChat, on unmounting: the timer is cleared, a request under way is not.
LeaveRoom ==
  /\ mounted /\ userId
  /\ mounted' = FALSE
  /\ running' = FALSE /\ pollToken' = pollToken + 1
  /\ request' = IF request = "timer" THEN "none" ELSE request
  /\ UNCHANGED <<serverVars, loadVars, sendVars, answer, rows, token, ready, lastMessageId, queue, handed,
                 start, userId, messages, shownAt, overwritten>>

\* setMessages(_messages): the answer takes the place of the list.
LoadDone(l) ==
  /\ mounted /\ load[l] = "answered"
  /\ load' = [load EXCEPT ![l] = "done"]
  /\ messages' \in InOrder(snapshot[l])
  /\ shownAt' = readAt[l]
  /\ overwritten' = (overwritten \/ \E m \in Shown \intersect db : m \notin snapshot[l])
  /\ snapshot' = [snapshot EXCEPT ![l] = {}] /\ readAt' = [readAt EXCEPT ![l] = 0]
  /\ UNCHANGED <<serverVars, sendVars, pollVars, hubVars, mounted, userId>>

(***************************************************************************)
(* handleDeleteMessage, of a message on the screen; then the list is       *)
(* loaded again, unless the answer was lost or chatData is not known yet.  *)
(***************************************************************************)
Delete(m) ==
  /\ mounted /\ userId /\ load["refresh"] = "none"
  /\ m \in Shown \intersect db
  /\ db' = db \ {m}
  /\ load' \in {load, [load EXCEPT !["refresh"] = "asked"]}
  /\ UNCHANGED <<issued, snapshot, readAt, sendVars, pollVars, hubVars, viewVars>>

\* A send needs the hub, and chatData and technologyId, which a load sets.
Send(x) ==
  /\ mounted /\ ready /\ (load["first"] = "done" \/ load["second"] = "done")
  /\ send[x] = "idle"
  /\ send' = [send EXCEPT ![x] = "sent"]
  /\ UNCHANGED <<serverVars, loadVars, sendId, received, pollVars, hubVars, viewVars>>

\* The call fails, or its answer is lost once the message has been created.
SendFails(x) ==
  /\ send[x] \in {"sent", "created"}
  /\ send' = [send EXCEPT ![x] = "over"]
  /\ UNCHANGED <<serverVars, loadVars, sendId, received, pollVars, hubVars, viewVars>>

\* The message is not shown, nor does lastMessageId move: a poll is to bring it.
SendReturns(x) ==
  /\ send[x] = "created"
  /\ send' = [send EXCEPT ![x] = IF sendId[x] \in received THEN "over" ELSE "waiting"]
  /\ UNCHANGED <<serverVars, loadVars, sendId, received, pollVars, hubVars, viewVars>>

ReceiveTimesOut(x) ==
  /\ send[x] = "waiting"
  /\ send' = [send EXCEPT ![x] = "over"]
  /\ UNCHANGED <<serverVars, loadVars, sendId, received, pollVars, hubVars, viewVars>>

-----------------------------------------------------------------------------
ServerStep ==
  \/ \E m \in Ids : OtherSends(m) \/ \E x \in Sends : SendCreated(x, m)
  \/ \E l \in Loads : LoadAnswered(l)
  \/ HubAnswered \/ HubRefused

HubEvent == HubLoaded \/ TimerFires \/ PollFallsBack \/ PollFails \/ PollDone

ViewEvent ==
  \/ EnterRoom \/ LeaveRoom
  \/ \E l \in Loads : LoadDone(l)
  \/ \E m \in Ids : Delete(m)
  \/ \E x \in Sends : Send(x) \/ SendFails(x) \/ SendReturns(x) \/ ReceiveTimesOut(x)

Next ==
  \/ ServerStep
  \/ Hand
  \/ queue = <<>> /\ (HubEvent \/ ViewEvent)

Spec == Init /\ [][Next]_vars

(***************************************************************************)
(* The hub's events happen: its timer fires, an answer is handled.  The    *)
(* server answers, and does not refuse every request for ever.             *)
(***************************************************************************)
FairSpec ==
  /\ Spec
  /\ WF_vars(Hand) /\ WF_vars(queue = <<>> /\ HubEvent)
  /\ WF_vars(HubAnswered \/ HubRefused) /\ SF_vars(HubAnswered)

-----------------------------------------------------------------------------
(* Properties *)

(***************************************************************************)
(* Up to where the hub has got, the list is complete, but for the messages *)
(* that fall between two reads: the view's load was read before them, and  *)
(* the hub's own load, which hands nothing on, after them.  (Excused too:  *)
(* a load that overwrote the list with an older one.)                      *)
(***************************************************************************)
NothingMissing ==
  mounted /\ ~overwritten =>
    \A m \in db : m <= lastMessageId => m \in Shown \/ (shownAt < m /\ m <= start)

(***************************************************************************)
(* Nothing is handed to a view that has been left, though a request may    *)
(* be under way then and its answer, or that of its fallback, come later.  *)
(***************************************************************************)
NothingAfterLeaving == [][handed' # handed => mounted]_vars

(***************************************************************************)
(* A room in use polls: whatever fails, there is a timer or a request      *)
(* under way; a room that was left stops once its last request is over.    *)
(***************************************************************************)
PollsWhileInUse ==
  /\ mounted /\ userId => request # "none"
  /\ ~mounted => request # "timer"

(***************************************************************************)
(* The hub is an ordered feed: across polls, fallbacks that bring all      *)
(* messages, and failures, what it hands on is past where it started,      *)
(* strictly increasing and issued.                                         *)
(***************************************************************************)
Position == Max({lastMessageId} \union ToSet(handed))

HubFeed == INSTANCE OrderedFeed WITH
  Readers <- {"hub"}, Wanted <- [h \in {"hub"} |-> Ids],
  cursor <- [h \in {"hub"} |-> Position], delivered <- [h \in {"hub"} |-> handed]

ImplementsFeed == HubFeed!FeedSpec

(***************************************************************************)
(* In the end the room shows every message that the hub did not start      *)
(* past.                                                                   *)
(***************************************************************************)
EventuallyShown ==
  \A m \in Ids :
    (m \in db /\ ready) ~> (m \in Shown \/ m \notin db \/ ~mounted \/ overwritten \/ m <= start)
=============================================================================
