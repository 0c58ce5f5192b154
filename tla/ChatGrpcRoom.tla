---------------------------- MODULE ChatGrpcRoom ----------------------------
(***************************************************************************)
(* A chat room in the browser, over gRPC: the view (ChatGRPC.tsx, its list *)
(* of messages, REST loads and sends) and its hub (ChatHubGRPC.tsx, which  *)
(* keeps one StreamChat call up, and reconnects).  The server's side of a  *)
(* call is what ChatGrpcStream shows of it: messages past `since', in id   *)
(* order, of which any may be left out while the stream stays up.          *)
(*                                                                         *)
(* JavaScript runs one event at a time, so a step is what one event does.  *)
(* startConnection is a single step: all that it awaits is                 *)
(* buildAuthMetadata, which reads a cookie and is over before the next     *)
(* event.  The view is one chat's, for one mounting of the component.      *)
(***************************************************************************)
EXTENDS Naturals, FiniteSetsExt, SequencesExt, MessageList

CONSTANTS
  Ids,       (* message ids                                                *)
  Streams,   (* calls of StreamChat, in the order they are made            *)
  Sends,     (* calls of sendMessageWithMetrics                            *)
  NoStream   (* this.stream is null                                        *)

Loads == {"first", "second", "refresh"}

ASSUME RoomAssumption ==
  /\ Streams \subseteq Nat
  /\ Ids \subseteq Nat \ {0}
  /\ NoStream \notin Streams

VARIABLES
  issued,        (* the newest id the database has given out               *)
  db,            (* the chat's messages in the database                    *)
  mounted,       (* the component is on the page                           *)
  userId,        (* whether the view knows its user, so that the hub is up *)
  load,          (* where each REST load of the messages is                *)
  snapshot,      (* the answer to each load, while it is on its way        *)
  lastLoaded,    (* lastLoadedMessageIdRef                                 *)
  messages,      (* the list on the screen                                 *)
  send,          (* where each send is                                     *)
  sendId,        (* the id the server gave it                              *)
  received,      (* receivedMessageIdsRef                                  *)
  stream,        (* hub.stream: the current StreamChat call                *)
  state,         (* what became of each call                               *)
  cursor,        (* the id the server has got to on the current one        *)
  passedOver,    (* the later messages it will not bring on that one       *)
  lastMessageId, (* hub.lastMessageId                                      *)
  stopRequested, (* hub.stopRequested                                      *)
  timers,        (* reconnect timers that are set                          *)
  fellBack,      (* hub.triedGatewayFallbackForStream                      *)
  handed,        (* history: what the hub handed to the view, in order     *)
  lost,          (* history: what the server passed over and hub.last-     *)
                 (* MessageId has moved beyond, so that no stream brings it *)
  overwritten    (* history: a load took a message off the screen that is  *)
                 (* in the database                                        *)

serverVars == <<issued, db>>
loadVars   == <<load, snapshot, lastLoaded>>
sendVars   == <<send, sendId, received>>
connVars   == <<stream, state, stopRequested, timers, fellBack>>
hubVars    == <<connVars, cursor, passedOver, lastMessageId, handed, lost>>
vars == <<serverVars, mounted, userId, loadVars, messages, sendVars, hubVars, overwritten>>

Shown == ToSet(messages)

(***************************************************************************)
(* Mutants, as in ChatMessageBus.                                          *)
(***************************************************************************)
\* For ResumeFrom: from now on, and from the last load.
ResumeFromNow == issued
ResumeFromLoaded == lastLoaded

\* For Show: no look for the id.
ShowAgain(m) == Append(messages, m)

\* For ScheduleReconnect: the handler only logs.
NoReconnect == UNCHANGED timers

(***************************************************************************)
(* Type invariant.                                                         *)
(***************************************************************************)
TypeOK ==
  /\ issued \in Ids \union {0} /\ db \subseteq Ids
  /\ mounted \in BOOLEAN /\ userId \in BOOLEAN
  /\ load \in [Loads -> {"none", "asked", "answered", "done"}]
  /\ snapshot \in [Loads -> SUBSET Ids]
  /\ lastLoaded \in Ids \union {0}
  /\ messages \in Seq(Ids)
  /\ send \in [Sends -> {"idle", "sent", "created", "waiting", "over"}]
  /\ sendId \in [Sends -> Ids \union {0}]
  /\ received \subseteq Ids
  /\ stream \in Streams \union {NoStream}
  /\ state \in [Streams -> {"unused", "open", "closing", "over"}]
  /\ cursor \in Ids \union {0} /\ lastMessageId \in Ids \union {0}
  /\ stopRequested \in BOOLEAN /\ fellBack \in BOOLEAN
  /\ timers \in Nat
  /\ handed \in Seq(Ids)
  /\ passedOver \subseteq Ids /\ lost \subseteq Ids
  /\ overwritten \in BOOLEAN

\* The effects of mounting have run: the first load is on its way.
Init ==
  /\ issued = 0 /\ db = {}
  /\ mounted = TRUE /\ userId = FALSE
  /\ load = [l \in Loads |-> IF l = "first" THEN "asked" ELSE "none"]
  /\ snapshot = [l \in Loads |-> {}]
  /\ lastLoaded = 0
  /\ messages = <<>>
  /\ send = [x \in Sends |-> "idle"]
  /\ sendId = [x \in Sends |-> 0]
  /\ received = {}
  /\ stream = NoStream
  /\ state = [r \in Streams |-> "unused"]
  /\ cursor = 0 /\ passedOver = {} /\ lastMessageId = 0
  /\ stopRequested = FALSE /\ fellBack = FALSE
  /\ timers = 0
  /\ handed = <<>> /\ lost = {}
  /\ overwritten = FALSE

-----------------------------------------------------------------------------
(* The server *)

\* A message of the chat is inserted, whoever sent it.
Insert(m) ==
  /\ \A k \in Ids : k < m => k <= issued
  /\ m > issued
  /\ issued' = m
  /\ db' = db \union {m}

OtherSends(m) ==
  /\ Insert(m)
  /\ UNCHANGED <<mounted, userId, loadVars, messages, sendVars, hubVars, overwritten>>

-----------------------------------------------------------------------------
(* The hub *)

\* Where a call that replaces another takes up.
ResumeFrom == lastMessageId

StopCurrentStream(st) ==
  [r \in Streams |-> IF r = stream /\ st[r] \in {"open", "closing"} THEN "over" ELSE st[r]]

(***************************************************************************)
(* startConnection: cancel the stream there is, call StreamChat since the  *)
(* given id.  Calls are numbered in the order they are made.               *)
(***************************************************************************)
StartConnection(since) ==
  \E r \in Streams :
    /\ state[r] = "unused"
    /\ \A k \in Streams : state[k] = "unused" => r <= k
    /\ state' = [StopCurrentStream(state) EXCEPT ![r] = "open"]
    /\ stream' = r
    /\ stopRequested' = FALSE
    /\ lastMessageId' = since /\ cursor' = since /\ passedOver' = {}

ScheduleReconnect == timers' = timers + 1

Show(m) == IF m \in Shown THEN messages ELSE Append(messages, m)

(***************************************************************************)
(* The stream stays up and will not bring m: Subscribe took a list that    *)
(* was being removed, the full channel dropped it, the catch-up that would *)
(* have read it failed and was only logged, or m is published after a      *)
(* newer message.  ChatMessageBus and ChatGrpcStream show each of them.    *)
(***************************************************************************)
PassOver(r, m) ==
  /\ state[r] = "open"
  /\ m \in db \ passedOver /\ m > cursor
  /\ passedOver' = passedOver \union {m}
  /\ UNCHANGED <<serverVars, mounted, userId, loadVars, messages, sendVars, connVars, cursor,
                 lastMessageId, handed, lost, overwritten>>

(***************************************************************************)
(* 'data': the callback notes the id, wakes who waits for it and shows the *)
(* message once; then the hub moves lastMessageId.  Between two messages   *)
(* lie only what was passed over and what has been deleted, which the      *)
(* server may have read, or published, before it was.                      *)
(***************************************************************************)
Data(r, m) ==
  /\ state[r] = "open"
  /\ m > cursor /\ m <= issued /\ m \notin passedOver
  /\ \A k \in db : cursor < k /\ k < m => k \in passedOver
  /\ cursor' = m
  /\ handed' = Append(handed, m)
  /\ received' = received \union {m}
  /\ send' = [x \in Sends |-> IF send[x] = "waiting" /\ sendId[x] = m THEN "over" ELSE send[x]]
  /\ messages' = Show(m)
  /\ lastMessageId' = m
  /\ lost' = lost \union {k \in passedOver : k < m}
  /\ passedOver' = {k \in passedOver : k > m}
  /\ UNCHANGED <<serverVars, mounted, userId, loadVars, sendId, connVars, overwritten>>

\* Bound: a stream fails only while there is another call left to make.
CanFail(r) == state[r] = "open" /\ \E k \in Streams : state[k] = "unused"

(***************************************************************************)
(* 'error': the direct port cannot be reached, so the hub goes over to the *)
(* gateway at once, the first time; or any other failure, after which      *)
(* grpc-web may still fire 'end'.                                          *)
(***************************************************************************)
FallBack(r) ==
  /\ CanFail(r) /\ ~stopRequested /\ ~fellBack
  /\ fellBack' = TRUE
  /\ StartConnection(ResumeFrom)
  /\ UNCHANGED <<serverVars, mounted, userId, loadVars, messages, sendVars, timers, handed, lost, overwritten>>

StreamError(r) ==
  /\ CanFail(r) /\ ~stopRequested
  /\ \E after \in {"closing", "over"} : state' = [state EXCEPT ![r] = after]
  /\ ScheduleReconnect
  /\ passedOver' = {}
  /\ UNCHANGED <<serverVars, mounted, userId, loadVars, messages, sendVars, stream, stopRequested,
                 fellBack, cursor, lastMessageId, handed, lost, overwritten>>

StreamEnd(r) ==
  /\ CanFail(r) \/ state[r] = "closing"
  /\ ~stopRequested
  /\ state' = [state EXCEPT ![r] = "over"]
  /\ ScheduleReconnect
  /\ passedOver' = {}
  /\ UNCHANGED <<serverVars, mounted, userId, loadVars, messages, sendVars, stream, stopRequested,
                 fellBack, cursor, lastMessageId, handed, lost, overwritten>>

\* A mutant of TimerFires: the timer does not look at stopRequested.
TimerFiresAnyway ==
  /\ timers > 0
  /\ timers' = timers - 1
  /\ StartConnection(ResumeFrom)
  /\ UNCHANGED <<serverVars, mounted, userId, loadVars, messages, sendVars, fellBack, handed, lost, overwritten>>

\* The timer looks at stopRequested again.
TimerFires ==
  /\ timers > 0
  /\ timers' = timers - 1
  /\ \/ stopRequested /\ UNCHANGED <<cursor, passedOver, stream, state, stopRequested, lastMessageId>>
     \/ ~stopRequested /\ StartConnection(ResumeFrom)
  /\ UNCHANGED <<serverVars, mounted, userId, loadVars, messages, sendVars, fellBack, handed, lost, overwritten>>

-----------------------------------------------------------------------------
(* The view *)

\* userId is set: both effects run, the second load starts and the hub is made.
EnterRoom ==
  /\ mounted /\ ~userId
  /\ userId' = TRUE
  /\ load' = [load EXCEPT !["second"] = "asked"]
  /\ StartConnection(lastLoaded)
  /\ UNCHANGED <<serverVars, mounted, snapshot, lastLoaded, messages, sendVars, timers, fellBack, handed, lost, overwritten>>

\* leaveChat, on unmounting: what the view has, and asks for, goes with it.
LeaveRoom ==
  /\ mounted /\ userId
  /\ mounted' = FALSE
  /\ load' = [l \in Loads |-> "none"] /\ snapshot' = [l \in Loads |-> {}]
  /\ lastLoaded' = 0 /\ received' = {} /\ messages' = <<>>
  /\ stopRequested' = TRUE
  /\ state' = StopCurrentStream(state)
  /\ stream' = NoStream /\ passedOver' = {}
  /\ UNCHANGED <<serverVars, userId, send, sendId, timers, fellBack, cursor, lastMessageId,
                 handed, lost, overwritten>>

\* The server reads the messages for a load.  One that fails changes nothing, as one never answered.
LoadAnswered(l) ==
  /\ load[l] = "asked"
  /\ load' = [load EXCEPT ![l] = "answered"]
  /\ snapshot' = [snapshot EXCEPT ![l] = db]
  /\ UNCHANGED <<serverVars, mounted, userId, lastLoaded, messages, sendVars, hubVars, overwritten>>

\* setMessages(_messages): the answer takes the place of the list.
LoadDone(l) ==
  /\ mounted /\ load[l] = "answered"
  /\ load' = [load EXCEPT ![l] = "done"]
  /\ messages' \in InOrder(snapshot[l])
  /\ lastLoaded' = IF l = "refresh" THEN lastLoaded ELSE Max(snapshot[l] \union {0})
  /\ overwritten' = (overwritten \/ \E m \in Shown \intersect db : m \notin snapshot[l])
  /\ snapshot' = [snapshot EXCEPT ![l] = {}]
  /\ UNCHANGED <<serverVars, mounted, userId, sendVars, hubVars>>

(***************************************************************************)
(* handleDeleteMessage, of a message on the screen; then the list is       *)
(* loaded again, unless the answer was lost or chatData is not known yet.  *)
(***************************************************************************)
Delete(m) ==
  /\ mounted /\ userId /\ load["refresh"] = "none"
  /\ m \in Shown \intersect db
  /\ db' = db \ {m}
  /\ load' \in {load, [load EXCEPT !["refresh"] = "asked"]}
  /\ UNCHANGED <<issued, mounted, userId, snapshot, lastLoaded, messages, sendVars, hubVars, overwritten>>

\* A send needs chatData and technologyId, which a load sets.
Send(x) ==
  /\ mounted /\ userId /\ (load["first"] = "done" \/ load["second"] = "done")
  /\ send[x] = "idle"
  /\ send' = [send EXCEPT ![x] = "sent"]
  /\ UNCHANGED <<serverVars, mounted, userId, loadVars, messages, sendId, received, hubVars, overwritten>>

SendCreated(x, m) ==
  /\ send[x] = "sent"
  /\ Insert(m)
  /\ send' = [send EXCEPT ![x] = "created"]
  /\ sendId' = [sendId EXCEPT ![x] = m]
  /\ UNCHANGED <<mounted, userId, loadVars, messages, received, hubVars, overwritten>>

\* The call fails, or its answer is lost once the message has been created.
SendFails(x) ==
  /\ send[x] \in {"sent", "created"}
  /\ send' = [send EXCEPT ![x] = "over"]
  /\ UNCHANGED <<serverVars, mounted, userId, loadVars, messages, sendId, received, hubVars, overwritten>>

\* The message is shown, and waitForReceive looks at what has been received.
SendReturns(x) ==
  /\ mounted /\ send[x] = "created"
  /\ messages' = Show(sendId[x])
  /\ send' = [send EXCEPT ![x] = IF sendId[x] \in received THEN "over" ELSE "waiting"]
  /\ UNCHANGED <<serverVars, mounted, userId, loadVars, sendId, received, hubVars, overwritten>>

ReceiveTimesOut(x) ==
  /\ send[x] = "waiting"
  /\ send' = [send EXCEPT ![x] = "over"]
  /\ UNCHANGED <<serverVars, mounted, userId, loadVars, messages, sendId, received, hubVars, overwritten>>

-----------------------------------------------------------------------------
Next ==
  \/ \E m \in Ids : OtherSends(m) \/ Delete(m)
  \/ \E r \in Streams :
       \/ \E m \in Ids : PassOver(r, m) \/ Data(r, m)
       \/ FallBack(r) \/ StreamError(r) \/ StreamEnd(r)
  \/ TimerFires \/ EnterRoom \/ LeaveRoom
  \/ \E l \in Loads : LoadAnswered(l) \/ LoadDone(l)
  \/ \E x \in Sends :
       \/ \E m \in Ids : SendCreated(x, m)
       \/ Send(x) \/ SendFails(x) \/ SendReturns(x) \/ ReceiveTimesOut(x)

Spec == Init /\ [][Next]_vars

(***************************************************************************)
(* Timers fire, and a stream that stays up brings what it has not passed   *)
(* over.                                                                   *)
(***************************************************************************)
FairSpec ==
  /\ Spec
  /\ WF_vars(TimerFires)
  /\ WF_vars(\E r \in Streams : \E m \in db : Data(r, m))

-----------------------------------------------------------------------------
(* Properties *)

(***************************************************************************)
(* The list on the screen never holds a message twice, although it comes   *)
(* from loads, from the stream and, for the user's own, from the send.     *)
(***************************************************************************)
NoDuplicates == \A i, j \in DOMAIN messages : messages[i] = messages[j] => i = j

(***************************************************************************)
(* Up to where the hub has got, the list is complete: whatever the order   *)
(* of loads, stream, reconnects and deletes, a message of the database is  *)
(* on the screen, unless the server itself passed over it on a stream the  *)
(* hub then moved on with, or the answer to a load, older than what the    *)
(* stream had brought by then, has overwritten the list.                   *)
(***************************************************************************)
NothingMissing ==
  userId /\ mounted /\ ~overwritten => \A m \in db : m <= lastMessageId => m \in Shown \union lost

(***************************************************************************)
(* A room that has not been left has a stream, or a timer that will open   *)
(* one: no order of 'error', 'end', fallback and timers strands it.        *)
(***************************************************************************)
NeverStranded ==
  userId /\ mounted => timers > 0 \/ (stream # NoStream /\ state[stream] = "open")

(***************************************************************************)
(* One stream at most is open, and none once the room has been left,       *)
(* though timers may be pending and may fire later.                        *)
(***************************************************************************)
OneStream ==
  \A r \in Streams : state[r] = "open" => r = stream /\ mounted

(***************************************************************************)
(* The hub, over any number of streams, is one ordered feed: what it hands *)
(* on is past where it started, strictly increasing and issued, across     *)
(* errors, fallback and reconnects.                                        *)
(***************************************************************************)
HubFeed == INSTANCE OrderedFeed WITH
  Readers <- {"hub"}, Wanted <- [h \in {"hub"} |-> Ids],
  cursor <- [h \in {"hub"} |-> lastMessageId], delivered <- [h \in {"hub"} |-> handed]

ImplementsFeed == HubFeed!FeedSpec

(***************************************************************************)
(* In the end the room shows every message of its chat, over any number of *)
(* errors and reconnects, save what the stream it stays on has passed over *)
(* for good: a message passed over before an error comes after it, if the  *)
(* hub has not moved beyond it.                                            *)
(***************************************************************************)
EventuallyShown ==
  \A m \in Ids :
    []<>(m \notin passedOver) =>
      (m \in db /\ userId) ~> m \in Shown \union lost \/ m \notin db \/ ~mounted \/ overwritten
=============================================================================
