----------------------------- MODULE ChatPushRoom -----------------------------
(***************************************************************************)
(* A chat room in the browser, over the four techniques by which the       *)
(* server pushes: SignalR, raw WebSockets, Socket.IO and SSE.  The view    *)
(* (ChatSignalR.tsx and its like) loads the chat over REST and has a hub   *)
(* hand it what is new; none of the hubs asks for what it missed.          *)
(*                                                                         *)
(* A step is one event: of the browser, of the network, or of the server.  *)
(* What arrives over a connection arrives in order, after 0, the answer    *)
(* to the join, where there is one.  A delay is left out: a timer that is  *)
(* set may fire.  One view, one chat, one mounting of the component, as    *)
(* production builds run it (StrictMode mounts twice in development).      *)
(***************************************************************************)
EXTENDS Naturals, FiniteSetsExt, SequencesExt, MessageList

CONSTANTS
  Ids,       (* message ids                                                *)
  MaxGuards  (* bound: the guards of Socket.IO joins that are set at once  *)

ASSUME PushAssumption == Ids \subseteq Nat \ {0} /\ MaxGuards \in Nat

Techs == {"SignalR", "WebSockets", "SocketIO", "SSE"}
Loads == {"first", "second", "refresh"}

VARIABLES
  tech,        (* the technique, which a room does not change              *)
  mounted,     (* the component is on the page                             *)
  userId,      (* whether the view knows its user                          *)
  load,        (* where each load is                                       *)
  snapshot,    (* its answer, while it is on its way                       *)
  messages,    (* the list on the screen                                   *)
  inserted,    (* ids the database has given out                           *)
  db,          (* the chat's messages in the database                      *)
  unannounced, (* inserted, not broadcast yet                              *)
  phase,       (* where the hub's connection is                            *)
  member,      (* it is in the chat's group, room or list at the server    *)
  handler,     (* the view's callback is registered                        *)
  wire,        (* on its way to the browser                                *)
  guards,      (* joinTimeoutId timers of Socket.IO that are set           *)
  own,         (* where a message the user sends over SSE is               *)
  ownId,       (* the id the server gave it                                *)
  lost,        (* history: announced while no one was listening, or on the *)
               (* wire of a connection that went, or taken off the list by *)
               (* a load that was read before                              *)
  abandoned    (* history: the connection was down while it was being left *)

serverVars == <<inserted, db, unannounced>>
loadVars   == <<load, snapshot>>
viewVars   == <<tech, mounted, userId>>
connVars   == <<phase, member, handler, wire, guards>>
ownVars    == <<own, ownId>>
vars == <<viewVars, loadVars, messages, serverVars, connVars, ownVars, lost, abandoned>>

Shown == ToSet(messages)
OnWire == ToSet(wire) \ {0}

(***************************************************************************)
(* Type invariant.                                                         *)
(***************************************************************************)
Phases == {"off", "connecting", "joining", "live", "waiting", "outside", "leaving", "dead"}

TypeOK ==
  /\ tech \in Techs /\ mounted \in BOOLEAN /\ userId \in BOOLEAN
  /\ load \in [Loads -> {"none", "asked", "chat", "read", "done", "failed"}]
  /\ snapshot \in [Loads -> SUBSET Ids]
  /\ messages \in Seq(Ids)
  /\ inserted \subseteq Ids /\ db \subseteq inserted /\ unannounced \subseteq inserted
  /\ phase \in Phases /\ member \in BOOLEAN /\ handler \in BOOLEAN
  /\ wire \in Seq(Ids \union {0})
  /\ guards \in 0..MaxGuards
  /\ own \in {"idle", "asked", "created", "over"} /\ ownId \in Ids \union {0}
  /\ lost \subseteq inserted
  /\ abandoned \in BOOLEAN
  /\ member => phase \in {"joining", "live", "leaving"}

\* The effects of mounting have run.  The client of SSE does not wait for the user.
Init ==
  /\ tech \in Techs
  /\ mounted = TRUE /\ userId = FALSE
  /\ load = [l \in Loads |-> IF l = "first" /\ tech # "SignalR" THEN "asked" ELSE "none"]
  /\ snapshot = [l \in Loads |-> {}]
  /\ messages = <<>>
  /\ inserted = {} /\ db = {} /\ unannounced = {}
  /\ phase = IF tech = "SSE" THEN "connecting" ELSE "off"
  /\ member = FALSE /\ handler = (tech \in {"WebSockets", "SSE"})
  /\ wire = <<>> /\ guards = 0
  /\ own = "idle" /\ ownId = 0
  /\ lost = {} /\ abandoned = FALSE

-----------------------------------------------------------------------------
(* The server *)

Insert(m) ==
  /\ inserted = {k \in Ids : k < m}
  /\ inserted' = inserted \union {m} /\ db' = db \union {m}
  /\ unannounced' = unannounced \union {m}

OtherSends(m) ==
  /\ Insert(m)
  /\ UNCHANGED <<viewVars, loadVars, messages, connVars, ownVars, lost, abandoned>>

\* SignalR has no callback until JoinChat has returned; the others lose nothing once in.
Listening ==
  /\ member
  /\ tech = "SignalR" /\ ~handler => 0 \in ToSet(wire)

\* The broadcast, once the message is saved.
Announce(m) ==
  /\ m \in unannounced
  /\ unannounced' = unannounced \ {m}
  /\ wire' = IF member THEN Append(wire, m) ELSE wire
  /\ lost' = IF Listening THEN lost ELSE lost \union {m}
  /\ UNCHANGED <<viewVars, loadVars, messages, inserted, db, phase, member, handler, guards, ownVars,
                 abandoned>>

\* The server has let go of a member whose connection stays up: SSE evicts a
\* client on which two writes met (ChatSse), and a WebSocket that joined while
\* another left may be in a group nobody finds (ChatWebSockets).
Overlooked(m) ==
  /\ tech \in {"SSE", "WebSockets"} /\ member /\ m \in unannounced
  /\ unannounced' = unannounced \ {m}
  /\ lost' = lost \union {m}
  /\ UNCHANGED <<viewVars, loadVars, messages, inserted, db, connVars, ownVars, abandoned>>

\* SocketIoService got no answer from the gateway in time: saved, but not broadcast.
UpstreamTimesOut(m) ==
  /\ tech = "SocketIO" /\ m \in unannounced
  /\ unannounced' = unannounced \ {m}
  /\ lost' = lost \union {m}
  /\ UNCHANGED <<viewVars, loadVars, messages, inserted, db, connVars, ownVars, abandoned>>

-----------------------------------------------------------------------------
(* The connection *)

\* The connection goes, and with it what was on its way.
Disconnect(next) ==
  /\ phase' = next /\ member' = FALSE /\ wire' = <<>>
  /\ lost' = lost \union OnWire

Attempting == phase \in {"connecting", "waiting"}

ConnStep == UNCHANGED <<viewVars, loadVars, messages, serverVars, ownVars>>

(* WebSockets: connect and scheduleReconnect, for ever.                     *)

\* onopen sends the join frame; nothing answers it.
WsOpens ==
  /\ tech = "WebSockets" /\ Attempting
  /\ phase' = "live"
  /\ UNCHANGED <<member, handler, wire, guards, lost, abandoned>> /\ ConnStep

\* ChatWebSocketHandler adds the connection to the chat's group.
WsJoins ==
  /\ tech = "WebSockets" /\ phase = "live"
  /\ member' = TRUE
  /\ UNCHANGED <<phase, handler, wire, guards, lost, abandoned>> /\ ConnStep

\* A mutant of WsCloses: the timer is set only when a connection had been open.
WsClosesForGood ==
  /\ tech = "WebSockets" /\ phase \in {"connecting", "live"}
  /\ Disconnect(IF phase = "live" THEN "waiting" ELSE "dead")
  /\ UNCHANGED <<handler, guards, abandoned>> /\ ConnStep

\* onclose, unless disconnect was called: the attempt failed, the server closed, or the network went.
WsCloses ==
  /\ tech = "WebSockets" /\ phase \in {"connecting", "live"}
  /\ Disconnect("waiting")
  /\ UNCHANGED <<handler, guards, abandoned>> /\ ConnStep

(* SSE: EventSource retries by itself.                                      *)

\* GetStream adds the client to the chat's list.
SseOpens ==
  /\ tech = "SSE" /\ Attempting
  /\ phase' = "live" /\ member' = TRUE
  /\ UNCHANGED <<handler, wire, guards, lost, abandoned>> /\ ConnStep

\* onerror: the base URL is the direct one, so there is no other to fall back to.
SseErrs ==
  /\ tech = "SSE" /\ phase \in {"connecting", "live"}
  /\ Disconnect("waiting")
  /\ UNCHANGED <<handler, guards, abandoned>> /\ ConnStep

\* An answer other than 200 (external: an EventSource then does not retry).
SseRefused ==
  /\ tech = "SSE" /\ Attempting
  /\ Disconnect("dead")
  /\ UNCHANGED <<handler, guards, abandoned>> /\ ConnStep

(* SignalR: startConnection, and withAutomaticReconnect.                    *)

\* start returns, or the connection is back: JoinChat is invoked.
SignalRConnects ==
  /\ tech = "SignalR" /\ Attempting
  /\ phase' = "joining"
  /\ UNCHANGED <<member, handler, wire, guards, lost, abandoned>> /\ ConnStep

\* start throws, or the delays have all been used.
SignalRGivesUp ==
  /\ tech = "SignalR" /\ Attempting
  /\ Disconnect("dead")
  /\ UNCHANGED <<handler, guards, abandoned>> /\ ConnStep

\* JoinChat: the group is joined, and then the invocation completes.
SignalRJoins ==
  /\ tech = "SignalR" /\ phase = "joining" /\ ~member
  /\ member' = TRUE
  /\ UNCHANGED <<phase, handler, wire, guards, lost, abandoned>> /\ ConnStep

SignalRJoinCompletes ==
  /\ tech = "SignalR" /\ phase = "joining" /\ member /\ 0 \notin ToSet(wire)
  /\ wire' = Append(wire, 0)
  /\ UNCHANGED <<phase, member, handler, guards, lost, abandoned>> /\ ConnStep

(***************************************************************************)
(* JoinChat throws: startConnection throws and leaves the connection open, *)
(* or the rejoin is logged.  Connected, then, and not in the room.         *)
(***************************************************************************)
SignalRJoinFails ==
  /\ tech = "SignalR" /\ phase = "joining" /\ ~member
  /\ phase' = "outside"
  /\ UNCHANGED <<member, handler, wire, guards, lost, abandoned>> /\ ConnStep

\* Only a connection that has been in the room rejoins when it is back.
SignalRDrops ==
  /\ tech = "SignalR" /\ phase \in {"joining", "live", "outside", "leaving"}
  /\ Disconnect(IF handler THEN "waiting" ELSE "outside")
  /\ abandoned' = (abandoned \/ phase = "leaving")
  /\ UNCHANGED <<handler, guards>> /\ ConnStep

(* Socket.IO: connect, with a guard on each join.                           *)

\* 'connect': the guard is set and the join emitted.
SocketConnects ==
  /\ tech = "SocketIO" /\ Attempting /\ guards < MaxGuards
  /\ phase' = "joining"
  /\ guards' = guards + 1
  /\ UNCHANGED <<member, handler, wire, lost, abandoned>> /\ ConnStep

\* 'connect_error' ends the socket, so that an attempt to reconnect is the last if it fails.
SocketConnectFails ==
  /\ tech = "SocketIO" /\ Attempting
  /\ Disconnect("dead")
  /\ UNCHANGED <<handler, guards, abandoned>> /\ ConnStep

\* The server's check has come back: it joins the room and acks, in one go.
SocketJoins ==
  /\ tech = "SocketIO" /\ phase = "joining" /\ ~member
  /\ member' = TRUE
  /\ wire' = Append(wire, 0)
  /\ UNCHANGED <<phase, handler, guards, lost, abandoned>> /\ ConnStep

SocketJoinRefused ==
  /\ tech = "SocketIO" /\ phase = "joining" /\ ~member
  /\ Disconnect("dead")
  /\ guards' = IF handler THEN guards ELSE guards - 1
  /\ UNCHANGED <<handler, abandoned>> /\ ConnStep

SocketDrops ==
  /\ tech = "SocketIO" /\ phase \in {"joining", "live"}
  /\ Disconnect("waiting")
  /\ UNCHANGED <<handler, guards, abandoned>> /\ ConnStep

\* The guard goes off: the socket is disconnected, joined or not, and stays so.
GuardFires ==
  /\ guards > 0
  /\ guards' = guards - 1
  /\ Disconnect("dead")
  /\ UNCHANGED <<handler, abandoned>> /\ ConnStep

\* What done() does with the guard: it returns at once when the first join has been answered.
JoinGuards == IF tech = "SocketIO" /\ ~handler THEN guards - 1 ELSE guards

\* A mutant of JoinAnswered: the callback is registered only if the chat has been loaded.
JoinAnsweredIfLoaded ==
  /\ wire # <<>> /\ Head(wire) = 0
  /\ wire' = Tail(wire)
  /\ handler' = (load["second"] = "done")
  /\ phase' = IF phase = "joining" THEN "live" ELSE phase
  /\ guards' = JoinGuards
  /\ UNCHANGED <<member, lost, abandoned>> /\ ConnStep

\* The answer to the join: the promise is resolved and the view's callback registered.
JoinAnswered ==
  /\ wire # <<>> /\ Head(wire) = 0
  /\ wire' = Tail(wire)
  /\ handler' = TRUE
  /\ phase' = IF phase = "joining" THEN "live" ELSE phase
  /\ guards' = JoinGuards
  /\ UNCHANGED <<member, lost, abandoned>> /\ ConnStep

-----------------------------------------------------------------------------
(* The view *)

\* A mutant of Add: it is appended whether it is there or not.
AddAlways(m) == Append(messages, m)

\* setMessages(prev => ...): no message is shown twice.
Add(m) == IF m \in Shown THEN messages ELSE Append(messages, m)

\* The callback of the hub.
MessageArrives ==
  /\ wire # <<>> /\ Head(wire) # 0
  /\ wire' = Tail(wire)
  /\ messages' = IF handler /\ mounted THEN Add(Head(wire)) ELSE messages
  /\ UNCHANGED <<viewVars, loadVars, serverVars, phase, member, handler, guards, ownVars, lost, abandoned>>

\* The effect makes a hub, in place of the one there was, if any, and starts it.
NewHub ==
  /\ Disconnect("connecting")
  /\ handler' = (tech \in {"WebSockets", "SSE"})
  /\ guards' = 0

\* userId is set: the effects that depend on it run.
UserKnown(loads) ==
  /\ mounted /\ ~userId
  /\ userId' = TRUE
  /\ load' = [l \in Loads |-> IF l \in loads THEN "asked" ELSE load[l]]
  /\ NewHub
  /\ UNCHANGED <<tech, mounted, snapshot, messages, serverVars, ownVars, abandoned>>

\* The chat is loaded beside the user, and not again.
WsUserKnown == tech = "WebSockets" /\ UserKnown({})

\* The chat is loaded once the user is known.
SignalRUserKnown == tech = "SignalR" /\ UserKnown({"second"})

\* The chat is loaded again: the first load may be on its way still.
SocketUserKnown == tech = "SocketIO" /\ UserKnown({"second"})

\* As with Socket.IO; and the client there is is closed, and another made.
SseUserKnown == tech = "SSE" /\ UserKnown({"second"})

\* setChatData: the effect of Socket.IO depends on it, and makes another hub.
ChatKnown(l) ==
  /\ mounted /\ load[l] = "asked"
  /\ load' = [load EXCEPT ![l] = "chat"]
  /\ IF tech = "SocketIO" /\ userId THEN NewHub ELSE UNCHANGED <<connVars, lost>>
  /\ UNCHANGED <<viewVars, snapshot, messages, serverVars, ownVars, abandoned>>

\* GetMessagesForChat at the server.
MessagesRead(l) ==
  /\ load[l] = "chat"
  /\ load' = [load EXCEPT ![l] = "read"]
  /\ snapshot' = [snapshot EXCEPT ![l] = db]
  /\ UNCHANGED <<viewVars, messages, serverVars, connVars, ownVars, lost, abandoned>>

LoadFails(l) ==
  /\ load[l] \in {"asked", "chat"}
  /\ load' = [load EXCEPT ![l] = "failed"]
  /\ UNCHANGED <<viewVars, snapshot, messages, serverVars, connVars, ownVars, lost, abandoned>>

\* setMessages(_messages): the answer takes the place of the list.
LoadDone(l) ==
  /\ mounted /\ load[l] = "read"
  /\ load' = [load EXCEPT ![l] = "done"]
  /\ messages' \in InOrder(snapshot[l])
  /\ lost' = lost \union ((Shown \intersect db) \ snapshot[l])
  /\ snapshot' = [snapshot EXCEPT ![l] = {}]
  /\ UNCHANGED <<viewVars, serverVars, connVars, ownVars, abandoned>>

\* handleDeleteMessage: deleted, and the list asked for again, unless the answer is lost.
Delete(m) ==
  /\ mounted /\ userId /\ load["refresh"] = "none"
  /\ m \in Shown \intersect db
  /\ db' = db \ {m}
  /\ load' \in {load, [load EXCEPT !["refresh"] = "chat"]}
  /\ UNCHANGED <<viewVars, snapshot, messages, inserted, unannounced, connVars, ownVars, lost, abandoned>>

(* A message of one's own: over SSE it is sent by REST and shown when REST  *)
(* answers.  Over the others it is shown when it comes back, like any other.*)

SseSend ==
  /\ tech = "SSE" /\ mounted /\ userId /\ own = "idle"
  /\ \E l \in Loads : load[l] = "done"
  /\ own' = "asked"
  /\ UNCHANGED <<viewVars, loadVars, messages, serverVars, connVars, ownId, lost, abandoned>>

SseSaved(m) ==
  /\ own = "asked"
  /\ Insert(m)
  /\ own' = "created" /\ ownId' = m
  /\ UNCHANGED <<viewVars, loadVars, messages, connVars, lost, abandoned>>

\* REST answers once the broadcast is over: "Optimistic UI update".
SseSendReturns ==
  /\ own = "created" /\ ownId \notin unannounced
  /\ own' = "over"
  /\ messages' = IF mounted THEN Add(ownId) ELSE messages
  /\ UNCHANGED <<viewVars, loadVars, serverVars, connVars, ownId, lost, abandoned>>

SseSendFails ==
  /\ own \in {"asked", "created"}
  /\ own' = "over"
  /\ UNCHANGED <<viewVars, loadVars, messages, serverVars, connVars, ownId, lost, abandoned>>

(***************************************************************************)
(* Unmounting.  disconnect and close end a connection whatever it is at;   *)
(* leaveChat asks the server first, and if it cannot, does not stop it.    *)
(***************************************************************************)
\* A mutant of Leave: closedExplicitly is not set.
LeaveUnmarked ==
  /\ mounted /\ tech # "SignalR"
  /\ mounted' = FALSE
  /\ Disconnect(IF tech = "WebSockets" /\ phase = "live" THEN "waiting" ELSE "off")
  /\ guards' = 0
  /\ UNCHANGED <<tech, userId, loadVars, messages, serverVars, handler, ownVars, abandoned>>

Leave ==
  /\ mounted /\ tech # "SignalR"
  /\ mounted' = FALSE
  /\ Disconnect("off")
  /\ guards' = 0
  /\ UNCHANGED <<tech, userId, loadVars, messages, serverVars, handler, ownVars, abandoned>>

SignalRLeaves ==
  /\ mounted /\ tech = "SignalR"
  /\ mounted' = FALSE
  /\ phase' = IF phase \in {"joining", "live", "outside"} THEN "leaving" ELSE phase
  /\ abandoned' = (phase \in {"connecting", "waiting"})
  /\ UNCHANGED <<tech, userId, loadVars, messages, serverVars, member, handler, wire, guards, ownVars, lost>>

\* LeaveChat has returned: the callback is taken off and the connection stopped.
SignalRLeft ==
  /\ phase = "leaving"
  /\ Disconnect("off")
  /\ handler' = FALSE
  /\ UNCHANGED <<guards, abandoned>> /\ ConnStep

-----------------------------------------------------------------------------
Opens == WsOpens \/ SseOpens \/ SignalRConnects \/ SocketConnects

Joins == WsJoins \/ SignalRJoins \/ SignalRJoinCompletes \/ SocketJoins

Refuses == SseRefused \/ SignalRGivesUp \/ SignalRJoinFails \/ SocketConnectFails \/ SocketJoinRefused

Drops == WsCloses \/ SseErrs \/ SignalRDrops \/ SocketDrops

Arrives == JoinAnswered \/ MessageArrives

Next ==
  \/ Opens \/ Joins \/ Refuses \/ Drops \/ Arrives
  \/ GuardFires \/ SignalRLeft
  \/ WsUserKnown \/ SignalRUserKnown \/ SocketUserKnown \/ SseUserKnown
  \/ Leave \/ SignalRLeaves
  \/ \E l \in Loads : ChatKnown(l) \/ MessagesRead(l) \/ LoadFails(l) \/ LoadDone(l)
  \/ \E m \in Ids : \/ OtherSends(m) \/ Announce(m) \/ Overlooked(m) \/ UpstreamTimesOut(m)
                     \/ Delete(m) \/ SseSaved(m)
  \/ SseSend \/ SseSendReturns \/ SseSendFails

Spec == Init /\ [][Next]_vars

(***************************************************************************)
(* An attempt that is made again and again succeeds at times, and so does  *)
(* a join; a connection lasts at times until what was sent has arrived.    *)
(* A guard that is set goes off.                                           *)
(***************************************************************************)
FairSpec ==
  /\ Spec
  /\ SF_vars(Opens) /\ SF_vars(Joins) /\ SF_vars(SignalRJoinCompletes) /\ SF_vars(Arrives)
  /\ WF_vars(GuardFires) /\ WF_vars(SignalRLeft)

-----------------------------------------------------------------------------
(* Properties *)

(***************************************************************************)
(* No message is on the screen twice, though it may come from a load, from *)
(* the hub and, over SSE, from the answer to the call that sent it.        *)
(***************************************************************************)
NoDuplicates == IsInjective(messages)

(***************************************************************************)
(* Once a join is answered nothing is missing: a message in the database   *)
(* is on the screen, or about to be, unless it was announced outside the   *)
(* time a connection was in the room, was on the way when the connection   *)
(* went, or was taken off by an older load.                                *)
(***************************************************************************)
NothingMissing ==
  mounted => db \subseteq Shown \union unannounced \union OnWire \union lost

(***************************************************************************)
(* A room in use ends up in its chat, or has given up: no technique gets   *)
(* stuck between the two, and WebSockets do not give up.                   *)
(***************************************************************************)
GivenUp == tech # "WebSockets" /\ phase \in {"dead", "outside"}

SettlesInRoom ==
  (mounted /\ userId) ~> ((phase = "live" /\ member) \/ GivenUp \/ ~mounted)

(***************************************************************************)
(* A room that was left has no connection in the end, save for SignalR     *)
(* when its connection was down while it was being left.                   *)
(***************************************************************************)
LeavesForGood == ~mounted ~> (phase \in {"off", "dead"} \/ abandoned)

(***************************************************************************)
(* "Guard against hanging joins under load": it ends a connection whose    *)
(* join hangs, not one whose join has been answered.                       *)
(***************************************************************************)
AnsweredJoinStands == [][GuardFires => phase # "live"]_vars
=============================================================================
