# ChatLab in TLA+

ChatLab is a chat application that carries the same conversation over six
technologies, so that they can be compared: REST polling, server-sent events,
SignalR, raw WebSockets, Socket.IO and gRPC (server streaming, grpc-web in the
browser). This directory holds its specification: TLA+ modules translated from
the code, TLC configurations that model-check them, and TLAPS proofs of what
matters most about its core.

All paths below are those of the repository, as seen from the directory above
this one (`src/` is the repository).

- [The system](#the-system)
- [The modules](#the-modules)
- [The runs](#the-runs)
- [What is proved](#what-is-proved)
- [Where the code and its comments part](#where-the-code-and-its-comments-part)
- [What is not modelled, and the plan](#what-is-not-modelled-and-the-plan)

## The system

Three services stand behind an Ocelot gateway: CoreService (ASP.NET: accounts,
chats, messages, and every real-time technology but Socket.IO), SocketIoService
(Node: Socket.IO, calling CoreService's REST API) and ProblemService. A React
client has, for each technology, a *hub* (the connection) and a *room* (the
view: the list on the screen, the loads, the sends, the measurements). Messages
live in one SQL Server table; ids come from its IDENTITY column.

| Component | State it keeps | Operations | Talks to | What is hard |
|---|---|---|---|---|
| Message bus (`GRPC/Streaming/ChatMessageBus.cs`) | dictionary chat -> list of subscriptions; a bounded channel each | Subscribe, cancellation callback, Publish | MessageService publishes, StreamChat reads | lock per list but none between the dictionary and the list; DropOldest channels; a singleton |
| gRPC streaming (`GRPC/Services/ChatGrpcService.cs`, `Services/Classes/MessageService.cs`) | `lastId` per call; table Messages | StreamChat, SendMessage, DeleteMessage | bus, database | catch-up query against live publishes; insert and publish are two steps |
| gRPC room (`chatGRPC/ChatHubGRPC.tsx`, `chat/ChatGRPC.tsx`) | stream, `lastMessageId`, timers; list on screen, pending waits | load, stream data, error, end, fallback, reconnect, send, delete, leave | StreamChat, REST | loads overwrite what streams brought; errors, ends and timers in any order |
| WebSocket chat (`WebSockets/*.cs`) | `_groups`: chat -> sockets; `_joinedChatId` per connection | join, leave, message, broadcast, disconnect | MessageService | three dictionary accesses of a leave against those of a join; broadcasts with the sender's token |
| SSE server (`SSE/*`, `ChatSseController`) | chat -> clients, each a StreamWriter | stream, broadcast, keep-alive | MessageController | writers that nobody locks; a greeting outside the `try` |
| SignalR hub (`ChatHub.cs`) | SignalR's groups | JoinChat, LeaveChat, SendMessage | MessageService | |
| SocketIoService (`server.js`) | rooms; a fixed-window counter per socket | join, message, leave | CoreService over REST | calls that time out and succeed |
| Polling room (`chatPolling/ChatHubPolling.tsx`, `chat/ChatPolling.tsx`) | `lastMessageId`, `pollToken`, a timer; list on screen, pending waits | load, poll, fallback, send, delete, leave | REST | answers that come after the room was left; two loads at different times, the view's and the hub's |
| Push rooms (`ChatSSE`, `ChatSignalR`, `ChatWebSockets`, `ChatSocketIO`, and their hubs) | connection, callback, timers; list on screen | connect, join, reconnect, load, delete, leave | their servers, REST | load, then listen, with no catch-up; a callback registered after the join; joins with a guard; two loads and two hubs |
| Sending with metrics (all six `Chat*.tsx`) | the automatic run's id, aggregates, waits, timers | send by hand, Start, Stop | the hubs | answer, echo and time-out in any order; sends of a stopped run that are under way in the next |
| Accounts, chats, follows (`AccountService`, `ChatService`, the repositories, `AppDbContext`, `AppSeeder`, the pages that call them) | users, roles, password hashes, chats, messages, follows; the pages' follow map | register, roles, profile, password, open and delete chats, follow, delete accounts, seed | database | check then act; several commits; foreign keys that restrict; rows saved as they were read |
| Gateway, ProblemService, other pages, notebook | configuration; one table; read-only views; none | | | |

What makes each correct:

- **Bus.** A message published to a chat reaches whoever is subscribed; cleaning
  up after those who left harms no one else; a chat no one is in is forgotten.
- **gRPC streaming.** One stream shows its chat's messages in id order, each once,
  none lost at the seam between catch-up and live.
- **gRPC room.** The screen shows each message once and, up to the hub's
  position, all that the server has not left out; a room in use always has a
  stream or is about to.
- **WebSockets.** Membership is what the frames say it is; a saved message
  reaches the room; a dead socket is in no group.
- **SSE.** A sender is answered when every listed client has been written to; an
  open stream is listed; a dead writer does not stay.
- **Push rooms.** The screen shows each message once and all that came while the
  connection was in the room; a room in use ends up in its chat or gives up,
  and one that was left has no connection.
- **Sending.** A run's aggregates are those of its messages; a run ends; the
  servers' limits hold, and leave a run by itself alone.
- **Polling.** What polls bring is an ordered feed too; a room in use goes on
  polling whatever fails; one that was left gets nothing more.
- **Accounts and data.** A user has exactly one role; deletes leave nothing that
  refers to what is gone, and succeed; two users share one chat, and follow
  each other once; a new password stays.

## The modules

| Module | Models | Uses |
|---|---|---|
| `ChatMessageBus` | the bus, at the grain of its accesses to shared state | |
| `ChatGrpcStream` | MessageService and StreamChat on top of the bus | EXTENDS `ChatMessageBus`; implements `OrderedFeed` |
| `OrderedFeed` | abstract: what a stream of messages promises its reader | |
| `ChatGrpcRoom` | the browser's hub and view over any number of StreamChat calls | implements `OrderedFeed` |
| `ChatPolling` | the browser's hub and view over REST polls | implements `OrderedFeed` |
| `ChatWebSockets` | WebSocket handlers and their shared groups | |
| `ChatPushRoom` | the browser's hub and view over SSE, SignalR, WebSockets and Socket.IO, with the group, room or list at the server | |
| `RateLimits` | the sliding window of the WebSocket handler and the fixed window of SocketIoService | |
| `AutoSend` | sending with metrics, and the automatic runs, of all six views against the limits | EXTENDS `RateLimits` |
| `ChatSse` | the server's list of SSE writers, streams and broadcasts | |
| `ChatLabData` | accounts, roles, chats, messages and follows, and the requests and pages that change them | |
| `MessageList` | what the database answers to a load: the messages of a chat in the order of their ids | extended by the rooms |
| `ChatGrpcStream_proofs` (with those of `ChatMessageBus`), `AutoSend_proofs` (with those of `RateLimits`), `ChatSse_proofs`, `ChatWebSockets_proofs`, `ChatPushRoom_proofs`, `ChatGrpcRoom_proofs`, `ChatPolling_proofs`, `ChatLabData_proofs` | theorems | EXTEND the module they are about, and TLAPS |
| `MC...` | TLC instances | EXTEND the module they instantiate |

`PROJECT.json` maps every definition that models code to the lines it models.
Names are those of the source where TLA+ allows it. Each module holds, beside
the specification, a few *mutants*: a definition with a bug that this code
could have. No specification uses them. They say what each property is good
for: with the mutant in the place of the definition it names, TLC finds the
property violated.

### ChatMessageBus

A *subscriber* is one call of `Subscribe`, a *message* one call of `Publish`.

| Code | Model |
|---|---|
| `_subsByChatId` | `dict` |
| a `List<Subscription>` object, its `lock` | `list[l]`; a Subscribe allocates at most one list, so `l` is the subscriber that allocated it |
| the channel, its completed writer | `chan`, `closed` |
| locals `list`, `current`, `snapshot`, `failed` | `subList`, `cbList`, `pubLeft` (what is left of the snapshot), `pubFailed` |
| `Subscribe` | `SubscribeGetOrAdd`, `SubscribeAdd`, `SubscribeRegister` |
| the callback registered on the token | `Cancel` (the token fires), `CallbackComplete`, `CallbackLookup`, `CallbackRemove` |
| `Publish` | `PublishLookup`, `PublishSnapshot`, `PublishWrite` per subscriber, `PublishFinish` |
| the reader of the channel | `Read` |

A step is one access to the dictionary or one `lock` block. A lock block is one
step because the list is only ever seen under its own lock; a block that ends in
`TryRemove` takes effect there. `ConcurrentDictionary` operations are atomic,
`GetOrAdd` included (its value factory may run in vain, which no one can see).
`TryWrite` on a `DropOldest` channel fails only if the writer is completed; that
a full channel drops its oldest message *and reports success* is why a slow
reader is not evicted, and why it may lose messages silently. What is buffered
when the writer is completed can still be read.

History variables: `got`, `dropped`, `audience` (who was subscribed when a
Publish began), `settled` (whose removal was over when a Subscribe began, and no
Publish to that chat was under way). They guard nothing.

`Rivals(s)` are the cancelled subscribers of the same chat that are not in
`settled[s]`: those whose removal may interfere with `s`. The main property,
`ReachableUnlessRival`, is that **nothing else can**: a live subscription with no
rivals is on the list that Publish would look up.

### ChatGrpcStream and OrderedFeed

Adds the database (`issued`, `db`) and the handler's state (`phase`, `since`,
`lastId`, `rows`). `Insert` is SaveChangesAsync, `Publish` the call that follows
it in SendMessage; nothing makes the two atomic, or keeps two senders from
publishing in the opposite order of their ids. `Call`/`Refuse` are the
handler's checks, `Subscribe` its call of the bus, `CatchUpQuery`,
`CatchUpFails`, `CatchUpEmit` the `try` block, `LiveEmit` the loop, `StreamEnds`
its end. `BusStep` is what the bus does by itself.

The database is external: an insert takes the next id and is visible in one
step (IDENTITY, one autocommitted INSERT, readers that wait for uncommitted rows).

`OrderedFeed` is the promise: ids are issued in order; a reader asks for what
follows an id and is given issued messages of its chat in strictly increasing
id order. It says nothing of completeness; `NoGapWhenInOrder` and
`EventuallyEmitted` do. The refinement maps `lastId` to the feed's cursor and
`emitted` to what was delivered. `ChatGrpcRoom` implements the same module
with the hub as the one reader: over all its calls, errors, fallbacks and
reconnects, the hub is still one ordered feed.

### ChatGrpcRoom

One step is what one JavaScript event does. `startConnection` is a single step:
all that it awaits is `buildAuthMetadata`, which reads a cookie and is over
before the next event. The server's side of a call is reduced to what
`ChatGrpcStream` shows of it: rows past the cursor, in strictly increasing order,
of which **any may be left out while the stream stays up** (`PassOver`):

- the subscription is on a list that was just taken down (`ChatMessageBus.cs:25-49`,
  the run `bus_orphan`),
- the full channel dropped the message (`ChatMessageBus.cs:22`),
- the catch-up threw and was only logged (`ChatGrpcService.cs:124`), or
- it is published after a newer one (`ChatGrpcService.cs:133`, `stream_overtaken`).

`passedOver` is what the current call will not bring; the next call starts anew
from `lastMessageId`, and brings it unless the hub has moved beyond it by then. What
the hub has moved beyond is `lost`: no call brings it any more. Which of the four it
was makes no difference to the room, so `PassOver` does not say, and neither does it
say that one of them must have happened: the room's properties hold of every stream
that leaves rows out for whatever reason. A message's emission by the server and its
arrival are one step.

`load` has three REST loads: the view's first, the second that the effect starts
when the user is known, and the reload after a delete. Each is asked for, answered
(the server reads) and done (`setMessages`) in three steps, so an answer may be
older than what the stream has shown by then; `overwritten` notes when that took
a message off the screen. `FallBack`, `StreamError`, `StreamEnd`, `TimerFires`
are the hub's handlers; a call on which 'error' fired may fire 'end' later
(`"closing"`; grpc-web is external). `timers` counts pending reconnects.

### ChatPolling

One step is what one JavaScript event does, as in `ChatGrpcRoom`, with one
exception: the loop that hands new messages to the view is taken apart (`Hand`, a
message at a time, from `queue`) so that each is a delivery of the feed; no
other browser event comes before `queue` is empty. A request of the hub is
asked, read by the server (`HubAnswered`, or `HubRefused`) and handled, in
three steps, and so is each load of the view.

| Code | Model |
|---|---|
| `running`, `pollToken`, `lastMessageId` | the same names; `token` is pollOnce's parameter |
| what the hub awaits, `timeoutId` | `request`: `"load"` (startConnection's own load), `"timer"`, `"after"` (getMessagesForChatAfterId), `"all"` (its fallback) |
| `startConnection` | `EnterRoom` up to its await, `HubLoaded` |
| `scheduleNext`, `pollLoop`, `pollOnce` | `ScheduleNext`, `TimerFires`, `PollFallsBack`, `PollFails`, `PollDone`, `Hand` |
| `leaveChat` | `LeaveRoom` |
| `sendMessageWithMetrics`, `waitForReceive` | `Send`, `SendCreated`, `SendReturns`, `SendFails`, `ReceiveTimesOut` |

Delays, the backoff among them, are left out: a timer that is set may fire.
The loads of the view are those of the gRPC room, and `overwritten` is the
same excuse. The hub has a load of its own, which sets `lastMessageId` and
shows nothing: a message inserted after the view's load was read and before
the hub's is neither loaded nor handed on. `shownAt` and `start` are the two
reads, and `NothingMissing` says that **only what falls between them** is
missed. `lastMessageId` is not moved by a send (the note at
`ChatHubPolling.tsx:75`): a message of one's own comes by a poll as anyone else's,
so its round trip can be measured.

### ChatWebSockets

A handler reads a frame, does all it asks for, and reads the next; handlers of
different connections interleave at each access to a `ConcurrentDictionary`.

| Code | Model |
|---|---|
| `_groups`, and each group's dictionary | `groups`, `members` (group objects are numbered in the order `GetOrAdd` makes them) |
| `_joinedChatId` and the frame's locals | `joined`, `chat`, `group`, `msg` |
| `AddToGroup` | `Join` (the checks and GetOrAdd), `JoinAdd` |
| `RemoveFromGroup` | `Leave` (TryGetValue), `LeaveRemove`, `LeaveIsEmpty`, `LeaveDrop` (TryRemove) |
| the message branch | `Send`, `Saved`/`SaveFails`, `BroadcastLookup`, `BroadcastCopy`, `Write` per socket, `BroadcastDone` |
| `finally`, `RemoveSocketAsync` | `Break` (out of the loop, socket closed), `Sweep` per group |
| the client | `Connect`, `Abort`, and which frames it sends |

A leave frame may name any chat, joined or not: the code does not check it, and
it does not reset `_joinedChatId`. History: `stays` (joined and not left),
`disturbed` (someone else's leave of the chat overlapped the latest join),
`audience` (who was in the room when a message was saved and has stayed).

Left out: the metadata, ping, bad JSON and frames refused without effect, and
the bus publish that SendMessage does as well. The rate limit is in `RateLimits`.

### ChatPushRoom

`tech` is chosen once; each action that only one technique has says so. One step
is one event of the browser, the network or the server.

| Code | Model |
|---|---|
| the hub's connection | `phase`: `connecting`, `joining` (connected, the join not answered), `live`, `waiting` (a reconnect is due), `outside` (connected, not in the room), `leaving` (SignalR's LeaveChat is out), `dead`, `off` |
| SignalR group, WebSocket group, Socket.IO room, SSE list | `member` |
| the callback a view hands its hub | `handler` |
| what the server sent on this connection | `wire`, in order; 0 is the answer to a join |
| `joinTimeoutId` and the timers it forgets | `guards` |
| `connect`, `onopen`, `onclose`, `scheduleReconnect` | `WsOpens`, `WsJoins`, `WsCloses` |
| EventSource, `onerror`, `GetStream` | `SseOpens`, `SseErrs`, `SseRefused` |
| `startConnection`, `JoinChat`, `onreconnected` | `SignalRConnects`, `SignalRJoins`, `SignalRJoinCompletes`, `SignalRJoinFails`, `SignalRDrops`, `SignalRGivesUp` |
| 'connect', the join's acknowledgement, the guard | `SocketConnects`, `SocketJoins`, `SocketJoinRefused`, `GuardFires`, `JoinAnswered`, `SocketDrops` |
| effects on the chat's id and the user | `SseUserKnown`, `WsUserKnown`, `SignalRUserKnown`, `SocketUserKnown`; `NewHub` where they replace the hub |
| `fetchChatData` | `ChatKnown`, `MessagesRead`, `LoadDone`, `LoadFails` |
| the effects' clean-up | `Leave`, `SignalRLeaves`, `SignalRLeft` |

None of the four asks for what it missed. `lost` is exactly that: what was
announced while no one listened, was on the wire of a connection that went, came
while the server had let go of a connection that is up (`Overlooked`: an SSE client
that two writes met on, a WebSocket in a group nobody finds), or
was taken off the screen by a load read earlier. `NothingMissing` says that
nothing else is. A message is saved and announced in two steps;
`UpstreamTimesOut` is the call of SocketIoService that fails after the row is saved.

### RateLimits and AutoSend

`RateLimits` has the clock and, for one connection, both limits. Its histories
`accepted` and `taken` are the times of the messages that were let through; the
queue `_sendTimestamps` is the part of `accepted` after `dropped`.

`AutoSend` numbers the messages of a behaviour; `send[s]` says where its sender
and the server are with it. The six views share `sendMessageWithMetrics`,
`startAutoSend` and `stopAutoSend` up to details that matter here, so that each
has an operator of its own where it differs: `SseStarts` clears timers and
times, `SocketStarts` clears waits, the others clear nothing; `SignalRAnswered`
counts a message as sent when the hub method returns, the others when it comes
back; `SseAnswered` lets the loop go on and leaves the echo to a timer.
`waiters` and `received` are the maps of the views.

A loop (`startAutoSend`) that was stopped sleeps on until its await is over, so
two may be alive; `run` decides which goes on. `clean` notes whether the latest
run began with a message of an earlier one still on its way: what such a
message does to the counters of the new run is excused by `CountsAddUp`.

### ChatSse

Of one chat. A stream's request is one call of `GetStream`, its client one
element of `_clients[chatId]`; the list is only used under its lock. Writes are
two steps, begun and flushed, because the `StreamWriter` has no lock: two may
meet (`Meets`, `WriteFails`), and then one throws or both are garbled. `met` notes
it, and the controller's next write may then throw too (`Written`). A greeting is
written before the `try`, a keep-alive inside (`Outcome`).

### ChatLabData

`req[h]` is a request the service works on, with what it has read so far; each
database call is a step, and two requests interleave between any two. A page's
handler, with the checks it makes before it calls, begins a request
(`ProfileDeletes`, `CommunityOpens`, ...); the controller, service and repository
are the steps that follow (`ReadChats`, `ReadMessages`, `ReadFollows`, `DeleteUser`).
What a page offers is read off its buttons (`CommunityCard`, `FollowedCard`,
`FollowerCard`, `AdminUsersRow`, `UsersRow`, `AdminsRow`, `ProfileOffers`,
`ChatsList`, `AdminChatsList`, `OwnMessages`): a handler begins its request only
when the page shows the button, so that no admin demotes itself and a member
deletes only messages of its own. The follows a card shows are those the page
knows; the other lists are the stored ones.

A page of follows that opens (`Mounts`) knows no row, and `Community` offers Follow on
every card until the list comes (`Community.tsx:24-25`); `MyFriends` has no cards until
then (`listed`). A page that stays (`Reloads`) shows what it knew. `mounts` numbers the
openings, so that an answer to a page that is gone shows nothing (`ItsPage`).

A member writes to a member of the chat in the own name; an admin names any sender
and any receiver (`MaySend`), and both are foreign keys.

A save is all or nothing. It fails when a row it removes is gone, a reference
is left dangling (`OnModelCreating` restricts every delete: `MayRemove`), or
the user row carries another concurrency stamp than the one read (`fresh`).
UserManager renews the stamp; `UserRepository.UpdateUser` and
`ResetUserPassword` save the row with the stamp it has. Every save of a row but the
reset's writes the password hash as it was read, UserManager's changes of role
included (`RemoveRole`, `AddRole`), which end in `UserStore.UpdateAsync`. `DatabaseFails` ends one
request, `Crash` all, and a restart seeds the two built-in accounts again.

History: `admins` (who may hold an admin's token: a token keeps the roles of its
login), `cut` (whose role a crash caught between two commits), `blurred` (whose
page may show other follows than the stored ones, or has not been given its list),
`alone` in a request (no other request has written since it began).

## The runs

| Run | Instance | Properties | What it shows |
|---|---|---|---|
| `bus_race` | 2 subscribers and 1 message of one chat, 1 subscriber of another, capacity 1 | `BusInv`, `ReachableUnlessRival`, `PublishReachesAudience`, `BusDrains` | every interleaving of Subscribe, callbacks and Publish; the inductive invariant used by the proofs holds; the entry of a chat that everyone left goes |
| `bus_orphan` | 2 subscribers, 1 message | `PublishReachesEveryone` (violated) | the race that rivals excuse is real |
| `stream_feed` | 1 StreamChat call, 2 messages, capacity 1 | `NoGapWhenInOrder`, `LiveKeepsItsPlace`, `ImplementsFeed`, `EventuallyEmitted` | catch-up and live stream meet without gap or repeat |
| `stream_overtaken` | 1 call, 2 messages, capacity 2 | `EmitsWhatItReads` (violated) | a message that is overtaken between insert and publish is dropped |
| `room_grpc` | 3 StreamChat calls, 2 messages, 1 send, 3 loads | `NoDuplicates`, `NothingMissing`, `NeverStranded`, `OneStream`, `ImplementsFeed`, `EventuallyShown` | any order of loads, data, rows left out, errors, timers, leaving and answers |
| `polling_room` | 2 messages, 1 send, 3 loads | `NothingMissing`, `PollsWhileInUse`, `NothingAfterLeaving`, `ImplementsFeed`, `EventuallyShown` | any order of answers, refusals, fallbacks, timers, leaving, deletes |
| `ws_room` | 2 connections, 1 chat, 1 message, 2 group objects | `ReachableUnlessDisturbed`, `NoStaleMembers`, `SavedReachesRoom`, `EventuallyForgotten` | membership, what a saved message reaches, and that an aborted connection leaves nothing behind |
| `push_room` | 4 techniques, 1 message, 3 loads, 2 guards | `NoDuplicates`, `NothingMissing`, `SettlesInRoom`, `LeavesForGood` | what a room that loads and then listens may miss, and where its connection ends up |
| `push_guard` | as `push_room` | `AnsweredJoinStands` (violated) | a guard of an earlier connect ends a connection in its room |
| `auto_send` | 6 techniques, 3 messages and 2 runs (4 together), limits of 2 and 1 per window | `CountsAddUp`, `NoLostWakeup`, `NeverLimited`, `RateBounds`, `RunEnds` | the counters, the waits, the limits, and that a run ends |
| `sse` | 2 streams, 2 messages | `WrittenToAll`, `ListedWhileOpen`, `NoWriterLeft` | the list against writes that meet, clients that leave and greetings that throw |
| `data` | 2 requests at a time, 2 in all, 3 accounts, 4 rows, 1 failure or restart | `OneRole`, `ChatsBounded`, `FollowOnce`, `DeletionSucceedsAlone`, `PasswordKept` | what requests of several commits leave behind when they interleave or fail |

Every module states a type invariant too. They are no part of a run, since all they
would say is that the model is well-formed; they are all proved, since the other
proofs need them.

Deadlock is not checked: every one of these systems may stop, for example with
all clients gone and all messages sent.

**Bounds.** Guards that cap something are these: `CanFail` (room) lets a
stream fail only while another call is left to make, so that the room never runs
out of streams for a reason the code does not have; `MaxGroups` (WebSockets)
disables a join that would need a third group object; `MaxGuards` (push rooms) a
connect that would need a third timer; `Work` and `MaxTime` (sending) a send or a run
too many and time past the end; `MaxRequests`, `MaxRows` and `MaxCrashes` (data). The
others are the sizes of the sets.

- *Bus.* A race is between a subscriber, a removal and a publish: two subscribers
  of one chat, of whom one goes, and one Publish, which may fail one write and
  make the other; the third subscriber's chat shows that lists do not mix. (Three
  subscribers of one chat were checked as well and hold; the proofs are for any
  number.) The capacity of 1 (1024 in the code) is the smallest that overflows,
  which happens in `stream_feed` with two messages.
- *Stream.* A gap or a repeat at the seam needs a message on each side of it: two.
  One call sees nothing of others except through the bus.
- *Room.* Three calls give the first connection, the fallback or reconnect, and a
  reconnect after that with a timer that is left over. Two messages give an order.
- *Polling.* Two messages: one on each side of any of the reads. The number of
  polls is not bounded; ids are, by the number of messages. A room is entered and
  left once, for the next one has a hub and a view of its own.
- *WebSockets.* The harmful case takes one that leaves and one that joins, and
  leave frames are handled for chats that were never joined, so that two
  connections make it; two group objects make a stale one and the one that
  replaced it.
- *Push rooms.* Each property is about one message at a time, and messages do
  not get in each other's way: a wire is in order and a list keeps what it has.
  With two messages the safety properties hold as well (403,000 states).
  Two guards make one that is forgotten and the one that overwrote it.
- *Sending.* A message of an earlier run, one of this, and one by hand, or three of
  a run against a limit of two per window; two runs make a stopped loop and a
  current one. The limits stand to the interval as in the code, where five (ten)
  messages 200 ms apart make a second.
- *SSE.* (The proofs are for any number.) Writes that meet are of two messages, or of one and the controller;
  the second stream is the one that must not suffer for the first.
- *Data.* A race needs two requests; what is left by an earlier one is among the
  initial states (`InUse`: nothing yet, a chat with or without a message, or a
  follow and its page). Two requests are enough for a deletion to meet a message that names
a receiver elsewhere, and for a role change to meet a reset. Three accounts are an admin, the unknown account and one
  that registers. Four rows are two that exist, at most, and one for each request.

**Fairness**, used by `BusDrains`, `EventuallyEmitted`, `EventuallyShown`,
`EventuallyForgotten`, `SettlesInRoom`, `LeavesForGood` and `RunEnds` only:

- *Bus and stream:* a Subscribe, a callback, a Publish and a handler that have
  begun go on. They wait for nothing but locks that are held for a few
  statements, or for the database. SendMessage publishes after it has
  inserted: the process is taken not to crash in between (nothing in the code
  recovers from that; messages are on the bus or not at all, and a later
  catch-up finds the row). Clients owe nothing: no one has to call, cancel,
  or send. A catch-up query may fail.
- *Room:* a timer that was set fires; an open stream brings what there is and
  was not passed over. Nothing obliges a load to be answered or a stream to stay open.
- *Polling:* a timer that was set fires and an answer is handled. The server
  answers or refuses each request of the hub and, for `EventuallyShown`, does not
  refuse every one of them for ever; the code retries for as long as it does.
  The view's loads may never be answered.
- *WebSockets:* a handler takes the steps that are its own, among them the
  insert (which may fail). A write to a socket completes only if its client
  reads, so it is fair only when the sender's token has fired, which is
  why `EventuallyForgotten` is about connections that were aborted.

- *Push rooms:* attempts and joins that are made again and again succeed at times,
  and a connection lasts at times until what was sent on it has arrived
  (strong fairness: the network may come and go). A timer that is set fires.
  Nothing obliges a load or a call to be answered.
- *Sending:* time passes, due timers fire, every call ends: with an answer, an
  error or a time-out. Nothing is assumed of the servers or of the push.

`BusDrains` excludes nothing: whatever interleaving of callbacks and cleanups
took place, the entry goes. `EventuallyEmitted` and `EventuallyShown` have the
same excuses as the safety properties next to them; that of the gRPC room also
excuses a message that the stream it stays on has passed over for good. One that
was passed over comes after an error or an end, unless the hub has moved beyond it.

## What is proved

For every value of the constants: any number of chats, connections, streams,
subscribers, messages, sends, runs and guards, any intervals and limits. What is
assumed of them is that ids are positive naturals (`StreamAssumption`,
`RoomAssumption`, `PollingAssumption`, `PushAssumption`), that capacities, windows,
maxima and intervals are positive (`BusAssumption`, `RateAssumption`,
`AutoAssumption`), that each message or subscriber has a chat and that the values
that stand for "none" are none of the others (`BusAssumption`, `SocketAssumption`,
`SseAssumption`, `RoomAssumption`), and that the service works on a finite number of
requests at a time, of accounts that are told apart (`DataAssumption`). `AutoAssumption` also says how the limits stand
to the interval (five messages an interval apart exceed no window), which is what
`NeverLimited` is about. TLC evaluates all of them on every run that uses them.

| Theorem | States |
|---|---|
| *`ChatMessageBus`* | |
| `BusTypeCorrect` | `BusSpec => []BusTypeOK` |
| `BusInvariant` | `BusSpec => [](BusTypeOK /\ BusInv)` |
| `LiveKeepsItsPlaceHolds` | a live subscription is never evicted, nor is its writer completed |
| `ReachableUnlessRivalHolds` | only a rival can cut a live subscription off |
| `OwnChatOnlyHolds` | channels carry their own chat's messages |
| `PublishReachesAudienceHolds` | a Publish reaches who was subscribed when it began |
| *`ChatGrpcStream`* | |
| `UsesTheBus` | every step of `ChatGrpcStream` is a step of the bus or leaves it alone |
| `TypeCorrect` | `Spec => []TypeOK` |
| `StreamOrderedHolds` | a stream is strictly increasing, of its own chat, past `since` |
| `NoGapWhenInOrderHolds` | published in order, no message falls between catch-up and live stream |
| `ImplementsFeedHolds` | `ChatGrpcStream` implements `OrderedFeed` |
| *`ChatGrpcRoom`* | |
| `GrpcTypeHolds`, `HubInvariant`, `ListInvariant` | the inductive invariants `TypeInv`, `HubInv`, `ListInv` |
| `NoDuplicatesHolds` | a message is shown once |
| `NeverStrandedHolds`, `OneStreamHolds` | a room in use has one open stream, or a timer that will start one; a room that was left has none |
| `NothingMissingHolds` | up to `lastMessageId` the list is whole, but for rows the server passed over and overwriting loads |
| `ImplementsFeedHolds` | the hub implements `OrderedFeed` |
| *`ChatPolling`* | |
| `PollInvariant`, `ListInvariant`, `AheadInvariant` | the inductive invariants `PollInv`, `ListInv`, `Ahead` |
| `PollsWhileInUseHolds` | a room in use has a timer or a request; one that was left sets no timer |
| `NothingAfterLeavingHolds` | `[][A]_vars`: no step hands anything to a view that was left |
| `NothingMissingHolds` | up to `lastMessageId` the list is whole, but for what falls between the two loads |
| `ImplementsFeedHolds` | the hub implements `OrderedFeed` |
| *`ChatPushRoom`* | |
| `PushTypeHolds` | the inductive invariant `TypeInv` |
| `NoDuplicatesHolds`, `NothingMissingHolds` | a message is shown once; what is not shown is on its way, not announced yet, or lost in one of the ways noted |
| *`ChatWebSockets`* | |
| `TypeHolds`, `RoomInvariant`, `MessageInvariant` | `Spec => []TypeOK`; the inductive invariants `RoomInv`, `MessageInv` |
| `ReachableUnlessDisturbedHolds` | a broadcast finds every joined connection, but one whose join met a removal in its window |
| `NoStaleMembersHolds` | a connection whose handler is over is in no group |
| `SavedReachesRoomHolds` | a saved message is written to all that were in the room throughout |
| *`RateLimits`, `AutoSend`* | |
| `RateTypeHolds` | `RateSpec => []RateTypeOK` |
| `SlidingHolds` | of `SlidingMax + 1` messages the WebSocket handler took, the first and the last are more than a window apart |
| `FixedHolds` | of `2 * FixedMax + 1` messages SocketIoService took, the first and the last are a window apart |
| `RateBoundsHold` | `RateSpec => []RateBounds`: both |
| `UsesTheLimits` | every step of `AutoSend` is a step of `RateLimits` or leaves it alone |
| `RateBoundsOfRuns` | `Spec => []RateBounds` of `AutoSend`, which is what `auto_send` checks |
| `AutoTypeHolds` | `Spec => []TypeOK` of `AutoSend` |
| `EchoInvariant`, `NoLostWakeupHolds` | how waits, echoes and receipts fit together; a send whose message has come does not wait |
| `CountsAddUpHolds` | the aggregates of a run are its sends, by how they ended |
| `NeverLimitedHolds` | a run alone meets no limit |
| *`ChatSse`* | |
| `TypeHolds`, `SseInvariant` | `Spec => []TypeOK` and `Spec => []SseInv` |
| `ListedWhileOpenHolds` | an open stream is listed, unless its client left or two writes met on it |
| `NoWriterLeftHolds` | a request that is over leaves no writer behind, a failed greeting's only until the next message |
| `WrittenToAllHolds` | a sender is answered when all clients listed have been written to |
| *`ChatLabData`* | |
| `DataTypeHolds`, `DataInvariant` | `Spec => []TypeOK` and `Spec => []DataInv` |
| `OneRoleHolds` | an account has one role, except between two commits or when a crash left it there |
| `ChatsBoundedHolds` | two accounts share no more chats than there are requests at a time |
| `FollowOnceHolds` | a page that was given its list, and that list is the store's, undisturbed, never follows twice |
| `PasswordKeptHolds` | a reset password goes back only by a save of the account's row (profile, role change, registration's last) that others wrote beside |
| `DeletionSucceedsAloneHolds` | a deletion beside which nothing is written leaves nothing of its account or chat, unless a message of a chat of others names the account or the unknown account is gone |

**The bus's argument.** `ReachableUnlessRival` is not inductive: that `s` is on
the chat's list now does not tell why the next step cannot take that list
down. `BusInv` adds why, in six parts:

1. `Locals`: a call past its lookup has a list;
2. `OnlyTheCancelledGo`: writers are completed, writes fail and callbacks run
   only for fired tokens, so the others stay on the list they were added to;
3. `ListsAreOfOneChat`: a list, and all that hold it, belong to one chat;
4. `RemovedForGood`: a callback that is over has taken its subscription off the
   list the chat has now, if it ever was on that one;
5. `SettledStaysSettled`: for a subscription settled before `s` began, no
   Publish under way can still fail to write to it, so none will clean up
   after it;
6. `UndisturbedIsMapped`: a subscription without rivals is on the chat's list.

A list is taken down only when it is found empty after a removal. If `s` has its
list but is not on it yet (the one window in the code), whoever empties it is
cancelled and, by 4 and 5, not settled: a rival. If `s` is on it, it is empty
only if `s` was removed, and by 2 it was not. Each part has a lemma that says
that every action preserves it, with one step per action. `OwnChatOnly` and
`PublishReachesAudience` are then proved on top, the latter with
`AudienceServed`: the list a Publish found is the list its audience is on until
they have been written to.

**The stream's argument.** `BusRefined` shows that a step of `ChatGrpcStream`
is a bus step, which makes the bus's theorems available. `StreamInv` adds
`OnlyIssued` (what is in the table, on the bus or in a channel has an issued id)
and `CursorBetween` (`lastId` is past all that was emitted and short of the rows
still to be). `StreamOrdered` and the refinement follow from it, step by step.

`NoGapWhenInOrder` says where a message is, and each place hands it on to the next
only for a reason that lies elsewhere; `NoGapInv` adds the reasons. A Publish that
takes its snapshot either has the stream in its audience, and then `AudienceServed` has
it on the list, or it began before the stream had subscribed, and then the catch-up has the
row, for the handler subscribes first and queries then (`SubscribedFirst`,
`CatchUpHas`). A write to a channel comes too late only if the cursor has passed its
id; but what the cursor passes is a row, and the rows have no holes below it, or
comes from the channel, and then all older ones have been published
(`OrderedPublish`). What is read from the channel overtakes nothing that is still in
it (`ChannelAscends`), because each write is newer than all the channel holds: not
the same (`HeldOnce`), and not older. An excuse is never taken back
(`ExcusedBefore`), so an excused stream needs no argument.

**The limits' argument.** Of the sliding window: what has left the queue is more
than a window old (`OldAreDropped`), the queue holds fewer than `SlidingMax` when
a message is taken, and so the one `SlidingMax` before it has left. Of the fixed
window (`FixedInv`): at most `FixedMax` messages were taken in the window that is
open, the earlier ones before it began, and all but the last `FixedMax` of those a
whole window before, because another window lies between; a message taken now is
2 * `FixedMax` after one of them at most. Neither needs the clients: `AutoSend`,
whose steps are steps of the limits (`LimitsRefined`), inherits both.

**The SSE server's argument.** `ListedWhileOpen` depends on why a client is taken off
the list: it failed, or its request is over. `SseInv` adds that both happen only
to a client that left or one that two writes met on (`FailedForAReason`,
`OverForAReason`). `WrittenToAll` needs to know where each loop is: whom it found
listed it has written to or has yet to (`WrittenOrDue`), and nobody is due once it
has answered (`NothingDue`). A writer that was dead when the loop began fails
before it ends (`DeadFail`), which makes `NoWriterLeft` inductive.

**The gRPC room's argument.** `HubInv` is what makes `NeverStranded` and
`OneStream` inductive: `stopRequested` says exactly whether the room was left
(`StopsOnLeaving`), so a timer that fires late starts nothing, and before the hub is
made there is no stream and no timer (`NoHubYet`). Of the list, `NothingMissing` says
nothing about answers on their way; `ListInv` adds that an answer lacks no message
that still exists up to any id in it (`AnswersWhole`: ids are given out in order and
a load is read at once), that the hub starts from a whole list (`WholeBefore`), and
that the server's place is the hub's (`InStep`). A row that a stream brings leaves
behind only what that stream passed over, and that is `lost` from then on; nothing is
taken out of `lost`, so later calls need no argument about it. A load that is done
either brings all up to where the hub is but what is lost, or overwrote something and
is excused. The
refinement rests on `InStep` and on ids being issued before they are shown.

**The polling room's argument.** The life of the hub is `Session` (`running` and
`pollToken` tell where the room is), `Polls` (a poll under way has the token of this
use) and `Hands` (the queue is only full while a poll is handled); `PollsWhileInUse`
and `NothingAfterLeaving` follow. `Issued` bounds all ids by the newest one, which
also makes every answer finite, so that `Math.max` of one exists. What is whole is
handed from answers to rows to the queue to the list (`AnswersWhole`, `RowsWhole`,
`QueueWhole`, `ShownWhole`): each has all messages up to the id that it reaches to,
and `NothingMissing` needs all four. `Ahead` says that what is in the queue is past
all that was handed on, for the refinement.

**The push rooms' argument.** A message that leaves the wire must be on the screen or
lost. It is on the screen if a callback is registered; so what comes before that
must have been counted as lost when it was announced (`EarlyIsLost`), which depends
on who registers a callback, and when (`Registers`: over Socket.IO the answer to the
join is on the wire of a connection in the room, WebSockets and SSE need none).
`Accounted` then has a case for each event. Types are not trivial here: that a
join's answer never releases a guard that is not set is `GuardStands`.

**The WebSocket server's argument.** That of the bus without a lock: a group object
belongs to one chat (`GroupsAreOfOneChat`); whoever is in a group that can be found
stays there, is leaving it, or has it left to sweep (`MembersAreAccountedFor`, which
implies `NoStaleMembers`); a join that no leave disturbed holds the chat's group and no
leave is under way (`JoinsUndisturbed`); and a leave of a chat with someone
undisturbed in it has that very group and does not find it empty
(`LeavesSeeTheRoom`). `MessageInv` follows a broadcast through it: its audience is in the
room (`AudienceIsInRoom`), and at each of its steps has the group, is due, or has
the message (`BroadcastOnItsWay`).

**The views' argument.** `EchoInv` says of every send what the sets of waits and
receipts know of it, by where its sender and the server are: an echo before the
answer is remembered, one after it finds the wait; what a new Socket.IO run throws
away is noted. `CountInv` follows the aggregates: in a run that began clean, no send
of an earlier run is on its way (`Settled`), so that a step moves at most one send
from one of the sets that the aggregates count to another. `PaceInv` is of a run
alone: the n-th last message taken lies n intervals before the next (`Paced`), so
that those in a window are as many as fit, which `AutoAssumption` keeps under both
limits.

**The data's argument.** A step begins a request, reads for one, ends one, or writes
for one. The first three write nothing, so it is enough that what the handler then
holds is `Sound` (`MoveRest`, `MoveKeeps`): one short lemma for each page, and one for
each reading step. After a save the others no longer run alone (`WroteOthers`), so
what the invariant says of requests that do has to be shown of the writer only.
`DataInv` has five parts beside the types. `RoleInv`: the account whose role one
commit took has none, was not changed since it was loaded, and is no other request's
(`Giving`), because the commit that took the role made the stamp of all others stale
and the commit that makes an account is the only one of its name; so `AddToRoleAsync`
finds it as it was, and ends with one role. `PageInv`: a page that is not blurred, which
has been given its list then, knows a row of every follow of its user; the last row
listed is one of those listed (`LastRow`). `ChatsInv`: a pair has a chat or requests that would create one for at
most as many as there are handlers, since a page asks only when it found none
(`CountBound`), and a chat that is created ends its request (`CreateChatKeeps`).
`FilledInv`: every message is in a chat there is, so that a deletion finds a message by
its chat. `AloneInv`: what a request that runs alone has read is what is stored; that is
`DeletionRead` of a deletion, for each place it can be at (`ReadsOn` says that its reads
do not end it), so that its save removes all that refers to the account (`AccountGoes`)
and `DeletionSucceedsAlone` follows for the whole of it; and of each request that saves
the row of an account (`Saving`), that the hash it holds is the stored one
(`PasswordKept`). An account is removed with everything that names it
(`OrphanedIs`): no request that gives a role names it afterwards. The proof needs
that the handlers are finitely many and at least one (`DataAssumption`).

**Only model-checked:** the liveness properties: `BusDrains`, `EventuallyEmitted`,
`EventuallyShown`, `EventuallyForgotten`, `SettlesInRoom`, `LeavesForGood`, `RunEnds`.
Those rest on fairness, hence on ENABLED, which is out of the prover's reach.
What a recursive definition computes for every input would be out of reach too;
there is none in these modules.

## Where the code and its comments part

`bus_orphan`. `MessageService.cs:100`: "Push to in-memory bus for realtime stream
subscribers". `Subscribe` gets the chat's list (line 25), then locks it and adds
itself (lines 26 to 30). In between, the callback of the list's last subscriber may
find it empty and `TryRemove` it (lines 38 to 45). The new subscriber is then
on a list that is in no dictionary, and no Publish finds it while that stream
lasts. In a chat of two this is: one reconnects just as the other's stream ends.
`ReachableUnlessRival` is what remains true: it takes a removal that was not over
when the subscription began.

`stream_overtaken`. `ChatGrpcService.cs:129`: "Push streaming: emit new messages as
they are created." The loop skips ids that are not above the last one emitted (line
133), and SendMessage inserts (line 98) and publishes (line 102) in two steps. If
the second sender publishes first, the first sender's message comes later, with a
smaller id, and is dropped. The stream never shows it; a load does.

`push_guard`. `ChatHubSocketIO.tsx:73`: "Guard against hanging joins under load."
Each 'connect' sets a timer (lines 74 to 77) and emits a join. `done()` clears the
timer, but returns at once when a join has been settled before (line 53). After a
reconnect, the rejoin's timer is therefore never cleared, and when its time is up it
disconnects the socket (line 75), which is in its room; a socket that its client
disconnected does not reconnect. A reconnect before the first answer forgets the
first timer, with the same effect.

What the code does and no comment denies is not a finding but an excuse that a
property names:

- `disturbed` (`ChatWebSockets`): the bus's window, between `IsEmpty` and
  `TryRemove` (`WebSocketConnectionManager.cs:47`).
- `overwritten` (rooms) and `lost` (push rooms): loads that take off what came
  since they were read; what is announced while no one listens, or to a connection
  that the server has let go of.
- `lost` and `passedOver` (`ChatGrpcRoom`): what the server leaves out of a stream that
  stays up, and the hub then moves beyond.
- What falls between the two loads of the polling room.
- `met` (`ChatSse`): two writes on one writer; the stream that loses its place on
  the list stays open and silent.
- `clean` (`AutoSend`): messages of an earlier run that end in the next.
- `cut` (`ChatLabData`): an account caught between two role commits has no role,
  and no operation gives it one again.
- `alone` (`ChatLabData`): beside another request, two chats of one pair, a
  second follow, and a deletion that fails are possible; and a profile, or a change of
  role, that is saved by a request that read the row before a password reset puts the
  old password back (`UserRepository.cs:66`, `AccountService.cs:92`, `98`).
- `blurred` (`ChatLabData`): a page that has just opened offers Follow for accounts that
  are followed already (`Community.tsx:24`), and one click then follows twice.
- `NamedElsewhere`, and the unknown account gone (`ChatLabData`): an account that a
  message of a chat of others names cannot be deleted (`AppDbContext.cs:43`; an admin
  may name any receiver), and when the unknown account has been deleted, no other can
  be (`UserRepository.cs:116`).

## What is not modelled, and the plan

Not modelled, and why:

- *ProblemService*: one table with create, update and delete by id. A request is
  one read and one commit, and nothing relates two of its rows.
- *Gateway*: configuration of Ocelot. Its timeout shows as calls that fail although
  they succeeded (`UpstreamTimesOut`, `CallFails`); its circuit breaker as more of
  the same.
- *SocketIoService's direct database mode and its cached pool*, off by default.
- *Order of SSE messages*: the screen shows them as they come, and nothing in the
  code orders them.
- *Logging in and out, read-only lists, exports, charts, averages and percentiles,
  routing*: presentation, or one read.
- *The table of communication technologies*: one check and one insert.
- *The notebook*: CBR and TOPSIS over real numbers.

Nothing of the plan is left: each safety property, action property and refinement that
a passing run checks has a theorem.
