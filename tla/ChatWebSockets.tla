--------------------------- MODULE ChatWebSockets ---------------------------
(***************************************************************************)
(* Chat over raw WebSockets: one ChatWebSocketHandler per connection, and  *)
(* the WebSocketConnectionManager they share, a singleton whose groups are *)
(* dictionaries of the connections in a chat.                              *)
(*                                                                         *)
(* A handler reads a frame, does all that it asks for, and reads the next. *)
(* Handlers run beside each other, and every access to a                   *)
(* ConcurrentDictionary is a step.  A group is an object: one that was     *)
(* taken down may still be held by whoever looked it up before.  Frames    *)
(* that change nothing (ping, bad JSON, a refused message) are no steps.   *)
(* The rate limit, the metadata (never read) and the bus that the message  *)
(* is published on as well (ChatMessageBus) are left out.                  *)
(***************************************************************************)
EXTENDS Naturals, FiniteSets

CONSTANTS
  Conns,      (* connections                                               *)
  Chats,      (* chat ids                                                  *)
  Messages,   (* frames of type "message", each sent at most once          *)
  MsgChat,    (* their chatId                                              *)
  MayJoin,    (* conn -> chats RequireChatAccessAsync admits its user to   *)
  MaxGroups,  (* bound: the group objects that GetOrAdd may make           *)
  None        (* no value                                                  *)

GroupIds == 1..MaxGroups

ASSUME SocketAssumption ==
  /\ MsgChat \in [Messages -> Chats]
  /\ MayJoin \in [Conns -> SUBSET Chats]
  /\ MaxGroups \in Nat
  /\ None \notin GroupIds \union Chats \union Messages \union Conns

VARIABLES
  groups,     (* _groups: chat -> group object                             *)
  members,    (* group object -> the connections in it                     *)
  made,       (* how many group objects have been made                     *)
  open,       (* socket.State is Open                                      *)
  aborted,    (* context.RequestAborted has fired                          *)
  pc,         (* where each handler is                                     *)
  joined,     (* _joinedChatId                                             *)
  chat,       (* the frame's chatId                                        *)
  group,      (* the local variable `group'                                *)
  msg,        (* the message being sent                                    *)
  left,       (* sockets the broadcast has not written to yet              *)
  sweep,      (* groups RemoveSocketAsync has not come to yet              *)
  db,         (* messages in the database                                  *)
  sender,     (* the connection that sent each message                     *)
  got,        (* history: the messages written to each connection          *)
  stays,      (* history: chats each connection has joined and not left    *)
  disturbed,  (* history: chats whose latest join met a leave of the chat  *)
  audience    (* history: who was in the chat when a message was saved,    *)
              (* and has stayed                                            *)

groupVars == <<groups, members, made>>
sockVars  == <<open, aborted>>
local     == <<chat, group, msg, left>>
sendVars  == <<db, sender, got>>
hist      == <<stays, disturbed, audience>>
vars == <<groupVars, sockVars, pc, joined, local, sweep, sendVars, hist>>

(***************************************************************************)
(* Type invariant.                                                         *)
(***************************************************************************)
TypeOK ==
  /\ groups \in [Chats -> GroupIds \union {None}]
  /\ members \in [GroupIds -> SUBSET Conns]
  /\ made \in 0..MaxGroups
  /\ open \in [Conns -> BOOLEAN] /\ aborted \in [Conns -> BOOLEAN]
  /\ pc \in [Conns -> {"off", "ready", "joining", "leaving", "left", "dropping", "saving",
                       "looking", "copying", "sending", "removing"}]
  /\ joined \in [Conns -> Chats \union {None}]
  /\ chat \in [Conns -> Chats \union {None}]
  /\ group \in [Conns -> GroupIds \union {None}]
  /\ msg \in [Conns -> Messages \union {None}]
  /\ left \in [Conns -> SUBSET Conns]
  /\ sweep \in [Conns -> SUBSET Chats]
  /\ db \subseteq Messages
  /\ sender \in [Messages -> Conns \union {None}]
  /\ got \in [Conns -> SUBSET Messages]
  /\ stays \in [Conns -> SUBSET Chats] /\ disturbed \in [Conns -> SUBSET Chats]
  /\ audience \in [Messages -> SUBSET Conns]
  /\ \A c \in Conns :
       /\ pc[c] \in {"joining", "leaving", "left", "dropping", "copying"} => group[c] # None
       /\ pc[c] \notin {"off", "ready", "removing"} => chat[c] # None
       /\ pc[c] \in {"saving", "looking", "copying", "sending"} => msg[c] # None

Init ==
  /\ groups = [ch \in Chats |-> None]
  /\ members = [g \in GroupIds |-> {}]
  /\ made = 0
  /\ open = [c \in Conns |-> FALSE] /\ aborted = [c \in Conns |-> FALSE]
  /\ pc = [c \in Conns |-> "off"]
  /\ joined = [c \in Conns |-> None]
  /\ chat = [c \in Conns |-> None]
  /\ group = [c \in Conns |-> None]
  /\ msg = [c \in Conns |-> None]
  /\ left = [c \in Conns |-> {}]
  /\ sweep = [c \in Conns |-> {}]
  /\ db = {}
  /\ sender = [m \in Messages |-> None]
  /\ got = [c \in Conns |-> {}]
  /\ stays = [c \in Conns |-> {}] /\ disturbed = [c \in Conns |-> {}]
  /\ audience = [m \in Messages |-> {}]

Goto(c, here, there) == pc[c] = here /\ pc' = [pc EXCEPT ![c] = there]

\* ReceiveAsync has brought a frame, and its handling begins.
Frame(c, next) == open[c] /\ Goto(c, "ready", next)

\* Back to the top of the loop; the frame's locals are no more.
Continue(c) ==
  /\ pc' = [pc EXCEPT ![c] = "ready"]
  /\ chat' = [chat EXCEPT ![c] = None]
  /\ group' = [group EXCEPT ![c] = None]
  /\ msg' = [msg EXCEPT ![c] = None]
  /\ UNCHANGED left

Leaving(c, ch) == pc[c] \in {"leaving", "left", "dropping"} /\ chat[c] = ch

\* The audiences once c is no longer one who has stayed in the chats of set away.
Without(c, away) ==
  [m \in Messages |-> IF MsgChat[m] \in away THEN audience[m] \ {c} ELSE audience[m]]

\* For AllGroups: a removed socket is left in its groups.
NoGroups == {}

AllGroups == Chats

(***************************************************************************)
(* Out of the loop, to the finally block: RemoveSocketAsync has the socket *)
(* closed, and will then go through the groups there are.                  *)
(***************************************************************************)
Break(c) ==
  /\ pc' = [pc EXCEPT ![c] = "removing"]
  /\ open' = [open EXCEPT ![c] = FALSE]
  /\ sweep' = [sweep EXCEPT ![c] = AllGroups]
  /\ joined' = [joined EXCEPT ![c] = None]
  /\ chat' = [chat EXCEPT ![c] = None]
  /\ msg' = [msg EXCEPT ![c] = None]
  /\ stays' = [stays EXCEPT ![c] = {}]
  /\ disturbed' = [disturbed EXCEPT ![c] = {}]
  /\ audience' = Without(c, Chats)
  /\ UNCHANGED <<group, left>>

(***************************************************************************)
(* Mutants, as in ChatMessageBus.                                          *)
(***************************************************************************)
\* For LeaveIsEmpty: the group is taken down whoever is in it.
LeaveTakesDown(c) ==
  /\ Goto(c, "left", "dropping")
  /\ UNCHANGED <<groupVars, sockVars, joined, local, sweep, sendVars, hist>>

\* For Write: the try is around all the writes, so the first that throws is the last.
WriteUntilOneThrows(c, d) ==
  /\ pc[c] = "sending" /\ d \in left[c]
  /\ \/ /\ open[d]
        /\ got' = [got EXCEPT ![d] = @ \union {msg[c]}]
        /\ left' = [left EXCEPT ![c] = @ \ {d}]
     \/ ~open[d] /\ left' = [left EXCEPT ![c] = {}] /\ UNCHANGED got
  /\ UNCHANGED <<groupVars, sockVars, pc, joined, chat, group, msg, sweep, db, sender, hist>>

\* For HandlerStops: it waits for the client's close frame.
StopsOnClose(c) ==
  /\ pc[c] = "ready" /\ open[c]
  /\ Break(c)
  /\ UNCHANGED <<groupVars, aborted, sendVars>>

-----------------------------------------------------------------------------
(* The connection *)

\* WebSocketMiddleware accepts it; HandleAsync registers the socket.
Connect(c) ==
  /\ Goto(c, "off", "ready")
  /\ open' = [open EXCEPT ![c] = TRUE]
  /\ UNCHANGED <<groupVars, aborted, joined, local, sweep, sendVars, hist>>

\* The client is gone, whatever its loop is at; past the loop no one looks.
Abort(c) ==
  /\ pc[c] \notin {"off", "removing"} /\ ~aborted[c]
  /\ aborted' = [aborted EXCEPT ![c] = TRUE]
  /\ open' = [open EXCEPT ![c] = FALSE]
  /\ UNCHANGED <<groupVars, pc, joined, local, sweep, sendVars, hist>>

(***************************************************************************)
(* The loop ends: the client sent a close frame, or is gone, or was aborted*)
(* by another's write; or a frame is refused in a way that closes (too big,*)
(* identity mismatch, no such chat, not a member).                         *)
(***************************************************************************)
HandlerStops(c) ==
  /\ pc[c] = "ready"
  /\ Break(c)
  /\ UNCHANGED <<groupVars, aborted, sendVars>>

-----------------------------------------------------------------------------
(* Join *)

GetOrAdd(ch) == IF groups[ch] = None THEN made + 1 ELSE groups[ch]

\* The user is who it says and has access; AddToGroup begins with GetOrAdd.
Join(c, ch) ==
  LET g == GetOrAdd(ch)
  IN /\ ch \in MayJoin[c] /\ g \in GroupIds
     /\ Frame(c, "joining")
     /\ joined' = [joined EXCEPT ![c] = ch]
     /\ chat' = [chat EXCEPT ![c] = ch]
     /\ group' = [group EXCEPT ![c] = g]
     /\ groups' = [groups EXCEPT ![ch] = g]
     /\ made' = IF g > made THEN g ELSE made
     /\ disturbed' = [disturbed EXCEPT ![c] =
          IF \E d \in Conns : Leaving(d, ch) THEN @ \union {ch} ELSE @ \ {ch}]
     /\ audience' = Without(c, {ch})
     /\ UNCHANGED <<members, sockVars, msg, left, sweep, sendVars, stays>>

JoinAdd(c) ==
  /\ pc[c] = "joining"
  /\ members' = [members EXCEPT ![group[c]] = @ \union {c}]
  /\ stays' = [stays EXCEPT ![c] = @ \union {chat[c]}]
  /\ Continue(c)
  /\ UNCHANGED <<groups, made, sockVars, joined, sweep, sendVars, disturbed, audience>>

-----------------------------------------------------------------------------
(* Leave: any chat may be named, and _joinedChatId stays what it was.      *)

\* RemoveFromGroup begins with TryGetValue.
Leave(c, ch) ==
  /\ stays' = [stays EXCEPT ![c] = @ \ {ch}]
  /\ audience' = Without(c, {ch})
  /\ disturbed' = [d \in Conns |->
       IF d = c THEN disturbed[d] \ {ch}
       ELSE IF groups[ch] # None /\ pc[d] = "joining" /\ chat[d] = ch
       THEN disturbed[d] \union {ch} ELSE disturbed[d]]
  /\ \/ groups[ch] = None /\ Frame(c, "ready") /\ UNCHANGED <<chat, group>>
     \/ /\ groups[ch] # None
        /\ Frame(c, "leaving")
        /\ chat' = [chat EXCEPT ![c] = ch]
        /\ group' = [group EXCEPT ![c] = groups[ch]]
  /\ UNCHANGED <<groupVars, sockVars, joined, msg, left, sweep, sendVars>>

LeaveRemove(c) ==
  /\ Goto(c, "leaving", "left")
  /\ members' = [members EXCEPT ![group[c]] = @ \ {c}]
  /\ UNCHANGED <<groups, made, sockVars, joined, local, sweep, sendVars, hist>>

LeaveIsEmpty(c) ==
  /\ pc[c] = "left"
  /\ \/ members[group[c]] = {} /\ Goto(c, "left", "dropping") /\ UNCHANGED local
     \/ members[group[c]] # {} /\ Continue(c)
  /\ UNCHANGED <<groupVars, sockVars, joined, sweep, sendVars, hist>>

\* TryRemove(chatId): whichever group is the chat's by now.
LeaveDrop(c) ==
  /\ pc[c] = "dropping"
  /\ groups' = [groups EXCEPT ![chat[c]] = None]
  /\ Continue(c)
  /\ UNCHANGED <<members, made, sockVars, joined, sweep, sendVars, hist>>

-----------------------------------------------------------------------------
(* Message *)

\* It is for the chat joined last, which still exists; the receiver is right.
Send(c, m) ==
  /\ joined[c] = MsgChat[m] /\ sender[m] = None
  /\ Frame(c, "saving")
  /\ sender' = [sender EXCEPT ![m] = c]
  /\ msg' = [msg EXCEPT ![c] = m]
  /\ chat' = [chat EXCEPT ![c] = MsgChat[m]]
  /\ UNCHANGED <<groupVars, sockVars, joined, group, left, sweep, db, got, hist>>

InRoom(c, ch) == ch \in stays[c] /\ ~(pc[c] = "joining" /\ chat[c] = ch)

\* MessageService.SendMessage has inserted the row.
Saved(c) ==
  /\ Goto(c, "saving", "looking")
  /\ db' = db \union {msg[c]}
  /\ audience' = [audience EXCEPT ![msg[c]] = {d \in Conns : InRoom(d, chat[c])}]
  /\ UNCHANGED <<groupVars, sockVars, joined, local, sweep, sender, got, stays, disturbed>>

\* The insert throws (the chat was deleted since): the loop is left.
SaveFails(c) ==
  /\ pc[c] = "saving"
  /\ Break(c)
  /\ UNCHANGED <<groupVars, aborted, sendVars>>

\* GetGroupSockets: the chat's group, and then the sockets that are in it.
BroadcastLookup(c) ==
  /\ pc[c] = "looking"
  /\ \/ groups[chat[c]] = None /\ Continue(c)
     \/ /\ groups[chat[c]] # None
        /\ Goto(c, "looking", "copying")
        /\ group' = [group EXCEPT ![c] = groups[chat[c]]]
        /\ UNCHANGED <<chat, msg, left>>
  /\ UNCHANGED <<groupVars, sockVars, joined, sweep, sendVars, hist>>

BroadcastCopy(c) ==
  /\ Goto(c, "copying", "sending")
  /\ left' = [left EXCEPT ![c] = members[group[c]]]
  /\ UNCHANGED <<groupVars, sockVars, joined, chat, group, msg, sweep, sendVars, hist>>

(***************************************************************************)
(* One SendAsync, given the sender's token: it is written, or there is no  *)
(* open socket to write to, or the token has fired.  Then it throws, and   *)
(* a socket that was being written to is aborted (external: WebSocket's    *)
(* SendAsync aborts its socket when cancelled).                            *)
(***************************************************************************)
Write(c, d) ==
  /\ pc[c] = "sending" /\ d \in left[c]
  /\ left' = [left EXCEPT ![c] = @ \ {d}]
  /\ \/ open[d] /\ got' = [got EXCEPT ![d] = @ \union {msg[c]}] /\ UNCHANGED open
     \/ (~open[d] \/ aborted[c]) /\ UNCHANGED <<got, open>>
     \/ aborted[c] /\ open' = [open EXCEPT ![d] = FALSE] /\ UNCHANGED got
  /\ UNCHANGED <<groupVars, aborted, pc, joined, chat, group, msg, sweep, db, sender, hist>>

BroadcastDone(c) ==
  /\ pc[c] = "sending" /\ left[c] = {}
  /\ Continue(c)
  /\ UNCHANGED <<groupVars, sockVars, joined, sweep, sendVars, hist>>

-----------------------------------------------------------------------------
(* RemoveSocketAsync, once the socket is closed: every group is visited.    *)

Sweep(c, ch) ==
  /\ pc[c] = "removing" /\ ch \in sweep[c]
  /\ sweep' = [sweep EXCEPT ![c] = @ \ {ch}]
  /\ members' = [g \in GroupIds |-> IF g = groups[ch] THEN members[g] \ {c} ELSE members[g]]
  /\ UNCHANGED <<groups, made, sockVars, pc, joined, local, sendVars, hist>>

Gone(c) == pc[c] = "removing" /\ sweep[c] = {}

-----------------------------------------------------------------------------
\* What a handler goes on to do once it has a frame, or is out of the loop.
HandlerStep(c) ==
  \/ JoinAdd(c) \/ LeaveRemove(c) \/ LeaveIsEmpty(c) \/ LeaveDrop(c)
  \/ Saved(c) \/ SaveFails(c) \/ BroadcastLookup(c) \/ BroadcastCopy(c) \/ BroadcastDone(c)
  \/ \E ch \in Chats : Sweep(c, ch)

Next ==
  \E c \in Conns :
    \/ Connect(c) \/ Abort(c)
    \/ \E ch \in Chats : Join(c, ch) \/ Leave(c, ch)
    \/ \E m \in Messages : Send(c, m)
    \/ \E d \in Conns : Write(c, d)
    \/ HandlerStops(c) \/ HandlerStep(c)

Spec == Init /\ [][Next]_vars

(***************************************************************************)
(* A handler does what it can do by itself.  A write waits for the client  *)
(* to read, unless the sender's token has fired, and no client has to.     *)
(***************************************************************************)
FairSpec ==
  /\ Spec
  /\ \A c \in Conns : WF_vars(HandlerStep(c)) /\ WF_vars(~open[c] /\ HandlerStops(c))
  /\ \A c, d \in Conns : WF_vars(aborted[c] /\ Write(c, d))

-----------------------------------------------------------------------------
(* Properties *)

(***************************************************************************)
(* Who has joined a chat and not left is in the group broadcasts go to,    *)
(* unless a leave frame for the chat, by someone else, was being handled   *)
(* while the join was: RemoveFromGroup may take a group down that has been *)
(* joined since it looked.                                                 *)
(***************************************************************************)
ReachableUnlessDisturbed ==
  \A c \in Conns, ch \in Chats :
    InRoom(c, ch) /\ ch \notin disturbed[c] => groups[ch] # None /\ c \in members[groups[ch]]

(***************************************************************************)
(* "stale sockets are cleaned up on removal": the groups in use hold only  *)
(* connections that joined the chat and have neither left nor gone, save   *)
(* for those a handler is just taking out.                                 *)
(***************************************************************************)
NoStaleMembers ==
  \A c \in Conns, ch \in Chats :
    groups[ch] # None /\ c \in members[groups[ch]] =>
      \/ ch \in stays[c]
      \/ pc[c] = "leaving" /\ chat[c] = ch
      \/ ch \in sweep[c]

(***************************************************************************)
(* A saved message reaches the room: once its broadcast is over, all who   *)
(* were in the room when it was saved, and are still, have it.  Excused    *)
(* are those a leave disturbed, sockets that are not open, and a sender    *)
(* that was gone before the broadcast was over.                            *)
(***************************************************************************)
Broadcasting(m) ==
  \E c \in Conns : msg[c] = m /\ pc[c] \in {"looking", "copying", "sending"}

SavedReachesRoom ==
  \A m \in db : ~Broadcasting(m) /\ ~aborted[sender[m]] =>
    \A c \in audience[m] :
      open[c] /\ MsgChat[m] \notin disturbed[c] => m \in got[c]

(***************************************************************************)
(* A connection that is gone is forgotten: its handler ends and takes it   *)
(* out of every group, even in the middle of a broadcast to clients that   *)
(* do not read.                                                            *)
(***************************************************************************)
EventuallyForgotten == \A c \in Conns : aborted[c] ~> Gone(c)
=============================================================================
