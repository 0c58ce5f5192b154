----------------------------- MODULE ChatLabData -----------------------------
(***************************************************************************)
(* The accounts, roles, chats, messages and follows of ChatLab's core      *)
(* database, the requests that change them and the pages that send those   *)
(* requests.  Every call of the service that writes is made of several     *)
(* database calls with no transaction around them: each is a step, and two *)
(* requests interleave between any two of them.  A save succeeds or fails  *)
(* as a whole; it fails when a row it removes is gone, when it leaves a    *)
(* reference dangling (every foreign key restricts) or when the user row   *)
(* it saves carries another concurrency stamp than the one read.           *)
(*                                                                         *)
(* Pages and requests that are refused at their first read change nothing  *)
(* and are no steps.  The bodies of messages, profiles and exports are     *)
(* left out; of a password hash only whether it is the one last reset.     *)
(***************************************************************************)
EXTENDS Naturals, FiniteSets

CONSTANTS Handlers,     \* the requests the service works on at a time
          Root,         \* the account of admin@admin.com
          Unknown,      \* the account of unknown@unknown.com
          People,       \* the accounts that register
          NoOne,        \* no account
          MaxRequests,  \* bound: requests served
          MaxRows,      \* bound: rows of chats and follows ever inserted
          MaxCrashes    \* bound: restarts of the service

Names == People \cup {Root, Unknown}
Roles == {"Admin", "User"}
Pairs == {p \in SUBSET Names : Cardinality(p) = 2}
Rows  == 1..MaxRows

ASSUME DataAssumption ==
  /\ Root \notin People /\ Unknown \notin People /\ Root # Unknown
  /\ NoOne \notin Names
  /\ MaxRequests \in Nat /\ MaxRows \in Nat /\ MaxCrashes \in Nat
  /\ IsFiniteSet(Handlers) /\ Handlers # {}

VARIABLES
  accounts,   \* the users' rows
  roles,      \* the roles of each account: AspNetUserRoles
  hash,       \* "new" once a reset replaced the password hash, "old" before
  chats,      \* the chats' rows: an id and the two members
  messages,   \* the messages' rows: an id, the chat, the sender and the receiver
  follows,    \* the follows' rows: an id, who follows and who is followed
  nextRow,    \* the identity of the next chat, message or follow
  followMap,  \* userFollowedMap of each one's page: the follow row known, or 0
  listed,     \* whose page has been given its lists
  mounts,     \* how often each one's page was opened anew
  boot,       \* what the service is seeding, "up" once it serves
  req,        \* the requests the service works on
  served,     \* how many requests were started
  crashes,    \* how many times the service was restarted
  admins,     \* history: who was ever an admin, and may hold an admin's token
  cut,        \* history: accounts a crash caught between two role commits
  blurred     \* history: whose page may not show the stored follows

store   == <<accounts, roles, hash, chats, messages, follows, nextRow>>
pages   == <<followMap, listed, mounts>>
history == <<admins, cut, blurred>>
vars    == <<accounts, roles, hash, chats, messages, follows, nextRow, followMap, listed, mounts,
             boot, req, served, crashes, admins, cut, blurred>>

-----------------------------------------------------------------------------
\* A request: its operation, the call it makes next, whom and which chat it is
\* about (an account deleted meanwhile is no one: its id never comes back), the
\* rows and the hash it has read, whether the user row it loaded is still the
\* stored one (fresh), which opening of its page it came from, and, as history,
\* whether no other request has written since it began (alone) and whether its
\* page was blurred.
MessageRows == [id : Rows, chat : Rows, from : Names, to : Names]
FollowRows  == [id : Rows, by : Names, of : Names]
Request == [op : {"register", "role", "save", "reset", "delete", "open", "deleteChat",
                  "send", "deleteMessage", "load", "follow", "unfollow"},
            at : {"create", "addRole", "removeRole", "write", "chats", "messages",
                  "follows", "save", "list", "show"},
            user : Names \cup {NoOne}, other : Names \cup {NoOne}, row : 0..MaxRows,
            role : Roles, hash : {"old", "new"}, todo : SUBSET Rows,
            chats : SUBSET Rows, messages : SUBSET MessageRows, follows : SUBSET FollowRows,
            fresh : BOOLEAN, page : Nat, alone : BOOLEAN, blurred : BOOLEAN]
Idle == [op |-> "idle"]
Active(h) == req[h] # Idle
New(op, at, n) ==
  [op |-> op, at |-> at, user |-> n, other |-> NoOne, row |-> 0, role |-> "User",
   hash |-> "old", todo |-> {}, chats |-> {}, messages |-> {}, follows |-> {},
   fresh |-> TRUE, page |-> 0, alone |-> TRUE, blurred |-> FALSE]

\* The chats between two accounts, either way round: GetChatIdBetweenUsers.
Between(a, b) == {c \in chats : c.pair = {a, b}}
ChatsOf(n) == {c \in chats : n \in c.pair}
ChatIds == {c.id : c \in chats}
FollowsOf(n) == {f \in follows : n \in {f.by, f.of}}
MessagesOf(ids) == {m \in messages : m.chat \in ids}
FollowedBy(n) == {f \in follows : f.by = n}

NoRows   == [o \in Names |-> 0]
Unloaded == [n \in Names |-> NoRows]
Nobody   == chats = {} /\ messages = {} /\ follows = {} /\ nextRow = 1
            /\ followMap = Unloaded /\ listed = {} /\ blurred = Names
\* The database the first start finds: empty.
FirstStart ==
  /\ accounts = {} /\ roles = [n \in Names |-> {}] /\ admins = {} /\ boot = "root"
  /\ Nobody
\* A service in use: nothing written yet, a chat (with a message or none), or a
\* follow that its page has listed.
InUse ==
  /\ accounts = Names /\ admins = {Root} /\ boot = "up"
  /\ roles = [n \in Names |-> IF n = Root THEN {"Admin"} ELSE {"User"}]
  /\ \/ Nobody
     \/ \E pair \in Pairs : \E from \in SUBSET pair :
          /\ Cardinality(from) < 2 /\ MaxRows > 1 /\ nextRow = 3
          /\ chats = {[id |-> 1, pair |-> pair]}
          /\ messages = {m \in [id : {2}, chat : {1}, from : from, to : pair] : m.to # m.from}
          /\ follows = {} /\ followMap = Unloaded /\ listed = {} /\ blurred = Names
     \/ \E n \in Names : \E o \in Names \ {n} :
          /\ MaxRows > 0 /\ nextRow = 2 /\ chats = {} /\ messages = {}
          /\ follows = {[id |-> 1, by |-> n, of |-> o]}
          /\ followMap = [Unloaded EXCEPT ![n][o] = 1]
          /\ listed = {n} /\ blurred = Names \ {n}
Init ==
  /\ FirstStart \/ InUse
  /\ hash = [n \in Names |-> "old"] /\ mounts = [n \in Names |-> 0]
  /\ req = [h \in Handlers |-> Idle]
  /\ served = 0 /\ crashes = 0 /\ cut = {}

Asks(h, r) ==
  /\ boot = "up" /\ ~Active(h) /\ served < MaxRequests
  /\ served' = served + 1
  /\ req' = [req EXCEPT ![h] = r]
  /\ UNCHANGED <<store, boot, crashes, admins, cut>>
Begins(h, r) == Asks(h, r) /\ UNCHANGED <<pages, blurred>>
Reads(h, r) ==
  /\ req' = [req EXCEPT ![h] = r]
  /\ UNCHANGED <<store, pages, boot, served, crashes, history>>
\* A save that fails answers with an error and leaves the store as it was.
Fails(h) == Reads(h, Idle)
\* A save that succeeds: the others no longer run alone, and those that loaded
\* the account whose row changed hold a stale stamp.
Wrote(h, r, stale) ==
  /\ req' = [g \in Handlers |->
        IF g = h THEN r
        ELSE IF ~Active(g) THEN Idle
        ELSE [req[g] EXCEPT !.alone = FALSE, !.fresh = @ /\ req[g].user \notin stale]]
  /\ UNCHANGED <<boot, served, crashes>>
At(h, op, at) == Active(h) /\ req[h].op = op /\ req[h].at = at

-----------------------------------------------------------------------------
(* What the pages offer: the buttons on the card, row or view of an        *)
(* account, a chat or a message.  Searching, ordering and paging a list    *)
(* keep nothing of it out of reach.                                        *)

\* On the card of o on n's page, as the rows the page knows tell.
CommunityCard(n, o) ==
  IF o = n THEN {} ELSE {"open", IF followMap[n][o] = 0 THEN "follow" ELSE "unfollow"}
\* The cards of those n follows, and of those who follow n, which the page knows
\* once it has its lists.
FollowedCard(n, o) == IF o = n \/ followMap[n][o] = 0 THEN {} ELSE {"open", "unfollow"}
FollowerCard(n, o) ==
  IF n \in listed /\ \E f \in follows : f.by = o /\ f.of = n THEN CommunityCard(n, o) ELSE {}
\* On the row of n on the admin a's page of users: no admin may delete the own
\* account while it is shown as an admin's.
AdminUsersRow(a, n) ==
  {"edit"} \cup (IF n = a THEN {} ELSE {"open", "delete"})
           \cup (IF "User" \in roles[n] THEN {"delete"} ELSE {})
\* On the row of n in a's list of users and in a's list of admins.
UsersRow(a, n)  == {"promote"} \cup (IF n = a THEN {} ELSE {"open"})
AdminsRow(a, n) == IF n = a THEN {} ELSE {"demote", "open"}
\* On one's own page: deletion is for those who logged in as no admin.
ProfileOffers(n) ==
  {"edit", "reset"} \cup (IF n = Root /\ "Admin" \in roles[n] THEN {} ELSE {"delete"})
\* The chats listed to a member and to an admin, and in a room one's own messages.
ChatsList(n)   == ChatsOf(n)
AdminChatsList == chats
OwnMessages(n) == {m \in messages : m.from = n /\ \E c \in ChatsOf(n) : c.id = m.chat}

-----------------------------------------------------------------------------
(* Registration: the account and its role are two commits.                 *)

\* The registration page, and the form on the page of users: an address without
\* an account passes the look-up.
RegistrationSubmits(h, n) ==
  n \notin accounts /\ Begins(h, New("register", "create", n))
AdminUsersRegisters(h, n) ==
  admins # {} /\ n \notin accounts
  /\ Begins(h, New("register", "create", n))

\* CreateAsync: the database refuses a second account of one name.
Register(h) ==
  /\ At(h, "register", "create")
  /\ LET n == req[h].user IN
     \/ /\ n \in accounts
        /\ Fails(h)
     \/ /\ n \in Names \ accounts
        /\ accounts' = accounts \cup {n}
        /\ hash' = [hash EXCEPT ![n] = "old"]
        /\ Wrote(h, [req[h] EXCEPT !.at = "addRole", !.hash = "old", !.fresh = TRUE], {})
        /\ UNCHANGED <<roles, chats, messages, follows, nextRow, pages, history>>

(* Roles: a role is taken away by one commit and the other given by a next.*)
(* Each ends in UserStore.UpdateAsync, which saves the whole user row, the *)
(* password's hash as it was read, under a new stamp.                      *)

\* The page's two lists; the service looks for the unknown account only before a
\* promotion.
MakeAnAdmin(h, a, n) ==
  /\ a \in admins /\ "promote" \in UsersRow(a, n) /\ {n, Unknown} \subseteq accounts
  /\ Begins(h, [New("role", "removeRole", n) EXCEPT !.role = "User", !.hash = hash[n]])
MakeAnUser(h, a, n) ==
  /\ a \in admins /\ "demote" \in AdminsRow(a, n) /\ n \in accounts
  /\ Begins(h, [New("role", "removeRole", n) EXCEPT !.role = "Admin", !.hash = hash[n]])

HasRole(r) == r.user \in accounts /\ r.fresh /\ r.role \in roles[r.user]
\* For OneRole: the role to take away is looked at and kept.
RemoveRoleKept(h) ==
  /\ At(h, "role", "removeRole")
  /\ IF HasRole(req[h]) THEN Reads(h, [req[h] EXCEPT !.at = "addRole"]) ELSE Fails(h)
RemoveRole(h) ==
  /\ At(h, "role", "removeRole")
  /\ LET n == req[h].user IN
     \/ /\ ~HasRole(req[h])
        /\ Fails(h)
     \/ /\ HasRole(req[h])
        /\ roles' = [roles EXCEPT ![n] = @ \ {req[h].role}]
        /\ hash' = [hash EXCEPT ![n] = req[h].hash]
        /\ Wrote(h, [req[h] EXCEPT !.at = "addRole"], {n})
        /\ UNCHANGED <<accounts, chats, messages, follows, nextRow, pages, history>>

\* AddToRoleAsync, the last commit of a change of role and of a registration.
Given(h) == IF req[h].op = "role" THEN CHOOSE r \in Roles : r # req[h].role ELSE "User"
AddRole(h) ==
  /\ At(h, "role", "addRole") \/ At(h, "register", "addRole")
  /\ LET n == req[h].user IN
     \/ /\ ~req[h].fresh \/ n \notin accounts
        /\ Fails(h)
     \/ /\ req[h].fresh /\ n \in accounts
        /\ roles' = [roles EXCEPT ![n] = @ \cup {Given(h)}]
        /\ hash' = [hash EXCEPT ![n] = req[h].hash]
        /\ admins' = IF Given(h) = "Admin" THEN admins \cup {n} ELSE admins
        /\ Wrote(h, Idle, {n})
        /\ UNCHANGED <<accounts, chats, messages, follows, nextRow, pages, cut, blurred>>

(* Profiles and passwords: the whole row is saved, the hash as it was read.*)

\* The page of one's profile and the edit form on the page of users.
ProfileEdits(h, n) ==
  n \in accounts /\ "edit" \in ProfileOffers(n)
  /\ Begins(h, [New("save", "write", n) EXCEPT !.hash = hash[n]])
AdminUsersEdits(h, a, n) ==
  a \in admins /\ n \in accounts /\ "edit" \in AdminUsersRow(a, n)
  /\ Begins(h, [New("save", "write", n) EXCEPT !.hash = hash[n]])
\* For PasswordKept: the form's empty hash is mapped onto the row.
UpdateUserFromForm(h) ==
  /\ At(h, "save", "write") /\ req[h].user \in accounts /\ req[h].fresh
  /\ hash' = [hash EXCEPT ![req[h].user] = "old"]
  /\ Wrote(h, Idle, {})
  /\ UNCHANGED <<accounts, roles, chats, messages, follows, nextRow, pages, history>>
\* UpdateUser marks every column modified.  The stamp stays as it is.
UpdateUser(h) ==
  /\ At(h, "save", "write")
  /\ LET n == req[h].user IN
     \/ /\ n \notin accounts \/ ~req[h].fresh
        /\ Fails(h)
     \/ /\ n \in accounts /\ req[h].fresh
        /\ hash' = [hash EXCEPT ![n] = req[h].hash]
        /\ Wrote(h, Idle, {})
        /\ UNCHANGED <<accounts, roles, chats, messages, follows, nextRow, pages, history>>
ProfileResets(h, n) ==
  n \in accounts /\ "reset" \in ProfileOffers(n) /\ Begins(h, New("reset", "write", n))
ResetUserPassword(h) ==
  /\ At(h, "reset", "write")
  /\ LET n == req[h].user IN
     \/ /\ n \notin accounts \/ ~req[h].fresh
        /\ Fails(h)
     \/ /\ n \in accounts /\ req[h].fresh
        /\ hash' = [hash EXCEPT ![n] = "new"]
        /\ Wrote(h, Idle, {})
        /\ UNCHANGED <<accounts, roles, chats, messages, follows, nextRow, pages, history>>

-----------------------------------------------------------------------------
(* Deleting an account: what goes with it is read table by table, and one  *)
(* save removes it all.                                                    *)

\* From one's own page, and from an admin's page of users.
ProfileDeletes(h, n) ==
  n \in accounts /\ "delete" \in ProfileOffers(n) /\ Begins(h, New("delete", "chats", n))
AdminUsersDeletes(h, a, n) ==
  /\ a \in admins /\ n \in accounts /\ "delete" \in AdminUsersRow(a, n)
  /\ Begins(h, New("delete", "chats", n))

ReadChats(h) ==
  /\ At(h, "delete", "chats")
  /\ LET ids == {c.id : c \in ChatsOf(req[h].user)} IN
     Reads(h, [req[h] EXCEPT !.chats = ids, !.todo = ids,
                             !.at = IF ids = {} THEN "follows" ELSE "messages"])
\* One query a chat.
ReadMessages(h) ==
  /\ At(h, "delete", "messages")
  /\ \E c \in req[h].todo :
       Reads(h, [req[h] EXCEPT !.messages = @ \cup MessagesOf({c}), !.todo = @ \ {c},
                               !.at = IF req[h].todo = {c} THEN "follows" ELSE "messages"])
\* For DeletionSucceedsAlone: only whom the account follows is removed.
ReadFollowsBy(h) ==
  /\ At(h, "delete", "follows")
  /\ Reads(h, [req[h] EXCEPT !.follows = FollowedBy(req[h].user), !.at = "save"])
\* The follows either way, and the unknown account, whose absence is an error.
ReadFollows(h) ==
  /\ At(h, "delete", "follows")
  /\ IF Unknown \in accounts
     THEN Reads(h, [req[h] EXCEPT !.follows = FollowsOf(req[h].user), !.at = "save"])
     ELSE Fails(h)

\* Every row read is still there, the user's is unchanged, and no row left behind
\* refers to one that is removed.
MayRemove(r) ==
  /\ r.user \in accounts /\ r.fresh
  /\ r.chats \subseteq ChatIds /\ r.messages \subseteq messages /\ r.follows \subseteq follows
  /\ \A c \in ChatsOf(r.user) : c.id \in r.chats
  /\ \A m \in messages \ r.messages : m.chat \notin r.chats /\ r.user \notin {m.from, m.to}
  /\ FollowsOf(r.user) \subseteq r.follows
\* The account's requests and those about it now name an account that is gone;
\* a registration names an address.
Forget(n, who) == IF who = n THEN NoOne ELSE who
Orphaned(r, n) ==
  IF r.op = "register" /\ r.at = "create" THEN [r EXCEPT !.alone = FALSE]
  ELSE [r EXCEPT !.alone = FALSE, !.user = Forget(n, @), !.other = Forget(n, @)]
DeleteUser(h) ==
  /\ At(h, "delete", "save")
  /\ LET r == req[h]  n == req[h].user IN
     \/ /\ ~MayRemove(r)
        /\ Fails(h)
     \/ /\ MayRemove(r)
        /\ accounts' = accounts \ {n}
        /\ roles' = [roles EXCEPT ![n] = {}]
        /\ chats' = {c \in chats : c.id \notin r.chats}
        /\ messages' = messages \ r.messages
        /\ follows' = follows \ r.follows
        /\ followMap' = [followMap EXCEPT ![n] = NoRows] /\ listed' = listed \ {n}
        /\ req' = [g \in Handlers |->
              IF g = h \/ ~Active(g) THEN Idle ELSE Orphaned(req[g], n)]
        /\ cut' = cut \ {n}
        /\ blurred' = blurred \cup {n} \cup {o \in Names : followMap[o][n] # 0}
        /\ UNCHANGED <<hash, nextRow, mounts, boot, served, crashes, admins>>

-----------------------------------------------------------------------------
(* Chats: a page looks for the chat, creates it when there is none and     *)
(* looks again.  Nothing keeps two chats of one pair apart.                *)

\* For ChatsBounded: the page creates the chat without having looked.
OpensUnseen(h, n, o) ==
  /\ n # o /\ {n, o} \subseteq accounts
  /\ Begins(h, [New("open", "create", n) EXCEPT !.other = o])
Opens(h, n, o) ==
  /\ n # o /\ {n, o} \subseteq accounts /\ Between(n, o) = {}
  /\ Begins(h, [New("open", "create", n) EXCEPT !.other = o])
CommunityOpens(h, n, o) == "open" \in CommunityCard(n, o) /\ Opens(h, n, o)
MyFriendsOpens(h, n, o) ==
  "open" \in FollowedCard(n, o) \cup FollowerCard(n, o) /\ Opens(h, n, o)
AdminUsersOpens(h, a, o) == a \in admins /\ "open" \in AdminUsersRow(a, o) /\ Opens(h, a, o)
MakeAdminOpens(h, a, o) ==
  a \in admins /\ "open" \in UsersRow(a, o) \cup AdminsRow(a, o) /\ Opens(h, a, o)
CreateChat(h) ==
  /\ At(h, "open", "create")
  /\ LET n == req[h].user  o == req[h].other IN
     \/ /\ ~({n, o} \subseteq accounts)
        /\ Fails(h)
     \/ /\ {n, o} \subseteq accounts /\ nextRow <= MaxRows
        /\ chats' = chats \cup {[id |-> nextRow, pair |-> {n, o}]}
        /\ nextRow' = nextRow + 1
        /\ Wrote(h, Idle, {})
        /\ UNCHANGED <<accounts, roles, hash, messages, follows, pages, history>>

\* A member's list of chats and room, the admin's list of chats and view of one.
ChatsDeletes(h, n, c) ==
  /\ c \in ChatsList(n)
  /\ Begins(h, [New("deleteChat", "messages", n) EXCEPT !.row = c.id])
RoomDeletesChat(h, n, c) ==
  /\ c \in ChatsOf(n)
  /\ Begins(h, [New("deleteChat", "messages", n) EXCEPT !.row = c.id])
AdminChatsDeletes(h, a, c) ==
  /\ c \in AdminChatsList /\ a \in admins
  /\ Begins(h, [New("deleteChat", "messages", a) EXCEPT !.row = c.id])
AdminChatDeletes(h, a, c) ==
  /\ c \in chats /\ a \in admins
  /\ Begins(h, [New("deleteChat", "messages", a) EXCEPT !.row = c.id])
ReadChatMessages(h) ==
  /\ At(h, "deleteChat", "messages")
  /\ Reads(h, [req[h] EXCEPT !.messages = MessagesOf({req[h].row}), !.at = "save"])
MayRemoveChat(r) ==
  r.row \in ChatIds /\ r.messages \subseteq messages /\ MessagesOf({r.row}) \subseteq r.messages
DeleteChat(h) ==
  /\ At(h, "deleteChat", "save")
  /\ \/ /\ ~MayRemoveChat(req[h])
        /\ Fails(h)
     \/ /\ MayRemoveChat(req[h])
        /\ chats' = {c \in chats : c.id # req[h].row}
        /\ messages' = messages \ req[h].messages
        /\ Wrote(h, Idle, {})
        /\ UNCHANGED <<accounts, roles, hash, follows, nextRow, pages, history>>

(* Messages over REST: who may write is read before the row is inserted.   *)

\* RequireSenderMatchesCurrentUserOrAdmin and CanUseReceiver: a member writes in
\* the own name and to a member; an admin names whom it likes.
MaySend(n, c, from, to) == n \in admins \/ (n \in c.pair /\ from = n /\ to \in c.pair)
SendMessage(h, n, c, from, to) ==
  /\ c \in chats /\ {from, to} \subseteq accounts /\ MaySend(n, c, from, to)
  /\ Begins(h, [New("send", "write", from) EXCEPT !.other = to, !.row = c.id])
InsertMessage(h) ==
  /\ At(h, "send", "write")
  /\ LET from == req[h].user  to == req[h].other  c == req[h].row IN
     \/ /\ c \notin ChatIds \/ ~({from, to} \subseteq accounts)
        /\ Fails(h)
     \/ /\ c \in ChatIds /\ {from, to} \subseteq accounts /\ nextRow <= MaxRows
        /\ messages' = messages \cup {[id |-> nextRow, chat |-> c, from |-> from, to |-> to]}
        /\ nextRow' = nextRow + 1
        /\ Wrote(h, Idle, {})
        /\ UNCHANGED <<accounts, roles, hash, chats, follows, pages, history>>
\* In a room the button is on one's own messages, in the admin's view on all.
RoomDeletes(h, n, m) ==
  /\ m \in OwnMessages(n)
  /\ Begins(h, [New("deleteMessage", "write", n) EXCEPT !.row = m.id])
AdminDeletes(h, a, m) ==
  /\ m \in messages /\ a \in admins
  /\ Begins(h, [New("deleteMessage", "write", a) EXCEPT !.row = m.id])
RemoveMessage(h) ==
  /\ At(h, "deleteMessage", "write")
  /\ \/ /\ \A m \in messages : m.id # req[h].row
        /\ Fails(h)
     \/ /\ \E m \in messages : m.id = req[h].row
        /\ messages' = {m \in messages : m.id # req[h].row}
        /\ Wrote(h, Idle, {})
        /\ UNCHANGED <<accounts, roles, hash, chats, follows, nextRow, pages, history>>

-----------------------------------------------------------------------------
(* Follows: a page keeps the row behind each Unfollow button and lists the *)
(* rows again after each change, when the call before it succeeded.        *)

\* A page that opens knows no row until the list comes, and offers Follow on every
\* card meanwhile; the answers to the page that was there before show nothing.
Mounts(h, n) ==
  /\ Asks(h, [New("load", "list", n) EXCEPT !.page = mounts[n] + 1])
  /\ mounts' = [mounts EXCEPT ![n] = @ + 1]
  /\ followMap' = [followMap EXCEPT ![n] = NoRows]
  /\ listed' = listed \ {n}
  /\ blurred' = blurred \cup {n}
\* On a change of location a page that stays keeps what it shows until then.
Reloads(h, n) == Begins(h, [New("load", "list", n) EXCEPT !.page = mounts[n]])
PageLoads(h, n) == n \in accounts /\ (Mounts(h, n) \/ Reloads(h, n))
CommunityLoads(h, n) == PageLoads(h, n)
MyFriendsLoads(h, n) == PageLoads(h, n)

Follows(h, n, o) ==
  /\ n # o /\ {n, o} \subseteq accounts /\ followMap[n][o] = 0
  /\ Begins(h, [New("follow", "write", n) EXCEPT !.other = o, !.page = mounts[n],
                                             !.blurred = n \in blurred])
\* Every account is listed on one page, those that follow one on the other.
CommunityFollows(h, n, o) == "follow" \in CommunityCard(n, o) /\ Follows(h, n, o)
MyFriendsFollows(h, n, o) == "follow" \in FollowerCard(n, o) /\ Follows(h, n, o)

Unfollows(h, n, o) ==
  /\ n \in accounts /\ followMap[n][o] # 0
  /\ Begins(h, [New("unfollow", "write", n) EXCEPT !.row = followMap[n][o], !.page = mounts[n]])
CommunityUnfollows(h, n, o) == "unfollow" \in CommunityCard(n, o) /\ Unfollows(h, n, o)
MyFriendsUnfollows(h, n, o) ==
  "unfollow" \in FollowedCard(n, o) \cup FollowerCard(n, o) /\ Unfollows(h, n, o)

CreateUserFollow(h) ==
  /\ At(h, "follow", "write")
  /\ LET n == req[h].user  o == req[h].other IN
     \/ /\ ~({n, o} \subseteq accounts)
        /\ Fails(h)
     \/ /\ {n, o} \subseteq accounts /\ nextRow <= MaxRows
        /\ follows' = follows \cup {[id |-> nextRow, by |-> n, of |-> o]}
        /\ nextRow' = nextRow + 1
        /\ blurred' = blurred \cup {n}
        /\ Wrote(h, [req[h] EXCEPT !.at = "list"], {})
        /\ UNCHANGED <<accounts, roles, hash, chats, messages, pages, admins, cut>>
RemoveUserFollow(h) ==
  /\ At(h, "unfollow", "write")
  /\ LET gone == {f \in follows : f.id = req[h].row} IN
     \/ /\ gone = {}
        /\ Fails(h)
     \/ /\ gone # {}
        /\ follows' = follows \ gone
        /\ blurred' = blurred \cup {req[h].user}
        /\ Wrote(h, [req[h] EXCEPT !.at = "list"], {})
        /\ UNCHANGED <<accounts, roles, hash, chats, messages, nextRow, pages, admins, cut>>

GetUserFollowed(h) ==
  /\ Active(h) /\ req[h].op \in {"load", "follow", "unfollow"} /\ req[h].at = "list"
  /\ Reads(h, [req[h] EXCEPT !.follows = FollowedBy(req[h].user), !.at = "show"])
\* The map takes the last row listed of each account.
RowsOf(found) ==
  [o \in Names |-> LET ids == {f.id : f \in {g \in found : g.of = o}} IN
                   IF ids = {} THEN 0 ELSE CHOOSE i \in ids : \A j \in ids : j <= i]
\* The account, and the page the request came from, are still there.
ItsPage(r) == r.user \in Names /\ r.page = mounts[r.user]
\* For FollowOnce: the map is set when the page loads only.
ShowsOnLoadOnly(h) ==
  /\ Active(h) /\ req[h].at = "show"
  /\ LET r == req[h]  n == req[h].user IN
     \/ ~ItsPage(r) /\ UNCHANGED <<followMap, listed, blurred>>
     \/ /\ ItsPage(r)
        /\ followMap' = IF r.op # "load" THEN followMap
                        ELSE [followMap EXCEPT ![n] = RowsOf(r.follows)]
        /\ listed' = listed \cup {n}
        /\ blurred' = IF r.alone THEN blurred \ {n} ELSE blurred \cup {n}
  /\ req' = [req EXCEPT ![h] = Idle]
  /\ UNCHANGED <<store, mounts, boot, served, crashes, admins, cut>>
\* An answer that comes after a change that was made while it was on its way
\* shows what is no longer so.
Shows(h) ==
  /\ Active(h) /\ req[h].at = "show"
  /\ LET r == req[h]  n == req[h].user IN
     \/ ~ItsPage(r) /\ UNCHANGED <<followMap, listed, blurred>>
     \/ /\ ItsPage(r)
        /\ followMap' = [followMap EXCEPT ![n] = RowsOf(r.follows)]
        /\ listed' = listed \cup {n}
        /\ blurred' = IF r.alone THEN blurred \ {n} ELSE blurred \cup {n}
  /\ req' = [req EXCEPT ![h] = Idle]
  /\ UNCHANGED <<store, mounts, boot, served, crashes, admins, cut>>

-----------------------------------------------------------------------------
(* A call to the database that fails, a crash, and the seeding of a start. *)

\* Whose role one commit has taken and the next has not given.
Midway(n) == \E h \in Handlers : Active(h) /\ req[h].at = "addRole" /\ req[h].user = n
Lost(n) == Midway(n) \/ (boot = "rootRole" /\ n = Root) \/ (boot = "unknownRole" /\ n = Unknown)

DatabaseFails(h) ==
  /\ Active(h) /\ crashes < MaxCrashes /\ crashes' = crashes + 1
  /\ cut' = IF req[h].at = "addRole" THEN cut \cup ({req[h].user} \cap accounts) ELSE cut
  /\ req' = [req EXCEPT ![h] = Idle]
  /\ UNCHANGED <<store, pages, boot, served, admins, blurred>>
Crash ==
  /\ crashes < MaxCrashes /\ crashes' = crashes + 1
  /\ cut' = cut \cup {n \in accounts : Lost(n)}
  /\ req' = [h \in Handlers |-> Idle]
  /\ boot' = "root"
  /\ UNCHANGED <<store, pages, served, admins, blurred>>

\* An account that exists is left alone, whatever roles it has.
SeedsAccount(at, n, after, role) ==
  /\ boot = at
  /\ \/ n \in accounts /\ boot' = after /\ UNCHANGED accounts
     \/ n \notin accounts /\ boot' = role /\ accounts' = accounts \cup {n}
  /\ hash' = IF n \in accounts THEN hash ELSE [hash EXCEPT ![n] = "old"]
  /\ UNCHANGED <<roles, chats, messages, follows, nextRow, pages, req, served, crashes, history>>
SeedsRole(at, n, after, role) ==
  /\ boot = at /\ boot' = after
  /\ roles' = [roles EXCEPT ![n] = @ \cup {role}]
  /\ admins' = IF role = "Admin" THEN admins \cup {n} ELSE admins
  /\ UNCHANGED <<accounts, hash, chats, messages, follows, nextRow, pages, req, served,
                 crashes, cut, blurred>>
SeedAdmin ==
  \/ SeedsAccount("root", Root, "unknown", "rootRole")
  \/ SeedsRole("rootRole", Root, "unknown", "Admin")
SeedUnknownUser ==
  \/ SeedsAccount("unknown", Unknown, "up", "unknownRole")
  \/ SeedsRole("unknownRole", Unknown, "up", "User")

-----------------------------------------------------------------------------
Accounts(h) ==
  \/ \E n \in Names :
       \/ RegistrationSubmits(h, n) \/ AdminUsersRegisters(h, n)
       \/ ProfileEdits(h, n) \/ ProfileResets(h, n) \/ ProfileDeletes(h, n)
       \/ \E a \in Names : \/ MakeAnAdmin(h, a, n) \/ MakeAnUser(h, a, n)
                           \/ AdminUsersEdits(h, a, n) \/ AdminUsersDeletes(h, a, n)
  \/ Register(h) \/ RemoveRole(h) \/ AddRole(h) \/ UpdateUser(h) \/ ResetUserPassword(h)
  \/ ReadChats(h) \/ ReadMessages(h) \/ ReadFollows(h) \/ DeleteUser(h)
Conversations(h) ==
  \/ \E n \in Names :
       \/ \E o \in Names : \/ CommunityOpens(h, n, o) \/ MyFriendsOpens(h, n, o)
                           \/ AdminUsersOpens(h, n, o) \/ MakeAdminOpens(h, n, o)
       \/ \E c \in chats : \/ ChatsDeletes(h, n, c) \/ RoomDeletesChat(h, n, c)
                           \/ AdminChatsDeletes(h, n, c) \/ AdminChatDeletes(h, n, c)
                           \/ \E from, to \in Names : SendMessage(h, n, c, from, to)
       \/ \E m \in messages : RoomDeletes(h, n, m) \/ AdminDeletes(h, n, m)
  \/ CreateChat(h) \/ ReadChatMessages(h) \/ DeleteChat(h) \/ InsertMessage(h) \/ RemoveMessage(h)
Following(h) ==
  \/ \E n \in Names :
       \/ CommunityLoads(h, n) \/ MyFriendsLoads(h, n)
       \/ \E o \in Names : \/ CommunityFollows(h, n, o) \/ MyFriendsFollows(h, n, o)
                           \/ CommunityUnfollows(h, n, o) \/ MyFriendsUnfollows(h, n, o)
  \/ CreateUserFollow(h) \/ RemoveUserFollow(h) \/ GetUserFollowed(h) \/ Shows(h)

Next ==
  \/ \E h \in Handlers : Accounts(h) \/ Conversations(h) \/ Following(h) \/ DatabaseFails(h)
  \/ Crash \/ SeedAdmin \/ SeedUnknownUser
Spec == Init /\ [][Next]_vars

-----------------------------------------------------------------------------
\* The store and the requests have their types.
TypeOK ==
  /\ accounts \subseteq Names /\ roles \in [Names -> SUBSET Roles]
  /\ hash \in [Names -> {"old", "new"}]
  /\ chats \subseteq [id : Rows, pair : SUBSET Names]
  /\ messages \subseteq MessageRows /\ follows \subseteq FollowRows
  /\ nextRow \in 1..MaxRows + 1
  /\ followMap \in [Names -> [Names -> 0..MaxRows]]
  /\ listed \subseteq Names /\ mounts \in [Names -> Nat]
  /\ boot \in {"root", "rootRole", "unknown", "unknownRole", "up"}
  /\ req \in [Handlers -> Request \cup {Idle}]
  /\ served \in 0..MaxRequests /\ crashes \in 0..MaxCrashes
  /\ admins \subseteq Names /\ cut \subseteq Names /\ blurred \subseteq Names \cup {NoOne}

\* Every account has one role, except between the two commits that give it or
\* change it.  An account that a crash or an error left between them has no role,
\* and nothing gives it one again: a change of role starts by taking the other
\* (AccountService.MakeAnAdmin, MakeAnUser), and a restart seeds no account that
\* exists (AppSeeder).
OneRole ==
  \A n \in accounts :
    IF n \in cut THEN roles[n] = {} ELSE Cardinality(roles[n]) = 1 \/ Lost(n)

\* Two accounts share no more chats than there are requests at a time: those that
\* found none before any was created.  One at a time, it is one chat for good.
ChatsBounded ==
  \A pair \in Pairs :
    Cardinality({c \in chats : c.pair = pair})
      + Cardinality({h \in Handlers : At(h, "open", "create") /\ {req[h].user, req[h].other} = pair})
        <= Cardinality(Handlers)

\* A deletion beside which nothing else is written succeeds, and with the account
\* or the chat goes all that refers to it: its roles, chats, messages and follows
\* (UserRepository.DeleteUser, ChatService.DeleteChat).  The code fails when a
\* message of a chat of others names the account, as its sender or its receiver,
\* and when the unknown account is gone, which may be deleted as any other.
NamedElsewhere(n) == \E m \in messages : n \in {m.from, m.to} /\ \A c \in ChatsOf(n) : c.id # m.chat
AccountGone(n) ==
  /\ n \notin accounts /\ roles[n] = {} /\ ChatsOf(n) = {} /\ FollowsOf(n) = {}
  /\ \A m \in messages : n \notin {m.from, m.to}
ChatGone(id) == id \notin ChatIds /\ MessagesOf({id}) = {}
Ends(h) == Active(h) /\ req'[h] = Idle /\ req[h].alone /\ crashes' = crashes
DeletionSucceedsAlone ==
  [][\A h \in Handlers : Ends(h) =>
       /\ \A n \in Names : req[h].op = "delete" /\ req[h].user = n =>
            \/ AccountGone(n)' /\ \A c \in ChatsOf(n) : ChatGone(c.id)'
            \/ NamedElsewhere(n) \/ Unknown \notin accounts
       /\ \A id \in Rows : req[h].op = "deleteChat" /\ req[h].row = id => ChatGone(id)']_vars

\* A password that was reset goes back only when a request saves the account's
\* row as it was before, having read it before others wrote: the save of a
\* profile, either commit of a change of role, or the last of a registration
\* (UserRepository.UpdateUser, AccountService, UserStore.UpdateAsync).
SavesAccount(h) ==
  At(h, "save", "write") \/ At(h, "role", "removeRole") \/ At(h, "role", "addRole")
  \/ At(h, "register", "addRole")
PasswordKept ==
  [][\A n \in accounts \cap accounts' : hash[n] = "new" /\ hash'[n] = "old" =>
       \E h \in Handlers : SavesAccount(h) /\ req[h].user = n /\ ~req[h].alone]_vars

\* A page that has been given its list, and that list is the store's, never
\* follows an account that is followed already when its request runs alone
\* (Community, MyFriends).  A page that has just opened may, at one click, since
\* it offers Follow on every card until the list comes.
FollowOnce ==
  \A h \in Handlers : At(h, "follow", "write") /\ req[h].alone /\ ~req[h].blurred =>
    \A f \in follows : f.by # req[h].user \/ f.of # req[h].other

==============================================================================
