------------------------- MODULE ChatLabData_proofs -------------------------
(***************************************************************************)
(* Proofs about ChatLabData, for any accounts, any requests served at a    *)
(* time and any bounds.  A step begins a request, reads for one, writes    *)
(* for one or ends them; the invariant is shown to survive each kind, so   *)
(* that an action has only to be shown to be of its kind.                  *)
(***************************************************************************)
EXTENDS ChatLabData, TLAPS, FiniteSetTheorems, WellFoundedInduction

-----------------------------------------------------------------------------
(***************************************************************************)
(* The inductive invariant.                                                *)
(***************************************************************************)

\* A request that gives a role is about a stored account, an account that was
\* deleted (NoOne), or an address that is about to be registered.
ByAccount(r) ==
  r.op \in {"register", "role"} =>
    r.user \in accounts \cup {NoOne} \/ (r.op = "register" /\ r.at = "create")

\* The account whose role one commit took, or has still to give, was loaded when
\* it had none, was not changed since, and is no other request's.
Giving(h) == Active(h) /\ req[h].at = "addRole" /\ req[h].user \in accounts
RoleInv ==
  /\ cut \subseteq accounts
  /\ \A n \in Names \ accounts : roles[n] = {}
  /\ \A n \in cut : roles[n] = {}
  /\ \A n \in accounts \ cut : roles[n] \in {{"Admin"}, {"User"}} \/ Lost(n)
  /\ \A h \in Handlers : Active(h) => ByAccount(req[h])
  /\ \A h \in Handlers : Active(h) /\ req[h].at = "addRole" => req[h].op \in {"register", "role"}
  /\ \A h \in Handlers : Giving(h) =>
       req[h].fresh /\ req[h].user \notin cut /\ roles[req[h].user] = {}
  /\ \A g, h \in Handlers : Giving(g) /\ Giving(h) /\ req[g].user = req[h].user => g = h
  /\ boot = "rootRole" => Root \in accounts \ cut /\ roles[Root] = {}
  /\ boot = "unknownRole" => Unknown \in accounts \ cut /\ roles[Unknown] = {}
  /\ boot # "up" => \A h \in Handlers : ~Active(h)

\* A page that is not blurred knows a row of every account its user follows.
PageInv ==
  \A n \in Names \ blurred : \A f \in follows : f.by = n => followMap[n][f.of] # 0

ChatsInv == IsFiniteSet(chats) /\ ChatsBounded

\* Every message is in a chat there is.
FilledInv == \A m \in messages : m.chat \in ChatIds

\* A request that saves the row of an account holds the hash it read.
Saving(r) ==
  (r.op = "save" /\ r.at = "write") \/ r.op = "role" \/ (r.op = "register" /\ r.at = "addRole")

\* What a request that runs alone has read is what is stored.
DeletionRead(r) ==
  /\ r.user \in accounts /\ r.fresh
  /\ r.at = "chats" => r.messages = {}
  /\ r.at # "chats" => r.chats = {c.id : c \in ChatsOf(r.user)}
  /\ r.at = "messages" => r.todo \subseteq r.chats /\ r.messages = MessagesOf(r.chats \ r.todo)
  /\ r.at \in {"follows", "save"} => r.messages = MessagesOf(r.chats)
  /\ r.at = "save" => r.follows = FollowsOf(r.user)
AloneOK(r) ==
  r.alone =>
    /\ r.op = "follow" /\ r.at = "write" /\ ~r.blurred =>
         \A f \in follows : f.by # r.user \/ f.of # r.other
    /\ r.at = "show" => r.op \in {"load", "follow", "unfollow"} /\ FollowedBy(r.user) \subseteq r.follows
    /\ Saving(r) => r.user \in accounts /\ r.hash = hash[r.user]
    /\ r.op = "deleteChat" /\ r.at = "save" => r.messages = MessagesOf({r.row})
    /\ r.op = "delete" => DeletionRead(r)
AloneInv == \A h \in Handlers : Active(h) => AloneOK(req[h])

DataInv == TypeOK /\ RoleInv /\ PageInv /\ ChatsInv /\ FilledInv /\ AloneInv
-----------------------------------------------------------------------------
(***************************************************************************)
(* Requests and their fields.                                              *)
(***************************************************************************)
Ops == {"register", "role", "save", "reset", "delete", "open", "deleteChat",
        "send", "deleteMessage", "load", "follow", "unfollow"}
Ats == {"create", "addRole", "removeRole", "write", "chats", "messages",
        "follows", "save", "list", "show"}

\* A handler without a request is told from one that works on one.
LEMMA IdleIsNone == Idle \notin Request
BY DEF Idle, Request

\* A request that begins is well typed.
LEMMA NewTyped ==
  ASSUME NEW op \in Ops, NEW at \in Ats, NEW STATE n, n \in Names \cup {NoOne}
  PROVE  /\ New(op, at, n) \in Request
         /\ New(op, at, n).op = op /\ New(op, at, n).at = at /\ New(op, at, n).user = n
BY DataAssumption DEF New, Request, Ops, Ats, Roles

\* What the handler of a request holds is a request.
LEMMA ActiveTyped ==
  ASSUME TypeOK, NEW h \in Handlers, Active(h)
  PROVE  req[h] \in Request
BY DEF TypeOK, Active

\* The last row listed is one of those listed.
LEMMA LastRow ==
  ASSUME NEW STATE ids, ids \subseteq Rows, ids # {}
  PROVE  (CHOOSE i \in ids : \A j \in ids : j <= i) \in ids
<1>. DEFINE Above(i) == {j \in ids : i <= j}
            sets == {Above(i) : i \in ids}
<1>1. \A i \in ids : i \in Nat /\ i <= MaxRows
  BY DataAssumption DEF Rows
<1>2. IsFiniteSet(ids)
  BY <1>1, DataAssumption, FS_BoundedSetOfNaturals
<1>3. IsWellFoundedOn(StrictSubsetOrdering(ids), SUBSET ids)
  BY <1>2, FS_StrictSubsetOrderingWellFounded, FS_FiniteSubsetsOfFinite
<1>4. PICK least \in sets : \A S \in sets : <<S, least>> \notin StrictSubsetOrdering(ids)
  <2>1. sets \subseteq SUBSET ids /\ sets # {}
    OBVIOUS
  <2> HIDE DEF sets
  <2> QED
    BY <1>3, <2>1, WFMin
<1>5. PICK i \in ids : least = Above(i)
  BY <1>4
<1>6. ASSUME NEW j \in ids, i < j PROVE FALSE
  <2>1. Above(j) \subseteq Above(i) /\ i \in Above(i) /\ i \notin Above(j)
    BY <1>1, <1>6
  <2>2. <<Above(j), least>> \in StrictSubsetOrdering(ids)
    BY <1>5, <2>1 DEF StrictSubsetOrdering
  <2> QED
    BY <1>4, <2>2
<1>7. \A j \in ids : j <= i
  BY <1>1, <1>6
<1> QED
  BY <1>7
-----------------------------------------------------------------------------
(***************************************************************************)
(* The initial states.                                                     *)
(***************************************************************************)
Sharing(pair) == {c \in chats : c.pair = pair}
Opening(pair) ==
  {h \in Handlers : At(h, "open", "create") /\ {req[h].user, req[h].other} = pair}

\* The bound on chats holds as long as no pair gets both a chat and a request that
\* would create one.
LEMMA CountBound ==
  \A S, O : IsFiniteSet(S) /\ Cardinality(S) <= 1 /\ O \subseteq Handlers /\ (S = {} \/ O = {})
              => Cardinality(S) + Cardinality(O) <= Cardinality(Handlers)
<1> SUFFICES ASSUME NEW S, NEW O, IsFiniteSet(S), Cardinality(S) <= 1, O \subseteq Handlers,
                    S = {} \/ O = {}
             PROVE  Cardinality(S) + Cardinality(O) <= Cardinality(Handlers)
  OBVIOUS
<1>1. IsFiniteSet(O) /\ Cardinality(O) <= Cardinality(Handlers)
  BY DataAssumption, FS_Subset
<1>2. /\ Cardinality(O) \in Nat /\ Cardinality(S) \in Nat
      /\ Cardinality(Handlers) \in Nat /\ Cardinality(Handlers) # 0
  BY <1>1, DataAssumption, FS_CardinalityType, FS_EmptySet
<1>3. Cardinality({}) = 0
  BY FS_EmptySet
<1>4. CASE S = {}
  <2>1. Cardinality(S) = 0
    BY <1>3, <1>4
  <2> QED
    BY <1>1, <1>2, <2>1
<1>5. CASE O = {}
  <2>1. Cardinality(O) = 0
    BY <1>3, <1>5
  <2> QED
    BY <1>2, <2>1
<1> QED
  BY <1>4, <1>5

\* The first states have at most one chat, and no request.
LEMMA ChatsInit == Init => ChatsInv
<1> SUFFICES ASSUME Init PROVE ChatsInv
  OBVIOUS
<1>1. PICK x : chats \subseteq {x}
  BY DEF Init, FirstStart, InUse, Nobody
<1>2. IsFiniteSet(chats)
  BY <1>1, FS_Singleton, FS_Subset
<1>3. ASSUME NEW pair \in Pairs
      PROVE  Cardinality(Sharing(pair)) + Cardinality(Opening(pair)) <= Cardinality(Handlers)
  <2>1. Opening(pair) = {}
    BY DEF Init, Opening, At, Active
  <2>2. Sharing(pair) \subseteq {x} /\ IsFiniteSet({x}) /\ Cardinality({x}) = 1
    BY <1>1, FS_Singleton DEF Sharing
  <2>3. IsFiniteSet(Sharing(pair)) /\ Cardinality(Sharing(pair)) <= 1
    BY <2>2, FS_Subset
  <2> QED
    BY <2>1, <2>3, CountBound
<1> QED
  BY <1>2, <1>3 DEF ChatsInv, ChatsBounded, Sharing, Opening

\* The three kinds of first state are well typed.
LEMMA TypeInit == Init => TypeOK
<1> SUFFICES ASSUME Init PROVE TypeOK
  OBVIOUS
<1>1. /\ hash \in [Names -> {"old", "new"}] /\ req \in [Handlers -> Request \cup {Idle}]
      /\ served \in 0..MaxRequests /\ crashes \in 0..MaxCrashes
      /\ cut \subseteq Names /\ admins \subseteq Names /\ accounts \subseteq Names
      /\ boot \in {"root", "rootRole", "unknown", "unknownRole", "up"}
      /\ mounts \in [Names -> Nat]
  BY DataAssumption DEF Init, FirstStart, InUse, Names
<1>2. roles \in [Names -> SUBSET Roles]
  BY DEF Init, FirstStart, InUse, Roles
<1>3. Unloaded \in [Names -> [Names -> 0..MaxRows]]
  BY DataAssumption DEF Unloaded, NoRows
<1>. DEFINE Typed ==
      /\ chats \subseteq [id : Rows, pair : SUBSET Names]
      /\ messages \subseteq MessageRows /\ follows \subseteq FollowRows
      /\ nextRow \in 1..MaxRows + 1
      /\ followMap \in [Names -> [Names -> 0..MaxRows]] /\ listed \subseteq Names
      /\ blurred \subseteq Names \cup {NoOne}
<1>4. Typed
  <2>1. CASE Nobody
    BY <2>1, <1>3, DataAssumption DEF Nobody
  <2>2. ASSUME NEW pair \in Pairs, NEW from \in SUBSET pair, MaxRows > 1, nextRow = 3,
               chats = {[id |-> 1, pair |-> pair]},
               messages = {m \in [id : {2}, chat : {1}, from : from, to : pair] : m.to # m.from},
               follows = {}, followMap = Unloaded, listed = {}, blurred = Names
        PROVE  Typed
    <3>1. 1 \in Rows /\ 2 \in Rows /\ from \subseteq Names /\ pair \subseteq Names
      BY <2>2, DataAssumption DEF Rows, Pairs
    <3>2. nextRow \in 1..MaxRows + 1
      BY <2>2, DataAssumption
    <3> QED
      BY <1>3, <2>2, <3>1, <3>2 DEF MessageRows
  <2>3. ASSUME NEW n \in Names, NEW o \in Names, MaxRows > 0, nextRow = 2, chats = {},
               messages = {}, follows = {[id |-> 1, by |-> n, of |-> o]},
               followMap = [Unloaded EXCEPT ![n][o] = 1], listed = {n}, blurred = Names \ {n}
        PROVE  Typed
    <3>1. 1 \in Rows /\ 1 \in 0..MaxRows /\ nextRow \in 1..MaxRows + 1
      BY <2>3, DataAssumption DEF Rows
    <3> QED
      BY <1>3, <2>3, <3>1 DEF FollowRows
  <2> QED
    BY <2>1, <2>2, <2>3 DEF Init, FirstStart, InUse
<1> QED
  BY <1>1, <1>2, <1>4 DEF TypeOK

\* In a first state every account has its one role, or there is none.
LEMMA RoleInit == Init => RoleInv
BY DataAssumption DEF Init, FirstStart, InUse, RoleInv, Active, Giving, Lost, Midway, Names

\* In a first state the one page that is not blurred knows its row.
LEMMA PageInit == Init => PageInv
<1> SUFFICES ASSUME Init, NEW m \in Names \ blurred, NEW f \in follows, f.by = m
             PROVE  followMap[m][f.of] # 0
  BY DEF PageInv
<1>1. PICK n \in Names : \E o \in Names :
        /\ follows = {[id |-> 1, by |-> n, of |-> o]}
        /\ followMap = [Unloaded EXCEPT ![n][o] = 1]
  BY DEF Init, FirstStart, InUse, Nobody
<1>2. PICK o \in Names : /\ follows = {[id |-> 1, by |-> n, of |-> o]}
                         /\ followMap = [Unloaded EXCEPT ![n][o] = 1]
  BY <1>1
<1>3. f.by = n /\ f.of = o /\ m = n
  BY <1>2
<1>4. followMap[n][o] = 1
  BY <1>2 DEF Unloaded, NoRows
<1> QED
  BY <1>3, <1>4

\* The invariant holds in the first states.
LEMMA DataInit == Init => DataInv
<1>1. Init => AloneInv
  BY DEF Init, AloneInv, Active
<1>2. Init => FilledInv
  <2>. SUFFICES ASSUME Init, NEW m \in messages PROVE m.chat \in ChatIds
    BY DEF FilledInv
  <2>1. PICK pair \in Pairs : \E from \in SUBSET pair :
          /\ chats = {[id |-> 1, pair |-> pair]}
          /\ messages = {k \in [id : {2}, chat : {1}, from : from, to : pair] : k.to # k.from}
    BY DEF Init, FirstStart, InUse, Nobody
  <2>2. m.chat = 1
    BY <2>1
  <2>. QED
    BY <2>1, <2>2 DEF ChatIds
<1> QED
  BY <1>1, <1>2, TypeInit, RoleInit, PageInit, ChatsInit DEF DataInv

-----------------------------------------------------------------------------
(***************************************************************************)
(* A handler that begins a request, reads for it or ends it, and writes    *)
(* nothing, keeps the invariant when what it then holds is sound.          *)
(***************************************************************************)
Sound(r) ==
  /\ r \in Request /\ r.at # "addRole" /\ ByAccount(r) /\ AloneOK(r)
  /\ r.op = "open" /\ r.at = "create" => Between(r.user, r.other) = {}
Moves(h, r) ==
  /\ req' = [req EXCEPT ![h] = r]
  /\ served' \in 0..MaxRequests /\ crashes' \in 0..MaxCrashes
  /\ UNCHANGED <<store, boot, admins>>
Paged ==
  /\ followMap \in [Names -> [Names -> 0..MaxRows]] /\ blurred \subseteq Names \cup {NoOne}
  /\ listed \subseteq Names /\ mounts \in [Names -> Nat]
  /\ PageInv

\* Where no chat is added, the bound holds as long as a request to create one is
\* one that was there, or for a pair that has none.
LEMMA CountKept ==
  ASSUME ChatsInv, chats' \subseteq chats,
         \A pair \in Pairs : Opening(pair)' \subseteq Opening(pair) \/ Sharing(pair) = {}
  PROVE  ChatsInv'
<1>1. IsFiniteSet(chats')
  BY FS_Subset DEF ChatsInv
<1>2. ASSUME NEW pair \in Pairs
      PROVE  Cardinality(Sharing(pair)') + Cardinality(Opening(pair)') <= Cardinality(Handlers)
  <2>1. Sharing(pair)' \subseteq Sharing(pair) /\ Opening(pair)' \subseteq Handlers
    BY DEF Sharing, Opening
  <2>2. CASE Sharing(pair) = {}
    <3>1. Sharing(pair)' = {} /\ IsFiniteSet({}) /\ Cardinality({}) = 0
      BY <2>1, <2>2, FS_EmptySet
    <3> QED
      BY <2>1, <3>1, CountBound
  <2>3. CASE Opening(pair)' \subseteq Opening(pair)
    <3>1. IsFiniteSet(Sharing(pair)) /\ IsFiniteSet(Opening(pair))
      BY DataAssumption, FS_Subset DEF ChatsInv, Sharing, Opening
    <3>2. /\ IsFiniteSet(Sharing(pair)') /\ Cardinality(Sharing(pair)') <= Cardinality(Sharing(pair))
          /\ IsFiniteSet(Opening(pair)') /\ Cardinality(Opening(pair)') <= Cardinality(Opening(pair))
      BY <2>1, <2>3, <3>1, FS_Subset
    <3>3. /\ Cardinality(Sharing(pair)') \in Nat /\ Cardinality(Sharing(pair)) \in Nat
          /\ Cardinality(Opening(pair)') \in Nat /\ Cardinality(Opening(pair)) \in Nat
          /\ Cardinality(Handlers) \in Nat
      BY <3>1, <3>2, DataAssumption, FS_CardinalityType
    <3>4. Cardinality(Sharing(pair)) + Cardinality(Opening(pair)) <= Cardinality(Handlers)
      BY DEF ChatsInv, ChatsBounded, Sharing, Opening
    <3> QED
      BY <3>2, <3>3, <3>4
  <2> QED
    BY <2>2, <2>3
<1> QED
  BY <1>1, <1>2 DEF ChatsInv, ChatsBounded, Sharing, Opening

\* All but what is said of the roles survives, whatever becomes of cut.
LEMMA MoveRest ==
  ASSUME DataInv, NEW h \in Handlers, NEW STATE r, r = Idle \/ Sound(r), Moves(h, r), Paged',
         cut' \subseteq Names
  PROVE  /\ req' \in [Handlers -> Request \cup {Idle}] /\ req'[h] = r
         /\ \A g \in Handlers \ {h} : req'[g] = req[g]
         /\ TypeOK' /\ PageInv' /\ ChatsInv' /\ FilledInv' /\ AloneInv'
<1>1. /\ req' \in [Handlers -> Request \cup {Idle}] /\ req'[h] = r
      /\ \A g \in Handlers \ {h} : req'[g] = req[g]
  BY DEF DataInv, TypeOK, Moves, Sound
<1>2. TypeOK'
  BY <1>1 DEF DataInv, TypeOK, Moves, store, Paged
<1>3. /\ accounts' = accounts /\ hash' = hash /\ chats' = chats
      /\ messages' = messages /\ follows' = follows
  BY DEF Moves, store
<1>4. PageInv'
  BY DEF Paged
<1>5. ChatsInv'
  <2>1. ASSUME NEW pair \in Pairs, Sharing(pair) # {} PROVE Opening(pair)' \subseteq Opening(pair)
    BY <1>1, <2>1 DEF Opening, Sharing, At, Active, Sound, Between
  <2>. QED
    BY <1>3, <2>1, CountKept DEF DataInv
<1>6. AloneInv'
  <2>1. ASSUME NEW q, AloneOK(q) PROVE AloneOK(q)'
    BY <1>3, <2>1 DEF AloneOK, Saving, DeletionRead, ChatsOf, MessagesOf, FollowsOf, FollowedBy
  <2>. QED
    BY <1>1, <1>3 DEF DataInv, AloneInv, Active, Sound, AloneOK, Saving, DeletionRead, ChatsOf,
       MessagesOf, FollowsOf, FollowedBy
<1>7. FilledInv'
  BY <1>3 DEF DataInv, FilledInv, ChatIds
<1>. QED
  BY <1>1, <1>2, <1>4, <1>5, <1>6, <1>7

\* A handler that gives no role keeps the invariant so.
LEMMA MoveKeeps ==
  ASSUME DataInv, NEW h \in Handlers, ~Giving(h), boot = "up",
         NEW STATE r, r = Idle \/ Sound(r), Moves(h, r), Paged', cut' = cut
  PROVE  DataInv'
<1>1. cut' \subseteq Names
  BY DEF DataInv, TypeOK
<1>2. /\ req' \in [Handlers -> Request \cup {Idle}] /\ req'[h] = r
      /\ \A g \in Handlers \ {h} : req'[g] = req[g]
      /\ TypeOK' /\ PageInv' /\ ChatsInv' /\ FilledInv' /\ AloneInv'
  BY <1>1, MoveRest
<1>3. accounts' = accounts /\ roles' = roles /\ boot' = boot
  BY DEF Moves, store
<1>4. RoleInv'
  <2>1. ~Giving(h)' /\ \A g \in Handlers \ {h} : Giving(g)' = Giving(g)
    BY <1>2, <1>3 DEF Giving, Active, Sound
  <2>2. \A n \in accounts : Lost(n)' = Lost(n)
    BY <1>2, <1>3, <2>1 DEF Giving, Lost, Midway
  <2>3. \A g \in Handlers : Active(g)' => ByAccount(req[g])'
    BY <1>2, <1>3 DEF DataInv, RoleInv, Sound, Active, ByAccount
  <2>4. \A g \in Handlers : Active(g)' /\ req'[g].at = "addRole" => req'[g].op \in {"register", "role"}
    BY <1>2 DEF DataInv, RoleInv, Sound, Active
  <2>. QED
    BY <1>2, <1>3, <2>1, <2>2, <2>3, <2>4 DEF DataInv, RoleInv, Active
<1>. QED
  BY <1>2, <1>4 DEF DataInv

-----------------------------------------------------------------------------
(***************************************************************************)
(* The pages: each begins a request that is sound.                         *)
(***************************************************************************)
\* A page that sends a sound request keeps the invariant, whatever becomes of
\* what it shows.
LEMMA AskKeeps ==
  ASSUME DataInv, NEW h \in Handlers, NEW STATE r, Asks(h, r), Sound(r), Paged'
  PROVE  DataInv'
<1>1. boot = "up" /\ ~Giving(h)
  BY DEF Asks, Giving
<1>2. served \in 0..MaxRequests /\ served < MaxRequests /\ served' = served + 1
  BY DEF Asks, DataInv, TypeOK
<1>3. served' \in 0..MaxRequests
  BY <1>2, DataAssumption
<1>4. Moves(h, r)
  BY <1>3 DEF Asks, Moves, DataInv, TypeOK
<1>5. cut' = cut
  BY DEF Asks
<1>. QED
  BY <1>1, <1>4, <1>5, MoveKeeps
LEMMA BeginKeeps ==
  ASSUME DataInv, NEW h \in Handlers, NEW STATE r, Begins(h, r), Sound(r)
  PROVE  DataInv'
<1>1. Paged'
  BY DEF DataInv, TypeOK, PageInv, Paged, Begins, Asks, store, pages
<1>. QED
  BY <1>1, AskKeeps DEF Begins

\* A step that reads for a request, or ends it, keeps the invariant.
LEMMA ReadKeeps ==
  ASSUME DataInv, NEW h \in Handlers, Active(h), ~Giving(h), NEW STATE r, Reads(h, r),
         r = Idle \/ Sound(r)
  PROVE  DataInv'
<1>1. boot = "up"
  BY DEF DataInv, RoleInv
<1>2. Moves(h, r)
  BY DEF DataInv, TypeOK, Moves, Reads, history
<1>3. Paged'
  BY DEF DataInv, TypeOK, PageInv, Paged, Reads, store, pages, history
<1>4. cut' = cut
  BY DEF Reads, history
<1>. QED
  BY <1>1, <1>2, <1>3, <1>4, MoveKeeps

\* A request is sound when nothing is claimed of what it
\* has read.
LEMMA PlainSound ==
  ASSUME DataInv, NEW STATE r, r \in Request, r.at \notin {"addRole", "show"},
         r.op \in {"reset", "deleteChat", "send", "deleteMessage", "load", "unfollow"},
         r.op = "deleteChat" => r.at # "save"
  PROVE  Sound(r)
BY DEF Sound, ByAccount, AloneOK, Saving

\* The pages of registration, profiles, users and admins.
LEMMA AccountPages ==
  ASSUME DataInv, NEW h \in Handlers, NEW n \in Names, NEW a \in Names,
         \/ RegistrationSubmits(h, n) \/ AdminUsersRegisters(h, n)
         \/ ProfileEdits(h, n) \/ ProfileResets(h, n) \/ ProfileDeletes(h, n)
         \/ MakeAnAdmin(h, a, n) \/ MakeAnUser(h, a, n)
         \/ AdminUsersEdits(h, a, n) \/ AdminUsersDeletes(h, a, n)
  PROVE  DataInv'
<1>1. CASE RegistrationSubmits(h, n) \/ AdminUsersRegisters(h, n)
  <2>. DEFINE r == New("register", "create", n)
  <2>1. r \in Request /\ r.op = "register" /\ r.at = "create"
    BY NewTyped DEF Ops, Ats
  <2>. HIDE DEF r
  <2>2. Sound(r)
    BY <2>1 DEF Sound, ByAccount, AloneOK, Saving
  <2>. QED
    BY <1>1, <2>2, BeginKeeps DEF RegistrationSubmits, AdminUsersRegisters, r
<1>2. CASE ProfileEdits(h, n) \/ AdminUsersEdits(h, a, n)
  <2>. DEFINE r == [New("save", "write", n) EXCEPT !.hash = hash[n]]
  <2>1. n \in accounts /\ hash[n] \in {"old", "new"}
    BY <1>2 DEF ProfileEdits, AdminUsersEdits, DataInv, TypeOK
  <2>2. New("save", "write", n) \in Request
    BY NewTyped DEF Ops, Ats
  <2>3. r \in Request
    BY <2>1, <2>2 DEF Request
  <2>4. r.op = "save" /\ r.at = "write" /\ r.user = n /\ r.hash = hash[n]
    BY DEF New
  <2>. HIDE DEF r
  <2>5. Sound(r)
    BY <2>1, <2>3, <2>4 DEF Sound, ByAccount, AloneOK, Saving
  <2>. QED
    BY <1>2, <2>5, BeginKeeps DEF ProfileEdits, AdminUsersEdits, r
<1>3. CASE ProfileResets(h, n)
  <2>. DEFINE r == New("reset", "write", n)
  <2>1. r \in Request /\ r.op = "reset" /\ r.at = "write" /\ r.user = n
    BY NewTyped DEF Ops, Ats
  <2>. HIDE DEF r
  <2>2. Sound(r)
    BY <1>3, <2>1, PlainSound DEF ProfileResets
  <2>. QED
    BY <1>3, <2>2, BeginKeeps DEF ProfileResets, r
<1>4. CASE ProfileDeletes(h, n) \/ AdminUsersDeletes(h, a, n)
  <2>. DEFINE r == New("delete", "chats", n)
  <2>1. r \in Request /\ r.op = "delete" /\ r.at = "chats" /\ r.user = n
    BY NewTyped DEF Ops, Ats
  <2>2. r.fresh /\ r.messages = {}
    BY DEF New
  <2>3. n \in accounts
    BY <1>4 DEF ProfileDeletes, AdminUsersDeletes
  <2>. HIDE DEF r
  <2>4. Sound(r)
    BY <2>1, <2>2, <2>3 DEF Sound, ByAccount, AloneOK, Saving, DeletionRead
  <2>. QED
    BY <1>4, <2>4, BeginKeeps DEF ProfileDeletes, AdminUsersDeletes, r
<1>5. ASSUME NEW role \in Roles, n \in accounts,
             Begins(h, [New("role", "removeRole", n) EXCEPT !.role = role, !.hash = hash[n]])
      PROVE  DataInv'
  <2>. DEFINE r == [New("role", "removeRole", n) EXCEPT !.role = role, !.hash = hash[n]]
  <2>1. New("role", "removeRole", n) \in Request /\ hash[n] \in {"old", "new"}
    BY NewTyped DEF Ops, Ats, DataInv, TypeOK
  <2>2. r \in Request
    BY <2>1 DEF Request
  <2>3. r.op = "role" /\ r.at = "removeRole" /\ r.user = n /\ r.hash = hash[n]
    BY DEF New
  <2>. HIDE DEF r
  <2>4. Sound(r)
    BY <1>5, <2>2, <2>3 DEF Sound, ByAccount, AloneOK, Saving
  <2>. QED
    BY <1>5, <2>4, BeginKeeps DEF r
<1>6. CASE MakeAnAdmin(h, a, n) \/ MakeAnUser(h, a, n)
  BY <1>5, <1>6 DEF MakeAnAdmin, MakeAnUser, Roles
<1>. QED
  BY <1>1, <1>2, <1>3, <1>4, <1>6

\* The pages that open and delete chats, and write and delete messages.
LEMMA ConversationPages ==
  ASSUME DataInv, NEW h \in Handlers, NEW n \in Names,
         \/ \E o \in Names : Opens(h, n, o)
         \/ \E c \in chats : \/ ChatsDeletes(h, n, c) \/ RoomDeletesChat(h, n, c)
                             \/ AdminChatsDeletes(h, n, c) \/ AdminChatDeletes(h, n, c)
                             \/ \E from, to \in Names : SendMessage(h, n, c, from, to)
         \/ \E m \in messages : RoomDeletes(h, n, m) \/ AdminDeletes(h, n, m)
  PROVE  DataInv'
<1>1. ASSUME NEW o \in Names, Opens(h, n, o) PROVE DataInv'
  <2>. DEFINE r == [New("open", "create", n) EXCEPT !.other = o]
  <2>1. New("open", "create", n) \in Request
    BY NewTyped DEF Ops, Ats
  <2>2. r \in Request /\ r.op = "open" /\ r.at = "create" /\ r.user = n /\ r.other = o
    BY <2>1 DEF Request, New
  <2>. HIDE DEF r
  <2>3. Sound(r)
    BY <1>1, <2>2 DEF Sound, ByAccount, AloneOK, Saving, Opens
  <2>. QED
    BY <1>1, <2>3, BeginKeeps DEF Opens, r
<1>2. ASSUME NEW op \in {"deleteChat", "deleteMessage"},
             NEW at \in {"messages", "write"}, NEW STATE row, row \in 0..MaxRows,
             Begins(h, [New(op, at, n) EXCEPT !.row = row])
      PROVE  DataInv'
  <2>. DEFINE r == [New(op, at, n) EXCEPT !.row = row]
  <2>1. New(op, at, n) \in Request
    BY NewTyped DEF Ops, Ats
  <2>2. r \in Request /\ r.op = op /\ r.at = at
    BY <1>2, <2>1 DEF Request, New
  <2>. HIDE DEF r
  <2>3. Sound(r)
    BY <1>2, <2>2, PlainSound
  <2>. QED
    BY <1>2, <2>3, BeginKeeps DEF r
<1>3. ASSUME NEW c \in chats,
             \/ ChatsDeletes(h, n, c) \/ RoomDeletesChat(h, n, c)
             \/ AdminChatsDeletes(h, n, c) \/ AdminChatDeletes(h, n, c)
      PROVE  DataInv'
  <2>1. c.id \in 0..MaxRows
    BY DataAssumption DEF DataInv, TypeOK, Rows
  <2>. QED
    BY <1>2, <1>3, <2>1 DEF ChatsDeletes, RoomDeletesChat, AdminChatsDeletes,
       AdminChatDeletes
<1>4. ASSUME NEW m \in messages, RoomDeletes(h, n, m) \/ AdminDeletes(h, n, m)
      PROVE  DataInv'
  <2>1. m.id \in 0..MaxRows
    BY DataAssumption DEF DataInv, TypeOK, Rows, MessageRows
  <2>. QED
    BY <1>2, <1>4, <2>1 DEF RoomDeletes, AdminDeletes
<1>5. ASSUME NEW c \in chats, NEW from \in Names, NEW to \in Names, SendMessage(h, n, c, from, to)
      PROVE  DataInv'
  <2>. DEFINE r == [New("send", "write", from) EXCEPT !.other = to, !.row = c.id]
  <2>1. New("send", "write", from) \in Request
    BY NewTyped DEF Ops, Ats
  <2>4. c.id \in 0..MaxRows
    BY DataAssumption DEF DataInv, TypeOK, Rows
  <2>2. r \in Request /\ r.op = "send" /\ r.at = "write"
    BY <2>1, <2>4 DEF Request, New
  <2>. HIDE DEF r
  <2>3. Sound(r)
    BY <2>2, PlainSound
  <2>. QED
    BY <1>5, <2>3, BeginKeeps DEF SendMessage, r
<1>. QED
  BY <1>1, <1>3, <1>4, <1>5

\* The pages that list accounts and follow them.
LEMMA FollowPages ==
  ASSUME DataInv, NEW h \in Handlers, NEW n \in Names, NEW o \in Names,
         PageLoads(h, n) \/ Follows(h, n, o) \/ Unfollows(h, n, o)
  PROVE  DataInv'
<1>. mounts[n] \in Nat
  BY DEF DataInv, TypeOK
<1>0. ASSUME NEW STATE page, page \in Nat
      PROVE  Sound([New("load", "list", n) EXCEPT !.page = page])
  <2>. DEFINE r == [New("load", "list", n) EXCEPT !.page = page]
  <2>1. New("load", "list", n) \in Request
    BY NewTyped DEF Ops, Ats
  <2>2. r \in Request
    BY <1>0, <2>1 DEF Request
  <2>3. r.op = "load" /\ r.at = "list"
    BY DEF New
  <2>. HIDE DEF r
  <2>4. Sound(r)
    BY <2>2, <2>3, PlainSound
  <2>. QED
    BY <2>4 DEF r
<1>1. CASE Reloads(h, n)
  BY <1>0, <1>1, BeginKeeps DEF Reloads
<1>4. CASE Mounts(h, n)
  <2>. DEFINE r == [New("load", "list", n) EXCEPT !.page = mounts[n] + 1]
  <2>1. Sound(r) /\ Asks(h, r)
    BY <1>0, <1>4 DEF Mounts
  <2>. HIDE DEF r
  <2>2. /\ mounts' = [mounts EXCEPT ![n] = @ + 1] /\ listed' = listed \ {n}
        /\ followMap' = [followMap EXCEPT ![n] = NoRows] /\ blurred' = blurred \cup {n}
    BY <1>4 DEF Mounts
  <2>3. follows' = follows
    BY <2>1 DEF Asks, store
  <2>4. NoRows \in [Names -> 0..MaxRows]
    BY DataAssumption DEF NoRows
  <2>5. Paged'
    <3>1. /\ followMap \in [Names -> [Names -> 0..MaxRows]] /\ mounts \in [Names -> Nat]
          /\ blurred \subseteq Names \cup {NoOne} /\ listed \subseteq Names
      BY DEF DataInv, TypeOK
    <3>2. /\ followMap' \in [Names -> [Names -> 0..MaxRows]]
          /\ \A m \in Names : m # n => followMap'[m] = followMap[m]
      BY <2>2, <2>4, <3>1
    <3>3. mounts' \in [Names -> Nat]
      BY <2>2, <3>1
    <3>4. blurred' \subseteq Names \cup {NoOne} /\ listed' \subseteq Names
      BY <2>2, <3>1
    <3>5. PageInv'
      BY <2>2, <2>3, <3>2 DEF PageInv, DataInv
    <3>. QED
      BY <3>2, <3>3, <3>4, <3>5 DEF Paged
  <2>. QED
    BY <2>1, <2>5, AskKeeps
<1>2. CASE Follows(h, n, o)
  <2>. DEFINE r == [New("follow", "write", n) EXCEPT !.other = o, !.page = mounts[n],
                                                     !.blurred = n \in blurred]
  <2>1. New("follow", "write", n) \in Request
    BY NewTyped DEF Ops, Ats
  <2>2. r \in Request
    <3>1. (n \in blurred) \in BOOLEAN
      OBVIOUS
    <3>. QED
      BY <2>1, <3>1 DEF Request
  <2>3. r.op = "follow" /\ r.at = "write" /\ r.user = n /\ r.other = o
    BY DEF New
  <2>4. r.blurred = (n \in blurred)
    BY DEF New
  <2>. HIDE DEF r
  <2>5. ~r.blurred => \A f \in follows : f.by # n \/ f.of # o
    BY <1>2, <2>4 DEF Follows, DataInv, PageInv
  <2>6. Sound(r)
    BY <1>2, <2>2, <2>3, <2>5 DEF Sound, ByAccount, AloneOK, Saving, Follows
  <2>. QED
    BY <1>2, <2>6, BeginKeeps DEF Follows, r
<1>3. CASE Unfollows(h, n, o)
  <2>. DEFINE r == [New("unfollow", "write", n) EXCEPT !.row = followMap[n][o],
                                                       !.page = mounts[n]]
  <2>1. New("unfollow", "write", n) \in Request /\ followMap[n][o] \in 0..MaxRows
    BY NewTyped DEF Ops, Ats, DataInv, TypeOK
  <2>2. r \in Request /\ r.op = "unfollow" /\ r.at = "write" /\ r.user = n
    BY <2>1 DEF Request, New
  <2>. HIDE DEF r
  <2>3. Sound(r)
    BY <2>2, PlainSound
  <2>. QED
    BY <1>3, <2>3, BeginKeeps DEF Unfollows, r
<1>. QED
  BY <1>1, <1>2, <1>3, <1>4 DEF PageLoads

-----------------------------------------------------------------------------
(***************************************************************************)
(* The reading steps of a request, and the saves that fail.                *)
(***************************************************************************)
\* A save that fails keeps the invariant.
LEMMA FailKeeps ==
  ASSUME DataInv, NEW h \in Handlers, Active(h), ~Giving(h), Fails(h)
  PROVE  DataInv'
BY ReadKeeps DEF Fails

\* The deletion of an account reads its chats (UserRepository.DeleteUser).
LEMMA ReadChatsKeeps ==
  ASSUME DataInv, NEW h \in Handlers, ReadChats(h)
  PROVE  DataInv'
<1>. DEFINE q   == req[h]
            ids == {c.id : c \in ChatsOf(q.user)}
            r   == [q EXCEPT !.chats = ids, !.todo = ids,
                             !.at = IF ids = {} THEN "follows" ELSE "messages"]
<1>1. q \in Request /\ q.op = "delete" /\ q.at = "chats" /\ Active(h) /\ ~Giving(h) /\ Reads(h, r)
  BY ActiveTyped DEF ReadChats, At, Giving, DataInv
<1>2. ids \subseteq Rows
  BY DEF DataInv, TypeOK, ChatsOf
<1>3. r \in Request
  BY <1>1, <1>2 DEF Request
<1>4. /\ r.op = "delete" /\ r.user = q.user /\ r.fresh = q.fresh /\ r.alone = q.alone
      /\ r.chats = ids /\ r.todo = ids /\ r.messages = q.messages
      /\ ids = {} => r.at = "follows"
      /\ ids # {} => r.at = "messages"
  <2>. HIDE DEF ids
  <2>. QED
    BY <1>1 DEF Request
<1>5. q.alone => DeletionRead(q)
  BY <1>1 DEF DataInv, AloneInv, AloneOK
<1>6. MessagesOf({}) = {} /\ ids \ ids = {}
  BY DEF MessagesOf
<1>7. r.alone => DeletionRead(r)
  <2>. HIDE DEF r, q
  <2>. QED
    BY <1>1, <1>4, <1>5, <1>6 DEF DeletionRead
<1>8. Sound(r)
  <2>. HIDE DEF r, ids
  <2>. QED
    BY <1>3, <1>4, <1>7 DEF Sound, ByAccount, AloneOK, Saving
<1>. QED
  <2>. HIDE DEF r
  <2>. QED
    BY <1>1, <1>8, ReadKeeps

\* It reads their messages, a chat at a time.
LEMMA ReadMessagesKeeps ==
  ASSUME DataInv, NEW h \in Handlers, ReadMessages(h)
  PROVE  DataInv'
<1>. DEFINE q == req[h]
            Then(c) == [q EXCEPT !.messages = @ \cup MessagesOf({c}), !.todo = @ \ {c},
                                 !.at = IF q.todo = {c} THEN "follows" ELSE "messages"]
<1>1. PICK c \in q.todo : Reads(h, Then(c))
  BY DEF ReadMessages
<1>. DEFINE r == Then(c)
<1>2. q \in Request /\ q.op = "delete" /\ q.at = "messages" /\ Active(h) /\ ~Giving(h)
  BY ActiveTyped DEF ReadMessages, At, Giving, DataInv
<1>3. MessagesOf({c}) \subseteq MessageRows
  BY DEF DataInv, TypeOK, MessagesOf
<1>4. r \in Request
  BY <1>2, <1>3 DEF Request
<1>5. /\ r.op = "delete" /\ r.user = q.user /\ r.fresh = q.fresh /\ r.alone = q.alone
      /\ r.chats = q.chats /\ r.todo = q.todo \ {c}
      /\ r.messages = q.messages \cup MessagesOf({c})
      /\ q.todo = {c} => r.at = "follows"
      /\ q.todo # {c} => r.at = "messages"
  BY <1>2 DEF Request
<1>6. q.alone => DeletionRead(q)
  BY <1>2 DEF DataInv, AloneInv, AloneOK
<1>7. ASSUME q.alone PROVE DeletionRead(r)
  <2>. HIDE DEF r, q
  <2>1. q.todo \subseteq q.chats /\ q.messages = MessagesOf(q.chats \ q.todo)
    BY <1>2, <1>6, <1>7 DEF DeletionRead
  <2>2. q.chats \ (q.todo \ {c}) = (q.chats \ q.todo) \cup {c}
    BY <1>1, <2>1
  <2>3. MessagesOf((q.chats \ q.todo) \cup {c}) = MessagesOf(q.chats \ q.todo) \cup MessagesOf({c})
    BY DEF MessagesOf
  <2>4. r.messages = MessagesOf(r.chats \ r.todo) /\ r.todo \subseteq r.chats
    BY <1>5, <2>1, <2>2, <2>3
  <2>5. CASE q.todo = {c}
    <3>1. r.chats \ r.todo = r.chats
      BY <1>5, <2>5
    <3>. QED
      BY <1>2, <1>5, <1>6, <1>7, <2>4, <2>5, <3>1 DEF DeletionRead
  <2>6. CASE q.todo # {c}
    BY <1>2, <1>5, <1>6, <1>7, <2>4, <2>6 DEF DeletionRead
  <2>. QED
    BY <2>5, <2>6
<1>8. Sound(r)
  <2>. HIDE DEF r, q
  <2>. QED
    BY <1>4, <1>5, <1>7 DEF Sound, ByAccount, AloneOK, Saving
<1>. QED
  <2>. HIDE DEF Then
  <2>. QED
    BY <1>1, <1>2, <1>8, ReadKeeps

\* It reads the follows either way.
LEMMA ReadFollowsKeeps ==
  ASSUME DataInv, NEW h \in Handlers, ReadFollows(h)
  PROVE  DataInv'
<1>. DEFINE q == req[h]
            r == [q EXCEPT !.follows = FollowsOf(q.user), !.at = "save"]
<1>1. q \in Request /\ q.op = "delete" /\ q.at = "follows" /\ Active(h) /\ ~Giving(h)
  BY ActiveTyped DEF ReadFollows, At, Giving, DataInv
<1>2. FollowsOf(q.user) \subseteq FollowRows
  BY DEF DataInv, TypeOK, FollowsOf
<1>3. r \in Request
  BY <1>1, <1>2 DEF Request
<1>4. /\ r.op = "delete" /\ r.at = "save" /\ r.user = q.user /\ r.fresh = q.fresh
      /\ r.alone = q.alone /\ r.chats = q.chats /\ r.messages = q.messages
      /\ r.follows = FollowsOf(q.user)
  BY <1>1, <1>3 DEF Request
<1>5. q.alone => DeletionRead(q)
  BY <1>1 DEF DataInv, AloneInv, AloneOK
<1>6. r.alone => DeletionRead(r)
  <2>. HIDE DEF r, q
  <2>. QED
    BY <1>1, <1>4, <1>5 DEF DeletionRead
<1>7. Sound(r)
  <2>. HIDE DEF r, q
  <2>. QED
    BY <1>3, <1>4, <1>6 DEF Sound, ByAccount, AloneOK, Saving
<1>8. Reads(h, r) \/ Fails(h)
  BY DEF ReadFollows
<1>. QED
  <2>. HIDE DEF r
  <2>. QED
    BY <1>1, <1>7, <1>8, ReadKeeps, FailKeeps

\* The deletion of a chat reads its messages (ChatService.DeleteChat).
LEMMA ReadChatMessagesKeeps ==
  ASSUME DataInv, NEW h \in Handlers, ReadChatMessages(h)
  PROVE  DataInv'
<1>. DEFINE q == req[h]
            r == [q EXCEPT !.messages = MessagesOf({q.row}), !.at = "save"]
<1>1. q \in Request /\ q.op = "deleteChat" /\ Active(h) /\ ~Giving(h) /\ Reads(h, r)
  BY ActiveTyped DEF ReadChatMessages, At, Giving, DataInv
<1>2. MessagesOf({q.row}) \subseteq MessageRows
  BY DEF DataInv, TypeOK, MessagesOf
<1>3. r \in Request
  BY <1>1, <1>2 DEF Request
<1>4. r.op = "deleteChat" /\ r.at = "save" /\ r.row = q.row /\ r.messages = MessagesOf({r.row})
  BY <1>1, <1>3 DEF Request
<1>. HIDE DEF r
<1>5. Sound(r)
  BY <1>3, <1>4 DEF Sound, ByAccount, AloneOK, Saving
<1>. QED
  BY <1>1, <1>5, ReadKeeps

\* A page lists the follows of its user.
LEMMA GetUserFollowedKeeps ==
  ASSUME DataInv, NEW h \in Handlers, GetUserFollowed(h)
  PROVE  DataInv'
<1>. DEFINE q == req[h]
            r == [q EXCEPT !.follows = FollowedBy(q.user), !.at = "show"]
<1>1. q \in Request /\ q.op \in {"load", "follow", "unfollow"} /\ Active(h) /\ ~Giving(h) /\ Reads(h, r)
  BY ActiveTyped DEF GetUserFollowed, At, Giving, DataInv
<1>2. FollowedBy(q.user) \subseteq FollowRows
  BY DEF DataInv, TypeOK, FollowedBy
<1>3. r \in Request
  BY <1>1, <1>2 DEF Request
<1>4. /\ r.op \in {"load", "follow", "unfollow"} /\ r.at = "show" /\ r.user = q.user
      /\ r.follows = FollowedBy(r.user)
  BY <1>1, <1>3 DEF Request
<1>. HIDE DEF r
<1>5. Sound(r)
  BY <1>3, <1>4 DEF Sound, ByAccount, AloneOK, Saving
<1>. QED
  BY <1>1, <1>5, ReadKeeps

-----------------------------------------------------------------------------
(***************************************************************************)
(* The saves that succeed: what they leave of the other requests.          *)
(***************************************************************************)
\* The others keep what they hold but run alone no more.
LEMMA WroteOthers ==
  ASSUME TypeOK, NEW h \in Handlers, NEW STATE r, r \in Request \cup {Idle},
         NEW STATE stale, Wrote(h, r, stale)
  PROVE  /\ req' \in [Handlers -> Request \cup {Idle}] /\ req'[h] = r
         /\ \A g \in Handlers \ {h} : ~Active(g) => req'[g] = Idle
         /\ \A g \in Handlers \ {h} : Active(g) =>
              /\ req'[g] \in Request /\ ~req'[g].alone
              /\ req'[g].op = req[g].op /\ req'[g].at = req[g].at
              /\ req'[g].user = req[g].user /\ req'[g].other = req[g].other
              /\ req[g].fresh /\ req[g].user \notin stale => req'[g].fresh
<1>1. req'[h] = r
  BY DEF Wrote
<1>2. \A g \in Handlers \ {h} : ~Active(g) => req'[g] = Idle
  BY DEF Wrote
<1>3. ASSUME NEW g \in Handlers \ {h}, Active(g)
      PROVE  /\ req'[g] \in Request /\ ~req'[g].alone
             /\ req'[g].op = req[g].op /\ req'[g].at = req[g].at
             /\ req'[g].user = req[g].user /\ req'[g].other = req[g].other
             /\ req[g].fresh /\ req[g].user \notin stale => req'[g].fresh
  <2>. DEFINE kept == req[g].fresh /\ req[g].user \notin stale
  <2>1. req[g] \in Request
    BY <1>3, ActiveTyped
  <2>2. kept \in BOOLEAN
    OBVIOUS
  <2>3. req'[g] = [req[g] EXCEPT !.alone = FALSE, !.fresh = kept]
    BY <1>3 DEF Wrote
  <2>. HIDE DEF kept
  <2>4. /\ req'[g] \in Request /\ ~req'[g].alone
        /\ req'[g].op = req[g].op /\ req'[g].at = req[g].at
        /\ req'[g].user = req[g].user /\ req'[g].other = req[g].other
    BY <2>1, <2>2, <2>3 DEF Request
  <2>5. req'[g].fresh = kept
    BY <2>1, <2>3 DEF Request
  <2>. QED
    BY <2>4, <2>5 DEF kept
<1>4. req' \in [Handlers -> Request \cup {Idle}]
  <2>1. \A g \in Handlers : req'[g] \in Request \cup {Idle}
    BY <1>1, <1>2, <1>3
  <2>2. req' = [g \in Handlers |-> req'[g]]
    BY DEF Wrote
  <2>. QED
    BY <2>1, <2>2
<1>. QED
  BY <1>1, <1>2, <1>3, <1>4

\* No other request gets to create a chat, and the writer's is done.
LEMMA WroteOpening ==
  ASSUME TypeOK, NEW h \in Handlers, NEW STATE r, r = Idle \/ (r \in Request /\ r.op # "open"),
         NEW STATE stale, Wrote(h, r, stale)
  PROVE  \A pair : Opening(pair)' \subseteq Opening(pair) \ {h}
<1>1. /\ req'[h] = r
      /\ \A g \in Handlers \ {h} : ~Active(g) => req'[g] = Idle
      /\ \A g \in Handlers \ {h} : Active(g) =>
           /\ req'[g].op = req[g].op /\ req'[g].at = req[g].at
           /\ req'[g].user = req[g].user /\ req'[g].other = req[g].other
  BY WroteOthers
<1>. QED
  BY <1>1 DEF Opening, At, Active

\* The rows of the store, and whose page is blurred.
Rowed ==
  /\ hash \in [Names -> {"old", "new"}]
  /\ chats \subseteq [id : Rows, pair : SUBSET Names]
  /\ messages \subseteq MessageRows /\ follows \subseteq FollowRows
  /\ nextRow \in 1..MaxRows + 1 /\ blurred \subseteq Names \cup {NoOne}

\* A write that is not about accounts or roles keeps the invariant, given what it
\* makes of the rows and of the chats.
LEMMA WriteKeeps ==
  ASSUME DataInv, NEW h \in Handlers, Active(h), ~Giving(h),
         NEW STATE r, r = Idle \/ (r \in Request /\ r.op \in {"follow", "unfollow"} /\ r.at = "list"),
         Wrote(h, r, {}), UNCHANGED <<accounts, roles, pages, admins, cut>>,
         Rowed', PageInv', ChatsInv', FilledInv'
  PROVE  DataInv'
<1>1. /\ req' \in [Handlers -> Request \cup {Idle}] /\ req'[h] = r
      /\ \A g \in Handlers \ {h} : ~Active(g) => req'[g] = Idle
      /\ \A g \in Handlers \ {h} : Active(g) =>
           /\ req'[g] \in Request /\ ~req'[g].alone
           /\ req'[g].op = req[g].op /\ req'[g].at = req[g].at
           /\ req'[g].user = req[g].user
           /\ req[g].fresh => req'[g].fresh
  BY WroteOthers DEF DataInv
<1>2. boot' = boot /\ served' = served /\ crashes' = crashes /\ boot = "up"
  BY DEF Wrote, DataInv, RoleInv
<1>3. TypeOK'
  BY <1>1, <1>2 DEF DataInv, TypeOK, Rowed, pages
<1>4. \A g \in Handlers \ {h} : (Active(g)' <=> Active(g))
  BY <1>1, IdleIsNone DEF Active
<1>5. RoleInv'
  <2>0. accounts' = accounts /\ roles' = roles /\ cut' = cut /\ (~Active(h)' \/ req'[h].at = "list")
    BY <1>1 DEF Active
  <2>1. ~Giving(h)' /\ \A g \in Handlers \ {h} : (Giving(g)' <=> Giving(g))
    BY <1>1, <1>4, <2>0 DEF Giving
  <2>2. \A n \in accounts : (Lost(n)' <=> Lost(n))
    BY <1>1, <1>2, <1>4, <2>1 DEF Giving, Lost, Midway
  <2>3. \A g \in Handlers : Active(g)' => ByAccount(req[g])'
    BY <1>1, <1>4 DEF DataInv, RoleInv, Active, ByAccount
  <2>4. \A g \in Handlers : Active(g)' /\ req'[g].at = "addRole" => req'[g].op \in {"register", "role"}
    BY <1>1, <1>4 DEF DataInv, RoleInv, Active
  <2>5. \A g \in Handlers : Giving(g)' =>
          req'[g].fresh /\ req'[g].user \notin cut /\ roles[req'[g].user] = {}
    BY <1>1, <1>4, <2>1 DEF DataInv, RoleInv, Giving
  <2>6. \A f, g \in Handlers : Giving(f)' /\ Giving(g)' /\ req'[f].user = req'[g].user => f = g
    BY <1>1, <2>1 DEF DataInv, RoleInv, Giving
  <2>. QED
    BY <1>2, <2>2, <2>3, <2>4, <2>5, <2>6 DEF DataInv, RoleInv
<1>6. AloneInv'
  BY <1>1, <1>4 DEF AloneInv, AloneOK, Saving, Active
<1>. QED
  BY <1>3, <1>5, <1>6 DEF DataInv

-----------------------------------------------------------------------------
(***************************************************************************)
(* The saves of profiles, chats, messages and follows.                     *)
(***************************************************************************)
\* A request between its read and its save gives no role.
LEMMA QuietRequest ==
  ASSUME DataInv, NEW h \in Handlers, Active(h), req[h].at # "addRole"
  PROVE  ~Giving(h) /\ req[h] \in Request
BY ActiveTyped DEF DataInv, Giving

\* A save that adds no chat keeps the bound on chats.
LEMMA ChatsKept ==
  ASSUME DataInv, NEW h \in Handlers, NEW STATE r, r = Idle \/ (r \in Request /\ r.op # "open"),
         NEW STATE stale, Wrote(h, r, stale), chats' \subseteq chats
  PROVE  ChatsInv'
<1>1. \A pair : Opening(pair)' \subseteq Opening(pair)
  BY WroteOpening DEF DataInv
<1>. QED
  BY <1>1, CountKept DEF DataInv

\* The identity of a row that is inserted.
LEMMA RowInserted ==
  ASSUME DataInv, nextRow <= MaxRows, nextRow' = nextRow + 1
  PROVE  nextRow \in Rows /\ nextRow' \in 1..MaxRows + 1
<1>1. nextRow \in 1..MaxRows + 1
  BY DEF DataInv, TypeOK
<1>. QED
  BY <1>1, DataAssumption DEF Rows

\* A profile or a password that is saved keeps the invariant.
LEMMA ProfileSavesKeep ==
  ASSUME DataInv, NEW h \in Handlers, UpdateUser(h) \/ ResetUserPassword(h)
  PROVE  DataInv'
<1>1. Active(h) /\ ~Giving(h) /\ req[h] \in Request
  BY QuietRequest DEF UpdateUser, ResetUserPassword, At
<1>2. ASSUME NEW STATE new, new \in {"old", "new"},
             hash' = [hash EXCEPT ![req[h].user] = new], Wrote(h, Idle, {}),
             UNCHANGED <<accounts, roles, chats, messages, follows, nextRow, pages, history>>
      PROVE  DataInv'
  <2>1. Rowed'
    BY <1>2 DEF DataInv, TypeOK, Rowed, history
  <2>2. PageInv'
    BY <1>2 DEF DataInv, PageInv, pages, history
  <2>3. ChatsInv'
    BY <1>2, ChatsKept
  <2>4. FilledInv'
    BY <1>2 DEF DataInv, FilledInv, ChatIds
  <2>. QED
    BY <1>1, <1>2, <2>1, <2>2, <2>3, <2>4, WriteKeeps DEF history
<1>3. CASE Fails(h)
  BY <1>1, <1>3, FailKeeps
<1>4. req[h].hash \in {"old", "new"}
  BY <1>1 DEF Request
<1>. QED
  BY <1>2, <1>3, <1>4 DEF UpdateUser, ResetUserPassword

\* A chat that is removed with the messages read keeps the invariant.
LEMMA DeleteChatKeeps ==
  ASSUME DataInv, NEW h \in Handlers, DeleteChat(h)
  PROVE  DataInv'
<1>1. Active(h) /\ ~Giving(h)
  BY QuietRequest DEF DeleteChat, At
<1>2. CASE Fails(h)
  BY <1>1, <1>2, FailKeeps
<1>3. ASSUME chats' = {c \in chats : c.id # req[h].row}, messages' = messages \ req[h].messages,
             Wrote(h, Idle, {}), MayRemoveChat(req[h]),
             UNCHANGED <<accounts, roles, hash, follows, nextRow, pages, history>>
      PROVE  DataInv'
  <2>1. Rowed'
    BY <1>3 DEF DataInv, TypeOK, Rowed, history
  <2>2. PageInv'
    BY <1>3 DEF DataInv, PageInv, pages, history
  <2>3. ChatsInv'
    BY <1>3, ChatsKept
  <2>4. FilledInv'
    BY <1>3 DEF DataInv, FilledInv, ChatIds, MayRemoveChat, MessagesOf
  <2>. QED
    BY <1>1, <1>3, <2>1, <2>2, <2>3, <2>4, WriteKeeps DEF history
<1>. QED
  BY <1>2, <1>3 DEF DeleteChat

\* A message that is inserted or removed keeps the invariant.
LEMMA MessageSavesKeep ==
  ASSUME DataInv, NEW h \in Handlers, InsertMessage(h) \/ RemoveMessage(h)
  PROVE  DataInv'
<1>1. Active(h) /\ ~Giving(h) /\ req[h] \in Request
  BY QuietRequest DEF InsertMessage, RemoveMessage, At
<1>2. CASE Fails(h)
  BY <1>1, <1>2, FailKeeps
<1>3. ASSUME messages' \subseteq MessageRows, nextRow' \in 1..MaxRows + 1, Wrote(h, Idle, {}),
             \A m \in messages' : m \in messages \/ m.chat \in ChatIds,
             UNCHANGED <<accounts, roles, hash, chats, follows, pages, history>>
      PROVE  DataInv'
  <2>1. Rowed'
    BY <1>3 DEF DataInv, TypeOK, Rowed, history
  <2>2. PageInv'
    BY <1>3 DEF DataInv, PageInv, pages, history
  <2>3. ChatsInv'
    BY <1>3, ChatsKept
  <2>4. FilledInv'
    BY <1>3 DEF DataInv, FilledInv, ChatIds
  <2>. QED
    BY <1>1, <1>3, <2>1, <2>2, <2>3, <2>4, WriteKeeps DEF history
<1>4. messages \subseteq MessageRows /\ nextRow \in 1..MaxRows + 1
  BY DEF DataInv, TypeOK
<1>5. CASE InsertMessage(h) /\ ~Fails(h)
  <2>. DEFINE row == [id |-> nextRow, chat |-> req[h].row, from |-> req[h].user, to |-> req[h].other]
  <2>1. /\ req[h].row \in ChatIds /\ {req[h].user, req[h].other} \subseteq accounts
        /\ nextRow <= MaxRows /\ nextRow' = nextRow + 1
        /\ messages' = messages \cup {row}
        /\ Wrote(h, Idle, {})
        /\ UNCHANGED <<accounts, roles, hash, chats, follows, pages, history>>
    BY <1>5 DEF InsertMessage
  <2>2. req[h].row \in Rows /\ req[h].user \in Names /\ req[h].other \in Names
    BY <2>1 DEF DataInv, TypeOK, ChatIds
  <2>3. nextRow \in Rows /\ nextRow' \in 1..MaxRows + 1
    BY <2>1, RowInserted
  <2>4. messages' \subseteq MessageRows
    BY <1>4, <2>1, <2>2, <2>3 DEF MessageRows
  <2>5. \A m \in messages' : m \in messages \/ m.chat \in ChatIds
    BY <2>1
  <2>. HIDE DEF row
  <2>. QED
    BY <1>3, <2>1, <2>3, <2>4, <2>5
<1>6. CASE RemoveMessage(h) /\ ~Fails(h)
  BY <1>3, <1>4, <1>6 DEF RemoveMessage
<1>. QED
  BY <1>2, <1>5, <1>6

\* A follow that is inserted or removed blurs the page of its user.
LEMMA FollowSavesKeep ==
  ASSUME DataInv, NEW h \in Handlers, CreateUserFollow(h) \/ RemoveUserFollow(h)
  PROVE  DataInv'
<1>. DEFINE n == req[h].user
            r == [req[h] EXCEPT !.at = "list"]
<1>1. Active(h) /\ ~Giving(h) /\ req[h] \in Request /\ req[h].op \in {"follow", "unfollow"}
  BY QuietRequest DEF CreateUserFollow, RemoveUserFollow, At
<1>2. CASE Fails(h)
  BY <1>1, <1>2, FailKeeps
<1>3. r \in Request /\ r.op \in {"follow", "unfollow"} /\ r.at = "list"
  BY <1>1 DEF Request
<1>4. ASSUME follows' \subseteq FollowRows, \A f \in follows' : f.by # n => f \in follows,
             nextRow' \in 1..MaxRows + 1, Wrote(h, r, {}),
             blurred' = blurred \cup {n}, blurred' \subseteq Names \cup {NoOne},
             UNCHANGED <<accounts, roles, hash, chats, messages, pages, admins, cut>>
      PROVE  DataInv'
  <2>. HIDE DEF r
  <2>1. Rowed'
    BY <1>4 DEF DataInv, TypeOK, Rowed
  <2>2. PageInv'
    BY <1>4 DEF DataInv, PageInv, pages
  <2>3. ChatsInv'
    BY <1>3, <1>4, ChatsKept
  <2>4. FilledInv'
    BY <1>4 DEF DataInv, FilledInv, ChatIds
  <2>. QED
    BY <1>1, <1>3, <1>4, <2>1, <2>2, <2>3, <2>4, WriteKeeps
<1>5. follows \subseteq FollowRows /\ nextRow \in 1..MaxRows + 1 /\ blurred \subseteq Names \cup {NoOne}
  BY DEF DataInv, TypeOK
<1>6. CASE CreateUserFollow(h) /\ ~Fails(h)
  <2>1. /\ {n, req[h].other} \subseteq accounts
        /\ nextRow <= MaxRows /\ nextRow' = nextRow + 1
        /\ follows' = follows \cup {[id |-> nextRow, by |-> n, of |-> req[h].other]}
        /\ blurred' = blurred \cup {n}
        /\ Wrote(h, r, {})
        /\ UNCHANGED <<accounts, roles, hash, chats, messages, pages, admins, cut>>
    BY <1>6 DEF CreateUserFollow
  <2>2. n \in Names /\ req[h].other \in Names
    BY <2>1 DEF DataInv, TypeOK
  <2>3. nextRow \in Rows /\ nextRow' \in 1..MaxRows + 1
    BY <2>1, RowInserted
  <2>4. follows' \subseteq FollowRows /\ \A f \in follows' : f.by # n => f \in follows
    BY <1>5, <2>1, <2>2, <2>3 DEF FollowRows
  <2>. QED
    BY <1>4, <1>5, <2>1, <2>2, <2>3, <2>4
<1>7. CASE RemoveUserFollow(h) /\ ~Fails(h)
  <2>1. /\ follows' \subseteq follows /\ blurred' = blurred \cup {n} /\ nextRow' = nextRow
        /\ Wrote(h, r, {})
        /\ UNCHANGED <<accounts, roles, hash, chats, messages, pages, admins, cut>>
    BY <1>7 DEF RemoveUserFollow
  <2>2. n \in Names \cup {NoOne}
    BY <1>1 DEF Request
  <2>. QED
    BY <1>4, <1>5, <2>1, <2>2
<1>. QED
  BY <1>2, <1>6, <1>7

-----------------------------------------------------------------------------
(***************************************************************************)
(* A chat that is created, a list that is shown.                           *)
(***************************************************************************)
\* The request that creates a chat is then done: the bound on its pair is kept.
LEMMA CreateChatKeeps ==
  ASSUME DataInv, NEW h \in Handlers, CreateChat(h)
  PROVE  DataInv'
<1>. DEFINE n   == req[h].user
            o   == req[h].other
            row == [id |-> nextRow, pair |-> {n, o}]
<1>1. Active(h) /\ ~Giving(h) /\ req[h] \in Request
  BY QuietRequest DEF CreateChat, At
<1>2. CASE Fails(h)
  BY <1>1, <1>2, FailKeeps
<1>3. CASE ~Fails(h)
  <2>1. /\ {n, o} \subseteq accounts /\ nextRow <= MaxRows
        /\ chats' = chats \cup {row} /\ nextRow' = nextRow + 1
        /\ Wrote(h, Idle, {})
        /\ UNCHANGED <<accounts, roles, hash, messages, follows, pages, history>>
    BY <1>3 DEF CreateChat
  <2>2. nextRow \in Rows /\ nextRow' \in 1..MaxRows + 1
    BY <2>1, RowInserted
  <2>3. Rowed'
    BY <2>1, <2>2 DEF DataInv, TypeOK, Rowed, history
  <2>4. PageInv'
    BY <2>1 DEF DataInv, PageInv, pages, history
  <2>5. \A pair : Opening(pair)' \subseteq Opening(pair) \ {h}
    BY <2>1, WroteOpening DEF DataInv
  <2>6. IsFiniteSet(chats)
    BY DEF DataInv, ChatsInv
  <2>7. ASSUME NEW pair \in Pairs
        PROVE  Cardinality(Sharing(pair)') + Cardinality(Opening(pair)') <= Cardinality(Handlers)
    <3>1. IsFiniteSet(Sharing(pair)) /\ IsFiniteSet(Opening(pair))
      BY <2>6, DataAssumption, FS_Subset DEF Sharing, Opening
    <3>2. Cardinality(Sharing(pair)) + Cardinality(Opening(pair)) <= Cardinality(Handlers)
      BY DEF DataInv, ChatsInv, ChatsBounded, Sharing, Opening
    <3>3. IsFiniteSet(Opening(pair) \ {h}) /\ IsFiniteSet(Opening(pair)')
      BY <2>5, <3>1, FS_Subset
    <3>4. Cardinality(Opening(pair)') <= Cardinality(Opening(pair) \ {h})
      BY <2>5, <3>3, FS_Subset
    <3>5. CASE pair = {n, o}
      <4>1. h \in Opening(pair)
        BY <3>5 DEF CreateChat, Opening
      <4>2. Cardinality(Opening(pair) \ {h}) = Cardinality(Opening(pair)) - 1
        BY <3>1, <4>1, FS_RemoveElement
      <4>3. Sharing(pair)' = Sharing(pair) \cup {row}
        BY <2>1, <3>5 DEF Sharing
      <4>4. /\ IsFiniteSet(Sharing(pair) \cup {row})
            /\ Cardinality(Sharing(pair) \cup {row}) <= Cardinality(Sharing(pair)) + 1
        <5>. HIDE DEF row
        <5>1. Cardinality(Sharing(pair)) \in Nat
          BY <3>1, FS_CardinalityType
        <5>2. /\ IsFiniteSet(Sharing(pair) \cup {row})
              /\ Cardinality(Sharing(pair) \cup {row}) =
                   IF row \in Sharing(pair) THEN Cardinality(Sharing(pair))
                                            ELSE Cardinality(Sharing(pair)) + 1
          BY <3>1, FS_AddElement
        <5>3. row \in Sharing(pair) \/ row \notin Sharing(pair)
          OBVIOUS
        <5>. QED
          BY <5>1, <5>2, <5>3
      <4>5. /\ Cardinality(Sharing(pair)) \in Nat /\ Cardinality(Sharing(pair)') \in Nat
            /\ Cardinality(Opening(pair)) \in Nat /\ Cardinality(Opening(pair)') \in Nat
            /\ Cardinality(Handlers) \in Nat
        BY <3>1, <3>3, <4>3, <4>4, DataAssumption, FS_CardinalityType
      <4>. QED
        BY <3>2, <3>4, <4>2, <4>3, <4>4, <4>5
    <3>6. CASE pair # {n, o}
      <4>1. Sharing(pair)' = Sharing(pair)
        BY <2>1, <3>6 DEF Sharing
      <4>2. Cardinality(Opening(pair)') <= Cardinality(Opening(pair))
        BY <2>5, <3>1, FS_Subset
      <4>3. /\ Cardinality(Sharing(pair)) \in Nat /\ Cardinality(Handlers) \in Nat
            /\ Cardinality(Opening(pair)) \in Nat /\ Cardinality(Opening(pair)') \in Nat
        BY <3>1, <3>3, DataAssumption, FS_CardinalityType
      <4>. QED
        BY <3>2, <4>1, <4>2, <4>3
    <3>. QED
      BY <3>5, <3>6
  <2>8. ChatsInv'
    <3>1. IsFiniteSet(chats')
      BY <2>1, <2>6, FS_AddElement
    <3>. QED
      BY <2>7, <3>1 DEF ChatsInv, ChatsBounded, Sharing, Opening
  <2>9. FilledInv'
    BY <2>1 DEF DataInv, FilledInv, ChatIds
  <2>. QED
    BY <1>1, <2>1, <2>3, <2>4, <2>8, <2>9, WriteKeeps DEF history
<1>. QED
  BY <1>2, <1>3

\* The list shown is of the rows listed, of which the user's own are all when no
\* other request has written meanwhile.
LEMMA ShowsKeeps ==
  ASSUME DataInv, NEW h \in Handlers, Shows(h)
  PROVE  DataInv'
<1>. DEFINE q      == req[h]
            n      == req[h].user
            rows   == RowsOf(q.follows)
            ids(o) == {f.id : f \in {g \in q.follows : g.of = o}}
<1>1. Active(h) /\ ~Giving(h) /\ q \in Request /\ q.at = "show"
  BY QuietRequest DEF Shows
<1>2. boot = "up"
  BY <1>1 DEF DataInv, RoleInv
<1>3. Moves(h, Idle) /\ cut' = cut
  BY DEF Shows, Moves, DataInv, TypeOK
<1>4. /\ followMap \in [Names -> [Names -> 0..MaxRows]] /\ blurred \subseteq Names \cup {NoOne}
      /\ listed \subseteq Names /\ mounts \in [Names -> Nat] /\ mounts' = mounts
  BY DEF Shows, DataInv, TypeOK
<1>5. follows' = follows /\ follows \subseteq FollowRows /\ q.follows \subseteq FollowRows
  BY <1>1 DEF Shows, store, DataInv, TypeOK, Request
<1>6. CASE ~ItsPage(q)
  <2>1. followMap' = followMap /\ blurred' = blurred /\ listed' = listed
    BY <1>6 DEF Shows
  <2>. QED
    BY <1>1, <1>2, <1>3, <1>4, <1>5, <2>1, MoveKeeps DEF Paged, DataInv, PageInv
<1>7. CASE ItsPage(q)
  <2>1. /\ followMap' = [followMap EXCEPT ![n] = rows] /\ listed' = listed \cup {n}
        /\ blurred' = (IF q.alone THEN blurred \ {n} ELSE blurred \cup {n}) /\ n \in Names
    BY <1>7 DEF Shows, ItsPage
  <2>2. ASSUME NEW o \in Names
        PROVE  rows[o] \in 0..MaxRows /\ (ids(o) # {} => rows[o] # 0)
    <3>. DEFINE last == CHOOSE i \in ids(o) : \A j \in ids(o) : j <= i
    <3>0. rows[o] = IF ids(o) = {} THEN 0 ELSE last
      BY DEF RowsOf
    <3>1. ids(o) \subseteq Rows
      BY <1>5 DEF FollowRows
    <3>. HIDE DEF rows
    <3>. HIDE DEF ids
    <3>2. CASE ids(o) = {}
      BY <3>0, <3>2, DataAssumption
    <3>3. CASE ids(o) # {}
      <4>1. last \in ids(o)
        BY <3>1, <3>3, LastRow
      <4>2. last \in 1..MaxRows
        BY <3>1, <4>1 DEF Rows
      <4>. HIDE DEF last
      <4>. QED
        BY <3>0, <3>3, <4>2, DataAssumption
    <3>. QED
      BY <3>2, <3>3
  <2>3. \A f \in q.follows : ids(f.of) # {}
    OBVIOUS
  <2>8. rows = [o \in Names |-> rows[o]]
    BY DEF RowsOf
  <2>. HIDE DEF rows, ids
  <2>4. followMap' \in [Names -> [Names -> 0..MaxRows]]
    <3>1. rows \in [Names -> 0..MaxRows]
      BY <2>2, <2>8
    <3>. QED
      BY <1>4, <2>1, <3>1
  <2>5. blurred' \subseteq Names \cup {NoOne} /\ listed' \subseteq Names
    BY <1>4, <2>1
  <2>6. ASSUME NEW m \in Names \ blurred', NEW f \in follows', f.by = m
        PROVE  followMap'[m][f.of] # 0
    <3>1. f.of \in Names
      BY <1>5 DEF FollowRows
    <3>2. CASE m = n
      <4>1. q.alone
        BY <2>1, <2>6, <3>2
      <4>2. f \in q.follows
        BY <1>1, <1>5, <2>6, <3>2, <4>1 DEF DataInv, AloneInv, AloneOK, FollowedBy
      <4>3. followMap'[n][f.of] = rows[f.of]
        BY <1>4, <2>1, <3>1
      <4>. QED
        BY <2>2, <2>3, <3>1, <3>2, <4>2, <4>3
    <3>3. CASE m # n
      BY <1>4, <1>5, <2>1, <2>6, <3>3 DEF DataInv, PageInv
    <3>. QED
      BY <3>2, <3>3
  <2>7. PageInv'
    BY <2>6 DEF PageInv
  <2>. QED
    BY <1>1, <1>2, <1>3, <1>4, <2>4, <2>5, <2>7, MoveKeeps DEF Paged
<1>. QED
  BY <1>6, <1>7

-----------------------------------------------------------------------------
(***************************************************************************)
(* The commits that make an account and that change its role.              *)
(***************************************************************************)
\* A request that gives a role gives it to an account that has none, so an account
\* that has one is no request's.
LEMMA HasRoleIsNotGiven ==
  ASSUME DataInv, NEW g \in Handlers, Giving(g)
  PROVE  roles[req[g].user] = {} /\ req[g].user \in accounts \ cut /\ req[g].fresh
BY DEF DataInv, RoleInv, Giving

\* The account that is created has no role yet and is its request's alone.
LEMMA RegisterKeeps ==
  ASSUME DataInv, NEW h \in Handlers, Register(h)
  PROVE  DataInv'
<1>. DEFINE q == req[h]
            n == req[h].user
            r == [req[h] EXCEPT !.at = "addRole", !.hash = "old", !.fresh = TRUE]
<1>1. /\ Active(h) /\ ~Giving(h) /\ q \in Request /\ boot = "up"
      /\ q.op = "register" /\ q.at = "create"
  BY QuietRequest DEF Register, At, DataInv, RoleInv
<1>2. CASE Fails(h)
  BY <1>1, <1>2, FailKeeps
<1>3. CASE ~Fails(h)
  <2>1. /\ n \in Names /\ n \notin accounts /\ accounts' = accounts \cup {n}
        /\ hash' = [hash EXCEPT ![n] = "old"] /\ Wrote(h, r, {})
        /\ UNCHANGED <<roles, chats, messages, follows, nextRow, pages, history>>
    BY <1>3 DEF Register
  <2>2. /\ r \in Request /\ r.op = "register" /\ r.at = "addRole" /\ r.user = n /\ r.fresh
        /\ r.hash = "old"
    BY <1>1 DEF Request
  <2>. HIDE DEF r
  <2>3. /\ req' \in [Handlers -> Request \cup {Idle}] /\ req'[h] = r
        /\ \A g \in Handlers \ {h} : ~Active(g) => req'[g] = Idle
        /\ \A g \in Handlers \ {h} : Active(g) =>
             /\ req'[g] \in Request /\ ~req'[g].alone
             /\ req'[g].op = req[g].op /\ req'[g].at = req[g].at
             /\ req'[g].user = req[g].user
             /\ req[g].fresh => req'[g].fresh
    BY <2>1, <2>2, WroteOthers DEF DataInv
  <2>4. Active(h)' /\ \A g \in Handlers \ {h} : (Active(g)' <=> Active(g))
    BY <2>2, <2>3, IdleIsNone DEF Active
  <2>5. /\ boot' = "up" /\ served' = served /\ crashes' = crashes /\ cut' = cut
        /\ roles' = roles /\ chats' = chats
    BY <1>1, <2>1 DEF Wrote, history
  <2>6. TypeOK'
    <3>1. accounts' \subseteq Names /\ hash' \in [Names -> {"old", "new"}]
      BY <2>1 DEF DataInv, TypeOK
    <3>. QED
      BY <2>1, <2>3, <2>5, <3>1 DEF DataInv, TypeOK, pages, history
  <2>7. RoleInv'
    <3>1. ASSUME NEW g \in Handlers \ {h}, Giving(g)'
          PROVE  Giving(g) /\ req'[g].user # n
      <4>1. Active(g) /\ req[g].at = "addRole" /\ req[g].op \in {"register", "role"}
        BY <2>3, <2>4, <3>1 DEF Giving, DataInv, RoleInv
      <4>2. ByAccount(req[g])
        BY <4>1 DEF DataInv, RoleInv
      <4>3. req[g].user \in accounts \cup {NoOne}
        BY <4>1, <4>2 DEF ByAccount
      <4>4. NoOne \notin accounts'
        BY <2>6, DataAssumption DEF TypeOK
      <4>. QED
        BY <2>1, <2>3, <3>1, <4>1, <4>3, <4>4 DEF Giving
    <3>2. ASSUME NEW m \in accounts, Lost(m) PROVE Lost(m)'
      <4>1. PICK g \in Handlers : Active(g) /\ req[g].at = "addRole" /\ req[g].user = m
        BY <1>1, <3>2 DEF Lost, Midway
      <4>2. g # h
        BY <1>1, <4>1
      <4>. QED
        BY <2>3, <2>4, <4>1, <4>2 DEF Lost, Midway
    <3>3. \A m : m = n => Lost(m)'
      BY <2>2, <2>3, <2>4 DEF Lost, Midway
    <3>4. \A g \in Handlers : Active(g)' => ByAccount(req[g])'
      BY <2>1, <2>2, <2>3, <2>4 DEF DataInv, RoleInv, ByAccount
    <3>5. \A g \in Handlers : Active(g)' /\ req'[g].at = "addRole" => req'[g].op \in {"register", "role"}
      BY <2>2, <2>3, <2>4 DEF DataInv, RoleInv
    <3>6. roles[n] = {} /\ n \notin cut
      BY <2>1 DEF DataInv, RoleInv
    <3>7. \A g \in Handlers : Giving(g)' =>
            req'[g].fresh /\ req'[g].user \notin cut /\ roles[req'[g].user] = {}
      BY <2>2, <2>3, <2>4, <3>1, <3>6, HasRoleIsNotGiven DEF Giving
    <3>8. \A f, g \in Handlers : Giving(f)' /\ Giving(g)' /\ req'[f].user = req'[g].user => f = g
      <4>1. \A f, g \in Handlers \ {h} :
              Giving(f)' /\ Giving(g)' /\ req'[f].user = req'[g].user => f = g
        BY <2>3, <3>1 DEF DataInv, RoleInv, Giving
      <4>. QED
        BY <2>2, <2>3, <3>1, <4>1
    <3>9. ASSUME NEW m \in accounts' \ cut
          PROVE  roles[m] \in {{"Admin"}, {"User"}} \/ Lost(m)'
      <4>1. CASE m = n
        BY <3>3, <4>1
      <4>2. CASE m # n
        <5>1. m \in accounts \ cut
          BY <2>1, <4>2
        <5>2. roles[m] \in {{"Admin"}, {"User"}} \/ Lost(m)
          BY <5>1 DEF DataInv, RoleInv
        <5>. QED
          BY <3>2, <5>1, <5>2
      <4>. QED
        BY <4>1, <4>2
    <3>10. cut \subseteq accounts' /\ (\A m \in Names \ accounts' : roles[m] = {})
           /\ \A m \in cut : roles[m] = {}
      BY <2>1 DEF DataInv, RoleInv
    <3>. QED
      BY <2>5, <3>4, <3>5, <3>7, <3>8, <3>9, <3>10 DEF RoleInv
  <2>8. PageInv'
    BY <2>1 DEF DataInv, PageInv, pages, history
  <2>9. ChatsInv'
    BY <2>1, <2>2, <2>5, ChatsKept
  <2>10. AloneInv'
    <3>0. n \in accounts' /\ hash'[n] = "old"
      BY <2>1 DEF DataInv, TypeOK
    <3>1. AloneOK(req[h])'
      BY <2>2, <2>3, <3>0 DEF AloneOK, Saving
    <3>2. \A g \in Handlers \ {h} : Active(g)' => AloneOK(req[g])'
      BY <2>3, <2>4 DEF AloneOK
    <3>. QED
      BY <3>1, <3>2 DEF AloneInv
  <2>11. FilledInv'
    BY <2>1 DEF DataInv, FilledInv, ChatIds
  <2>. QED
    BY <2>6, <2>7, <2>8, <2>9, <2>10, <2>11 DEF DataInv
<1>. QED
  BY <1>2, <1>3

\* A commit that changes the roles of one account, for a request that then gives
\* it one or is done, keeps what is not about roles.
LEMMA RoleWriteKeeps ==
  ASSUME DataInv, NEW h \in Handlers, NEW STATE n, NEW STATE r,
         r = Idle \/ /\ r \in Request /\ r.op = "role" /\ r.at = "addRole"
                     /\ r.user = n /\ r.hash = req[h].hash,
         Wrote(h, r, {n}), roles' \in [Names -> SUBSET Roles], admins' \subseteq Names,
         n \in accounts, req[h] \in Request, hash' = [hash EXCEPT ![n] = req[h].hash],
         UNCHANGED <<accounts, chats, messages, follows, nextRow, pages, cut, blurred>>,
         RoleInv'
  PROVE  DataInv'
<1>1. /\ req' \in [Handlers -> Request \cup {Idle}] /\ req'[h] = r
      /\ \A g \in Handlers \ {h} : ~Active(g) => req'[g] = Idle
      /\ \A g \in Handlers \ {h} : Active(g) => ~req'[g].alone
  BY WroteOthers DEF DataInv
<1>2. TypeOK'
  <2>1. hash' \in [Names -> {"old", "new"}]
    BY DEF DataInv, TypeOK, Request
  <2>. QED
    BY <1>1, <2>1 DEF DataInv, TypeOK, Wrote, pages
<1>3. PageInv' /\ FilledInv'
  BY DEF DataInv, PageInv, FilledInv, ChatIds, pages
<1>4. ChatsInv'
  BY ChatsKept
<1>5. AloneInv'
  <2>0. hash'[n] = req[h].hash /\ n \in accounts'
    BY DEF DataInv, TypeOK
  <2>1. Active(h)' => AloneOK(req[h])'
    BY <1>1, <2>0 DEF AloneOK, Saving, Active
  <2>2. \A g \in Handlers \ {h} : Active(g)' => AloneOK(req[g])'
    BY <1>1 DEF AloneOK, Active
  <2>. QED
    BY <2>1, <2>2 DEF AloneInv
<1>. QED
  BY <1>2, <1>3, <1>4, <1>5 DEF DataInv

\* The account whose one role is taken has none, and is the request's alone.
LEMMA RemoveRoleKeeps ==
  ASSUME DataInv, NEW h \in Handlers, RemoveRole(h)
  PROVE  DataInv'
<1>. DEFINE q == req[h]
            n == req[h].user
            r == [req[h] EXCEPT !.at = "addRole"]
<1>1. Active(h) /\ ~Giving(h) /\ q \in Request /\ boot = "up" /\ q.op = "role" /\ q.at = "removeRole"
  BY QuietRequest DEF RemoveRole, At, DataInv, RoleInv
<1>2. CASE Fails(h)
  BY <1>1, <1>2, FailKeeps
<1>3. CASE ~Fails(h)
  <2>1. /\ HasRole(q) /\ roles' = [roles EXCEPT ![n] = @ \ {q.role}] /\ Wrote(h, r, {n})
        /\ hash' = [hash EXCEPT ![n] = q.hash]
        /\ UNCHANGED <<accounts, chats, messages, follows, nextRow, pages, history>>
    BY <1>3 DEF RemoveRole
  <2>2. /\ r \in Request /\ r.op = "role" /\ r.at = "addRole" /\ r.user = n /\ r.fresh
        /\ r.hash = q.hash
    BY <1>1, <2>1 DEF Request, HasRole
  <2>. HIDE DEF r
  <2>3. /\ req' \in [Handlers -> Request \cup {Idle}] /\ req'[h] = r
        /\ \A g \in Handlers \ {h} : ~Active(g) => req'[g] = Idle
        /\ \A g \in Handlers \ {h} : Active(g) =>
             /\ req'[g].op = req[g].op /\ req'[g].at = req[g].at
             /\ req'[g].user = req[g].user /\ req'[g] \in Request
             /\ req[g].fresh /\ req[g].user # n => req'[g].fresh
    BY <2>1, <2>2, WroteOthers DEF DataInv
  <2>4. Active(h)' /\ \A g \in Handlers \ {h} : (Active(g)' <=> Active(g))
    BY <2>2, <2>3, IdleIsNone DEF Active
  <2>5. boot' = "up" /\ cut' = cut /\ accounts' = accounts
    BY <1>1, <2>1 DEF Wrote, history
  <2>6. n \in accounts /\ n \in Names /\ q.role \in roles[n] /\ roles \in [Names -> SUBSET Roles]
    BY <2>1 DEF HasRole, DataInv, TypeOK
  <2>7. \A m \in Names : m # n => roles'[m] = roles[m]
    BY <2>1, <2>6
  <2>8. n \notin cut /\ \A g \in Handlers : Giving(g) => req[g].user # n
    BY <2>6, HasRoleIsNotGiven DEF DataInv, RoleInv
  <2>9. ~Lost(n)
    BY <1>1, <2>6, <2>8 DEF Lost, Midway, Giving
  <2>10. roles[n] \in {{"Admin"}, {"User"}}
    BY <2>6, <2>8, <2>9 DEF DataInv, RoleInv
  <2>11. roles'[n] = {} /\ roles' \in [Names -> SUBSET Roles]
    BY <2>1, <2>6, <2>10
  <2>12. RoleInv'
    <3>1. \A g \in Handlers \ {h} : (Giving(g)' <=> Giving(g))
      BY <2>3, <2>4, <2>5 DEF Giving
    <3>2. ASSUME NEW m \in accounts, Lost(m) PROVE Lost(m)'
      <4>1. PICK g \in Handlers : Active(g) /\ req[g].at = "addRole" /\ req[g].user = m
        BY <1>1, <3>2 DEF Lost, Midway
      <4>2. g # h
        BY <1>1, <4>1
      <4>. QED
        BY <2>3, <2>4, <4>1, <4>2 DEF Lost, Midway
    <3>3. \A m : m = n => Lost(m)'
      BY <2>2, <2>3, <2>4 DEF Lost, Midway
    <3>4. \A g \in Handlers : Active(g)' => ByAccount(req[g])'
      BY <2>2, <2>3, <2>4, <2>5, <2>6 DEF DataInv, RoleInv, ByAccount
    <3>5. \A g \in Handlers : Active(g)' /\ req'[g].at = "addRole" => req'[g].op \in {"register", "role"}
      BY <2>2, <2>3, <2>4 DEF DataInv, RoleInv
    <3>6. ASSUME NEW g \in Handlers, Giving(g)'
          PROVE  req'[g].fresh /\ req'[g].user \notin cut /\ roles'[req'[g].user] = {}
      <4>1. CASE g = h
        BY <2>2, <2>3, <2>8, <2>11, <4>1
      <4>2. CASE g # h
        <5>1. Giving(g) /\ Active(g)
          BY <3>1, <3>6, <4>2 DEF Giving
        <5>2. /\ roles[req[g].user] = {} /\ req[g].user \in accounts \ cut /\ req[g].fresh
              /\ req[g].user # n /\ req[g].user \in Names
          BY <2>8, <5>1, HasRoleIsNotGiven DEF DataInv, TypeOK
        <5>. QED
          BY <2>3, <2>7, <4>2, <5>1, <5>2
      <4>. QED
        BY <4>1, <4>2
    <3>7. \A f, g \in Handlers : Giving(f)' /\ Giving(g)' /\ req'[f].user = req'[g].user => f = g
      <4>1. \A g \in Handlers \ {h} : Giving(g)' => req'[g].user = req[g].user /\ req[g].user # n
        BY <2>3, <2>8, <3>1 DEF Giving
      <4>2. \A f, g \in Handlers \ {h} :
              Giving(f)' /\ Giving(g)' /\ req'[f].user = req'[g].user => f = g
        BY <3>1, <4>1 DEF DataInv, RoleInv
      <4>. QED
        BY <2>2, <2>3, <4>1, <4>2
    <3>8. ASSUME NEW m \in accounts' \ cut
          PROVE  roles'[m] \in {{"Admin"}, {"User"}} \/ Lost(m)'
      <4>1. CASE m = n
        BY <3>3, <4>1
      <4>2. CASE m # n
        <5>1. m \in accounts \ cut /\ roles'[m] = roles[m]
          BY <2>5, <2>7, <4>2 DEF DataInv, TypeOK
        <5>2. roles[m] \in {{"Admin"}, {"User"}} \/ Lost(m)
          BY <5>1 DEF DataInv, RoleInv
        <5>. QED
          BY <3>2, <5>1, <5>2
      <4>. QED
        BY <4>1, <4>2
    <3>9. /\ cut' \subseteq accounts' /\ \A m \in Names \ accounts' : roles'[m] = {}
          /\ \A m \in cut' : roles'[m] = {}
      BY <2>5, <2>6, <2>7, <2>8 DEF DataInv, RoleInv, TypeOK
    <3>. QED
      BY <2>5, <3>4, <3>5, <3>6, <3>7, <3>8, <3>9 DEF RoleInv
  <2>13. admins' \subseteq Names
    BY <2>1 DEF DataInv, TypeOK, history
  <2>. QED
    BY <1>1, <2>1, <2>2, <2>6, <2>11, <2>12, <2>13, RoleWriteKeeps DEF history
<1>. QED
  BY <1>2, <1>3


\* The account that had no role has one.
LEMMA AddRoleKeeps ==
  ASSUME DataInv, NEW h \in Handlers, AddRole(h)
  PROVE  DataInv'
<1>. DEFINE q == req[h]
            n == req[h].user
<1>1. /\ Active(h) /\ q \in Request /\ boot = "up" /\ q.op \in {"role", "register"} /\ q.at = "addRole"
  BY ActiveTyped DEF AddRole, At, DataInv, RoleInv
<1>2. CASE n \notin accounts
  <2>1. ~Giving(h) /\ Fails(h)
    BY <1>2 DEF AddRole, Giving
  <2>. QED
    BY <1>1, <2>1, FailKeeps
<1>3. CASE n \in accounts
  <2>1. Giving(h) /\ q.fresh /\ roles[n] = {} /\ n \notin cut /\ n \in Names
    BY <1>1, <1>3, HasRoleIsNotGiven DEF Giving, DataInv, TypeOK
  <2>2. /\ roles' = [roles EXCEPT ![n] = @ \cup {Given(h)}]
        /\ admins' = (IF Given(h) = "Admin" THEN admins \cup {n} ELSE admins)
        /\ hash' = [hash EXCEPT ![n] = q.hash]
        /\ Wrote(h, Idle, {n})
        /\ UNCHANGED <<accounts, chats, messages, follows, nextRow, pages, cut, blurred>>
    BY <1>3, <2>1 DEF AddRole
  <2>3. /\ req' \in [Handlers -> Request \cup {Idle}] /\ req'[h] = Idle
        /\ \A g \in Handlers \ {h} : ~Active(g) => req'[g] = Idle
        /\ \A g \in Handlers \ {h} : Active(g) =>
             /\ req'[g].op = req[g].op /\ req'[g].at = req[g].at
             /\ req'[g].user = req[g].user /\ req'[g] \in Request
             /\ req[g].fresh /\ req[g].user # n => req'[g].fresh
    BY <2>2, WroteOthers DEF DataInv
  <2>4. ~Active(h)' /\ \A g \in Handlers \ {h} : (Active(g)' <=> Active(g))
    BY <2>3, IdleIsNone DEF Active
  <2>5. boot' = "up" /\ cut' = cut /\ accounts' = accounts
    BY <1>1, <2>2 DEF Wrote
  <2>6. Given(h) \in Roles
    BY <1>1 DEF Given, Roles, Request
  <2>7. /\ roles' \in [Names -> SUBSET Roles] /\ roles'[n] = {Given(h)}
        /\ \A m \in Names : m # n => roles'[m] = roles[m]
    BY <2>1, <2>2, <2>6 DEF DataInv, TypeOK
  <2>8. \A g \in Handlers \ {h} : Giving(g) => req[g].user # n
    BY <2>1 DEF DataInv, RoleInv
  <2>9. RoleInv'
    <3>1. ~Giving(h)' /\ \A g \in Handlers \ {h} : (Giving(g)' <=> Giving(g))
      BY <2>3, <2>4, <2>5 DEF Giving
    <3>2. ASSUME NEW m \in accounts, m # n, Lost(m) PROVE Lost(m)'
      <4>1. PICK g \in Handlers : Active(g) /\ req[g].at = "addRole" /\ req[g].user = m
        BY <1>1, <3>2 DEF Lost, Midway
      <4>2. g # h
        BY <3>2, <4>1
      <4>. QED
        BY <2>3, <2>4, <4>1, <4>2 DEF Lost, Midway
    <3>3. \A g \in Handlers : Active(g)' => ByAccount(req[g])'
      BY <2>3, <2>4, <2>5 DEF DataInv, RoleInv, ByAccount
    <3>4. \A g \in Handlers : Active(g)' /\ req'[g].at = "addRole" => req'[g].op \in {"register", "role"}
      BY <2>3, <2>4 DEF DataInv, RoleInv
    <3>5. ASSUME NEW g \in Handlers, Giving(g)'
          PROVE  req'[g].fresh /\ req'[g].user \notin cut /\ roles'[req'[g].user] = {}
      <4>1. g # h /\ Giving(g) /\ Active(g)
        BY <3>1, <3>5 DEF Giving
      <4>2. /\ roles[req[g].user] = {} /\ req[g].user \in accounts \ cut /\ req[g].fresh
            /\ req[g].user # n /\ req[g].user \in Names
        BY <2>8, <4>1, HasRoleIsNotGiven DEF DataInv, TypeOK
      <4>. QED
        BY <2>3, <2>7, <4>1, <4>2
    <3>6. \A f, g \in Handlers : Giving(f)' /\ Giving(g)' /\ req'[f].user = req'[g].user => f = g
      <4>1. \A g \in Handlers : Giving(g)' => Giving(g) /\ req'[g].user = req[g].user
        BY <2>3, <3>1 DEF Giving
      <4>. QED
        BY <4>1 DEF DataInv, RoleInv
    <3>7. ASSUME NEW m \in accounts' \ cut
          PROVE  roles'[m] \in {{"Admin"}, {"User"}} \/ Lost(m)'
      <4>1. CASE m = n
        BY <2>6, <2>7, <4>1 DEF Roles
      <4>2. CASE m # n
        <5>1. m \in accounts \ cut /\ roles'[m] = roles[m]
          BY <2>5, <2>7, <4>2 DEF DataInv, TypeOK
        <5>2. roles[m] \in {{"Admin"}, {"User"}} \/ Lost(m)
          BY <5>1 DEF DataInv, RoleInv
        <5>. QED
          BY <3>2, <4>2, <5>1, <5>2
      <4>. QED
        BY <4>1, <4>2
    <3>8. /\ cut' \subseteq accounts' /\ \A m \in Names \ accounts' : roles'[m] = {}
          /\ \A m \in cut' : roles'[m] = {}
      BY <1>3, <2>1, <2>5, <2>7 DEF DataInv, RoleInv, TypeOK
    <3>. QED
      BY <2>5, <3>3, <3>4, <3>5, <3>6, <3>7, <3>8 DEF RoleInv
  <2>10. admins' \subseteq Names
    BY <2>1, <2>2 DEF DataInv, TypeOK
  <2>. QED
    BY <1>1, <1>3, <2>2, <2>7, <2>9, <2>10, RoleWriteKeeps
<1>. QED
  BY <1>2, <1>3

-----------------------------------------------------------------------------
(***************************************************************************)
(* The save that removes an account.                                       *)
(***************************************************************************)
\* A request that may name a deleted account keeps the rest.
LEMMA OrphanedIs ==
  ASSUME NEW STATE r, r \in Request, NEW STATE n
  PROVE  /\ Orphaned(r, n) \in Request /\ ~Orphaned(r, n).alone
         /\ Orphaned(r, n).op = r.op /\ Orphaned(r, n).at = r.at
         /\ Orphaned(r, n).fresh = r.fresh
         /\ r.op = "register" /\ r.at = "create" =>
              Orphaned(r, n).user = r.user /\ Orphaned(r, n).other = r.other
         /\ ~(r.op = "register" /\ r.at = "create") =>
              Orphaned(r, n).user = Forget(n, r.user) /\ Orphaned(r, n).other = Forget(n, r.other)
<1>1. CASE r.op = "register" /\ r.at = "create"
  <2>1. Orphaned(r, n) = [r EXCEPT !.alone = FALSE]
    BY <1>1 DEF Orphaned
  <2>. QED
    BY <1>1, <2>1 DEF Request
<1>2. CASE ~(r.op = "register" /\ r.at = "create")
  <2>1. Orphaned(r, n) = [r EXCEPT !.alone = FALSE, !.user = Forget(n, r.user),
                                   !.other = Forget(n, r.other)]
    BY <1>2 DEF Orphaned, Request
  <2>2. Forget(n, r.user) \in Names \cup {NoOne} /\ Forget(n, r.other) \in Names \cup {NoOne}
    BY DEF Forget, Request
  <2>. QED
    BY <1>2, <2>1, <2>2 DEF Request
<1>. QED
  BY <1>1, <1>2

\* An account that is removed takes its role along, and leaves no request naming it.
LEMMA DeleteUserKeeps ==
  ASSUME DataInv, NEW h \in Handlers, DeleteUser(h)
  PROVE  DataInv'
<1>. DEFINE q == req[h]
            n == req[h].user
<1>1. Active(h) /\ ~Giving(h) /\ q \in Request /\ boot = "up" /\ q.at = "save"
  BY QuietRequest DEF DeleteUser, At, DataInv, RoleInv
<1>2. CASE Fails(h)
  BY <1>1, <1>2, FailKeeps
<1>3. CASE ~Fails(h)
  <2>1. /\ MayRemove(q) /\ accounts' = accounts \ {n} /\ roles' = [roles EXCEPT ![n] = {}]
        /\ chats' \subseteq chats /\ messages' \subseteq messages /\ follows' \subseteq follows
        /\ followMap' = [followMap EXCEPT ![n] = NoRows] /\ listed' = listed \ {n}
        /\ req' = [g \in Handlers |->
              IF g = h \/ ~Active(g) THEN Idle ELSE Orphaned(req[g], n)]
        /\ cut' = cut \ {n} /\ n \in blurred' /\ blurred \subseteq blurred'
        /\ blurred' \subseteq blurred \cup {n} \cup Names
        /\ chats' = {c \in chats : c.id \notin q.chats} /\ messages' = messages \ q.messages
        /\ UNCHANGED <<hash, nextRow, mounts, boot, served, crashes, admins>>
    BY <1>3 DEF DeleteUser
  <2>2. n \in accounts /\ n \in Names /\ NoOne \notin accounts
    BY <2>1, DataAssumption DEF MayRemove, DataInv, TypeOK
  <2>3. /\ req'[h] = Idle
        /\ \A g \in Handlers \ {h} : ~Active(g) => req'[g] = Idle
        /\ \A g \in Handlers \ {h} : Active(g) => req'[g] = Orphaned(req[g], n) /\ req[g] \in Request
    BY <2>1, ActiveTyped DEF DataInv
  <2>4. \A g \in Handlers \ {h} : Active(g) =>
          /\ req'[g] \in Request /\ ~req'[g].alone
          /\ req'[g].op = req[g].op /\ req'[g].at = req[g].at /\ req'[g].fresh = req[g].fresh
          /\ req[g].op = "register" /\ req[g].at = "create" =>
               req'[g].user = req[g].user /\ req'[g].other = req[g].other
          /\ ~(req[g].op = "register" /\ req[g].at = "create") =>
               req'[g].user = Forget(n, req[g].user) /\ req'[g].other = Forget(n, req[g].other)
    BY <2>3, OrphanedIs
  <2>5. ~Active(h)' /\ \A g \in Handlers \ {h} : (Active(g)' <=> Active(g))
    BY <2>3, <2>4, IdleIsNone DEF Active
  <2>6. req' \in [Handlers -> Request \cup {Idle}]
    <3>1. \A g \in Handlers : req'[g] \in Request \cup {Idle}
      BY <2>3, <2>4
    <3>2. req' = [g \in Handlers |-> req'[g]]
      BY <2>1
    <3>. QED
      BY <3>1, <3>2
  <2>7. roles' \in [Names -> SUBSET Roles] /\ roles'[n] = {}
        /\ \A m \in Names : m # n => roles'[m] = roles[m]
    BY <2>1, <2>2 DEF DataInv, TypeOK
  <2>8. followMap' \in [Names -> [Names -> 0..MaxRows]]
        /\ \A m \in Names : m # n => followMap'[m] = followMap[m]
    <3>1. NoRows \in [Names -> 0..MaxRows]
      BY DataAssumption DEF NoRows
    <3>2. followMap' = [followMap EXCEPT ![n] = NoRows]
      BY <2>1
    <3>3. followMap \in [Names -> [Names -> 0..MaxRows]]
      BY DEF DataInv, TypeOK
    <3>4. followMap' \in [Names -> [Names -> 0..MaxRows]]
      BY <3>1, <3>2, <3>3
    <3>5. \A m \in Names : m # n => followMap'[m] = followMap[m]
      BY <3>2, <3>3
    <3>. QED
      BY <3>4, <3>5
  <2>9. TypeOK'
    BY <2>1, <2>2, <2>6, <2>7, <2>8 DEF DataInv, TypeOK
  <2>10. RoleInv'
    <3>1. ASSUME NEW g \in Handlers, Giving(g)'
          PROVE  g # h /\ Giving(g) /\ Active(g) /\ req'[g].user = req[g].user /\ req[g].user # n
      <4>1. g # h /\ Active(g) /\ req[g].at = "addRole"
        BY <2>4, <2>5, <3>1 DEF Giving
      <4>2. req'[g].user = Forget(n, req[g].user) /\ req'[g].user \in accounts \ {n}
        BY <2>1, <2>4, <3>1, <4>1 DEF Giving
      <4>. QED
        BY <2>2, <4>1, <4>2 DEF Forget, Giving
    <3>2. ASSUME NEW m \in accounts, m # n, Lost(m) PROVE Lost(m)'
      <4>1. PICK g \in Handlers : Active(g) /\ req[g].at = "addRole" /\ req[g].user = m
        BY <1>1, <3>2 DEF Lost, Midway
      <4>2. g # h
        BY <1>1, <4>1
      <4>3. req'[g].user = m
        BY <2>4, <3>2, <4>1, <4>2 DEF Forget
      <4>. QED
        BY <2>4, <2>5, <4>1, <4>2, <4>3 DEF Lost, Midway
    <3>3. ASSUME NEW g \in Handlers, Active(g)' PROVE ByAccount(req[g])'
      <4>1. g # h /\ Active(g) /\ ByAccount(req[g])
        BY <2>5, <3>3 DEF DataInv, RoleInv
      <4>. QED
        BY <2>1, <2>4, <4>1 DEF ByAccount, Forget
    <3>4. \A g \in Handlers : Active(g)' /\ req'[g].at = "addRole" => req'[g].op \in {"register", "role"}
      BY <2>4, <2>5 DEF DataInv, RoleInv
    <3>5. ASSUME NEW g \in Handlers, Giving(g)'
          PROVE  req'[g].fresh /\ req'[g].user \notin cut' /\ roles'[req'[g].user] = {}
      <4>1. g # h /\ Giving(g) /\ Active(g) /\ req'[g].user = req[g].user /\ req[g].user # n
        BY <3>1, <3>5
      <4>2. /\ roles[req[g].user] = {} /\ req[g].user \in accounts \ cut /\ req[g].fresh
            /\ req[g].user \in Names
        BY <4>1, HasRoleIsNotGiven DEF DataInv, TypeOK
      <4>. QED
        BY <2>1, <2>4, <2>7, <4>1, <4>2
    <3>6. \A f, g \in Handlers : Giving(f)' /\ Giving(g)' /\ req'[f].user = req'[g].user => f = g
      BY <3>1 DEF DataInv, RoleInv
    <3>7. ASSUME NEW m \in accounts' \ cut'
          PROVE  roles'[m] \in {{"Admin"}, {"User"}} \/ Lost(m)'
      <4>1. m \in accounts \ cut /\ m # n /\ roles'[m] = roles[m]
        BY <2>1, <2>7 DEF DataInv, TypeOK
      <4>2. roles[m] \in {{"Admin"}, {"User"}} \/ Lost(m)
        BY <4>1 DEF DataInv, RoleInv
      <4>. QED
        BY <3>2, <4>1, <4>2
    <3>8. /\ cut' \subseteq accounts' /\ \A m \in Names \ accounts' : roles'[m] = {}
          /\ \A m \in cut' : roles'[m] = {}
      BY <2>1, <2>7 DEF DataInv, RoleInv, TypeOK
    <3>9. boot' = "up"
      BY <1>1, <2>1
    <3>. QED
      BY <3>3, <3>4, <3>5, <3>6, <3>7, <3>8, <3>9 DEF RoleInv
  <2>11. PageInv'
    BY <2>1, <2>8 DEF DataInv, PageInv
  <2>12. ChatsInv'
    <3>1. ASSUME NEW pair \in Pairs, NEW g \in Opening(pair)' PROVE g \in Opening(pair)
      <4>1. /\ g \in Handlers \ {h} /\ Active(g) /\ req'[g].op = "open" /\ req'[g].at = "create"
            /\ {req'[g].user, req'[g].other} = pair
        BY <2>5, <3>1 DEF Opening, At
      <4>2. req'[g].user \in Names /\ req'[g].other \in Names
        BY <4>1 DEF Pairs
      <4>3. req[g].op = "open" /\ req[g].at = "create"
            /\ req'[g].user = Forget(n, req[g].user) /\ req'[g].other = Forget(n, req[g].other)
        BY <2>4, <4>1
      <4>4. req'[g].user = req[g].user /\ req'[g].other = req[g].other
        BY <4>2, <4>3, DataAssumption DEF Forget
      <4>. QED
        BY <4>1, <4>3, <4>4 DEF Opening, At
    <3>. QED
      BY <2>1, <3>1, CountKept DEF DataInv
  <2>13. AloneInv'
    BY <2>4, <2>5 DEF AloneInv, AloneOK
  <2>14. FilledInv'
    BY <2>1 DEF DataInv, FilledInv, ChatIds, MayRemove
  <2>. QED
    BY <2>9, <2>10, <2>11, <2>12, <2>13, <2>14 DEF DataInv
<1>. QED
  BY <1>2, <1>3

-----------------------------------------------------------------------------
(***************************************************************************)
(* A call to the database that fails, a crash, and the seeding of a start. *)
(***************************************************************************)
\* A call that fails between two commits leaves an account cut off, without a role.
LEMMA DatabaseFailsKeeps ==
  ASSUME DataInv, NEW h \in Handlers, DatabaseFails(h)
  PROVE  DataInv'
<1>. DEFINE n == req[h].user
<1>1. /\ Active(h) /\ crashes < MaxCrashes /\ crashes' = crashes + 1 /\ boot = "up"
      /\ cut' = (IF req[h].at = "addRole" THEN cut \cup ({n} \cap accounts) ELSE cut)
      /\ req' = [req EXCEPT ![h] = Idle]
      /\ UNCHANGED <<store, pages, boot, served, admins, blurred>>
  BY DEF DatabaseFails, DataInv, RoleInv
<1>2. crashes' \in 0..MaxCrashes
  <2>1. crashes \in 0..MaxCrashes
    BY DEF DataInv, TypeOK
  <2>. QED
    BY <1>1, <2>1, DataAssumption
<1>3. Moves(h, Idle)
  BY <1>1, <1>2 DEF Moves, DataInv, TypeOK
<1>4. Paged'
  BY <1>1 DEF Paged, PageInv, DataInv, TypeOK, store, pages
<1>5. CASE ~Giving(h)
  <2>1. cut' = cut
    BY <1>1, <1>5 DEF Giving
  <2>. QED
    BY <1>1, <1>3, <1>4, <1>5, <2>1, MoveKeeps
<1>6. CASE Giving(h)
  <2>1. cut' = cut \cup {n} /\ n \in accounts \ cut /\ roles[n] = {}
    BY <1>1, <1>6, HasRoleIsNotGiven DEF Giving
  <2>2. cut' \subseteq Names
    BY <2>1 DEF DataInv, TypeOK
  <2>3. /\ req'[h] = Idle /\ \A g \in Handlers \ {h} : req'[g] = req[g]
        /\ TypeOK' /\ PageInv' /\ ChatsInv' /\ FilledInv' /\ AloneInv'
    BY <1>3, <1>4, <2>2, MoveRest
  <2>4. accounts' = accounts /\ roles' = roles /\ boot' = "up"
    BY <1>1 DEF store
  <2>5. RoleInv'
    <3>1. \A g \in Handlers : Giving(g)' => Giving(g) /\ g # h /\ req[g].user # n
      <4>1. \A g \in Handlers : Giving(g)' => Giving(g) /\ g # h
        BY <2>3, <2>4 DEF Giving, Active
      <4>. QED
        BY <1>6, <4>1 DEF DataInv, RoleInv
    <3>2. ASSUME NEW m \in accounts, m # n, Lost(m) PROVE Lost(m)'
      <4>1. PICK g \in Handlers : Active(g) /\ req[g].at = "addRole" /\ req[g].user = m
        BY <1>1, <3>2 DEF Lost, Midway
      <4>. QED
        BY <2>3, <3>2, <4>1 DEF Lost, Midway, Active
    <3>3. \A g \in Handlers : Active(g)' => ByAccount(req[g])'
      BY <2>3, <2>4 DEF DataInv, RoleInv, Active, ByAccount
    <3>4. \A g \in Handlers : Active(g)' /\ req'[g].at = "addRole" => req'[g].op \in {"register", "role"}
      BY <2>3 DEF DataInv, RoleInv, Active
    <3>5. \A g \in Handlers : Giving(g)' =>
            req'[g].fresh /\ req'[g].user \notin cut' /\ roles[req'[g].user] = {}
      BY <2>1, <2>3, <3>1, HasRoleIsNotGiven
    <3>6. \A f, g \in Handlers : Giving(f)' /\ Giving(g)' /\ req'[f].user = req'[g].user => f = g
      BY <2>3, <3>1 DEF DataInv, RoleInv
    <3>7. ASSUME NEW m \in accounts \ cut' PROVE roles[m] \in {{"Admin"}, {"User"}} \/ Lost(m)'
      <4>1. m \in accounts \ cut /\ m # n
        BY <2>1
      <4>2. roles[m] \in {{"Admin"}, {"User"}} \/ Lost(m)
        BY <4>1 DEF DataInv, RoleInv
      <4>. QED
        BY <3>2, <4>1, <4>2
    <3>. QED
      BY <2>1, <2>4, <3>3, <3>4, <3>5, <3>6, <3>7 DEF DataInv, RoleInv
  <2>. QED
    BY <2>3, <2>5 DEF DataInv
<1>. QED
  BY <1>5, <1>6

\* An account between two commits has no role.
LEMMA LostHasNone ==
  ASSUME DataInv, NEW n \in accounts, Lost(n)
  PROVE  roles[n] = {}
<1>1. CASE Midway(n)
  <2>1. PICK g \in Handlers : Giving(g) /\ req[g].user = n
    BY <1>1 DEF Midway, Giving
  <2>. QED
    BY <2>1, HasRoleIsNotGiven
<1>2. CASE ~Midway(n)
  BY <1>2 DEF Lost, DataInv, RoleInv
<1>. QED
  BY <1>1, <1>2

\* A crash does the same to all the accounts that are between two commits.
LEMMA CrashKeeps ==
  ASSUME DataInv, Crash
  PROVE  DataInv'
<1>1. /\ crashes < MaxCrashes /\ crashes' = crashes + 1 /\ boot' = "root"
      /\ cut' = cut \cup {n \in accounts : Lost(n)}
      /\ req' = [h \in Handlers |-> Idle]
      /\ UNCHANGED <<store, pages, served, admins, blurred>>
  BY DEF Crash
<1>2. crashes' \in 0..MaxCrashes
  <2>1. crashes \in 0..MaxCrashes
    BY DEF DataInv, TypeOK
  <2>. QED
    BY <1>1, <2>1, DataAssumption
<1>3. \A g \in Handlers : ~Active(g)'
  BY <1>1 DEF Active
<1>4. TypeOK'
  BY <1>1, <1>2 DEF DataInv, TypeOK, store, pages
<1>5. RoleInv'
  <2>1. accounts' = accounts /\ roles' = roles
    BY <1>1 DEF store
  <2>2. \A m \in cut' : roles[m] = {} /\ m \in accounts
    BY <1>1, LostHasNone DEF DataInv, RoleInv
  <2>3. \A m \in accounts \ cut' : roles[m] \in {{"Admin"}, {"User"}}
    BY <1>1 DEF DataInv, RoleInv
  <2>. QED
    BY <1>1, <1>3, <2>1, <2>2, <2>3 DEF DataInv, RoleInv, Giving
<1>6. PageInv' /\ FilledInv'
  BY <1>1 DEF DataInv, PageInv, FilledInv, ChatIds, store, pages
<1>7. ChatsInv'
  <2>1. chats' = chats /\ \A pair : Opening(pair)' = {}
    BY <1>1, <1>3 DEF Opening, At, store
  <2>. QED
    BY <2>1, CountKept DEF DataInv
<1>8. AloneInv'
  BY <1>3 DEF AloneInv
<1>. QED
  BY <1>4, <1>5, <1>6, <1>7, <1>8 DEF DataInv

\* The seeding of a start gives the two accounts their roles (AppSeeder).
LEMMA SeedKeeps ==
  ASSUME DataInv, SeedAdmin \/ SeedUnknownUser
  PROVE  DataInv'
<1>1. boot # "up" /\ req' = req /\ \A g \in Handlers : ~Active(g)
  BY DEF SeedAdmin, SeedUnknownUser, SeedsAccount, SeedsRole, DataInv, RoleInv
<1>2. \A g \in Handlers : ~Active(g)'
  BY <1>1 DEF Active
<1>3. /\ chats' = chats /\ messages' = messages /\ follows' = follows /\ nextRow' = nextRow
      /\ followMap' = followMap /\ listed' = listed /\ mounts' = mounts
      /\ served' = served /\ crashes' = crashes /\ cut' = cut /\ blurred' = blurred
  BY DEF SeedAdmin, SeedUnknownUser, SeedsAccount, SeedsRole, pages, history
<1>4. PageInv' /\ FilledInv' /\ AloneInv'
  BY <1>2, <1>3 DEF DataInv, PageInv, FilledInv, ChatIds, AloneInv
<1>5. ChatsInv'
  <2>1. \A pair : Opening(pair)' = {}
    BY <1>2 DEF Opening, At
  <2>. QED
    BY <1>3, <2>1, CountKept DEF DataInv
<1>6. Root \in Names /\ Unknown \in Names
  BY DEF Names
<1>7. ASSUME NEW n \in {Root, Unknown}, NEW at, NEW after \in {"unknown", "up"},
             NEW role \in {"rootRole", "unknownRole"}, SeedsAccount(at, n, after, role),
             at \in {"root", "unknown"},
             role = "rootRole" => n = Root, role = "unknownRole" => n = Unknown
      PROVE  DataInv'
  <2>1. roles' = roles /\ admins' = admins /\ n \in Names
    BY <1>6, <1>7 DEF SeedsAccount, history
  <2>2. \/ n \in accounts /\ boot' = after /\ accounts' = accounts /\ hash' = hash
        \/ n \notin accounts /\ boot' = role /\ accounts' = accounts \cup {n}
           /\ hash' = [hash EXCEPT ![n] = "old"]
    BY <1>7 DEF SeedsAccount
  <2>3. TypeOK'
    <3>1. hash' \in [Names -> {"old", "new"}]
      BY <2>2 DEF DataInv, TypeOK
    <3>2. accounts' \subseteq Names
      BY <2>1, <2>2 DEF DataInv, TypeOK
    <3>3. boot' \in {"root", "rootRole", "unknown", "unknownRole", "up"}
      BY <1>7, <2>2
    <3>. QED
      BY <1>1, <1>3, <2>1, <3>1, <3>2, <3>3 DEF DataInv, TypeOK
  <2>4. \A m \in accounts : ~Lost(m)
    BY <1>1, <1>7 DEF Lost, Midway, SeedsAccount
  <2>5. \A m \in accounts \ cut : roles[m] \in {{"Admin"}, {"User"}}
    BY <2>4 DEF DataInv, RoleInv
  <2>6. RoleInv'
    <3>1. CASE n \in accounts
      BY <1>1, <1>2, <1>3, <1>7, <2>1, <2>2, <2>5, <3>1 DEF DataInv, RoleInv, Giving
    <3>2. CASE n \notin accounts
      <4>1. roles[n] = {} /\ n \notin cut
        BY <2>1, <3>2 DEF DataInv, RoleInv
      <4>2. \A m : m = n => Lost(m)'
        BY <1>7, <2>2, <3>2 DEF Lost
      <4>3. accounts' = accounts \cup {n} /\ boot' = role
        BY <2>2, <3>2
      <4>4. \A m \in accounts' \ cut' : roles'[m] \in {{"Admin"}, {"User"}} \/ Lost(m)'
        BY <1>3, <2>1, <2>5, <4>2, <4>3
      <4>. QED
        BY <1>2, <1>3, <1>7, <2>1, <4>1, <4>3, <4>4 DEF DataInv, RoleInv, Giving
    <3>. QED
      BY <3>1, <3>2
  <2>. QED
    BY <1>4, <1>5, <2>3, <2>6 DEF DataInv
<1>8. ASSUME NEW n \in {Root, Unknown}, NEW at, NEW after \in {"unknown", "up"},
             NEW role \in Roles, SeedsRole(at, n, after, role),
             (at = "rootRole" /\ n = Root) \/ (at = "unknownRole" /\ n = Unknown)
      PROVE  DataInv'
  <2>1. /\ boot = at /\ boot' = after /\ roles' = [roles EXCEPT ![n] = @ \cup {role}]
        /\ admins' = (IF role = "Admin" THEN admins \cup {n} ELSE admins)
        /\ accounts' = accounts /\ hash' = hash /\ n \in Names
    BY <1>6, <1>8 DEF SeedsRole
  <2>2. n \in accounts \ cut /\ roles[n] = {}
    BY <1>8, <2>1 DEF DataInv, RoleInv
  <2>3. /\ roles' \in [Names -> SUBSET Roles] /\ roles'[n] = {role}
        /\ \A m \in Names : m # n => roles'[m] = roles[m]
    BY <2>1, <2>2 DEF DataInv, TypeOK
  <2>4. TypeOK'
    <3>1. admins' \subseteq Names
      BY <2>1 DEF DataInv, TypeOK
    <3>. QED
      BY <1>1, <1>3, <1>8, <2>1, <2>3, <3>1 DEF DataInv, TypeOK
  <2>5. \A m \in accounts : m # n => ~Lost(m)
    BY <1>1, <1>8, <2>1, DataAssumption DEF Lost, Midway
  <2>6. RoleInv'
    <3>1. \A m \in accounts' \ cut' : roles'[m] \in {{"Admin"}, {"User"}}
      BY <1>3, <2>1, <2>3, <2>5 DEF DataInv, RoleInv, TypeOK, Roles
    <3>2. /\ cut' \subseteq accounts' /\ \A m \in Names \ accounts' : roles'[m] = {}
          /\ \A m \in cut' : roles'[m] = {}
      BY <1>3, <2>1, <2>2, <2>3 DEF DataInv, RoleInv, TypeOK
    <3>. QED
      BY <1>2, <1>8, <2>1, <3>1, <3>2 DEF RoleInv, Giving
  <2>. QED
    BY <1>4, <1>5, <2>4, <2>6 DEF DataInv
<1>. QED
  BY <1>7, <1>8 DEF SeedAdmin, SeedUnknownUser, Roles

-----------------------------------------------------------------------------
(***************************************************************************)
(* The invariant, and what it says.                                        *)
(***************************************************************************)
\* Every step keeps the invariant.
LEMMA DataNext == DataInv /\ [Next]_vars => DataInv'
<1> SUFFICES ASSUME DataInv, [Next]_vars PROVE DataInv'
  OBVIOUS
<1>1. CASE UNCHANGED vars
  BY <1>1 DEF vars, DataInv, TypeOK, RoleInv, PageInv, ChatsInv, ChatsBounded, FilledInv, ChatIds,
     AloneInv, AloneOK, Saving, DeletionRead, ByAccount, Giving, Lost, Midway, Active, At, ChatsOf, MessagesOf, FollowsOf,
     FollowedBy
<1>2. ASSUME NEW h \in Handlers, Accounts(h) PROVE DataInv'
  BY <1>2, AccountPages, RegisterKeeps, RemoveRoleKeeps, AddRoleKeeps, ProfileSavesKeep,
     ReadChatsKeeps, ReadMessagesKeeps, ReadFollowsKeeps, DeleteUserKeeps DEF Accounts
<1>3. ASSUME NEW h \in Handlers, Conversations(h) PROVE DataInv'
  <2>1. ASSUME NEW n \in Names, NEW o \in Names,
               \/ CommunityOpens(h, n, o) \/ MyFriendsOpens(h, n, o)
               \/ AdminUsersOpens(h, n, o) \/ MakeAdminOpens(h, n, o)
        PROVE  DataInv'
    BY <2>1, ConversationPages DEF CommunityOpens, MyFriendsOpens, AdminUsersOpens, MakeAdminOpens
  <2>2. ASSUME NEW n \in Names, NEW c \in chats,
               \/ ChatsDeletes(h, n, c) \/ RoomDeletesChat(h, n, c)
               \/ AdminChatsDeletes(h, n, c) \/ AdminChatDeletes(h, n, c)
               \/ \E from, to \in Names : SendMessage(h, n, c, from, to)
        PROVE  DataInv'
    BY <2>2, ConversationPages
  <2>3. ASSUME NEW n \in Names, NEW m \in messages, RoomDeletes(h, n, m) \/ AdminDeletes(h, n, m)
        PROVE  DataInv'
    BY <2>3, ConversationPages
  <2>. QED
    BY <1>3, <2>1, <2>2, <2>3, CreateChatKeeps, ReadChatMessagesKeeps, DeleteChatKeeps,
       MessageSavesKeep DEF Conversations
<1>4. ASSUME NEW h \in Handlers, Following(h) PROVE DataInv'
  <2>1. ASSUME NEW n \in Names, CommunityLoads(h, n) \/ MyFriendsLoads(h, n)
        PROVE  DataInv'
    BY <2>1, FollowPages DEF CommunityLoads, MyFriendsLoads
  <2>2. ASSUME NEW n \in Names, NEW o \in Names,
               \/ CommunityFollows(h, n, o) \/ MyFriendsFollows(h, n, o)
               \/ CommunityUnfollows(h, n, o) \/ MyFriendsUnfollows(h, n, o)
        PROVE  DataInv'
    BY <2>2, FollowPages DEF CommunityFollows, MyFriendsFollows, CommunityUnfollows,
       MyFriendsUnfollows
  <2>. QED
    BY <1>4, <2>1, <2>2, FollowSavesKeep, GetUserFollowedKeeps, ShowsKeeps DEF Following
<1>. QED
  BY <1>1, <1>2, <1>3, <1>4, DatabaseFailsKeeps, CrashKeeps, SeedKeeps DEF Next

\* The invariant holds in every state that is reached, for any accounts, any number of
\* requests at a time and any bounds.
THEOREM DataInvariant == Spec => []DataInv
<1>. QED
  BY DataInit, DataNext, PTL DEF Spec

\* The store and the requests have their types.
THEOREM DataTypeHolds == Spec => []TypeOK
<1>1. DataInv => TypeOK
  BY DEF DataInv
<1>. QED
  BY <1>1, DataInvariant, PTL

\* Every account has one role, but between the two commits that change it or when a
\* crash left it there (AccountService.Register, MakeAnAdmin, MakeAnUser).
THEOREM OneRoleHolds == Spec => []OneRole
<1>1. DataInv => OneRole
  <2>1. Cardinality({"Admin"}) = 1 /\ Cardinality({"User"}) = 1
    BY FS_Singleton
  <2>2. \A R : R \in {{"Admin"}, {"User"}} => Cardinality(R) = 1
    BY <2>1
  <2>. QED
    BY <2>2 DEF DataInv, RoleInv, OneRole
<1>. QED
  BY <1>1, DataInvariant, PTL

\* Two accounts never share more chats than there are requests at a time
\* (ChatService.CreateChat has no unique index behind it).
THEOREM ChatsBoundedHolds == Spec => []ChatsBounded
<1>1. DataInv => ChatsBounded
  BY DEF DataInv, ChatsInv
<1>. QED
  BY <1>1, DataInvariant, PTL

\* A page whose list is up to date never follows twice (Community, MyFriends).
THEOREM FollowOnceHolds == Spec => []FollowOnce
<1>1. DataInv => FollowOnce
  BY DEF DataInv, AloneInv, AloneOK, FollowOnce, At
<1>. QED
  BY <1>1, DataInvariant, PTL

-----------------------------------------------------------------------------
(***************************************************************************)
(* What a step may do: the two action properties.                          *)
(***************************************************************************)
Begun(h) == \E r : Asks(h, r)

\* The pages begin requests, for a handler that has none.
LEMMA AccountsAre ==
  ASSUME NEW h \in Handlers, Accounts(h)
  PROVE  \/ Begun(h) \/ Register(h) \/ RemoveRole(h) \/ AddRole(h) \/ UpdateUser(h)
         \/ ResetUserPassword(h) \/ ReadChats(h) \/ ReadMessages(h) \/ ReadFollows(h)
         \/ DeleteUser(h)
<1>1. ASSUME NEW n \in Names,
             \/ RegistrationSubmits(h, n) \/ AdminUsersRegisters(h, n)
             \/ ProfileEdits(h, n) \/ ProfileResets(h, n) \/ ProfileDeletes(h, n)
      PROVE  Begun(h)
  BY <1>1 DEF Begun, Begins, RegistrationSubmits, AdminUsersRegisters, ProfileEdits, ProfileResets,
     ProfileDeletes
<1>2. ASSUME NEW n \in Names, NEW a \in Names,
             \/ MakeAnAdmin(h, a, n) \/ MakeAnUser(h, a, n)
             \/ AdminUsersEdits(h, a, n) \/ AdminUsersDeletes(h, a, n)
      PROVE  Begun(h)
  BY <1>2 DEF Begun, Begins, MakeAnAdmin, MakeAnUser, AdminUsersEdits, AdminUsersDeletes
<1>. QED
  BY <1>1, <1>2 DEF Accounts

\* The same of the pages of chats and messages.
LEMMA ConversationsAre ==
  ASSUME NEW h \in Handlers, Conversations(h)
  PROVE  \/ Begun(h) \/ CreateChat(h) \/ ReadChatMessages(h) \/ DeleteChat(h)
         \/ InsertMessage(h) \/ RemoveMessage(h)
<1>1. ASSUME NEW n \in Names, NEW o \in Names,
             \/ CommunityOpens(h, n, o) \/ MyFriendsOpens(h, n, o)
             \/ AdminUsersOpens(h, n, o) \/ MakeAdminOpens(h, n, o)
      PROVE  Begun(h)
  BY <1>1 DEF Begun, Begins, CommunityOpens, MyFriendsOpens, AdminUsersOpens, MakeAdminOpens, Opens
<1>2. ASSUME NEW n \in Names, NEW c \in chats,
             \/ ChatsDeletes(h, n, c) \/ RoomDeletesChat(h, n, c)
             \/ AdminChatsDeletes(h, n, c) \/ AdminChatDeletes(h, n, c)
             \/ \E from, to \in Names : SendMessage(h, n, c, from, to)
      PROVE  Begun(h)
  BY <1>2 DEF Begun, Begins, ChatsDeletes, RoomDeletesChat, AdminChatsDeletes, AdminChatDeletes,
     SendMessage
<1>3. ASSUME NEW n \in Names, NEW m \in messages, RoomDeletes(h, n, m) \/ AdminDeletes(h, n, m)
      PROVE  Begun(h)
  BY <1>3 DEF Begun, Begins, RoomDeletes, AdminDeletes
<1>. QED
  BY <1>1, <1>2, <1>3 DEF Conversations

\* The same of the pages of follows.
LEMMA FollowingIs ==
  ASSUME NEW h \in Handlers, Following(h)
  PROVE  Begun(h) \/ CreateUserFollow(h) \/ RemoveUserFollow(h) \/ GetUserFollowed(h) \/ Shows(h)
<1>1. ASSUME NEW n \in Names, CommunityLoads(h, n) \/ MyFriendsLoads(h, n)
      PROVE  Begun(h)
  BY <1>1 DEF Begun, Begins, CommunityLoads, MyFriendsLoads, PageLoads, Mounts, Reloads
<1>2. ASSUME NEW n \in Names, NEW o \in Names,
             \/ CommunityFollows(h, n, o) \/ MyFriendsFollows(h, n, o)
             \/ CommunityUnfollows(h, n, o) \/ MyFriendsUnfollows(h, n, o)
      PROVE  Begun(h)
  BY <1>2 DEF Begun, Begins, CommunityFollows, MyFriendsFollows, CommunityUnfollows, MyFriendsUnfollows,
     Follows, Unfollows
<1>. QED
  BY <1>1, <1>2 DEF Following

\* The hash of a stored account changes with the saves of its row only.
LEMMA HashChanges ==
  ASSUME DataInv, Next, NEW n \in accounts, hash'[n] # hash[n]
  PROVE  \E h \in Handlers :
           UpdateUser(h) \/ ResetUserPassword(h) \/ RemoveRole(h) \/ AddRole(h)
<1>1. ASSUME NEW h \in Handlers, Accounts(h)
      PROVE  UpdateUser(h) \/ ResetUserPassword(h) \/ RemoveRole(h) \/ AddRole(h)
  <2>1. ~Register(h)
    BY DEF Register, Fails, Reads, store, DataInv, TypeOK
  <2>2. ~Begun(h)
    BY DEF Begun, Asks, store
  <2>3. ~DeleteUser(h)
    BY DEF DeleteUser, Fails, Reads, store
  <2>4. ~ReadChats(h) /\ ~ReadMessages(h) /\ ~ReadFollows(h)
    BY DEF ReadChats, ReadMessages, ReadFollows, Fails, Reads, store
  <2>. QED
    BY <1>1, <2>1, <2>2, <2>3, <2>4, AccountsAre
<1>2. ASSUME NEW h \in Handlers, Conversations(h) PROVE FALSE
  BY <1>2, ConversationsAre DEF Begun, Asks, CreateChat, ReadChatMessages, DeleteChat,
     InsertMessage, RemoveMessage, Fails, Reads, store
<1>3. ASSUME NEW h \in Handlers, Following(h) PROVE FALSE
  BY <1>3, FollowingIs DEF Begun, Asks, CreateUserFollow, RemoveUserFollow, GetUserFollowed,
     Shows, Fails, Reads, store
<1>4. ~SeedAdmin /\ ~SeedUnknownUser
  BY DEF SeedAdmin, SeedUnknownUser, SeedsAccount, SeedsRole, DataInv, TypeOK
<1>5. ~Crash /\ \A h \in Handlers : ~DatabaseFails(h)
  BY DEF Crash, DatabaseFails, store
<1>. QED
  BY <1>1, <1>2, <1>3, <1>4, <1>5 DEF Next

\* Among them a reset brings no old hash, and the others the one they read, which
\* is the stored one when no other request has written since.
THEOREM PasswordKeptHolds == Spec => PasswordKept
<1>. DEFINE Kept ==
       \A n \in accounts \cap accounts' : hash[n] = "new" /\ hash'[n] = "old" =>
         \E h \in Handlers : SavesAccount(h) /\ req[h].user = n /\ ~req[h].alone
<1>1. ASSUME DataInv, [Next]_vars, NEW n \in accounts \cap accounts',
             hash[n] = "new", hash'[n] = "old"
      PROVE  \E h \in Handlers : SavesAccount(h) /\ req[h].user = n /\ ~req[h].alone
  <2>1. Next
    BY <1>1 DEF vars
  <2>2. PICK h \in Handlers : UpdateUser(h) \/ ResetUserPassword(h) \/ RemoveRole(h) \/ AddRole(h)
    BY <1>1, <2>1, HashChanges
  <2>3. hash \in [Names -> {"old", "new"}] /\ n \in Names
    BY <1>1 DEF DataInv, TypeOK
  <2>4. ~ResetUserPassword(h)
    BY <1>1, <2>3 DEF ResetUserPassword, Fails, Reads, store
  <2>5. SavesAccount(h) /\ hash' = [hash EXCEPT ![req[h].user] = req[h].hash]
    BY <1>1, <2>2, <2>4 DEF UpdateUser, RemoveRole, AddRole, SavesAccount, Fails, Reads, store
  <2>6. req[h].user = n /\ req[h].hash = "old"
    BY <1>1, <2>3, <2>5
  <2>7. Active(h) /\ Saving(req[h])
    BY <2>5 DEF SavesAccount, Saving, At
  <2>8. ~req[h].alone
    BY <1>1, <2>6, <2>7 DEF DataInv, AloneInv, AloneOK
  <2>. QED
    BY <2>5, <2>6, <2>8
<1>2. DataInv /\ [Next]_vars => [Kept]_vars
  BY <1>1
<1>. QED
  BY <1>2, DataInvariant, PTL DEF PasswordKept, Spec

\* Nobody but its handler ends a request, a crash aside.
LEMMA OthersStay ==
  ASSUME DataInv, Next, crashes' = crashes, NEW h \in Handlers, Active(h), req'[h] = Idle
  PROVE  Accounts(h) \/ Conversations(h) \/ Following(h)
<1>. DEFINE Stays(g) == \E r : req' = [req EXCEPT ![g] = r]
            Writes(g) == \E r, stale : Wrote(g, r, stale)
<1>1. req[h] \in Request /\ req \in [Handlers -> Request \cup {Idle}]
  BY ActiveTyped DEF DataInv, TypeOK
<1>2. ~Crash /\ \A g \in Handlers : ~DatabaseFails(g)
  <2>1. crashes \in 0..MaxCrashes
    BY DEF DataInv, TypeOK
  <2>. QED
    BY <2>1, DataAssumption DEF Crash, DatabaseFails
<1>3. ~SeedAdmin /\ ~SeedUnknownUser
  BY DEF SeedAdmin, SeedUnknownUser, SeedsAccount, SeedsRole, Active
<1>4. \A g \in Handlers \ {h} : ~Stays(g)
  BY <1>1, IdleIsNone
<1>5. ASSUME NEW g \in Handlers \ {h}, Writes(g) PROVE FALSE
  <2>1. PICK r, stale : Wrote(g, r, stale)
    BY <1>5
  <2>2. req'[h] = [req[h] EXCEPT !.alone = FALSE, !.fresh = @ /\ req[h].user \notin stale]
    BY <2>1 DEF Wrote
  <2>3. req'[h].op = req[h].op
    BY <1>1, <2>2 DEF Request
  <2>4. req'[h] \in Request
    <3>. DEFINE kept == req[h].fresh /\ req[h].user \notin stale
    <3>1. kept \in BOOLEAN
      OBVIOUS
    <3>2. req'[h] = [req[h] EXCEPT !.alone = FALSE, !.fresh = kept]
      BY <1>1, <2>2 DEF Request
    <3>. HIDE DEF kept
    <3>. QED
      BY <1>1, <3>1, <3>2 DEF Request
  <2>. QED
    BY <2>4, IdleIsNone
<1>6. ASSUME NEW g \in Handlers \ {h}, DeleteUser(g) PROVE FALSE
  <2>1. ~Stays(g)
    BY <1>4
  <2>2. req'[h] = Orphaned(req[h], req[g].user)
    BY <1>6, <2>1 DEF DeleteUser, Fails, Reads
  <2>. QED
    BY <1>1, <2>2, OrphanedIs, IdleIsNone
<1>7. \A g \in Handlers : Begun(g) \/ Fails(g) => Stays(g)
  BY DEF Begun, Asks, Fails, Reads
<1>8. ASSUME NEW g \in Handlers \ {h}, Accounts(g) PROVE FALSE
  <2>1. \/ Begun(g) \/ Register(g) \/ RemoveRole(g) \/ AddRole(g) \/ UpdateUser(g)
        \/ ResetUserPassword(g) \/ ReadChats(g) \/ ReadMessages(g) \/ ReadFollows(g)
        \/ DeleteUser(g)
    BY <1>8, AccountsAre
  <2>2. ReadChats(g) \/ ReadMessages(g) \/ ReadFollows(g) => Stays(g)
    BY DEF ReadChats, ReadMessages, ReadFollows, Reads, Fails
  <2>3. Register(g) \/ RemoveRole(g) => Fails(g) \/ Writes(g)
    BY DEF Register, RemoveRole
  <2>4. AddRole(g) \/ UpdateUser(g) \/ ResetUserPassword(g) => Fails(g) \/ Writes(g)
    BY DEF AddRole, UpdateUser, ResetUserPassword
  <2>. HIDE DEF Stays, Writes
  <2>. QED
    BY <1>4, <1>5, <1>6, <1>7, <2>1, <2>2, <2>3, <2>4
<1>9. ASSUME NEW g \in Handlers \ {h}, Conversations(g) PROVE FALSE
  <2>1. \/ Begun(g) \/ CreateChat(g) \/ ReadChatMessages(g) \/ DeleteChat(g)
        \/ InsertMessage(g) \/ RemoveMessage(g)
    BY <1>9, ConversationsAre
  <2>2. ReadChatMessages(g) => Stays(g)
    BY DEF ReadChatMessages, Reads
  <2>3. CreateChat(g) \/ DeleteChat(g) \/ InsertMessage(g) \/ RemoveMessage(g) => Fails(g) \/ Writes(g)
    BY DEF CreateChat, DeleteChat, InsertMessage, RemoveMessage
  <2>. HIDE DEF Stays, Writes
  <2>. QED
    BY <1>4, <1>5, <1>7, <2>1, <2>2, <2>3
<1>10. ASSUME NEW g \in Handlers \ {h}, Following(g) PROVE FALSE
  <2>1. Begun(g) \/ CreateUserFollow(g) \/ RemoveUserFollow(g) \/ GetUserFollowed(g) \/ Shows(g)
    BY <1>10, FollowingIs
  <2>2. GetUserFollowed(g) \/ Shows(g) => Stays(g)
    BY DEF GetUserFollowed, Shows, Reads
  <2>3. CreateUserFollow(g) \/ RemoveUserFollow(g) => Fails(g) \/ Writes(g)
    BY DEF CreateUserFollow, RemoveUserFollow
  <2>. HIDE DEF Stays, Writes
  <2>. QED
    BY <1>4, <1>5, <1>7, <2>1, <2>2, <2>3
<1>. QED
  BY <1>2, <1>3, <1>8, <1>9, <1>10 DEF Next

\* A handler's read leaves its request where the next call is made.
LEMMA ReadsOn ==
  ASSUME DataInv, NEW h \in Handlers, req'[h] = Idle, Active(h)
  PROVE  /\ ~ReadChats(h) /\ ~ReadMessages(h) /\ ~ReadChatMessages(h) /\ ~GetUserFollowed(h)
         /\ ReadFollows(h) => Unknown \notin accounts
<1>. DEFINE q == req[h]
<1>1. q \in Request /\ req \in [Handlers -> Request \cup {Idle}] /\ q.op # Idle.op
  BY ActiveTyped DEF DataInv, TypeOK, Request, Idle
<1>2. ~ReadChats(h)
  <2>1. ASSUME ReadChats(h) PROVE req'[h].op = q.op
    BY <1>1, <2>1 DEF ReadChats, Reads, Request
  <2>. QED
    BY <1>1, <2>1
<1>3. ~ReadMessages(h)
  <2>1. ASSUME ReadMessages(h) PROVE req'[h].op = q.op
    BY <1>1, <2>1 DEF ReadMessages, Reads, Request
  <2>. QED
    BY <1>1, <2>1
<1>4. ~ReadChatMessages(h)
  <2>1. ASSUME ReadChatMessages(h) PROVE req'[h].op = q.op
    BY <1>1, <2>1 DEF ReadChatMessages, Reads, Request
  <2>. QED
    BY <1>1, <2>1
<1>5. ~GetUserFollowed(h)
  <2>1. ASSUME GetUserFollowed(h) PROVE req'[h].op = q.op
    BY <1>1, <2>1 DEF GetUserFollowed, Reads, Request
  <2>. QED
    BY <1>1, <2>1
<1>6. ReadFollows(h) => Unknown \notin accounts
  <2>1. ASSUME ReadFollows(h), Unknown \in accounts PROVE req'[h].op = q.op
    BY <1>1, <2>1 DEF ReadFollows, Reads, Request
  <2>. QED
    BY <1>1, <2>1
<1>. QED
  BY <1>2, <1>3, <1>4, <1>5, <1>6

\* The save of a deletion, if it succeeds, leaves nothing of what it deletes.
LEMMA AccountGoes ==
  ASSUME DataInv, NEW h \in Handlers, DeleteUser(h), MayRemove(req[h]),
         NEW n \in Names, req[h].user = n
  PROVE  AccountGone(n)' /\ \A c \in ChatsOf(n) : ChatGone(c.id)'
<1>. DEFINE q == req[h]
<1>1. /\ accounts' = accounts \ {n} /\ roles' = [roles EXCEPT ![n] = {}]
      /\ chats' = {c \in chats : c.id \notin q.chats} /\ messages' = messages \ q.messages
      /\ follows' = follows \ q.follows
  BY DEF DeleteUser
<1>2. \A c \in ChatsOf(n) : c.id \in q.chats
  BY DEF MayRemove
<1>3. FollowsOf(n) \subseteq q.follows
  BY DEF MayRemove
<1>4. \A m \in messages \ q.messages : m.chat \notin q.chats /\ n \notin {m.from, m.to}
  BY DEF MayRemove
<1>5. roles \in [Names -> SUBSET Roles]
  BY DEF DataInv, TypeOK
<1>. QED
  BY <1>1, <1>2, <1>3, <1>4, <1>5 DEF AccountGone, ChatGone, ChatsOf, FollowsOf, ChatIds, MessagesOf

\* A deletion that runs alone removes what it is about and all that refers to it,
\* but for the two cases in which the code fails.
THEOREM DeletionSucceedsAloneHolds == Spec => DeletionSucceedsAlone
<1>. DEFINE Succeeds ==
       \A h \in Handlers : Ends(h) =>
         /\ \A n \in Names : req[h].op = "delete" /\ req[h].user = n =>
              \/ AccountGone(n)' /\ \A c \in ChatsOf(n) : ChatGone(c.id)'
              \/ NamedElsewhere(n) \/ Unknown \notin accounts
         /\ \A id \in Rows : req[h].op = "deleteChat" /\ req[h].row = id => ChatGone(id)'
<1>1. ASSUME DataInv, [Next]_vars, NEW h \in Handlers, Ends(h)
      PROVE  \/ Begun(h) \/ Register(h) \/ RemoveRole(h) \/ AddRole(h) \/ UpdateUser(h)
             \/ ResetUserPassword(h) \/ ReadFollows(h) \/ DeleteUser(h)
             \/ CreateChat(h) \/ DeleteChat(h) \/ InsertMessage(h) \/ RemoveMessage(h)
             \/ CreateUserFollow(h) \/ RemoveUserFollow(h) \/ Shows(h)
  <2>1. Next /\ Active(h) /\ req'[h] = Idle /\ crashes' = crashes
    BY <1>1 DEF vars, Active, Ends
  <2>2. Accounts(h) \/ Conversations(h) \/ Following(h)
    BY <1>1, <2>1, OthersStay
  <2>3. ~ReadChats(h) /\ ~ReadMessages(h) /\ ~ReadChatMessages(h) /\ ~GetUserFollowed(h)
    BY <1>1, <2>1, ReadsOn
  <2>. QED
    BY <2>2, <2>3, AccountsAre, ConversationsAre, FollowingIs
<1>2. ASSUME DataInv, NEW h \in Handlers, Ends(h)
      PROVE  /\ ~Begun(h) /\ Active(h) /\ req'[h] = Idle /\ req[h].alone
             /\ Shows(h) => req[h].op \in {"load", "follow", "unfollow"}
  BY <1>2 DEF Ends, Begun, Asks, Shows, DataInv, AloneInv, AloneOK
<1>3. ASSUME DataInv, [Next]_vars, NEW h \in Handlers, Ends(h), NEW n \in Names,
             req[h].op = "delete", req[h].user = n
      PROVE  \/ AccountGone(n)' /\ \A c \in ChatsOf(n) : ChatGone(c.id)'
             \/ NamedElsewhere(n) \/ Unknown \notin accounts
  <2>. DEFINE q == req[h]
  <2>1. Active(h) /\ req'[h] = Idle /\ q.alone
    BY <1>2, <1>3
  <2>2. ReadFollows(h) \/ DeleteUser(h)
    BY <1>1, <1>2, <1>3 DEF Register, RemoveRole, AddRole, UpdateUser, ResetUserPassword,
       CreateChat, DeleteChat, InsertMessage, RemoveMessage, CreateUserFollow, RemoveUserFollow, At
  <2>3. CASE ReadFollows(h)
    BY <1>3, <2>1, <2>3, ReadsOn
  <2>4. CASE DeleteUser(h) /\ MayRemove(q)
    BY <1>3, <2>4, AccountGoes
  <2>5. CASE DeleteUser(h) /\ ~MayRemove(q)
    <3>1. q.at = "save" /\ DeletionRead(q)
      BY <1>3, <2>1, <2>5 DEF DeleteUser, At, DataInv, AloneInv, AloneOK
    <3>2. /\ q.user \in accounts /\ q.fresh /\ q.chats = {c.id : c \in ChatsOf(n)}
          /\ q.messages = MessagesOf(q.chats) /\ q.follows = FollowsOf(n)
      BY <1>3, <3>1 DEF DeletionRead
    <3>3. q.chats \subseteq ChatIds /\ q.messages \subseteq messages /\ q.follows \subseteq follows
      BY <3>2 DEF ChatIds, ChatsOf, MessagesOf, FollowsOf
    <3>4. PICK m \in messages \ q.messages : m.chat \in q.chats \/ n \in {m.from, m.to}
      BY <1>3, <2>5, <3>2, <3>3 DEF MayRemove
    <3>5. n \in {m.from, m.to} /\ \A c \in ChatsOf(n) : c.id # m.chat
      BY <3>2, <3>4 DEF MessagesOf
    <3>. QED
      BY <3>5 DEF NamedElsewhere
  <2>. QED
    BY <2>2, <2>3, <2>4, <2>5
<1>4. ASSUME DataInv, [Next]_vars, NEW h \in Handlers, Ends(h), NEW id \in Rows,
             req[h].op = "deleteChat", req[h].row = id
      PROVE  ChatGone(id)'
  <2>. DEFINE q == req[h]
  <2>1. Active(h) /\ q.alone
    BY <1>2, <1>4
  <2>2. DeleteChat(h)
    BY <1>1, <1>2, <1>4 DEF Register, RemoveRole, AddRole, UpdateUser, ResetUserPassword,
       ReadFollows, DeleteUser, CreateChat, InsertMessage, RemoveMessage, CreateUserFollow,
       RemoveUserFollow, At
  <2>3. q.at = "save" /\ q.messages = MessagesOf({id})
    BY <1>4, <2>1, <2>2 DEF DeleteChat, At, DataInv, AloneInv, AloneOK
  <2>4. CASE MayRemoveChat(q)
    BY <1>4, <2>2, <2>3, <2>4 DEF DeleteChat, ChatGone, ChatIds, MessagesOf, MayRemoveChat,
       Fails, Reads
  <2>5. CASE ~MayRemoveChat(q)
    <3>1. id \notin ChatIds
      BY <1>4, <2>3, <2>5 DEF MayRemoveChat, MessagesOf
    <3>2. chats' = chats /\ messages' = messages
      BY <2>2, <2>5 DEF DeleteChat, Fails, Reads, store
    <3>. QED
      BY <1>4, <3>1, <3>2 DEF ChatGone, ChatIds, MessagesOf, DataInv, FilledInv
  <2>. QED
    BY <2>4, <2>5
<1>5. DataInv /\ [Next]_vars => [Succeeds]_vars
  BY <1>3, <1>4
<1>. QED
  BY <1>5, DataInvariant, PTL DEF DeletionSucceedsAlone, Spec
=============================================================================
