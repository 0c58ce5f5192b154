--------------------------- MODULE ChatGrpcStream ---------------------------
(***************************************************************************)
(* Sending and streaming chat messages over gRPC: MessageService (insert   *)
(* the row, then publish it on the bus), the StreamChat handler (subscribe *)
(* to the bus, catch up from the database, then emit what the bus brings)  *)
(* and the bus itself, which ChatMessageBus models.                        *)
(*                                                                         *)
(* A message is named by its id.  A call of StreamChat is a subscriber of  *)
(* the bus.  The database is external: an insert takes the next id and is  *)
(* visible to every later query in one step (SQL Server's IDENTITY, one    *)
(* autocommitted INSERT, and readers that wait for uncommitted rows).      *)
(***************************************************************************)
EXTENDS ChatMessageBus

ASSUME StreamAssumption == Messages \subseteq Nat \ {0}

VARIABLES
  issued,    (* the newest id the database has given out, 0 at first       *)
  db,        (* the ids of the rows in table Messages                      *)
  phase,     (* where each StreamChat call is                              *)
  since,     (* request.SinceMessageId of each call                        *)
  lastId,    (* the handler's local variable `lastId'                      *)
  rows,      (* rows of the catch-up query not yet written                 *)
  emitted,   (* history: the ids written to each response stream           *)
  gaveUp,    (* history: the catch-up ended in its catch block             *)
  inOrder    (* history: no Publish began before an older one of its chat  *)
             (* was over                                                   *)

sessionVars == <<phase, since, lastId, rows, emitted, gaveUp>>
streamVars  == <<issued, db, sessionVars, inOrder>>
vars        == <<busVars, streamVars>>

InChat(s, m) == MsgChat[m] = SubChat[s]

(***************************************************************************)
(* Mutants, as in ChatMessageBus.                                          *)
(***************************************************************************)
\* For CatchUpQuery: it does not wait for Subscribe, which then never comes.
CatchUpQueryUnsubscribed(s) ==
  /\ phase[s] = "subscribing"
  /\ rows' = [rows EXCEPT ![s] = {m \in db : InChat(s, m) /\ m > lastId[s]}]
  /\ phase' = [phase EXCEPT ![s] = "streaming"]
  /\ UNCHANGED <<busVars, issued, db, since, lastId, emitted, gaveUp, inOrder>>

\* For Passes: the test is < where it should be <=.
PassesAgain(s, m) == InChat(s, m) /\ m >= lastId[s]

(***************************************************************************)
(* Type invariant of the streams; the bus has its own.                     *)
(***************************************************************************)
TypeOK ==
  /\ BusTypeOK
  /\ issued \in Messages \union {0}
  /\ db \subseteq Messages
  /\ phase \in [Subs -> {"idle", "subscribing", "streaming", "ended"}]
  /\ since \in [Subs -> Messages \union {0}]
  /\ lastId \in [Subs -> Messages \union {0}]
  /\ rows \in [Subs -> SUBSET Messages]
  /\ emitted \in [Subs -> Seq(Messages)]
  /\ gaveUp \in [Subs -> BOOLEAN]
  /\ inOrder \in [Chats -> BOOLEAN]

Init ==
  /\ BusInit
  /\ issued = 0
  /\ db = {}
  /\ phase = [s \in Subs |-> "idle"]
  /\ since = [s \in Subs |-> 0]
  /\ lastId = [s \in Subs |-> 0]
  /\ rows = [s \in Subs |-> {}]
  /\ emitted = [s \in Subs |-> <<>>]
  /\ gaveUp = [s \in Subs |-> FALSE]
  /\ inOrder = [c \in Chats |-> TRUE]

-----------------------------------------------------------------------------
(* MessageService *)

\* SaveChangesAsync of SendMessage: the row is in the table and has its id.
Insert(m) ==
  /\ m > issued
  /\ \A k \in Messages : k < m => k <= issued
  /\ issued' = m
  /\ db' = db \union {m}
  /\ UNCHANGED <<busVars, sessionVars, inOrder>>

\* _messageBus.Publish(message), called by the same SendMessage once it has the id.
Publish(m) ==
  /\ m <= issued
  /\ PublishLookup(m)
  /\ inOrder' = [inOrder EXCEPT ![MsgChat[m]] =
       @ /\ \A k \in Messages : k < m /\ MsgChat[k] = MsgChat[m] => pubPc[k] = "done"]
  /\ UNCHANGED <<issued, db, sessionVars>>

DeleteMessage(m) ==
  /\ m \in db
  /\ db' = db \ {m}
  /\ UNCHANGED <<busVars, issued, sessionVars, inOrder>>

-----------------------------------------------------------------------------
(* StreamChat *)

\* The call is authorised; `lastId' starts at the id the client asks to resume after.
Call(s, n) ==
  /\ phase[s] = "idle"
  /\ n <= issued
  /\ phase' = [phase EXCEPT ![s] = "subscribing"]
  /\ since' = [since EXCEPT ![s] = n]
  /\ lastId' = [lastId EXCEPT ![s] = n]
  /\ UNCHANGED <<busVars, issued, db, rows, emitted, gaveUp, inOrder>>

\* Not the caller's identity, no such chat, or not one of its members.
Refuse(s) ==
  /\ phase[s] = "idle"
  /\ phase' = [phase EXCEPT ![s] = "ended"]
  /\ UNCHANGED <<busVars, issued, db, since, lastId, rows, emitted, gaveUp, inOrder>>

Subscribe(s) ==
  /\ phase[s] = "subscribing"
  /\ SubscribeStep(s)
  /\ UNCHANGED streamVars

\* GetMessagesForChatAfterId, once Subscribe has returned.
CatchUpQuery(s) ==
  /\ phase[s] = "subscribing" /\ subPc[s] = "subscribed"
  /\ rows' = [rows EXCEPT ![s] = {m \in db : InChat(s, m) /\ m > lastId[s]}]
  /\ phase' = [phase EXCEPT ![s] = "streaming"]
  /\ UNCHANGED <<busVars, issued, db, since, lastId, emitted, gaveUp, inOrder>>

\* The query, or a WriteAsync to a call that is gone, throws: logged, and on to the live loop.
CatchUpFails(s) ==
  /\ \/ phase[s] = "subscribing" /\ subPc[s] = "subscribed"
     \/ phase[s] = "streaming" /\ rows[s] # {} /\ cancelled[s]
  /\ phase' = [phase EXCEPT ![s] = "streaming"]
  /\ rows' = [rows EXCEPT ![s] = {}]
  /\ gaveUp' = [gaveUp EXCEPT ![s] = TRUE]
  /\ UNCHANGED <<busVars, issued, db, since, lastId, emitted, inOrder>>

Emit(s, m) ==
  /\ emitted' = [emitted EXCEPT ![s] = Append(@, m)]
  /\ lastId' = [lastId EXCEPT ![s] = m]

\* The rows come ordered by id: the next one is the smallest.
CatchUpEmit(s) ==
  \E m \in rows[s] :
    /\ phase[s] = "streaming"
    /\ \A k \in rows[s] : m <= k
    /\ Emit(s, m)
    /\ rows' = [rows EXCEPT ![s] = @ \ {m}]
    /\ UNCHANGED <<busVars, issued, db, phase, since, gaveUp, inOrder>>

Passes(s, m) == InChat(s, m) /\ m > lastId[s]

LiveEmit(s) ==
  /\ phase[s] = "streaming" /\ rows[s] = {}
  /\ Read(s)
  /\ IF Passes(s, Head(chan[s])) THEN Emit(s, Head(chan[s])) ELSE UNCHANGED <<emitted, lastId>>
  /\ UNCHANGED <<issued, db, phase, since, rows, gaveUp, inOrder>>

\* ReadAllAsync, or a WriteAsync, throws once the call's token has fired.
StreamEnds(s) ==
  /\ phase[s] = "streaming" /\ rows[s] = {} /\ cancelled[s]
  /\ phase' = [phase EXCEPT ![s] = "ended"]
  /\ UNCHANGED <<busVars, issued, db, since, lastId, rows, emitted, gaveUp, inOrder>>

-----------------------------------------------------------------------------
\* What the bus does on its own: the token fires and its callback runs, a Publish goes on.
BusStep ==
  /\ \/ \E s \in Subs : Cancel(s) \/ CallbackStep(s)
     \/ \E m \in Messages : PublishStep(m)
  /\ UNCHANGED streamVars

Next ==
  \/ \E m \in Messages : Insert(m) \/ Publish(m) \/ DeleteMessage(m)
  \/ \E s \in Subs :
       \/ \E n \in Messages \union {0} : Call(s, n)
       \/ Refuse(s) \/ Subscribe(s) \/ CatchUpQuery(s) \/ CatchUpFails(s)
       \/ CatchUpEmit(s) \/ LiveEmit(s) \/ StreamEnds(s)
  \/ BusStep

Spec == Init /\ [][Next]_vars

(***************************************************************************)
(* Handlers run on once started, and a SendMessage that has inserted its   *)
(* row goes on to publish it; the process is taken not to crash.  Clients  *)
(* owe nothing, and the database may refuse any catch-up query.            *)
(***************************************************************************)
Fairness ==
  /\ \A m \in Messages : WF_vars(Publish(m)) /\ WF_vars(PublishStep(m) /\ UNCHANGED streamVars)
  /\ \A s \in Subs :
       /\ WF_vars(Subscribe(s))
       /\ WF_vars(CatchUpQuery(s) \/ CatchUpFails(s))
       /\ WF_vars(CatchUpEmit(s) \/ LiveEmit(s))

FairSpec == Spec /\ Fairness

-----------------------------------------------------------------------------
(* Properties *)

(***************************************************************************)
(* A response stream carries ids of its own chat, past the one the client  *)
(* asked to resume after, each bigger than the one before, so none twice,  *)
(* although the catch-up rows and the bus both bring them.                 *)
(***************************************************************************)
StreamOrdered ==
  \A s \in Subs :
    LET e == emitted[s]
    IN /\ \A i \in DOMAIN e : InChat(s, e[i]) /\ since[s] < e[i] /\ e[i] <= issued
       /\ \A i, j \in DOMAIN e : i < j => e[i] < e[j]

(***************************************************************************)
(* Why: the inductive invariant.                                           *)
(***************************************************************************)
\* What is in the database, on the bus or in a channel has an id that was given out.
OnlyIssued ==
  /\ \A m \in db : m <= issued
  /\ \A m \in Messages : pubPc[m] # "idle" => m <= issued
  /\ \A s \in Subs, m \in Messages : Holds(s, m) => m <= issued

\* lastId is where the stream has got to: past all it emitted, short of all its rows.
CursorBetween ==
  \A s \in Subs :
    /\ phase[s] = "idle" => since[s] = 0 /\ lastId[s] = 0
    /\ phase[s] \in {"idle", "subscribing"} => emitted[s] = <<>> /\ rows[s] = {}
    /\ since[s] <= lastId[s] /\ lastId[s] <= issued
    /\ \A k \in rows[s] : InChat(s, k) /\ lastId[s] < k /\ k <= issued
    /\ \A i \in DOMAIN emitted[s] : emitted[s][i] <= lastId[s]

StreamInv == OnlyIssued /\ CursorBetween /\ StreamOrdered

Emitted(s) == RangeOf(emitted[s])

\* The stream has m to emit, or has done so.
Owed(s, m) ==
  /\ phase[s] = "streaming" /\ m \in db /\ InChat(s, m) /\ since[s] < m

\* The catch-up has m among its rows, or m is emitted.
Caught(s, m) == m \in Emitted(s) \union rows[s]

\* Publish(m) has yet to write to s.
Coming(s, m) == pubPc[m] \in {"idle", "found"} \/ s \in pubLeft[m]

Excused(s) == cancelled[s] \/ gaveUp[s] \/ Rivals(s) # {}

(***************************************************************************)
(* No message falls between the catch-up and the live stream: as long as   *)
(* its chat's messages are published one at a time in id order, a message  *)
(* past `since' that is still in the database has been emitted, or is      *)
(* among the rows, in the channel or still to be published, or the channel *)
(* overflowed.  Excused are streams that were cancelled, whose catch-up    *)
(* failed, or that a rival removal may have cut off from the bus.          *)
(***************************************************************************)
NoGapWhenInOrder ==
  \A s \in Subs, m \in Messages :
    Owed(s, m) /\ inOrder[SubChat[s]] /\ ~Excused(s)
      => \/ Caught(s, m) \/ m \in dropped[s]
         \/ m \in RangeOf(chan[s]) /\ m > lastId[s]
         \/ Coming(s, m)

(***************************************************************************)
(* Why: the rest of its inductive invariant.                               *)
(***************************************************************************)
\* A stream has subscribed before it queries, from where the client asked it to resume.
SubscribedFirst ==
  \A s \in Subs :
    /\ phase[s] = "streaming" => subPc[s] = "subscribed"
    /\ phase[s] = "subscribing" => lastId[s] = since[s]

\* While a chat's publishing is in order, what one Publish has begun, the older ones are done with.
OrderedPublish ==
  \A m, k \in Messages :
    inOrder[MsgChat[m]] /\ MsgChat[k] = MsgChat[m] /\ k < m /\ pubPc[m] # "idle"
      => pubPc[k] = "done"

\* No subscriber holds a message that Publish has yet to write to it.
HeldOnce == \A s \in Subs, m \in Messages : Coming(s, m) => ~Holds(s, m)

\* Then the ids in a channel ascend, too.
Ascends(seq) == \A i, j \in DOMAIN seq : i < j => seq[i] < seq[j]

ChannelAscends == \A s \in Subs : inOrder[SubChat[s]] => Ascends(chan[s])

(***************************************************************************)
(* What the catch-up is trusted with.  Its rows have no holes; a message   *)
(* the cursor has passed by was published, unless the catch-up has it; and *)
(* one whose Publish began before the stream had subscribed, it has.       *)
(***************************************************************************)
CatchUpHas ==
  \A s \in Subs, m \in Messages : Owed(s, m) /\ ~gaveUp[s] =>
    /\ \A k \in rows[s] : m <= k => Caught(s, m)
    /\ inOrder[SubChat[s]] /\ m <= lastId[s] => Caught(s, m) \/ pubPc[m] = "done"
    /\ ~Excused(s) /\ pubPc[m] # "idle" /\ s \notin audience[m] => Caught(s, m)

NoGapInv ==
  /\ SubscribedFirst /\ OrderedPublish /\ HeldOnce /\ ChannelAscends
  /\ CatchUpHas /\ NoGapWhenInOrder

(***************************************************************************)
(* The live loop's comment: "Push streaming: emit new messages as they are *)
(* created."  A message of the database, past the one the client asked to  *)
(* resume after, that the loop has taken from its channel was emitted, by  *)
(* the loop or by a catch-up that went well.  Two senders break it: see    *)
(* the run stream_overtaken.                                               *)
(***************************************************************************)
EmitsWhatItReads ==
  \A s \in Subs : ~gaveUp[s] =>
    \A m \in RangeOf(got[s]) \intersect db : m > since[s] => m \in Emitted(s)

(***************************************************************************)
(* The handler implements the ordered feed.                                *)
(***************************************************************************)
Feed == INSTANCE OrderedFeed WITH
  Readers <- Subs, Ids <- Messages,
  Wanted <- [s \in Subs |-> {m \in Messages : InChat(s, m)}],
  cursor <- lastId, delivered <- emitted

ImplementsFeed == Feed!FeedSpec

(***************************************************************************)
(* A stream that stays up gets to see every message: published in order to *)
(* a stream no one cancels, a row that stays is emitted sooner or later.   *)
(***************************************************************************)
EventuallyEmitted ==
  \A s \in Subs, m \in Messages :
    Owed(s, m) ~> \/ m \in Emitted(s) \union dropped[s] \/ m \notin db
                  \/ Excused(s) \/ ~inOrder[SubChat[s]]
=============================================================================
