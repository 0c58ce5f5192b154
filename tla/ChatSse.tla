-------------------------------- MODULE ChatSse --------------------------------
(***************************************************************************)
(* The server side of the SSE chat, for one chat: ChatSseController, which *)
(* opens a stream, greets it and keeps it alive; ChatSseService, which     *)
(* lists the writers of the open streams and writes each message to all of *)
(* them; and the request of MessageController that saves a message, has it *)
(* written and answers its sender.                                         *)
(*                                                                         *)
(* A StreamWriter is for one writer at a time, and nothing here sees to    *)
(* that: two messages, or a message and a keep-alive, may meet on one.     *)
(* The write that comes second throws (InvalidOperationException), or the  *)
(* two mix in the buffer and what the client reads is either or neither.   *)
(***************************************************************************)
CONSTANTS
  Streams,   (* the requests for the chat's stream, one after the other or at once *)
  Messages,
  Controller (* who writes greetings and keep-alives                       *)

ASSUME SseAssumption == Controller \notin Messages /\ "idle" \notin Messages

VARIABLES
  req,      (* where the request for a stream is                           *)
  clients,  (* the list of writers, _clients[chatId]                       *)
  writer,   (* who is at work on a StreamWriter                            *)
  gone,     (* the streams whose client has left (RequestAborted)          *)
  pc,       (* where a message's request is                                *)
  snapshot, (* the clients it found listed                                 *)
  left,     (* those still to be written to                                *)
  at,       (* the one it is writing to                                    *)
  failed,   (* those whose write threw                                     *)
  dead,     (* history: those that were over before the snapshot           *)
  got,      (* the messages a client has been written                      *)
  met       (* history: the streams two writes met on                      *)

streamVars == <<req, clients, writer, gone>>
loopVars   == <<snapshot, left, at, failed, dead>>
vars == <<streamVars, pc, loopVars, got, met>>

Open == {"greeting", "idle", "keeping"}
Over == {"ended", "threw"}
Idle == "idle"  \* nobody's at a writer

TypeOK ==
  /\ req \in [Streams -> {"none"} \cup Open \cup Over]
  /\ clients \subseteq Streams
  /\ writer \in [Streams -> Messages \cup {Controller, Idle}]
  /\ gone \subseteq Streams
  /\ pc \in [Messages -> {"none", "saved", "writing", "answered"}]
  /\ snapshot \in [Messages -> SUBSET Streams] /\ left \in [Messages -> SUBSET Streams]
  /\ at \in [Messages -> SUBSET Streams]
  /\ \A m \in Messages : \A s, t \in at[m] : s = t
  /\ failed \in [Messages -> SUBSET Streams] /\ dead \in [Messages -> SUBSET Streams]
  /\ \A s \in Streams : writer[s] \in Messages => s \in at[writer[s]]
  /\ got \in [Streams -> SUBSET Messages] /\ met \subseteq Streams

Init ==
  /\ req = [s \in Streams |-> "none"] /\ clients = {}
  /\ writer = [s \in Streams |-> Idle] /\ gone = {}
  /\ pc = [m \in Messages |-> "none"]
  /\ snapshot = [m \in Messages |-> {}] /\ left = [m \in Messages |-> {}]
  /\ at = [m \in Messages |-> {}] /\ failed = [m \in Messages |-> {}]
  /\ dead = [m \in Messages |-> {}]
  /\ got = [s \in Streams |-> {}] /\ met = {}

-----------------------------------------------------------------------------
(* The stream's own request: ChatSseController.GetStream.                   *)

Begin(s, who) == writer' = [writer EXCEPT ![s] = who]

\* For Opens: every stream gets a new list.
OpensAlone(s) ==
  /\ req[s] = "none"
  /\ req' = [req EXCEPT ![s] = "greeting"]
  /\ clients' = {s}
  /\ UNCHANGED <<writer, gone, pc, loopVars, got, met>>

\* AddClient; the greeting follows at once.
Opens(s) ==
  /\ req[s] = "none"
  /\ req' = [req EXCEPT ![s] = "greeting"]
  /\ clients' = clients \cup {s}
  /\ UNCHANGED <<writer, gone, pc, loopVars, got, met>>

\* For Ends: RemoveClient is not reached.
EndsListed(s, how) ==
  /\ req' = [req EXCEPT ![s] = how]
  /\ UNCHANGED clients

\* The request is over by the finally block, with RemoveClient, or (threw) by an exception of the
\* greeting, which is written before the try.
Ends(s, how) ==
  /\ req' = [req EXCEPT ![s] = how]
  /\ clients' = IF how = "ended" THEN clients \ {s} ELSE clients

Outcome(s) == IF req[s] = "greeting" THEN "threw" ELSE "ended"

\* The controller's lines (greeting or keep-alive) go to a writer nobody is at.
Writes(s) ==
  /\ req[s] \in {"greeting", "idle"} /\ writer[s] = Idle
  /\ Begin(s, Controller)
  /\ req' = [req EXCEPT ![s] = IF req[s] = "idle" THEN "keeping" ELSE "greeting"]
  /\ UNCHANGED <<clients, gone, pc, loopVars, got, met>>

\* They meet a message that is being written: the controller catches no InvalidOperationException.
Meets(s) ==
  /\ req[s] \in {"greeting", "idle"} /\ writer[s] \in Messages
  /\ met' = met \cup {s}
  /\ \/ Ends(s, Outcome(s))
     \/ req' = [req EXCEPT ![s] = "idle"] /\ UNCHANGED clients
  /\ UNCHANGED <<writer, gone, pc, loopVars, got>>

\* The lines are flushed, unless a message has met them: then the controller's
\* next write may be the one that throws.
Written(s) ==
  /\ req[s] \in {"greeting", "keeping"} /\ writer[s] = Controller
  /\ Begin(s, Idle)
  /\ \/ req' = [req EXCEPT ![s] = "idle"] /\ UNCHANGED clients
     \/ s \in met /\ Ends(s, Outcome(s))
  /\ UNCHANGED <<gone, pc, loopVars, got, met>>

\* The client leaves; an EventSource that comes back by itself is another stream.
Leaves(s) ==
  /\ req[s] \in Open /\ s \notin gone
  /\ gone' = gone \cup {s}
  /\ UNCHANGED <<req, clients, writer, pc, loopVars, got, met>>

\* RequestAborted, or an IOException of a write.
Aborts(s) ==
  /\ s \in gone /\ req[s] \in Open
  /\ Ends(s, Outcome(s))
  /\ writer' = IF writer[s] = Controller THEN [writer EXCEPT ![s] = Idle] ELSE writer
  /\ UNCHANGED <<gone, pc, loopVars, got, met>>

-----------------------------------------------------------------------------
(* A message: MessageController.SendMessage and SendMessageAsync.           *)

Save(m) ==
  /\ pc[m] = "none"
  /\ pc' = [pc EXCEPT ![m] = "saved"]
  /\ UNCHANGED <<streamVars, loopVars, got, met>>

\* "snapshot = list.ToList()"
Snapshot(m) ==
  /\ pc[m] = "saved"
  /\ pc' = [pc EXCEPT ![m] = "writing"]
  /\ snapshot' = [snapshot EXCEPT ![m] = clients]
  /\ left' = [left EXCEPT ![m] = clients]
  /\ dead' = [dead EXCEPT ![m] = {s \in clients : req[s] \in Over}]
  /\ UNCHANGED <<streamVars, at, failed, got, met>>

\* The loop turns to one of the clients left.
Turn(m, s) ==
  /\ pc[m] = "writing" /\ at[m] = {} /\ s \in left[m]
  /\ UNCHANGED <<req, clients, gone, pc, snapshot, dead, got>>

\* The three writes to one client; its request may be over by now, and the writer closed.
WriteTo(m, s) ==
  /\ Turn(m, s)
  /\ writer[s] = Idle /\ req[s] \in Open
  /\ Begin(s, m)
  /\ left' = [left EXCEPT ![m] = @ \ {s}]
  /\ at' = [at EXCEPT ![m] = {s}]
  /\ UNCHANGED <<failed, met>>

\* For WriteFails: the loop is given up on, the rest of the clients with it.
WriteFailsAll(m, s) ==
  /\ Turn(m, s)
  /\ \/ req[s] \in Over /\ UNCHANGED met
     \/ req[s] \in Open /\ writer[s] # Idle /\ met' = met \cup {s}
  /\ left' = [left EXCEPT ![m] = {}]
  /\ failed' = [failed EXCEPT ![m] = @ \cup {s}]
  /\ UNCHANGED <<writer, at>>

\* Another writes to the client, or its request is over: caught, "failed.Add(client)"; or mixed up.
WriteFails(m, s) ==
  /\ Turn(m, s)
  /\ \/ /\ req[s] \in Over
        /\ failed' = [failed EXCEPT ![m] = @ \cup {s}]
        /\ UNCHANGED met
     \/ /\ req[s] \in Open /\ writer[s] # Idle
        /\ \E thrown \in SUBSET {s} : failed' = [failed EXCEPT ![m] = @ \cup thrown]
        /\ met' = met \cup {s}
  /\ left' = [left EXCEPT ![m] = @ \ {s}]
  /\ UNCHANGED <<writer, at>>

\* The client's write is flushed: it has been written the message, unless others met it there.  A
\* client that has gone is written to in vain, without or with an exception.
Flushed(m, s) ==
  /\ s \in at[m]
  /\ IF writer[s] = m THEN Begin(s, Idle) ELSE UNCHANGED writer
  /\ \E done \in BOOLEAN, thrown \in SUBSET {s} :
       /\ s \notin met \cup gone /\ req[s] \in Open => done /\ thrown = {}
       /\ done => s \notin gone
       /\ got' = IF done THEN [got EXCEPT ![s] = @ \cup {m}] ELSE got
       /\ failed' = [failed EXCEPT ![m] = @ \cup thrown]
  /\ at' = [at EXCEPT ![m] = {}]
  /\ UNCHANGED <<req, clients, gone, pc, snapshot, left, dead, met>>

\* The loop is done: the failed clients leave the list, and the sender is answered.
Answer(m) ==
  /\ pc[m] = "writing" /\ left[m] = {} /\ at[m] = {}
  /\ clients' = clients \ failed[m]
  /\ pc' = [pc EXCEPT ![m] = "answered"]
  /\ failed' = [failed EXCEPT ![m] = {}]
  /\ UNCHANGED <<req, writer, gone, snapshot, left, at, dead, got, met>>

Streaming(s) == Opens(s) \/ Writes(s) \/ Meets(s) \/ Written(s) \/ Leaves(s) \/ Aborts(s)

Sending(m) ==
  \/ Snapshot(m) \/ Answer(m)
  \/ \E s \in Streams : WriteTo(m, s) \/ WriteFails(m, s) \/ Flushed(m, s)

Next == (\E s \in Streams : Streaming(s)) \/ (\E m \in Messages : Save(m) \/ Sending(m))

Spec == Init /\ [][Next]_vars

-----------------------------------------------------------------------------
(* Properties *)

(***************************************************************************)
(* When a sender is answered, every client listed when its message was     *)
(* written has been written it, whatever became of the other clients:      *)
(* except one that left, and one two writes have met on.                   *)
(***************************************************************************)
WrittenToAll ==
  \A m \in Messages : pc[m] = "answered" =>
    \A s \in snapshot[m] \ (gone \cup met) : m \in got[s]

(***************************************************************************)
(* A client with an open stream is listed, and so gets what is sent next:  *)
(* only two writes that met on its writer, or its leaving, take it off the *)
(* list.  (In the first case the stream stays open and silent.)            *)
(***************************************************************************)
ListedWhileOpen ==
  \A s \in Streams \ (gone \cup met) : req[s] \in Open => s \in clients

(***************************************************************************)
(* A request that is over has left no writer behind, except where the      *)
(* greeting threw, which is written before the try; and that writer stays  *)
(* on the list no longer than until the next message is answered.          *)
(***************************************************************************)
NoWriterLeft ==
  /\ \A s \in Streams : req[s] = "ended" => s \notin clients
  /\ \A m \in Messages : pc[m] = "answered" => dead[m] \cap clients = {}
=============================================================================
