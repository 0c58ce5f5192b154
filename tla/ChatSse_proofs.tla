----------------------------- MODULE ChatSse_proofs -----------------------------
(***************************************************************************)
(* Proofs about ChatSse, for any number of streams and messages: who is    *)
(* listed, who has been written to, and what stays behind.                 *)
(***************************************************************************)
EXTENDS ChatSse, TLAPS

-----------------------------------------------------------------------------
(* Types.                                                                   *)

LEMMA TypeInit == Init => TypeOK
BY SseAssumption DEF Init, TypeOK, Idle, Open, Over

LEMMA StreamingKeepsTypes == ASSUME TypeOK, NEW s \in Streams, Streaming(s) PROVE TypeOK'
<1>1. CASE Opens(s)
  BY <1>1 DEF Opens, TypeOK, loopVars, Open, Over
<1>2. CASE Writes(s)
  BY <1>2, SseAssumption DEF Writes, Begin, TypeOK, loopVars, Open, Over
<1>3. CASE Meets(s)
  BY <1>3 DEF Meets, Ends, Outcome, TypeOK, loopVars, Open, Over
<1>4. CASE Written(s)
  BY <1>4, SseAssumption DEF Written, Ends, Outcome, Begin, TypeOK, loopVars, Open, Over, Idle
<1>5. CASE Leaves(s)
  BY <1>5 DEF Leaves, TypeOK, loopVars
<1>6. CASE Aborts(s)
  BY <1>6, SseAssumption DEF Aborts, Ends, Outcome, TypeOK, loopVars, Open, Over, Idle
<1> QED
  BY <1>1, <1>2, <1>3, <1>4, <1>5, <1>6 DEF Streaming

LEMMA SendingKeepsTypes == ASSUME TypeOK, NEW m \in Messages, Save(m) \/ Sending(m) PROVE TypeOK'
<1>1. CASE Save(m)
  BY <1>1 DEF Save, TypeOK, streamVars, loopVars
<1>2. CASE Snapshot(m)
  BY <1>2 DEF Snapshot, TypeOK, streamVars
<1>3. CASE Answer(m)
  BY <1>3 DEF Answer, TypeOK
<1>4. ASSUME NEW s \in Streams, WriteTo(m, s) PROVE TypeOK'
  BY <1>4, SseAssumption DEF WriteTo, Turn, Begin, TypeOK, Idle
<1>5. ASSUME NEW s \in Streams, WriteFails(m, s) PROVE TypeOK'
  BY <1>5 DEF WriteFails, Turn, TypeOK
<1>6. ASSUME NEW s \in Streams, Flushed(m, s) PROVE TypeOK'
  BY <1>6, SseAssumption DEF Flushed, Begin, TypeOK, Idle
<1> QED
  BY <1>1, <1>2, <1>3, <1>4, <1>5, <1>6 DEF Sending

LEMMA TypeStep == TypeOK /\ [Next]_vars => TypeOK'
<1> SUFFICES ASSUME TypeOK, [Next]_vars PROVE TypeOK'
  OBVIOUS
<1>1. CASE UNCHANGED vars
  BY <1>1 DEF vars, streamVars, loopVars, TypeOK
<1> QED
  BY <1>1, StreamingKeepsTypes, SendingKeepsTypes DEF Next

\* Whatever meets on a writer, a message is written to one client at a time.
THEOREM TypeHolds == Spec => []TypeOK
BY TypeInit, TypeStep, PTL DEF Spec

-----------------------------------------------------------------------------
(* The invariant.  ListedWhileOpen depends on why clients fail: a request  *)
(* is over, and a write throws, only for a client that left or one that    *)
(* two writes met on.  WrittenToAll depends on where a loop is: whom it    *)
(* found listed it has written to, or has it yet to do.                    *)

EverOpened ==
  /\ \A s \in clients : req[s] # "none"
  /\ \A m \in Messages : \A s \in left[m] \cup at[m] : req[s] # "none"

OverForAReason == \A s \in Streams : req[s] \in Over => s \in gone \cup met

FailedForAReason == \A m \in Messages : failed[m] \subseteq gone \cup met

NothingDue == \A m \in Messages : pc[m] # "writing" => left[m] = {} /\ at[m] = {}

WrittenOrDue ==
  \A m \in Messages : \A s \in snapshot[m] \ (gone \cup met) : s \in left[m] \cup at[m] \/ m \in got[s]

\* A request that was over before the snapshot fails before the loop is done.
DeadFail ==
  \A m \in Messages : \A s \in dead[m] :
    req[s] \in Over /\ (pc[m] = "writing" => s \in left[m] \cup failed[m] \/ s \notin clients)

SseInv == /\ EverOpened /\ OverForAReason /\ FailedForAReason /\ NothingDue /\ WrittenOrDue
          /\ DeadFail /\ ListedWhileOpen /\ NoWriterLeft

LEMMA SseInit == Init => SseInv
BY DEF Init, SseInv, EverOpened, OverForAReason, FailedForAReason, NothingDue, WrittenOrDue,
       DeadFail, ListedWhileOpen, NoWriterLeft, Open, Over

-----------------------------------------------------------------------------
(* The steps of a stream's request.                                         *)

\* What a step of a request may do to the invariant's other parts.
LEMMA RequestOnly ==
  ASSUME TypeOK, SseInv, NEW s \in Streams, UNCHANGED <<pc, loopVars, got>>,
         gone \subseteq gone', met \subseteq met', s \notin clients => s \notin clients' \/ req[s] = "none",
         \A t \in Streams \ {s} : req'[t] = req[t] /\ (t \in clients' <=> t \in clients),
         req'[s] # "none", clients' \subseteq Streams,
         req[s] \in Over => req'[s] = req[s],
         req'[s] \in Over => s \in gone' \cup met',
         req'[s] \in Open => s \in clients' \/ s \in gone' \cup met',
         req'[s] = "ended" => s \notin clients'
  PROVE  SseInv'
<1>1. EverOpened' /\ OverForAReason'
  BY DEF SseInv, EverOpened, OverForAReason, TypeOK, loopVars
<1>2. FailedForAReason' /\ NothingDue' /\ WrittenOrDue'
  BY DEF SseInv, FailedForAReason, NothingDue, WrittenOrDue, loopVars
<1>3. DeadFail'
  BY DEF SseInv, DeadFail, TypeOK, loopVars, Over
<1>4. ListedWhileOpen' /\ NoWriterLeft'
  BY DEF SseInv, ListedWhileOpen, NoWriterLeft, DeadFail, TypeOK, loopVars, Over
<1> QED
  BY <1>1, <1>2, <1>3, <1>4 DEF SseInv

LEMMA StreamingKeepsInv == ASSUME TypeOK, SseInv, NEW s \in Streams, Streaming(s) PROVE SseInv'
<1>1. CASE Opens(s)
  BY <1>1, RequestOnly DEF Opens, TypeOK, Open, Over
<1>2. CASE Writes(s)
  BY <1>2, RequestOnly DEF Writes, TypeOK, SseInv, ListedWhileOpen, Open, Over
<1>3. CASE Meets(s)
  BY <1>3, RequestOnly DEF Meets, Ends, Outcome, TypeOK, Open, Over
<1>4. CASE Written(s)
  BY <1>4, RequestOnly DEF Written, Ends, Outcome, TypeOK, SseInv, ListedWhileOpen, Open, Over
<1>5. CASE Leaves(s)
  BY <1>5, RequestOnly DEF Leaves, TypeOK, Open, Over
<1>6. CASE Aborts(s)
  BY <1>6, RequestOnly DEF Aborts, Ends, Outcome, TypeOK, Open, Over
<1> QED
  BY <1>1, <1>2, <1>3, <1>4, <1>5, <1>6 DEF Streaming

-----------------------------------------------------------------------------
(* The steps of a message's request.                                        *)

LEMMA SnapshotKeepsInv == ASSUME TypeOK, SseInv, NEW m \in Messages, Snapshot(m) PROVE SseInv'
<1>1. EverOpened' /\ OverForAReason' /\ FailedForAReason' /\ NothingDue' /\ WrittenOrDue'
  BY DEF Snapshot, TypeOK, SseInv, EverOpened, OverForAReason, FailedForAReason, NothingDue,
         WrittenOrDue, streamVars
<1>2. DeadFail' /\ ListedWhileOpen' /\ NoWriterLeft'
  BY DEF Snapshot, TypeOK, SseInv, DeadFail, ListedWhileOpen, NoWriterLeft, streamVars
<1> QED
  BY <1>1, <1>2 DEF SseInv

LEMMA WriteToKeepsInv ==
  ASSUME TypeOK, SseInv, NEW m \in Messages, NEW s \in Streams, WriteTo(m, s) PROVE SseInv'
<1>1. EverOpened' /\ OverForAReason' /\ FailedForAReason' /\ NothingDue' /\ WrittenOrDue'
  BY DEF WriteTo, Turn, TypeOK, SseInv, EverOpened, OverForAReason, FailedForAReason, NothingDue,
         WrittenOrDue
<1>2. DeadFail'
  BY DEF WriteTo, Turn, TypeOK, SseInv, DeadFail, Open, Over
<1>3. ListedWhileOpen' /\ NoWriterLeft'
  BY DEF WriteTo, Turn, SseInv, ListedWhileOpen, NoWriterLeft
<1> QED
  BY <1>1, <1>2, <1>3 DEF SseInv

LEMMA WriteFailsKeepsInv ==
  ASSUME TypeOK, SseInv, NEW m \in Messages, NEW s \in Streams, WriteFails(m, s) PROVE SseInv'
<1>1. s \in gone \cup met'
  BY DEF WriteFails, SseInv, OverForAReason
<1>2. met \subseteq met'
  BY DEF WriteFails
<1>3. PICK thrown \in SUBSET {s} :
        failed' = [failed EXCEPT ![m] = @ \cup thrown] /\ (req[s] \in Over => s \in thrown)
  BY DEF WriteFails, Open, Over
<1>4. EverOpened' /\ OverForAReason' /\ NothingDue'
  BY <1>2 DEF WriteFails, Turn, TypeOK, SseInv, EverOpened, OverForAReason, NothingDue
<1>5. FailedForAReason'
  BY <1>1, <1>2, <1>3 DEF WriteFails, Turn, TypeOK, SseInv, FailedForAReason
<1>6. WrittenOrDue'
  BY <1>1, <1>2 DEF WriteFails, Turn, TypeOK, SseInv, WrittenOrDue
<1>7. DeadFail'
  BY <1>3 DEF WriteFails, Turn, TypeOK, SseInv, DeadFail
<1>8. ListedWhileOpen' /\ NoWriterLeft'
  BY <1>2 DEF WriteFails, Turn, SseInv, ListedWhileOpen, NoWriterLeft
<1> QED
  BY <1>4, <1>5, <1>6, <1>7, <1>8 DEF SseInv

LEMMA FlushedKeepsInv ==
  ASSUME TypeOK, SseInv, NEW m \in Messages, NEW s \in Streams, Flushed(m, s) PROVE SseInv'
<1>1. PICK done \in BOOLEAN, thrown \in SUBSET {s} :
        /\ s \notin met \cup gone /\ req[s] \in Open => done /\ thrown = {}
        /\ got' = IF done THEN [got EXCEPT ![s] = @ \cup {m}] ELSE got
        /\ failed' = [failed EXCEPT ![m] = @ \cup thrown]
  BY DEF Flushed
<1>2. s \in at[m] /\ at' = [at EXCEPT ![m] = {}]
      /\ UNCHANGED <<req, clients, gone, pc, snapshot, left, dead, met>>
  BY DEF Flushed
<1>3. req[s] \in Open \/ s \in met \cup gone
  BY <1>2 DEF SseInv, EverOpened, OverForAReason, TypeOK, Open, Over
<1>4. EverOpened' /\ OverForAReason' /\ NothingDue'
  BY <1>2 DEF TypeOK, SseInv, EverOpened, OverForAReason, NothingDue
<1>5. FailedForAReason'
  BY <1>1, <1>2, <1>3 DEF TypeOK, SseInv, FailedForAReason
<1>6. WrittenOrDue'
  <2> SUFFICES ASSUME NEW n \in Messages, NEW t \in snapshot[n] \ (gone \cup met),
                      t \notin left[n] \cup at'[n]
               PROVE  n \in got'[t]
    BY <1>2 DEF WrittenOrDue
  <2>1. t \in Streams
    BY DEF TypeOK
  <2>2. CASE n = m /\ t = s
    BY <2>1, <2>2, <1>1, <1>3 DEF TypeOK
  <2>3. CASE ~(n = m /\ t = s)
    <3>1. t \notin at[n]
      BY <1>2, <2>3 DEF TypeOK
    <3>2. n \in got[t]
      BY <3>1 DEF SseInv, WrittenOrDue
    <3> QED
      BY <3>2, <2>1, <1>1 DEF TypeOK
  <2> QED
    BY <2>2, <2>3
<1>7. DeadFail'
  BY <1>1, <1>2 DEF TypeOK, SseInv, DeadFail
<1>8. ListedWhileOpen' /\ NoWriterLeft'
  BY <1>2 DEF SseInv, ListedWhileOpen, NoWriterLeft
<1> QED
  BY <1>4, <1>5, <1>6, <1>7, <1>8 DEF SseInv

LEMMA AnswerKeepsInv == ASSUME TypeOK, SseInv, NEW m \in Messages, Answer(m) PROVE SseInv'
<1>1. EverOpened' /\ OverForAReason' /\ FailedForAReason' /\ NothingDue' /\ WrittenOrDue'
  BY DEF Answer, TypeOK, SseInv, EverOpened, OverForAReason, FailedForAReason, NothingDue,
         WrittenOrDue
<1>2. DeadFail'
  BY DEF Answer, TypeOK, SseInv, DeadFail
<1>3. ListedWhileOpen'
  BY DEF Answer, TypeOK, SseInv, FailedForAReason, ListedWhileOpen
<1>4. NoWriterLeft'
  BY DEF Answer, TypeOK, SseInv, DeadFail, NoWriterLeft
<1> QED
  BY <1>1, <1>2, <1>3, <1>4 DEF SseInv

LEMMA SseStep == TypeOK /\ SseInv /\ [Next]_vars => SseInv'
<1> SUFFICES ASSUME TypeOK, SseInv, [Next]_vars PROVE SseInv'
  OBVIOUS
<1>1. ASSUME NEW m \in Messages, Save(m) PROVE SseInv'
  BY <1>1 DEF Save, TypeOK, streamVars, loopVars, SseInv, EverOpened, OverForAReason,
              FailedForAReason, NothingDue, WrittenOrDue, DeadFail, ListedWhileOpen, NoWriterLeft
<1>2. ASSUME NEW m \in Messages, Sending(m) PROVE SseInv'
  BY <1>2, SnapshotKeepsInv, WriteToKeepsInv, WriteFailsKeepsInv, FlushedKeepsInv, AnswerKeepsInv
     DEF Sending
<1>3. CASE UNCHANGED vars
  BY <1>3 DEF vars, streamVars, loopVars, SseInv, EverOpened, OverForAReason,
              FailedForAReason, NothingDue, WrittenOrDue, DeadFail, ListedWhileOpen, NoWriterLeft
<1> QED
  BY <1>1, <1>2, <1>3, StreamingKeepsInv DEF Next

THEOREM SseInvariant == Spec => []SseInv
BY SseInit, SseStep, TypeHolds, PTL DEF Spec

\* An open stream is on the list, unless its client left or two writes met on it.
THEOREM ListedWhileOpenHolds == Spec => []ListedWhileOpen
<1>1. SseInv => ListedWhileOpen
  BY DEF SseInv
<1> QED
  BY <1>1, SseInvariant, PTL

\* A request that is over leaves no writer behind, a failed greeting's only until the next message.
THEOREM NoWriterLeftHolds == Spec => []NoWriterLeft
<1>1. SseInv => NoWriterLeft
  BY DEF SseInv
<1> QED
  BY <1>1, SseInvariant, PTL

\* A sender is answered when all whom its message was for have been written it.
THEOREM WrittenToAllHolds == Spec => []WrittenToAll
<1>1. SseInv => WrittenToAll
  BY DEF SseInv, WrittenOrDue, NothingDue, WrittenToAll
<1> QED
  BY <1>1, SseInvariant, PTL
=============================================================================
