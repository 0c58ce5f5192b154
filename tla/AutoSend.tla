------------------------------- MODULE AutoSend -------------------------------
(***************************************************************************)
(* Sending with metrics: what the six chat views (Chat*.tsx) have in       *)
(* common below the list they show.  A view sends one message by hand, or  *)
(* lets startAutoSend send one every MessageIntervalConfigInMs until the   *)
(* simulation time is over, Stop is pressed or the view is left, and       *)
(* counts how many were attempted, came back and failed.  The message is   *)
(* asked for (asked), answered with its id, and then waited for until it   *)
(* comes back by the technology's own push (waiting); the SSE view lets    *)
(* its loop go on and leaves the wait to a timer (posted).  The servers    *)
(* refuse what is too fast (RateLimits).                                   *)
(*                                                                         *)
(* The clock counts in units of the interval or less; timers of five       *)
(* seconds, far longer than a run of the model, may fire at any time.      *)
(***************************************************************************)
EXTENDS RateLimits, FiniteSets

CONSTANTS
  Technologies, (* which of the six views                                  *)
  Sends,        (* the messages of a behaviour, numbered as they are sent: a bound on them *)
  Loops,        (* the calls of startAutoSend, numbered from 1: a bound on them *)
  Work,         (* a bound on both together                                *)
  Interval,     (* MessageIntervalConfigInMs                               *)
  SimTime,      (* SimulationTimeConfigInMs                                *)
  MaxTime       (* a bound on the clock                                    *)

\* The servers' limits leave room for one message per interval: 5 * 200 >= 1000, 10 * 200 > 1000.
ASSUME AutoAssumption ==
  /\ Technologies \subseteq {"GRPC", "Polling", "SSE", "SignalR", "SocketIO", "WebSockets"}
  /\ Sends \subseteq Nat \ {0} /\ Loops \subseteq Nat \ {0}
  /\ Work \in Nat /\ Interval \in Nat \ {0} /\ SimTime \in Nat \ {0} /\ MaxTime \in Nat
  /\ FixedMax * Interval >= Window /\ SlidingMax * Interval > Window

VARIABLES
  tech,
  loop,          (* a call of startAutoSend: where it is, its runId, its stopAtPerfMs, *)
                 (* when its pause is over and the send it awaits                      *)
  run,           (* autoSendRunIdRef                                       *)
  isAutoSending,
  send,          (* a message: where its sender (cli) and the server (srv) are with it, *)
                 (* whether the loop sent it, in which run, and runIdAtSend of its SSE timer *)
  waiters,       (* receiveWaitersRef                                      *)
  received,      (* receivedMessageIdsRef; for SSE receivedPerfMsByMessageIdRef *)
  heard,         (* history: the messages that came back                   *)
  attempts, ok, fail,  (* runSendAttempt-, runSentOk- and runSendFailCountRef *)
  starts,        (* history: how often startAutoSend was called            *)
  clean,         (* history: nothing of an earlier run was on its way then *)
  outrun         (* history: a message was given up on before the server had taken it *)

counters  == <<attempts, ok, fail>>
loopVars  == <<loop, run, isAutoSending, starts, clean>>
echoVars  == <<waiters, received, heard>>
vars == <<rateVars, tech, loopVars, send, echoVars, counters, outrun>>

Returned == {"ok", "failed", "unheard"}      \* sendMessageWithMetrics is over
Timed    == {"posted", "late", "silent", "dropped"}  \* it is over for the SSE loop, not for its timer

LoopStates == [pc : {"none", "sending", "pausing", "over"}, id : Nat, stopAt : Nat, wake : Nat,
               send : Sends \cup {0}]

SendStates == [cli : {"none", "asked", "waiting"} \cup Returned \cup Timed,
               srv : {"none", "sent", "saved", "refused"},
               auto : BOOLEAN, epoch : Nat, runId : Nat]

TypeOK ==
  /\ tech \in Technologies
  /\ loop \in [Loops -> LoopStates] /\ run \in Nat /\ isAutoSending \in BOOLEAN
  /\ send \in [Sends -> SendStates]
  /\ waiters \subseteq {s \in Sends : send[s].cli = "waiting"} /\ received \subseteq heard /\ heard \subseteq Sends
  /\ attempts \in Nat /\ ok \in Nat /\ fail \in Nat
  /\ starts \in Loops \cup {0} /\ clean \in BOOLEAN /\ outrun \in BOOLEAN

Init ==
  /\ RateInit
  /\ tech \in Technologies
  /\ loop = [l \in Loops |-> [pc |-> "none", id |-> 0, stopAt |-> 0, wake |-> 0, send |-> 0]]
  /\ run = 0 /\ isAutoSending = FALSE /\ starts = 0 /\ clean = TRUE /\ outrun = FALSE
  /\ send = [s \in Sends |-> [cli |-> "none", srv |-> "none", auto |-> FALSE,
                              epoch |-> 0, runId |-> 0]]
  /\ waiters = {} /\ received = {} /\ heard = {}
  /\ attempts = 0 /\ ok = 0 /\ fail = 0

-----------------------------------------------------------------------------
(* The client: a message is sent.                                           *)

InFlight(s) == send[s].cli \in {"asked", "waiting"}
IsNext(s)   == send[s].cli = "none" /\ \A t \in Sends : t < s => send[t].cli # "none"

\* sendMessageWithMetrics up to its first await.  "Chat service not ready.", "Missing required
\* data." and a socket that is not open throw (~ready; the waiter of a message that was never sent
\* is left out); a WebSocket message is waited for at once.
Submit(s, from, ready, isAuto, epoch) ==
  /\ IsNext(s) /\ s + epoch <= Work
  /\ send' = [from EXCEPT ![s] =
       [cli |-> CASE ~ready -> "failed"
                  [] ready /\ tech = "WebSockets" -> "waiting"
                  [] OTHER -> "asked",
        srv |-> IF ready THEN "sent" ELSE "none",
        auto |-> isAuto, epoch |-> epoch, runId |-> 0]]
  /\ UNCHANGED outrun

SendByHand(s) ==
  \E ready \in BOOLEAN :
    /\ Submit(s, send, ready, FALSE, starts)
    /\ waiters' = IF ready /\ tech = "WebSockets" THEN waiters \cup {s} ELSE waiters
    /\ UNCHANGED <<rateVars, tech, loopVars, received, heard, counters>>

-----------------------------------------------------------------------------
(* The client: the loop.                                                    *)

Sending(s, id, stopAt, ready) ==
  [pc |-> IF ready THEN "sending" ELSE "pausing", id |-> id, stopAt |-> stopAt,
   wake |-> now + Interval, send |-> s]

\* startAutoSend up to its first await, with what the view clears beside its aggregates.
StartWith(t, waitersLeft, receivedLeft, sendsLeft) ==
  /\ tech = t /\ ~isAutoSending /\ now + SimTime <= MaxTime
  /\ starts + 1 \in Loops
  /\ \E s \in Sends, ready \in BOOLEAN :
       /\ Submit(s, sendsLeft, ready, TRUE, starts + 1)
       /\ loop' = [loop EXCEPT ![starts + 1] = Sending(s, run + 1, now + SimTime, ready)]
       /\ waiters' = IF ready /\ t = "WebSockets" THEN waitersLeft \cup {s} ELSE waitersLeft
       /\ fail' = IF ready THEN 0 ELSE 1
  /\ received' = receivedLeft
  /\ attempts' = 1 /\ ok' = 0
  /\ run' = run + 1 /\ isAutoSending' = TRUE /\ starts' = starts + 1
  /\ clean' = \A s \in Sends : send[s].auto => ~InFlight(s)
  /\ UNCHANGED <<rateVars, tech, heard>>

\* The timers and the times of the messages sent and received go; the loop's sends it dropped.
SseStarts == StartWith("SSE", waiters, {},
  [s \in Sends |-> IF send[s].cli \in Timed THEN [send[s] EXCEPT !.cli = "dropped"] ELSE send[s]])

\* receivedMessageIdsRef and receiveWaitersRef go.
SocketStarts     == StartWith("SocketIO", {}, {}, send)
GrpcStarts       == StartWith("GRPC", waiters, received, send)
PollingStarts    == StartWith("Polling", waiters, received, send)
SignalRStarts    == StartWith("SignalR", waiters, received, send)
WebSocketsStarts == StartWith("WebSockets", waiters, received, send)

\* The pause is over; MaxTime stands for all the time after it.
Awake(l) == loop[l].pc = "pausing" /\ (now >= loop[l].wake \/ now = MaxTime)

\* "while (autoSendRunIdRef.current === runId) { if (performance.now() >= stopAtPerfMs) break; ..."
SendAgain(l) ==
  /\ Awake(l) /\ loop[l].id = run /\ now < loop[l].stopAt
  /\ \E s \in Sends, ready \in BOOLEAN :
       /\ Submit(s, send, ready, TRUE, starts)
       /\ loop' = [loop EXCEPT ![l] = Sending(s, loop[l].id, loop[l].stopAt, ready)]
       /\ waiters' = IF ready /\ tech = "WebSockets" THEN waiters \cup {s} ELSE waiters
       /\ fail' = IF ready THEN fail ELSE fail + 1
  /\ attempts' = attempts + 1
  /\ UNCHANGED <<rateVars, tech, run, isAutoSending, starts, clean, received, heard, ok>>

\* For Elapse: the button stays on.
ElapseUntold(l) ==
  /\ Awake(l) /\ loop[l].id = run /\ now >= loop[l].stopAt
  /\ loop' = [loop EXCEPT ![l].pc = "over"]
  /\ run' = run + 1
  /\ UNCHANGED <<rateVars, tech, isAutoSending, send, echoVars, counters, starts, clean, outrun>>

\* "Simulation time elapsed - stopped automatically."
Elapse(l) ==
  /\ Awake(l) /\ loop[l].id = run /\ now >= loop[l].stopAt
  /\ loop' = [loop EXCEPT ![l].pc = "over"]
  /\ run' = run + 1 /\ isAutoSending' = FALSE
  /\ UNCHANGED <<rateVars, tech, send, echoVars, counters, starts, clean, outrun>>

\* The loop finds another run id: it was stopped, whether or not another was started since.
EndStopped(l) ==
  /\ Awake(l) /\ loop[l].id # run
  /\ loop' = [loop EXCEPT ![l].pc = "over"]
  /\ UNCHANGED <<rateVars, tech, run, isAutoSending, send, echoVars, counters, starts, clean,
                 outrun>>

\* stopAutoSend, and the clean-up of the effects ("Stop background traffic loop on unmount/leave.").
Stop ==
  /\ isAutoSending
  /\ run' = run + 1 /\ isAutoSending' = FALSE
  /\ UNCHANGED <<rateVars, tech, loop, send, echoVars, counters, starts, clean, outrun>>

\* The loop that awaits this send goes on to its pause.
Resumed(s) == [l \in Loops |->
  IF loop[l].pc = "sending" /\ loop[l].send = s
    THEN [loop[l] EXCEPT !.pc = "pausing", !.wake = now + Interval] ELSE loop[l]]

\* sendMessageWithMetrics is over.
Return(s, cli) ==
  /\ send' = [send EXCEPT ![s].cli = cli]
  /\ loop' = Resumed(s)
  /\ outrun' = (outrun \/ send[s].srv = "sent")
  /\ UNCHANGED <<tech, run, isAutoSending, starts, clean, attempts>>

-----------------------------------------------------------------------------
(* The servers.                                                             *)

\* send_message in server.js.
SocketServes(s) ==
  /\ tech = "SocketIO" /\ send[s].srv = "sent"
  /\ \/ FixedAccept /\ send' = [send EXCEPT ![s].srv = "saved"]
     \/ FixedRefuse /\ send' = [send EXCEPT ![s].srv = "refused"]
  /\ UNCHANGED <<tech, loopVars, echoVars, counters, outrun>>

\* "send" in ChatWebSocketHandler.
WebSocketServes(s) ==
  /\ tech = "WebSockets" /\ send[s].srv = "sent"
  /\ \/ SlidingAccept /\ send' = [send EXCEPT ![s].srv = "saved"]
     \/ SlidingRefuse /\ send' = [send EXCEPT ![s].srv = "refused"]
  /\ UNCHANGED <<tech, loopVars, echoVars, counters, outrun>>

\* MessageController, ChatHub and ChatGrpcService have no limit.
CoreServes(s) ==
  /\ tech \in {"GRPC", "Polling", "SSE", "SignalR"} /\ send[s].srv = "sent"
  /\ send' = [send EXCEPT ![s].srv = "saved"]
  /\ UNCHANGED <<rateVars, tech, loopVars, echoVars, counters, outrun>>

-----------------------------------------------------------------------------
(* The client: the answer, the echo and the timers.                         *)

CountIf(s, n, yes) == IF send[s].auto /\ yes THEN n + 1 ELSE n

\* The call was refused, timed out or broke off; what the server did with the message is unknown.
CallFails(s) ==
  /\ send[s].cli = "asked"
  /\ Return(s, "failed")
  /\ fail' = CountIf(s, fail, TRUE)
  /\ UNCHANGED <<rateVars, echoVars, ok>>

\* For WaitForReceive: it does not look whether the message is here before the answer.
AlwaysWait(s) ==
  /\ send[s].cli = "asked" /\ send[s].srv = "saved"
  /\ send' = [send EXCEPT ![s].cli = "waiting"]
  /\ waiters' = waiters \cup {s}
  /\ UNCHANGED <<rateVars, tech, loopVars, received, heard, attempts, fail, outrun>>

\* waitForReceive(created.id, 5000): the echo may have come before the answer.
WaitForReceive(s) ==
  /\ send[s].cli = "asked" /\ send[s].srv = "saved"
  /\ \/ /\ s \in received
        /\ Return(s, "ok")
        /\ UNCHANGED waiters
     \/ /\ s \notin received
        /\ send' = [send EXCEPT ![s].cli = "waiting"]
        /\ waiters' = waiters \cup {s}
        /\ UNCHANGED <<tech, loopVars, attempts, outrun>>
  /\ UNCHANGED <<rateVars, received, heard, fail>>

GrpcAnswered(s) ==
  tech = "GRPC" /\ WaitForReceive(s) /\ ok' = CountIf(s, ok, s \in received)

PollingAnswered(s) ==
  tech = "Polling" /\ WaitForReceive(s) /\ ok' = CountIf(s, ok, s \in received)

SocketAnswered(s) ==
  tech = "SocketIO" /\ WaitForReceive(s) /\ ok' = CountIf(s, ok, s \in received)

\* "Count as successfully sent once the hub method returned."
SignalRAnswered(s) ==
  tech = "SignalR" /\ WaitForReceive(s) /\ ok' = CountIf(s, ok, TRUE)

\* A message sent by hand is waited for in receivedMessageIdsRef, which is never cleared.
SseAnsweredByHand(s) ==
  /\ tech = "SSE" /\ ~send[s].auto /\ send[s].cli = "asked" /\ send[s].srv = "saved"
  /\ send' = [send EXCEPT ![s].cli = IF s \in heard THEN "ok" ELSE "waiting"]
  /\ waiters' = IF s \in heard THEN waiters ELSE waiters \cup {s}
  /\ UNCHANGED <<rateVars, tech, loopVars, received, heard, counters, outrun>>

\* "For auto mode, do NOT block on SSE echo": recorded at once, or left to a timer.
SseAnswered(s) ==
  /\ tech = "SSE" /\ send[s].auto /\ send[s].cli = "asked" /\ send[s].srv = "saved"
  /\ send' = [send EXCEPT ![s].cli = IF s \in received THEN "ok" ELSE "posted", 
                            ![s].runId = IF s \in received THEN 0 ELSE run]
  /\ loop' = Resumed(s)
  /\ received' = received \ {s}
  /\ ok' = IF s \in received THEN ok + 1 ELSE ok
  /\ UNCHANGED <<rateVars, tech, run, isAutoSending, starts, clean, waiters, heard, attempts, fail,
                 outrun>>

\* The message comes back by the push the view listens to, and ends the wait for it if there is one
\* (what comes back after the wait is over only adds its id to a set).
EchoArrives(s) ==
  /\ tech # "SSE" \/ ~send[s].auto
  /\ send[s].srv = "saved" /\ s \notin heard /\ send[s].cli \notin Returned
  /\ heard' = heard \cup {s}
  /\ received' = IF tech = "SSE" THEN received ELSE received \cup {s}
  /\ waiters' = waiters \ {s}
  /\ \/ s \in waiters /\ Return(s, "ok") /\ ok' = CountIf(s, ok, tech # "SignalR")
     \/ s \notin waiters /\ UNCHANGED <<send, tech, loopVars, ok, attempts, outrun>>
  /\ UNCHANGED <<rateVars, fail>>

\* For SseEchoArrives: a message counted as failed stays so.
SseEchoUncorrected(s) ==
  /\ tech = "SSE" /\ send[s].auto /\ send[s].srv = "saved" /\ s \notin heard
  /\ heard' = heard \cup {s}
  /\ \/ /\ send[s].cli \in {"posted", "late", "silent"}
        /\ send' = [send EXCEPT ![s].cli = "ok"]
        /\ ok' = ok + 1
        /\ UNCHANGED <<received, fail>>
     \/ /\ send[s].cli \notin {"posted", "late", "silent"}
        /\ received' = received \cup {s}
        /\ UNCHANGED <<send, ok, fail>>
  /\ UNCHANGED <<rateVars, tech, loopVars, waiters, attempts, outrun>>

\* recordAutoEchoIfPossible: "If we previously counted this message as timed-out, correct the fail%."
SseEchoArrives(s) ==
  /\ tech = "SSE" /\ send[s].auto /\ send[s].srv = "saved" /\ s \notin heard
  /\ heard' = heard \cup {s}
  /\ \/ /\ send[s].cli \in {"posted", "late", "silent"}
        /\ send' = [send EXCEPT ![s].cli = "ok"]
        /\ ok' = ok + 1
        /\ fail' = IF send[s].cli = "late" /\ fail > 0 THEN fail - 1 ELSE fail
        /\ UNCHANGED received
     \/ /\ send[s].cli \notin {"posted", "late", "silent"}
        /\ received' = received \cup {s}
        /\ UNCHANGED <<send, ok, fail>>
  /\ UNCHANGED <<rateVars, tech, loopVars, waiters, attempts, outrun>>

\* "Timed out waiting for ..."; only logged.
EchoTimesOut(s) ==
  /\ send[s].cli = "waiting"
  /\ Return(s, "unheard")
  /\ waiters' = waiters \ {s}
  /\ UNCHANGED <<rateVars, received, heard, ok, fail>>

\* "If echo never arrives, count it as a failed send for this run."
SseTimerFires(s) ==
  /\ send[s].cli = "posted"
  /\ send' = [send EXCEPT ![s].cli = IF send[s].runId = run THEN "late" ELSE "silent",
                            ![s].runId = 0]
  /\ fail' = IF send[s].runId = run THEN fail + 1 ELSE fail
  /\ UNCHANGED <<rateVars, tech, loopVars, echoVars, attempts, ok, outrun>>

Pass == now < MaxTime /\ Tick /\ UNCHANGED <<tech, loopVars, send, echoVars, counters, outrun>>

Starts == \/ SseStarts \/ SocketStarts \/ GrpcStarts \/ PollingStarts \/ SignalRStarts
          \/ WebSocketsStarts

Answered(s) == \/ GrpcAnswered(s) \/ PollingAnswered(s) \/ SocketAnswered(s) \/ SignalRAnswered(s)
               \/ SseAnsweredByHand(s) \/ SseAnswered(s)

Turns(l) == SendAgain(l) \/ Elapse(l) \/ EndStopped(l)

Next ==
  \/ Starts \/ Stop \/ Pass
  \/ \E l \in Loops : Turns(l)
  \/ \E s \in Sends :
       \/ SendByHand(s) \/ SocketServes(s) \/ WebSocketServes(s) \/ CoreServes(s)
       \/ Answered(s) \/ CallFails(s) \/ EchoArrives(s) \/ SseEchoArrives(s)
       \/ EchoTimesOut(s) \/ SseTimerFires(s)

Spec == Init /\ [][Next]_vars

(***************************************************************************)
(* Time passes, a timer that is due fires, and every call ends: with an    *)
(* answer, an error or the time-out of the client or of the browser.       *)
(* Nothing is assumed of the servers or of the push.                       *)
(***************************************************************************)
FairSpec ==
  /\ Spec /\ WF_vars(Pass)
  /\ \A l \in Loops : WF_vars(Turns(l))
  /\ \A s \in Sends : WF_vars(Answered(s) \/ CallFails(s)) /\ WF_vars(EchoTimesOut(s))

-----------------------------------------------------------------------------
(* Properties *)

OfRun == {s \in Sends : send[s].auto /\ send[s].epoch = starts}

\* What the view counts as sent: answered (SignalR), or come back in time.
CameBack == {s \in OfRun :
  \/ send[s].cli = "ok"
  \/ tech = "SignalR" /\ send[s].cli \in {"waiting", "unheard"}
  \/ tech = "SSE" /\ send[s].cli \in Timed /\ s \in heard}

\* What it counts as failed: the call did, or (SSE) its echo is late and still not here.
DidFail == {s \in OfRun : send[s].cli \in {"failed", "late"} /\ (send[s].cli = "late" => s \notin heard)}

(***************************************************************************)
(* The aggregates of a run are those of its messages: every message of the *)
(* run is attempted once, and counted once as sent or as failed, whichever *)
(* of the answer, the echo and the timer comes first.  It takes a run that *)
(* began with no message of an earlier one on its way: those are counted   *)
(* in the new run when they end.                                           *)
(***************************************************************************)
CountsAddUp ==
  clean => /\ attempts = Cardinality(OfRun)
           /\ ok = Cardinality(CameBack)
           /\ fail = Cardinality(DidFail)

(***************************************************************************)
(* No wait for a message that is already there (it would end as a timeout  *)
(* in the metrics), except for one of an earlier run over Socket.IO, where *)
(* startAutoSend throws the waiters and the ids received away.             *)
(***************************************************************************)
NoLostWakeup ==
  \A s \in Sends : send[s].cli = "waiting" /\ s \in heard =>
    tech = "SocketIO" /\ send[s].epoch < starts

(***************************************************************************)
(* A single run stays under the servers' limits, each of which it meets    *)
(* with nothing to spare (Socket.IO): no message of the first run is       *)
(* refused as long as none is sent by hand and none is given up on before  *)
(* the server has taken it.                                                *)
(***************************************************************************)
NeverLimited ==
  starts <= 1 /\ ~outrun /\ (\A s \in Sends : send[s].cli # "none" => send[s].auto) =>
    \A s \in Sends : send[s].srv # "refused"

\* A run ends by itself: the button goes off, even if no server answers and no push arrives.
RunEnds == isAutoSending ~> ~isAutoSending
=============================================================================
