---------------------------- MODULE AutoSend_proofs ----------------------------
(***************************************************************************)
(* Proofs about RateLimits, for every window and every maximum, and about  *)
(* AutoSend, for any technologies, messages, runs and times: the views and *)
(* the servers use the limits as RateLimits specifies them, so what is     *)
(* proved of the limits holds of whatever the views send; and the waits    *)
(* and the echoes keep to each other.                                      *)
(***************************************************************************)
EXTENDS AutoSend, FiniteSetTheorems, TLAPS

-----------------------------------------------------------------------------
(* Both limits keep their types.                                            *)

LEMMA RateTypeInit == RateInit => RateTypeOK
BY DEF RateInit, RateTypeOK

LEMMA FixedCountType == ASSUME RateTypeOK, FixedCount
                        PROVE  windowStart' \in Nat /\ count' \in Nat
BY DEF RateTypeOK, FixedCount, Counted

LEMMA RateTypeStep == RateTypeOK /\ [RateNext]_rateVars => RateTypeOK'
<1> SUFFICES ASSUME RateTypeOK, [RateNext]_rateVars PROVE RateTypeOK'
  OBVIOUS
<1>1. CASE Tick
  BY <1>1 DEF Tick, RateTypeOK, slidingVars, fixedVars
<1>2. CASE SlidingAccept
  <2>1. PICK d \in 0..Len(accepted) : Dequeued(d) /\ dropped' = d
    BY <1>2 DEF SlidingAccept
  <2>2. accepted' = Append(accepted, now) /\ UNCHANGED <<now, fixedVars>>
    BY <1>2 DEF SlidingAccept
  <2> QED
    BY <2>1, <2>2 DEF RateTypeOK, fixedVars
<1>3. CASE SlidingRefuse
  BY <1>3 DEF SlidingRefuse, RateTypeOK, fixedVars
<1>4. CASE FixedAccept
  BY <1>4, FixedCountType DEF FixedAccept, FixedCount, RateTypeOK, slidingVars
<1>5. CASE FixedRefuse
  BY <1>5, FixedCountType DEF FixedRefuse, FixedCount, RateTypeOK, slidingVars
<1>6. CASE UNCHANGED rateVars
  BY <1>6 DEF rateVars, slidingVars, fixedVars, RateTypeOK
<1> QED
  BY <1>1, <1>2, <1>3, <1>4, <1>5, <1>6 DEF RateNext

\* The types of the two limits, over every behaviour of any clock.
THEOREM RateTypeHolds == RateSpec => []RateTypeOK
BY RateTypeInit, RateTypeStep, PTL DEF RateSpec

-----------------------------------------------------------------------------
(* The sliding window.                                                      *)

\* What has left the queue is more than a window old.
OldAreDropped == \A i \in 1..dropped : now - accepted[i] > Window

SlidingInv == OldAreDropped /\ SlidingBound

LEMMA SlidingInit == RateInit => SlidingInv
BY DEF RateInit, SlidingInv, OldAreDropped, SlidingBound

\* Whatever the loop takes out of the queue is old, as is what it took out before.
LEMMA DequeuedAreOld == ASSUME RateTypeOK, OldAreDropped, NEW d \in 0..Len(accepted), Dequeued(d)
                        PROVE  \A i \in 1..d : now - accepted[i] > Window
<1> TAKE i \in 1..d
<1>1. CASE i <= dropped
  BY <1>1 DEF OldAreDropped, RateTypeOK
<1>2. CASE i > dropped
  BY <1>2 DEF Dequeued, Expired, RateTypeOK
<1> QED
  BY <1>1, <1>2 DEF RateTypeOK

LEMMA SlidingStep == RateTypeOK /\ SlidingInv /\ [RateNext]_rateVars => SlidingInv'
<1> SUFFICES ASSUME RateTypeOK, SlidingInv, [RateNext]_rateVars PROVE SlidingInv'
  OBVIOUS
<1> USE RateAssumption
<1>1. CASE Tick
  <2>1. now' = now + 1 /\ accepted' = accepted /\ dropped' = dropped
    BY <1>1 DEF Tick, slidingVars
  <2>2. \A i \in 1..dropped : accepted[i] \in Nat
    BY DEF RateTypeOK
  <2>3. OldAreDropped'
    BY <2>1, <2>2 DEF SlidingInv, OldAreDropped, RateTypeOK
  <2> QED
    BY <2>1, <2>3 DEF SlidingInv, SlidingBound
<1>2. CASE SlidingAccept
  <2>1. PICK d \in 0..Len(accepted) :
          Dequeued(d) /\ Len(accepted) - d < SlidingMax /\ dropped' = d
    BY <1>2 DEF SlidingAccept
  <2>2. accepted' = Append(accepted, now) /\ now' = now
    BY <1>2 DEF SlidingAccept
  <2>3. \A i \in 1..d : now - accepted[i] > Window
    BY <2>1, DequeuedAreOld DEF SlidingInv
  <2>4. /\ Len(accepted') = Len(accepted) + 1
        /\ accepted'[Len(accepted) + 1] = now
        /\ \A i \in 1..Len(accepted) : accepted'[i] = accepted[i]
    BY <2>2 DEF RateTypeOK
  <2>5. OldAreDropped'
    BY <2>1, <2>2, <2>3, <2>4 DEF OldAreDropped, RateTypeOK
  <2>6. SlidingBound'
    <3> SUFFICES ASSUME NEW i \in 1..Len(accepted'), NEW j \in 1..Len(accepted'),
                        j >= i + SlidingMax
                 PROVE  accepted'[j] - accepted'[i] > Window
      BY DEF SlidingBound
    <3>0. Len(accepted) \in Nat /\ SlidingMax \in Nat \ {0}
      BY DEF RateTypeOK
    <3>1. CASE j <= Len(accepted)
      <4>1. i \in 1..Len(accepted) /\ j \in 1..Len(accepted)
        BY <3>0, <3>1, <2>4
      <4>2. accepted[j] - accepted[i] > Window
        BY <4>1 DEF SlidingInv, SlidingBound
      <4> QED
        BY <4>1, <4>2, <2>4
    <3>2. CASE j = Len(accepted) + 1
      <4>1. i \in 1..d /\ i \in 1..Len(accepted)
        BY <3>2, <2>1 DEF RateTypeOK
      <4> QED
        BY <4>1, <3>2, <2>3, <2>4
    <3> QED
      BY <3>0, <3>1, <3>2, <2>4
  <2> QED
    BY <2>5, <2>6 DEF SlidingInv
<1>3. CASE SlidingRefuse
  <2>1. PICK d \in 0..Len(accepted) : Dequeued(d) /\ dropped' = d
    BY <1>3 DEF SlidingRefuse
  <2>2. accepted' = accepted /\ now' = now
    BY <1>3 DEF SlidingRefuse
  <2>3. OldAreDropped'
    BY <2>1, <2>2, DequeuedAreOld DEF SlidingInv, OldAreDropped
  <2> QED
    BY <2>2, <2>3 DEF SlidingInv, SlidingBound
<1>4. CASE FixedAccept \/ FixedRefuse
  BY <1>4 DEF FixedAccept, FixedRefuse, FixedCount, slidingVars, SlidingInv, OldAreDropped,
              SlidingBound
<1>5. CASE UNCHANGED rateVars
  BY <1>5 DEF rateVars, slidingVars, SlidingInv, OldAreDropped, SlidingBound
<1> QED
  BY <1>1, <1>2, <1>3, <1>4, <1>5 DEF RateNext

\* _sendTimestamps never lets more than MaxMessagesPerSecond through in any second.
THEOREM SlidingHolds == RateSpec => []SlidingBound
<1>1. SlidingInv => SlidingBound
  BY DEF SlidingInv
<1> QED
  BY <1>1, SlidingInit, SlidingStep, RateTypeHolds, PTL DEF RateSpec

-----------------------------------------------------------------------------
(* The fixed window.                                                        *)

\* The messages taken in the window that is open: those counted, but for the refused.
InWindow == IF count <= FixedMax THEN count ELSE FixedMax

\* The messages of earlier windows were taken before this one began; all but the last FixedMax of
\* them a window before, because between them and this one lies another.
FixedInv ==
  /\ windowStart <= now
  /\ \A i \in 1..Len(taken) : taken[i] <= now
  /\ InWindow <= Len(taken)
  /\ \A i \in 1..(Len(taken) - InWindow) : taken[i] <= windowStart
  /\ \A i \in 1..(Len(taken) - InWindow - FixedMax) : windowStart - taken[i] >= Window
  /\ FixedBound

LEMMA FixedInit == RateInit => FixedInv
BY RateAssumption DEF RateInit, FixedInv, FixedBound, InWindow

LEMMA InWindowBounds == ASSUME RateTypeOK PROVE InWindow \in 0..FixedMax
BY RateAssumption DEF InWindow, RateTypeOK

\* A message in a window of its own: what was open is over, and the one before it is a window away.
LEMMA NewWindow == ASSUME RateTypeOK, FixedInv, WindowOver
                   PROVE  \A i \in 1..(Len(taken) - FixedMax) : now - taken[i] >= Window
<1> TAKE i \in 1..(Len(taken) - FixedMax)
<1>1. Len(taken) \in Nat /\ FixedMax \in Nat \ {0} /\ InWindow \in 0..FixedMax
  BY RateAssumption, InWindowBounds DEF RateTypeOK
<1>2. i \in 1..Len(taken) /\ i \in 1..(Len(taken) - InWindow)
  BY <1>1
<1>3. taken[i] \in Nat /\ windowStart \in Nat /\ now \in Nat
  BY <1>2 DEF RateTypeOK
<1> QED
  BY <1>2, <1>3, RateAssumption DEF FixedInv, WindowOver

LEMMA FixedAcceptStep == ASSUME RateTypeOK, FixedInv, FixedAccept PROVE FixedInv'
<1> DEFINE L == Len(taken)
<1>1. /\ Len(taken') = L + 1 /\ taken'[L + 1] = now
      /\ \A i \in 1..L : taken'[i] = taken[i]
  BY DEF FixedAccept, RateTypeOK
<1>2. L \in Nat /\ (\A i \in 1..L : taken[i] \in Nat) /\ now' = now /\ now \in Nat
  BY DEF FixedAccept, FixedCount, RateTypeOK
<1>3. FixedMax \in Nat \ {0} /\ Window \in Nat \ {0} /\ InWindow \in 0..FixedMax
  BY RateAssumption, InWindowBounds
<1>4. /\ windowStart' \in Nat /\ windowStart' <= now
      /\ InWindow' \in 1..FixedMax /\ InWindow' <= L + 1
      /\ \A i \in 1..(L + 1 - InWindow') : taken[i] <= windowStart'
      /\ \A i \in 1..(L + 1 - InWindow' - FixedMax) : windowStart' - taken[i] >= Window
  <2>1. CASE WindowOver
    <3>1. windowStart' = now /\ count' = 1 /\ InWindow' = 1
      BY <2>1, <1>3 DEF FixedAccept, FixedCount, Counted, InWindow
    <3>2. \A i \in 1..(L - FixedMax) : now - taken[i] >= Window
      BY <2>1, NewWindow
    <3> QED
      BY <3>1, <3>2, <1>2, <1>3 DEF FixedInv
  <2>2. CASE ~WindowOver
    <3>1. /\ windowStart' = windowStart /\ count' = count + 1 /\ count + 1 <= FixedMax
          /\ count \in Nat /\ windowStart \in Nat
      BY <2>2 DEF FixedAccept, FixedCount, Counted, RateTypeOK
    <3>2. InWindow = count /\ InWindow' = count + 1
      BY <3>1, <1>3 DEF InWindow
    <3>3. L + 1 - InWindow' = L - InWindow
      BY <3>1, <3>2, <1>2
    <3> QED
      BY <3>1, <3>2, <3>3, <1>2, <1>3 DEF FixedInv
  <2> QED
    BY <2>1, <2>2
<1>5. FixedBound'
  <2> SUFFICES ASSUME NEW i \in 1..Len(taken'), NEW j \in 1..Len(taken'), j >= i + 2 * FixedMax
               PROVE  taken'[j] - taken'[i] >= Window
    BY DEF FixedBound
  <2>1. CASE j <= L
    <3>1. i \in 1..L /\ j \in 1..L
      BY <2>1, <1>1, <1>2, <1>3
    <3>2. taken[j] - taken[i] >= Window
      BY <3>1 DEF FixedInv, FixedBound
    <3> QED
      BY <3>1, <3>2, <1>1
  <2>2. CASE j = L + 1
    <3>1. i \in 1..(L + 1 - InWindow' - FixedMax) /\ i \in 1..L
      BY <2>2, <1>1, <1>2, <1>3, <1>4
    <3>2. taken[i] \in Nat /\ taken'[i] = taken[i] /\ taken'[j] = now
      BY <3>1, <2>2, <1>1, <1>2
    <3>3. windowStart' - taken[i] >= Window
      BY <3>1, <1>4
    <3> QED
      BY <3>2, <3>3, <1>2, <1>3, <1>4
  <2> QED
    BY <2>1, <2>2, <1>1, <1>2
<1>6. \A i \in 1..Len(taken') : taken'[i] <= now'
  BY <1>1, <1>2 DEF FixedInv
<1>7. \A i \in 1..(Len(taken') - InWindow') : i \in 1..L /\ taken'[i] <= windowStart'
  BY <1>1, <1>2, <1>4
<1>8. \A i \in 1..(Len(taken') - InWindow' - FixedMax) : windowStart' - taken'[i] >= Window
  <2> TAKE i \in 1..(Len(taken') - InWindow' - FixedMax)
  <2>1. i \in 1..(L + 1 - InWindow' - FixedMax) /\ i \in 1..L
    BY <1>1, <1>2, <1>3, <1>4
  <2> QED
    BY <2>1, <1>1, <1>4
<1> QED
  BY <1>1, <1>2, <1>4, <1>5, <1>6, <1>7, <1>8 DEF FixedInv

LEMMA FixedRefuseStep == ASSUME RateTypeOK, FixedInv, FixedRefuse PROVE FixedInv'
<1>1. FixedMax \in Nat \ {0} /\ count \in Nat
  BY RateAssumption DEF RateTypeOK
<1>2. count + 1 > FixedMax /\ count' = count + 1 /\ windowStart' = windowStart
  BY <1>1 DEF FixedRefuse, FixedCount, Counted
<1>3. InWindow = FixedMax /\ InWindow' = FixedMax
  BY <1>1, <1>2 DEF InWindow
<1>4. taken' = taken /\ now' = now
  BY DEF FixedRefuse, FixedCount
<1> QED
  BY <1>2, <1>3, <1>4 DEF FixedInv, FixedBound

LEMMA FixedStep == RateTypeOK /\ FixedInv /\ [RateNext]_rateVars => FixedInv'
<1> SUFFICES ASSUME RateTypeOK, FixedInv, [RateNext]_rateVars PROVE FixedInv'
  OBVIOUS
<1>1. CASE Tick
  <2>1. now' = now + 1 /\ UNCHANGED fixedVars /\ InWindow' = InWindow
    BY <1>1 DEF Tick, fixedVars, InWindow
  <2>2. now \in Nat /\ windowStart \in Nat /\ \A i \in 1..Len(taken) : taken[i] \in Nat
    BY DEF RateTypeOK
  <2> QED
    BY <2>1, <2>2 DEF FixedInv, FixedBound, fixedVars
<1>2. CASE SlidingAccept \/ SlidingRefuse
  BY <1>2 DEF SlidingAccept, SlidingRefuse, fixedVars, FixedInv, FixedBound, InWindow
<1>3. CASE FixedAccept
  BY <1>3, FixedAcceptStep
<1>4. CASE FixedRefuse
  BY <1>4, FixedRefuseStep
<1>5. CASE UNCHANGED rateVars
  BY <1>5 DEF rateVars, fixedVars, FixedInv, FixedBound, InWindow
<1> QED
  BY <1>1, <1>2, <1>3, <1>4, <1>5 DEF RateNext

\* rate never lets more than 2 * RATE_LIMIT_MAX messages through in less than a window.
THEOREM FixedHolds == RateSpec => []FixedBound
<1>1. FixedInv => FixedBound
  BY DEF FixedInv
<1> QED
  BY <1>1, FixedInit, FixedStep, RateTypeHolds, PTL DEF RateSpec

\* Both limits hold of one connection's messages.
THEOREM RateBoundsHold == RateSpec => []RateBounds
<1>1. SlidingBound /\ FixedBound => RateBounds
  BY DEF RateBounds
<1> QED
  BY <1>1, SlidingHolds, FixedHolds, PTL

-----------------------------------------------------------------------------
(* The views and the limits.                                                *)

LEMMA StartsOutsideLimits == Starts => UNCHANGED rateVars
BY DEF Starts, SseStarts, SocketStarts, GrpcStarts, PollingStarts, SignalRStarts,
       WebSocketsStarts, StartWith

LEMMA AnswersOutsideLimits == ASSUME NEW s \in Sends, Answered(s) PROVE UNCHANGED rateVars
BY DEF Answered, GrpcAnswered, PollingAnswered, SocketAnswered, SignalRAnswered,
       SseAnsweredByHand, SseAnswered, WaitForReceive

\* Each step of the views and the servers is a step of the limits, or leaves them alone.
LEMMA LimitsRefined == [Next]_vars => [RateNext]_rateVars
<1> SUFFICES ASSUME [Next]_vars PROVE [RateNext]_rateVars
  OBVIOUS
<1>1. CASE Starts \/ Stop
  BY <1>1, StartsOutsideLimits DEF Stop
<1>2. CASE Pass
  BY <1>2 DEF Pass, RateNext
<1>3. ASSUME NEW l \in Loops, Turns(l) PROVE [RateNext]_rateVars
  BY <1>3 DEF Turns, SendAgain, Elapse, EndStopped
<1>4. ASSUME NEW s \in Sends, SendByHand(s) PROVE [RateNext]_rateVars
  BY <1>4 DEF SendByHand
<1>5. ASSUME NEW s \in Sends, SocketServes(s) \/ WebSocketServes(s) \/ CoreServes(s)
      PROVE  [RateNext]_rateVars
  BY <1>5 DEF SocketServes, WebSocketServes, CoreServes, RateNext
<1>6. ASSUME NEW s \in Sends, Answered(s) PROVE [RateNext]_rateVars
  BY <1>6, AnswersOutsideLimits
<1>7. ASSUME NEW s \in Sends,
             CallFails(s) \/ EchoArrives(s) \/ SseEchoArrives(s) \/ EchoTimesOut(s) \/ SseTimerFires(s)
      PROVE  [RateNext]_rateVars
  BY <1>7 DEF CallFails, EchoArrives, SseEchoArrives, EchoTimesOut, SseTimerFires
<1>8. CASE UNCHANGED vars
  BY <1>8 DEF vars
<1> QED
  BY <1>1, <1>2, <1>3, <1>4, <1>5, <1>6, <1>7, <1>8 DEF Next

\* The servers limit each connection as RateLimits says, whatever its view does.
THEOREM UsesTheLimits == Spec => RateSpec
<1>1. Init => RateInit
  BY DEF Init
<1> QED
  BY <1>1, LimitsRefined, PTL DEF Spec, RateSpec

\* What the limits let through of what the six views send, by hand and by themselves.
THEOREM RateBoundsOfRuns == Spec => []RateBounds
BY UsesTheLimits, RateBoundsHold, PTL

-----------------------------------------------------------------------------
(* Types.                                                                   *)

LEMMA AutoTypeInit == Init => TypeOK
<1> SUFFICES ASSUME Init PROVE TypeOK
  OBVIOUS
<1>1. loop \in [Loops -> LoopStates]
  BY DEF Init, LoopStates
<1>2. send \in [Sends -> SendStates]
  BY DEF Init, SendStates
<1> QED
  BY <1>1, <1>2 DEF Init, TypeOK

\* What sendMessageWithMetrics leaves, whatever was made of the earlier messages before.
Begun(s, from, ready, e) ==
  /\ send' \in [Sends -> SendStates]
  /\ \A t \in Sends \ {s} : send'[t] = from[t]
  /\ send'[s].cli = (IF ~ready THEN "failed" ELSE IF tech = "WebSockets" THEN "waiting" ELSE "asked")
  /\ send'[s].srv = (IF ready THEN "sent" ELSE "none")
  /\ send'[s].epoch = e
  /\ send[s].cli = "none" /\ outrun' = outrun

LEMMA LoopSubmits ==
  ASSUME NEW s \in Sends, NEW STATE from, from \in [Sends -> SendStates], NEW ready \in BOOLEAN,
         NEW STATE e, e \in Nat, Submit(s, from, ready, TRUE, e)
  PROVE  Begun(s, from, ready, e) /\ send'[s].auto
<1> DEFINE cli == CASE ~ready -> "failed"
                    [] ready /\ tech = "WebSockets" -> "waiting"
                    [] OTHER -> "asked"
           new == [cli |-> cli, srv |-> IF ready THEN "sent" ELSE "none",
                   auto |-> TRUE, epoch |-> e, runId |-> 0]
<1>1. send' = [from EXCEPT ![s] = new] /\ send[s].cli = "none" /\ outrun' = outrun
  BY DEF Submit, IsNext
<1>2. cli = (IF ~ready THEN "failed" ELSE IF tech = "WebSockets" THEN "waiting" ELSE "asked")
  OBVIOUS
<1>3. cli \in {"none", "asked", "waiting"} \cup Returned \cup Timed
  BY <1>2 DEF Returned
<1> HIDE DEF cli
<1>4. new \in SendStates
  BY <1>3 DEF SendStates
<1> QED
  BY <1>1, <1>2, <1>4 DEF Begun

LEMMA HandSubmits ==
  ASSUME TypeOK, NEW s \in Sends, NEW ready \in BOOLEAN, Submit(s, send, ready, FALSE, starts), starts \in Nat
  PROVE  Begun(s, send, ready, starts) /\ ~send'[s].auto
<1> DEFINE cli == CASE ~ready -> "failed"
                    [] ready /\ tech = "WebSockets" -> "waiting"
                    [] OTHER -> "asked"
           new == [cli |-> cli, srv |-> IF ready THEN "sent" ELSE "none",
                   auto |-> FALSE, epoch |-> starts, runId |-> 0]
<1>1. send' = [send EXCEPT ![s] = new] /\ send[s].cli = "none" /\ outrun' = outrun
  BY DEF Submit, IsNext
<1>2. cli = (IF ~ready THEN "failed" ELSE IF tech = "WebSockets" THEN "waiting" ELSE "asked")
  OBVIOUS
<1>3. cli \in {"none", "asked", "waiting"} \cup Returned \cup Timed
  BY <1>2 DEF Returned
<1> HIDE DEF cli
<1>4. new \in SendStates
  BY <1>3 DEF SendStates
<1> QED
  BY <1>1, <1>2, <1>4 DEF Begun, TypeOK

\* startAutoSend keeps the types.
LEMMA StartKeepsTypes ==
  ASSUME TypeOK, RateTypeOK, NEW t, NEW STATE w, w \subseteq waiters, NEW STATE r, r \subseteq received,
         NEW STATE from, from \in [Sends -> SendStates],
         \A s \in w : from[s].cli = "waiting",
         StartWith(t, w, r, from)
  PROVE  TypeOK'
<1>1. PICK s \in Sends, ready \in BOOLEAN :
        /\ Submit(s, from, ready, TRUE, starts + 1)
        /\ loop' = [loop EXCEPT ![starts + 1] = Sending(s, run + 1, now + SimTime, ready)]
        /\ waiters' = IF ready /\ t = "WebSockets" THEN w \cup {s} ELSE w
        /\ fail' = IF ready THEN 0 ELSE 1
  BY DEF StartWith
<1>2. starts \in Nat /\ run \in Nat /\ now \in Nat /\ SimTime \in Nat /\ Interval \in Nat
  BY AutoAssumption DEF TypeOK, RateTypeOK
<1>3. Sending(s, run + 1, now + SimTime, ready) \in LoopStates
  BY <1>2 DEF Sending, LoopStates
<1>4. loop' \in [Loops -> LoopStates]
  BY <1>1, <1>3 DEF TypeOK
<1>5. Begun(s, from, ready, starts + 1)
  <2>1. starts + 1 \in Nat
    BY <1>2
  <2>2. Submit(s, from, ready, TRUE, starts + 1)
    BY <1>1
  <2> QED
    BY <2>1, <2>2, LoopSubmits
<1>6. waiters' \subseteq {u \in Sends : send'[u].cli = "waiting"}
  BY <1>1, <1>5 DEF StartWith, Begun, TypeOK
<1> QED
  BY <1>1, <1>2, <1>4, <1>5, <1>6 DEF StartWith, Begun, TypeOK

LEMMA StartsKeepTypes == ASSUME TypeOK, RateTypeOK, Starts PROVE TypeOK'
<1>1. CASE SseStarts
  <2> DEFINE from == [s \in Sends |-> IF send[s].cli \in Timed THEN [send[s] EXCEPT !.cli = "dropped"]
                                                            ELSE send[s]]
  <2>1. from \in [Sends -> SendStates]
    <3> SUFFICES ASSUME NEW s \in Sends, send[s].cli \in Timed
                 PROVE  [send[s] EXCEPT !.cli = "dropped"] \in SendStates
      BY DEF TypeOK
    <3> QED
      BY DEF TypeOK, SendStates, Timed
  <2>2. \A s \in waiters : from[s].cli = "waiting"
    BY DEF TypeOK, Timed
  <2>3. StartWith("SSE", waiters, {}, from)
    BY <1>1 DEF SseStarts
  <2> HIDE DEF from
  <2> QED
    BY <2>1, <2>2, <2>3, StartKeepsTypes
<1>2. send \in [Sends -> SendStates] /\ \A s \in waiters : send[s].cli = "waiting"
  BY DEF TypeOK
<1>3. CASE SocketStarts
  BY <1>2, <1>3, StartKeepsTypes DEF SocketStarts
<1>4. CASE GrpcStarts \/ PollingStarts \/ SignalRStarts \/ WebSocketsStarts
  BY <1>2, <1>4, StartKeepsTypes DEF GrpcStarts, PollingStarts, SignalRStarts, WebSocketsStarts
<1> QED
  BY <1>1, <1>3, <1>4 DEF Starts

LEMMA ResumedType == ASSUME TypeOK, RateTypeOK, NEW s \in Sends PROVE Resumed(s) \in [Loops -> LoopStates]
<1>1. ASSUME NEW l \in Loops
      PROVE  loop[l] \in LoopStates /\ [loop[l] EXCEPT !.pc = "pausing", !.wake = now + Interval] \in LoopStates
  <2>1. loop[l] \in LoopStates /\ now + Interval \in Nat
    BY AutoAssumption DEF TypeOK, RateTypeOK
  <2> QED
    BY <2>1 DEF LoopStates
<1> QED
  BY <1>1 DEF Resumed

LEMMA TurnsKeepTypes == ASSUME TypeOK, RateTypeOK, NEW l \in Loops, Turns(l) PROVE TypeOK'
<1>1. CASE SendAgain(l)
  <2>1. PICK s \in Sends, ready \in BOOLEAN :
          /\ Submit(s, send, ready, TRUE, starts)
          /\ loop' = [loop EXCEPT ![l] = Sending(s, loop[l].id, loop[l].stopAt, ready)]
          /\ waiters' = IF ready /\ tech = "WebSockets" THEN waiters \cup {s} ELSE waiters
          /\ fail' = IF ready THEN fail ELSE fail + 1
    BY <1>1 DEF SendAgain
  <2>2. starts \in Nat /\ send \in [Sends -> SendStates]
    BY AutoAssumption DEF TypeOK
  <2>3. Submit(s, send, ready, TRUE, starts)
    BY <2>1
  <2>4. Begun(s, send, ready, starts)
    BY <2>2, <2>3, LoopSubmits
  <2>5. Sending(s, loop[l].id, loop[l].stopAt, ready) \in LoopStates
    BY AutoAssumption DEF TypeOK, RateTypeOK, Sending, LoopStates
  <2>6. loop' \in [Loops -> LoopStates]
    BY <2>1, <2>5 DEF TypeOK
  <2>7. waiters' \subseteq {u \in Sends : send'[u].cli = "waiting"}
    BY <2>1, <2>4 DEF Begun, TypeOK
  <2> QED
    BY <1>1, <2>1, <2>4, <2>6, <2>7 DEF SendAgain, Begun, TypeOK
<1>2. CASE Elapse(l) \/ EndStopped(l)
  <2>1. loop' = [loop EXCEPT ![l].pc = "over"]
    BY <1>2 DEF Elapse, EndStopped
  <2>2. loop' \in [Loops -> LoopStates]
    BY <2>1 DEF TypeOK, LoopStates
  <2> QED
    <3>1. run' \in Nat
      BY <1>2 DEF Elapse, EndStopped, TypeOK
    <3>a. isAutoSending' = FALSE \/ isAutoSending' = isAutoSending
      BY <1>2 DEF Elapse, EndStopped
    <3>2. UNCHANGED <<tech, send, echoVars, counters, starts, clean, outrun>>
      BY <1>2 DEF Elapse, EndStopped
    <3> QED
      BY <2>2, <3>1, <3>a, <3>2 DEF TypeOK, echoVars, counters
<1> QED
  BY <1>1, <1>2 DEF Turns

LEMMA ByHandKeepsTypes == ASSUME TypeOK, NEW s \in Sends, SendByHand(s) PROVE TypeOK'
<1>1. PICK ready \in BOOLEAN :
        /\ Submit(s, send, ready, FALSE, starts)
        /\ waiters' = IF ready /\ tech = "WebSockets" THEN waiters \cup {s} ELSE waiters
        /\ UNCHANGED <<rateVars, tech, loopVars, received, heard, counters>>
  BY DEF SendByHand
<1>2. starts \in Nat
  BY AutoAssumption DEF TypeOK
<1>3. Submit(s, send, ready, FALSE, starts)
  BY <1>1
<1>4. Begun(s, send, ready, starts)
  BY <1>2, <1>3, HandSubmits
<1>5. waiters' \subseteq {u \in Sends : send'[u].cli = "waiting"}
  BY <1>1, <1>4 DEF Begun, TypeOK
<1> QED
  BY <1>1, <1>4, <1>5 DEF Begun, TypeOK, loopVars, counters

\* The steps that end sendMessageWithMetrics, and what they leave of the wait.
LEMMA ReturnKeepsTypes ==
  ASSUME TypeOK, RateTypeOK, NEW s \in Sends, NEW cli \in Returned, Return(s, cli),
         waiters' \subseteq waiters, s \notin waiters', received' \subseteq heard', heard' \subseteq Sends,
         ok' \in Nat, fail' \in Nat
  PROVE  TypeOK'
<1>1. /\ send' = [send EXCEPT ![s].cli = cli] /\ loop' = Resumed(s)
      /\ UNCHANGED <<tech, run, isAutoSending, starts, clean, attempts>> /\ outrun' \in BOOLEAN
  BY DEF Return
<1>2. send' \in [Sends -> SendStates]
  BY <1>1 DEF TypeOK, SendStates
<1>3. waiters' \subseteq {u \in Sends : send'[u].cli = "waiting"}
  BY <1>1 DEF TypeOK
<1>4. loop' \in [Loops -> LoopStates]
  BY <1>1, ResumedType
<1> QED
  BY <1>1, <1>2, <1>3, <1>4 DEF TypeOK

LEMMA WaitKeepsTypes ==
  ASSUME TypeOK, RateTypeOK, NEW s \in Sends, WaitForReceive(s), ok' \in Nat PROVE TypeOK'
<1>1. CASE s \in received /\ Return(s, "ok") /\ UNCHANGED waiters
  BY <1>1, ReturnKeepsTypes DEF WaitForReceive, TypeOK, Returned
<1>2. CASE /\ send' = [send EXCEPT ![s].cli = "waiting"]
           /\ waiters' = waiters \cup {s}
           /\ UNCHANGED <<tech, loopVars, attempts, outrun>>
  <2>1. send' \in [Sends -> SendStates]
    BY <1>2 DEF TypeOK, SendStates
  <2>2. waiters' \subseteq {u \in Sends : send'[u].cli = "waiting"}
    BY <1>2 DEF TypeOK
  <2> QED
    BY <1>2, <2>1, <2>2 DEF WaitForReceive, TypeOK, loopVars
<1> QED
  BY <1>1, <1>2 DEF WaitForReceive

\* What the SSE loop does to a message: it notes the run as well.
LEMMA NotedType ==
  ASSUME TypeOK, NEW s \in Sends, NEW cli \in Returned \cup Timed, NEW STATE r, r \in Nat,
         send' = [send EXCEPT ![s].cli = cli, ![s].runId = r]
  PROVE  /\ send' \in [Sends -> SendStates]
         /\ \A t \in Sends \ {s} : send'[t] = send[t]
         /\ send'[s].cli = cli /\ send'[s].srv = send[s].srv
         /\ send'[s].auto = send[s].auto /\ send'[s].epoch = send[s].epoch
<1> DEFINE new == [send[s] EXCEPT !.cli = cli, !.runId = r]
<1>1. send[s] \in SendStates
  BY DEF TypeOK
<1>2. new \in SendStates
  BY <1>1 DEF SendStates
<1>3. new.cli = cli /\ new.srv = send[s].srv /\ new.auto = send[s].auto /\ new.epoch = send[s].epoch
  BY <1>1 DEF SendStates
<1>4. send' = [send EXCEPT ![s] = new]
  OBVIOUS
<1> HIDE DEF new
<1> QED
  BY <1>2, <1>3, <1>4 DEF TypeOK

LEMMA AnswerKeepsTypes == ASSUME TypeOK, RateTypeOK, NEW s \in Sends, Answered(s) PROVE TypeOK'
<1>1. CASE GrpcAnswered(s) \/ PollingAnswered(s) \/ SocketAnswered(s) \/ SignalRAnswered(s)
  <2>1. WaitForReceive(s) /\ ok' \in Nat
    BY <1>1 DEF GrpcAnswered, PollingAnswered, SocketAnswered, SignalRAnswered, CountIf, TypeOK
  <2> QED
    BY <2>1, WaitKeepsTypes
<1>2. CASE SseAnsweredByHand(s)
  <2>1. send' \in [Sends -> SendStates]
    BY <1>2 DEF SseAnsweredByHand, TypeOK, SendStates, Returned
  <2>2. waiters' \subseteq {u \in Sends : send'[u].cli = "waiting"}
    BY <1>2 DEF SseAnsweredByHand, TypeOK
  <2> QED
    BY <1>2, <2>1, <2>2 DEF SseAnsweredByHand, TypeOK, loopVars, counters
<1>3. CASE SseAnswered(s)
  <2>1. send' \in [Sends -> SendStates]
    <3>1. PICK cli \in {"ok", "posted"}, runId \in Nat :
            send' = [send EXCEPT ![s].cli = cli, ![s].runId = runId]
      BY <1>3 DEF SseAnswered, TypeOK
    <3> QED
      BY <3>1, NotedType DEF Returned, Timed
  <2>2. waiters' \subseteq {u \in Sends : send'[u].cli = "waiting"}
    BY <1>3 DEF SseAnswered, TypeOK
  <2>3. loop' \in [Loops -> LoopStates] /\ ok' \in Nat
    BY <1>3, ResumedType DEF SseAnswered, TypeOK
  <2> QED
    BY <1>3, <2>1, <2>2, <2>3 DEF SseAnswered, TypeOK
<1> QED
  BY <1>1, <1>2, <1>3 DEF Answered

LEMMA EchoKeepsTypes ==
  ASSUME TypeOK, RateTypeOK, NEW s \in Sends,
         CallFails(s) \/ EchoArrives(s) \/ SseEchoArrives(s) \/ EchoTimesOut(s) \/ SseTimerFires(s)
  PROVE  TypeOK'
<1>1. CASE CallFails(s)
  <2>1. Return(s, "failed") /\ s \notin waiters /\ UNCHANGED <<waiters, received, heard>>
        /\ ok' \in Nat /\ fail' \in Nat
    BY <1>1 DEF CallFails, CountIf, TypeOK, echoVars
  <2> QED
    BY <2>1, ReturnKeepsTypes DEF TypeOK, Returned
<1>2. CASE EchoTimesOut(s)
  <2>1. Return(s, "unheard") /\ waiters' = waiters \ {s} /\ UNCHANGED <<received, heard, ok, fail>>
    BY <1>2 DEF EchoTimesOut
  <2> QED
    BY <2>1, ReturnKeepsTypes DEF TypeOK, Returned
<1>3. CASE EchoArrives(s)
  <2>1. /\ heard' = heard \cup {s} /\ waiters' = waiters \ {s} /\ received' \subseteq heard'
        /\ UNCHANGED fail
    BY <1>3 DEF EchoArrives, TypeOK
  <2>2. CASE Return(s, "ok") /\ ok' = CountIf(s, ok, tech # "SignalR")
    BY <2>1, <2>2, ReturnKeepsTypes DEF TypeOK, Returned, CountIf
  <2>3. CASE UNCHANGED <<send, tech, loopVars, ok, attempts, outrun>>
    BY <2>1, <2>3 DEF TypeOK, loopVars
  <2> QED
    BY <1>3, <2>2, <2>3 DEF EchoArrives
<1>4. CASE SseEchoArrives(s)
  <2>1. /\ heard' = heard \cup {s} /\ received' \subseteq heard' /\ ok' \in Nat /\ fail' \in Nat
        /\ UNCHANGED <<tech, loopVars, waiters, attempts, outrun>>
    BY <1>4 DEF SseEchoArrives, TypeOK
  <2>2. \/ send[s].cli # "waiting" /\ send' = [send EXCEPT ![s].cli = "ok"]
        \/ send' = send
    BY <1>4 DEF SseEchoArrives
  <2>3. send' \in [Sends -> SendStates] /\ waiters' \subseteq {u \in Sends : send'[u].cli = "waiting"}
    BY <2>1, <2>2 DEF TypeOK, SendStates, Returned
  <2> QED
    BY <2>1, <2>3 DEF TypeOK, loopVars
<1>5. CASE SseTimerFires(s)
  <2>1. send' \in [Sends -> SendStates]
    <3>1. PICK cli \in {"late", "silent"} : send' = [send EXCEPT ![s].cli = cli, ![s].runId = 0]
      BY <1>5 DEF SseTimerFires
    <3> QED
      BY <3>1, NotedType DEF Timed
  <2>2. waiters' \subseteq {u \in Sends : send'[u].cli = "waiting"}
    BY <1>5 DEF SseTimerFires, TypeOK, echoVars
  <2>3. fail' \in Nat
    BY <1>5 DEF SseTimerFires, TypeOK
  <2> QED
    BY <1>5, <2>1, <2>2, <2>3 DEF SseTimerFires, TypeOK, loopVars, echoVars
<1> QED
  BY <1>1, <1>2, <1>3, <1>4, <1>5

LEMMA ServingKeepsTypes ==
  ASSUME TypeOK, NEW s \in Sends, SocketServes(s) \/ WebSocketServes(s) \/ CoreServes(s) PROVE TypeOK'
<1>1. /\ send' = [send EXCEPT ![s].srv = "saved"] \/ send' = [send EXCEPT ![s].srv = "refused"]
      /\ UNCHANGED <<tech, loopVars, echoVars, counters, outrun>>
  BY DEF SocketServes, WebSocketServes, CoreServes
<1>2. send' \in [Sends -> SendStates] /\ waiters' \subseteq {u \in Sends : send'[u].cli = "waiting"}
  BY <1>1 DEF TypeOK, SendStates, echoVars
<1> QED
  BY <1>1, <1>2 DEF TypeOK, loopVars, echoVars, counters

LEMMA AutoTypeStep == TypeOK /\ RateTypeOK /\ [Next]_vars => TypeOK'
<1> SUFFICES ASSUME TypeOK, RateTypeOK, [Next]_vars PROVE TypeOK'
  OBVIOUS
<1>1. CASE Stop
  <2>1. run' \in Nat /\ isAutoSending' = FALSE
    BY <1>1 DEF Stop, TypeOK
  <2>2. UNCHANGED <<rateVars, tech, loop, send, echoVars, counters, starts, clean, outrun>>
    BY <1>1 DEF Stop
  <2> QED
    BY <2>1, <2>2 DEF TypeOK, echoVars, counters
<1>2. CASE Pass \/ UNCHANGED vars
  BY <1>2 DEF Pass, vars, TypeOK, loopVars, echoVars, counters
<1> QED
  BY <1>1, <1>2, StartsKeepTypes, TurnsKeepTypes, ByHandKeepsTypes, ServingKeepsTypes, AnswerKeepsTypes,
     EchoKeepsTypes DEF Next

\* What the views keep of their runs, messages and waits has its type, whatever meets.
THEOREM AutoTypeHolds == Spec => []TypeOK
BY AutoTypeInit, AutoTypeStep, UsesTheLimits, RateTypeHolds, PTL DEF Spec

-----------------------------------------------------------------------------
(* Waits and echoes.  NoLostWakeup depends on the push knowing every wait, *)
(* and on a wait looking at what the push has brought before.              *)

\* startAutoSend of Socket.IO threw its waiter and its echo away: it was sent before the run began.
ThrownAway(s) == tech = "SocketIO" /\ send[s].epoch < starts

Kept(s) ==
  /\ send[s].epoch <= starts
  /\ send[s].cli = "none" => send[s].srv = "none"
  /\ s \in heard => send[s].srv = "saved"
  /\ send[s].cli = "waiting" => s \in waiters \/ ThrownAway(s)
  /\ s \in waiters /\ s \in heard => ThrownAway(s)
  /\ s \in heard /\ tech # "SSE" => s \in received \/ ThrownAway(s)
  /\ tech = "SSE" /\ send[s].auto => send[s].cli # "waiting"

EchoInv == \A s \in Sends : Kept(s)

LEMMA EchoInit == Init => EchoInv
BY DEF Init, EchoInv, Kept, ThrownAway

\* What a step leaves of a message it does not touch.
LEMMA StaysKept ==
  ASSUME NEW s, Kept(s), tech' = tech, starts' = starts, send'[s] = send[s],
         s \in heard' <=> s \in heard, s \in waiters' <=> s \in waiters, s \in received' <=> s \in received
  PROVE  Kept(s)'
BY DEF Kept, ThrownAway

LEMMA StartKeepsEchoes ==
  ASSUME TypeOK, EchoInv, NEW STATE w, NEW STATE r, NEW STATE from, NEW t,
         from \in [Sends -> SendStates],
         \A s \in Sends : /\ from[s].srv = send[s].srv /\ from[s].epoch = send[s].epoch
                          /\ from[s].auto = send[s].auto
                          /\ from[s].cli = "none" <=> send[s].cli = "none"
                          /\ from[s].cli = "waiting" => send[s].cli = "waiting",
         w \subseteq waiters, t \notin {"SSE", "SocketIO"} => w = waiters /\ r = received,
         t = "SSE" => w = waiters,
         StartWith(t, w, r, from)
  PROVE  EchoInv'
<1>1. PICK s \in Sends, ready \in BOOLEAN :
        /\ Submit(s, from, ready, TRUE, starts + 1)
        /\ waiters' = IF ready /\ t = "WebSockets" THEN w \cup {s} ELSE w
  BY DEF StartWith
<1>2. starts \in Nat /\ starts' = starts + 1 /\ tech' = tech /\ tech = t /\ heard' = heard /\ received' = r
  BY AutoAssumption DEF TypeOK, StartWith
<1>3. Begun(s, from, ready, starts + 1) /\ send'[s].auto
  <2>1. starts + 1 \in Nat
    BY <1>2
  <2>2. Submit(s, from, ready, TRUE, starts + 1)
    BY <1>1
  <2> QED
    BY <2>1, <2>2, LoopSubmits
<1>4. Kept(s)'
  <2>1. s \notin heard /\ s \notin waiters
    BY <1>3 DEF EchoInv, Kept, Begun, TypeOK
  <2> QED
    BY <1>1, <1>2, <1>3, <2>1 DEF Begun, Kept, ThrownAway
<1>5. ASSUME NEW u \in Sends \ {s} PROVE Kept(u)'
  <2>1. send'[u] = from[u] /\ (u \in waiters' <=> u \in w) /\ Kept(u) /\ send[u].epoch \in Nat
    BY <1>1, <1>3 DEF Begun, EchoInv, TypeOK, SendStates
  <2>2. /\ send'[u].srv = send[u].srv /\ send'[u].epoch = send[u].epoch
        /\ send'[u].auto = send[u].auto
        /\ send'[u].cli = "none" => send[u].cli = "none"
        /\ send'[u].cli = "waiting" => send[u].cli = "waiting"
    BY <2>1
  <2>3. CASE t = "SocketIO"
    <3>1. ThrownAway(u)'
      BY <1>2, <2>1, <2>2, <2>3 DEF Kept, ThrownAway
    <3> QED
      BY <1>2, <2>1, <2>2, <2>3, <3>1 DEF Kept
  <2>4. CASE t # "SocketIO"
    <3>1. /\ (u \in waiters' <=> u \in waiters) /\ ~ThrownAway(u)
          /\ t # "SSE" => received' = received
      BY <1>2, <2>1, <2>4 DEF ThrownAway
    <3>2. send[u].epoch <= starts' /\ tech # "SocketIO"
      BY <1>2, <2>1, <2>4 DEF Kept
    <3> QED
      BY <1>2, <2>1, <2>2, <2>4, <3>1, <3>2 DEF Kept, ThrownAway
  <2> QED
    BY <2>3, <2>4
<1> QED
  BY <1>4, <1>5 DEF EchoInv

LEMMA StartsKeepEchoes == ASSUME TypeOK, EchoInv, Starts PROVE EchoInv'
<1>1. CASE SseStarts
  <2> DEFINE from == [s \in Sends |-> IF send[s].cli \in Timed THEN [send[s] EXCEPT !.cli = "dropped"]
                                                            ELSE send[s]]
  <2>1. ASSUME NEW s \in Sends
        PROVE  /\ from[s] \in SendStates /\ from[s].srv = send[s].srv /\ from[s].epoch = send[s].epoch
               /\ from[s].auto = send[s].auto
               /\ from[s].cli = "none" <=> send[s].cli = "none"
               /\ from[s].cli = "waiting" => send[s].cli = "waiting"
    BY DEF TypeOK, SendStates, Timed
  <2>2. StartWith("SSE", waiters, {}, from)
    BY <1>1 DEF SseStarts
  <2>3. from \in [Sends -> SendStates]
    BY <2>1
  <2> HIDE DEF from
  <2> QED
    BY <2>1, <2>2, <2>3, StartKeepsEchoes
<1>2. send \in [Sends -> SendStates]
  BY DEF TypeOK
<1>3. CASE SocketStarts
  BY <1>2, <1>3, StartKeepsEchoes DEF SocketStarts
<1>4. CASE GrpcStarts \/ PollingStarts \/ SignalRStarts \/ WebSocketsStarts
  BY <1>2, <1>4, StartKeepsEchoes DEF GrpcStarts, PollingStarts, SignalRStarts, WebSocketsStarts
<1> QED
  BY <1>1, <1>3, <1>4 DEF Starts

\* A message sent while a run goes on, by the loop or by hand.
LEMMA SubmitKeepsEchoes ==
  ASSUME TypeOK, EchoInv, NEW s \in Sends, NEW ready \in BOOLEAN, Begun(s, send, ready, starts),
         waiters' = IF ready /\ tech = "WebSockets" THEN waiters \cup {s} ELSE waiters,
         UNCHANGED <<tech, starts, received, heard>>
  PROVE  EchoInv'
<1>1. starts \in Nat
  BY AutoAssumption DEF TypeOK
<1>2. Kept(s)'
  <2>1. s \notin heard /\ s \notin waiters
    BY DEF EchoInv, Kept, Begun, TypeOK
  <2> QED
    BY <1>1, <2>1 DEF Begun, Kept, ThrownAway
<1>3. ASSUME NEW u \in Sends \ {s} PROVE Kept(u)'
  BY StaysKept DEF Begun, EchoInv
<1> QED
  BY <1>2, <1>3 DEF EchoInv

\* A step of one message.
LEMMA OneKeepsEchoes ==
  ASSUME EchoInv, NEW s \in Sends, tech' = tech, starts' = starts,
         \A u \in Sends \ {s} :
           /\ send'[u] = send[u] /\ (u \in heard' <=> u \in heard)
           /\ (u \in waiters' <=> u \in waiters) /\ (u \in received' <=> u \in received),
         Kept(s)'
  PROVE  EchoInv'
BY StaysKept DEF EchoInv

LEMMA TurnsKeepEchoes == ASSUME TypeOK, EchoInv, NEW l \in Loops, Turns(l) PROVE EchoInv'
<1>1. CASE SendAgain(l)
  <2>1. PICK s \in Sends, ready \in BOOLEAN :
          /\ Submit(s, send, ready, TRUE, starts)
          /\ waiters' = IF ready /\ tech = "WebSockets" THEN waiters \cup {s} ELSE waiters
    BY <1>1 DEF SendAgain
  <2>2. starts \in Nat /\ send \in [Sends -> SendStates]
    BY AutoAssumption DEF TypeOK
  <2>3. Submit(s, send, ready, TRUE, starts)
    BY <2>1
  <2>4. Begun(s, send, ready, starts)
    BY <2>2, <2>3, LoopSubmits
  <2>5. UNCHANGED <<tech, starts, received, heard>>
    BY <1>1 DEF SendAgain
  <2> QED
    BY <2>1, <2>4, <2>5, SubmitKeepsEchoes
<1>2. CASE Elapse(l) \/ EndStopped(l)
  BY <1>2, StaysKept DEF Elapse, EndStopped, echoVars, EchoInv
<1> QED
  BY <1>1, <1>2 DEF Turns

LEMMA ByHandKeepsEchoes == ASSUME TypeOK, EchoInv, NEW s \in Sends, SendByHand(s) PROVE EchoInv'
<1>1. PICK ready \in BOOLEAN :
        /\ Submit(s, send, ready, FALSE, starts)
        /\ waiters' = IF ready /\ tech = "WebSockets" THEN waiters \cup {s} ELSE waiters
        /\ UNCHANGED <<rateVars, tech, loopVars, received, heard, counters>>
  BY DEF SendByHand
<1>2. starts \in Nat
  BY AutoAssumption DEF TypeOK
<1>3. Submit(s, send, ready, FALSE, starts)
  BY <1>1
<1>4. Begun(s, send, ready, starts)
  BY <1>2, <1>3, HandSubmits
<1> QED
  BY <1>1, <1>4, SubmitKeepsEchoes DEF loopVars

LEMMA ServingKeepsEchoes ==
  ASSUME TypeOK, EchoInv, NEW s \in Sends, SocketServes(s) \/ WebSocketServes(s) \/ CoreServes(s) PROVE EchoInv'
<1>1. /\ send[s].srv = "sent"
      /\ send' = [send EXCEPT ![s].srv = "saved"] \/ send' = [send EXCEPT ![s].srv = "refused"]
      /\ UNCHANGED <<tech, starts, heard, waiters, received>>
  BY DEF SocketServes, WebSocketServes, CoreServes, loopVars, echoVars
<1>2. /\ \A u \in Sends \ {s} : send'[u] = send[u]
      /\ send'[s].cli = send[s].cli /\ send'[s].epoch = send[s].epoch /\ send'[s].auto = send[s].auto
  BY <1>1 DEF TypeOK, SendStates
<1>3. Kept(s)'
  BY <1>1, <1>2 DEF EchoInv, Kept, ThrownAway
<1> QED
  BY <1>1, <1>2, <1>3, OneKeepsEchoes

\* The wait begins, if the echo has not come, or is over.
LEMMA AnswerKeepsEchoes == ASSUME TypeOK, EchoInv, NEW s \in Sends, Answered(s) PROVE EchoInv'
<1>1. CASE GrpcAnswered(s) \/ PollingAnswered(s) \/ SocketAnswered(s) \/ SignalRAnswered(s)
  <2>1. WaitForReceive(s) /\ tech # "SSE" /\ UNCHANGED <<tech, starts, heard, received>>
    BY <1>1 DEF GrpcAnswered, PollingAnswered, SocketAnswered, SignalRAnswered, WaitForReceive, Return, loopVars
  <2>2. PICK cli \in {"ok", "waiting"} :
          /\ send' = [send EXCEPT ![s].cli = cli] /\ send[s].cli = "asked" /\ send[s].srv = "saved"
          /\ cli = "ok" => waiters' = waiters
          /\ cli = "waiting" => s \notin received /\ waiters' = waiters \cup {s}
    BY <2>1 DEF WaitForReceive, Return
  <2>3. /\ \A u \in Sends \ {s} : send'[u] = send[u]
        /\ send'[s].cli = cli /\ send'[s].srv = "saved"
        /\ send'[s].epoch = send[s].epoch /\ send'[s].auto = send[s].auto
    BY <2>2 DEF TypeOK, SendStates
  <2>4. Kept(s)'
    BY <2>1, <2>2, <2>3 DEF EchoInv, Kept, ThrownAway, TypeOK
  <2> QED
    BY <2>1, <2>2, <2>3, <2>4, OneKeepsEchoes
<1>2. CASE SseAnsweredByHand(s)
  <2>1. /\ tech = "SSE" /\ ~send[s].auto /\ send[s].cli = "asked" /\ send[s].srv = "saved"
        /\ send' = [send EXCEPT ![s].cli = IF s \in heard THEN "ok" ELSE "waiting"]
        /\ waiters' = IF s \in heard THEN waiters ELSE waiters \cup {s}
        /\ UNCHANGED <<tech, starts, heard, received>>
    BY <1>2 DEF SseAnsweredByHand, loopVars
  <2>2. /\ \A u \in Sends \ {s} : send'[u] = send[u]
        /\ send'[s].cli = (IF s \in heard THEN "ok" ELSE "waiting") /\ send'[s].srv = "saved"
        /\ send'[s].epoch = send[s].epoch /\ send'[s].auto = send[s].auto
    BY <2>1 DEF TypeOK, SendStates
  <2>3. Kept(s)'
    BY <2>1, <2>2 DEF EchoInv, Kept, ThrownAway, TypeOK
  <2> QED
    BY <2>1, <2>2, <2>3, OneKeepsEchoes
<1>3. CASE SseAnswered(s)
  <2>1. PICK cli \in {"ok", "posted"}, runId \in Nat :
          send' = [send EXCEPT ![s].cli = cli, ![s].runId = runId]
    BY <1>3 DEF SseAnswered, TypeOK
  <2>2. /\ tech = "SSE" /\ received' = received \ {s} /\ send[s].cli = "asked"
        /\ UNCHANGED <<tech, starts, heard, waiters>>
    BY <1>3 DEF SseAnswered
  <2>3. /\ \A u \in Sends \ {s} : send'[u] = send[u]
        /\ send'[s].cli = cli /\ send'[s].srv = send[s].srv
        /\ send'[s].epoch = send[s].epoch /\ send'[s].auto = send[s].auto
    BY <2>1, NotedType DEF Returned, Timed
  <2>4. Kept(s)'
    BY <2>2, <2>3 DEF EchoInv, Kept, ThrownAway
  <2> QED
    BY <2>2, <2>3, <2>4, OneKeepsEchoes
<1> QED
  BY <1>1, <1>2, <1>3 DEF Answered

LEMMA EchoKeepsEchoes ==
  ASSUME TypeOK, EchoInv, NEW s \in Sends,
         CallFails(s) \/ EchoArrives(s) \/ SseEchoArrives(s) \/ EchoTimesOut(s) \/ SseTimerFires(s)
  PROVE  EchoInv'
<1>1. CASE CallFails(s) \/ EchoTimesOut(s)
  <2>1. PICK cli \in {"failed", "unheard"} :
          send' = [send EXCEPT ![s].cli = cli]
    BY <1>1 DEF CallFails, EchoTimesOut, Return
  <2>2. /\ waiters' = waiters \/ waiters' = waiters \ {s}
        /\ UNCHANGED <<tech, starts, heard, received>> /\ send[s].cli # "none"
    BY <1>1 DEF CallFails, EchoTimesOut, Return, echoVars
  <2>3. /\ \A u \in Sends \ {s} : send'[u] = send[u]
        /\ send'[s].cli = cli /\ send'[s].srv = send[s].srv
        /\ send'[s].epoch = send[s].epoch /\ send'[s].auto = send[s].auto
    BY <2>1 DEF TypeOK, SendStates
  <2>4. Kept(s)'
    BY <2>2, <2>3 DEF EchoInv, Kept, ThrownAway, TypeOK
  <2> QED
    BY <2>2, <2>3, <2>4, OneKeepsEchoes
<1>2. CASE EchoArrives(s)
  <2>1. /\ heard' = heard \cup {s} /\ waiters' = waiters \ {s} /\ send[s].srv = "saved"
        /\ received' = IF tech = "SSE" THEN received ELSE received \cup {s}
        /\ UNCHANGED <<tech, starts>>
        /\ (s \in waiters /\ send' = [send EXCEPT ![s].cli = "ok"]) \/ (s \notin waiters /\ send' = send)
    BY <1>2 DEF EchoArrives, Return, loopVars
  <2>2. /\ \A u \in Sends \ {s} : send'[u] = send[u]
        /\ send'[s].cli = (IF s \in waiters THEN "ok" ELSE send[s].cli) /\ send'[s].srv = "saved"
        /\ send'[s].epoch = send[s].epoch /\ send'[s].auto = send[s].auto
    BY <2>1 DEF TypeOK, SendStates
  <2>3. Kept(s)'
    BY <2>1, <2>2 DEF EchoInv, Kept, ThrownAway
  <2> QED
    BY <2>1, <2>2, <2>3, OneKeepsEchoes
<1>3. CASE SseEchoArrives(s)
  <2>1. /\ tech = "SSE" /\ send[s].auto /\ send[s].srv = "saved" /\ heard' = heard \cup {s}
        /\ received' = received \/ received' = received \cup {s}
        /\ UNCHANGED <<tech, starts, waiters>>
        /\ send' = send \/ send' = [send EXCEPT ![s].cli = "ok"]
    BY <1>3 DEF SseEchoArrives, loopVars
  <2>2. /\ \A u \in Sends \ {s} : send'[u] = send[u]
        /\ send'[s].cli \in {"ok", send[s].cli} /\ send'[s].srv = "saved"
        /\ send'[s].epoch = send[s].epoch /\ send'[s].auto = send[s].auto
    BY <2>1 DEF TypeOK, SendStates
  <2>3. s \notin waiters
    BY <2>1 DEF EchoInv, Kept, TypeOK
  <2>4. Kept(s)'
    BY <2>1, <2>2, <2>3 DEF EchoInv, Kept, ThrownAway
  <2> QED
    BY <2>1, <2>2, <2>4, OneKeepsEchoes
<1>4. CASE SseTimerFires(s)
  <2>1. PICK cli \in {"late", "silent"} : send' = [send EXCEPT ![s].cli = cli, ![s].runId = 0]
    BY <1>4 DEF SseTimerFires
  <2>2. send[s].cli = "posted" /\ UNCHANGED <<tech, starts, heard, received, waiters>>
    BY <1>4 DEF SseTimerFires, loopVars, echoVars
  <2>3. /\ \A u \in Sends \ {s} : send'[u] = send[u]
        /\ send'[s].cli = cli /\ send'[s].srv = send[s].srv
        /\ send'[s].epoch = send[s].epoch /\ send'[s].auto = send[s].auto
    BY <2>1, NotedType DEF Timed
  <2>4. Kept(s)'
    BY <2>2, <2>3 DEF EchoInv, Kept, ThrownAway
  <2> QED
    BY <2>2, <2>3, <2>4, OneKeepsEchoes
<1> QED
  BY <1>1, <1>2, <1>3, <1>4

LEMMA EchoStep == TypeOK /\ EchoInv /\ [Next]_vars => EchoInv'
<1> SUFFICES ASSUME TypeOK, EchoInv, [Next]_vars PROVE EchoInv'
  OBVIOUS
<1>1. CASE Stop \/ Pass \/ UNCHANGED vars
  BY <1>1, StaysKept DEF Stop, Pass, vars, loopVars, echoVars, EchoInv
<1> QED
  BY <1>1, StartsKeepEchoes, TurnsKeepEchoes, ByHandKeepsEchoes, ServingKeepsEchoes, AnswerKeepsEchoes,
     EchoKeepsEchoes DEF Next

THEOREM EchoInvariant == Spec => []EchoInv
BY EchoInit, EchoStep, AutoTypeHolds, PTL DEF Spec

\* No view waits for a message that is there, but Socket.IO's of the run before.
THEOREM NoLostWakeupHolds == Spec => []NoLostWakeup
<1>1. EchoInv => NoLostWakeup
  BY DEF EchoInv, Kept, ThrownAway, NoLostWakeup
<1> QED
  BY <1>1, EchoInvariant, PTL

-----------------------------------------------------------------------------
(* The aggregates.  CountsAddUp counts sets of messages; a step moves at    *)
(* most one message in or out of each, once a run has begun.                *)

Sent == {s \in Sends : send[s].cli # "none"}

\* In a run that began with nothing of an earlier one on its way, a message of an earlier run is over and
\* done with, and of this one's over SSE it is known which came back before the answer.
Settled(s) ==
  /\ send[s].auto => send[s].cli # "none"
  /\ send[s].cli \in Timed => tech = "SSE" /\ send[s].auto
  /\ clean /\ send[s].auto /\ send[s].epoch # starts => send[s].cli \in Returned \cup {"dropped"}
  /\ clean /\ send[s].auto /\ send[s].epoch = starts => send[s].cli # "dropped"
  /\ clean /\ send[s].auto /\ send[s].epoch = starts /\ s \in heard /\ tech = "SSE" =>
       send[s].cli \notin Timed /\ (send[s].cli = "asked" => s \in received)

CountInv == IsFiniteSet(Sent) /\ (\A s \in Sends : Settled(s)) /\ CountsAddUp

LEMMA CountInit == Init => CountInv
<1> SUFFICES ASSUME Init PROVE CountInv
  OBVIOUS
<1>1. Sent = {} /\ OfRun = {} /\ CameBack = {} /\ DidFail = {}
  BY DEF Init, Sent, OfRun, CameBack, DidFail
<1>2. \A s \in Sends : Settled(s)
  BY DEF Init, Settled, Timed
<1> QED
  BY <1>1, <1>2, FS_EmptySet DEF CountInv, CountsAddUp, Init

\* Two finite sets that differ in one element at most.
LEMMA OneMoves ==
  ASSUME NEW S, IsFiniteSet(S), NEW T, NEW s, \A u : u # s => (u \in T <=> u \in S)
  PROVE  /\ IsFiniteSet(T) /\ Cardinality(S) \in Nat /\ Cardinality(T) \in Nat
         /\ s \in S <=> s \in T => Cardinality(T) = Cardinality(S)
         /\ s \in S /\ s \notin T => Cardinality(T) = Cardinality(S) - 1
         /\ s \notin S /\ s \in T => Cardinality(T) = Cardinality(S) + 1
<1>1. CASE T = S
  BY <1>1, FS_CardinalityType
<1>2. CASE s \notin S /\ T = S \cup {s}
  BY <1>2, FS_AddElement, FS_CardinalityType
<1>3. CASE s \in S /\ T = S \ {s}
  BY <1>3, FS_RemoveElement, FS_CardinalityType
<1> QED
  BY <1>1, <1>2, <1>3

\* A step of one message, and what it makes of a set of messages.
OnlyOne(s) ==
  /\ UNCHANGED <<tech, starts, clean>>
  /\ \A u \in Sends \ {s} :
       /\ send'[u] = send[u]
       /\ u \in heard' <=> u \in heard
       /\ u \in received' <=> u \in received

Follows(n, s, S, m, T) ==
  /\ s \in S <=> s \in T => m = n
  /\ s \in S /\ s \notin T => m = n - 1
  /\ s \notin S /\ s \in T => m = n + 1

LEMMA OneRecounts ==
  ASSUME CountInv, NEW s \in Sends, OnlyOne(s), Settled(s)',
         clean => /\ Follows(attempts, s, OfRun, attempts', OfRun')
                  /\ Follows(ok, s, CameBack, ok', CameBack')
                  /\ Follows(fail, s, DidFail, fail', DidFail')
  PROVE  CountInv'
<1>1. \A u \in Sends : Settled(u)'
  BY DEF CountInv, OnlyOne, Settled
<1>2. IsFiniteSet(Sent')
  <2>1. \A u : u # s => (u \in Sent' <=> u \in Sent)
    BY DEF OnlyOne, Sent
  <2> QED
    BY <2>1, OneMoves DEF CountInv
<1>3. OfRun \subseteq Sent /\ CameBack \subseteq OfRun /\ DidFail \subseteq OfRun
  BY DEF CountInv, Settled, OfRun, CameBack, DidFail, Sent
<1>4. IsFiniteSet(OfRun) /\ IsFiniteSet(CameBack) /\ IsFiniteSet(DidFail)
  BY <1>3, FS_Subset DEF CountInv
<1>5. /\ \A u : u # s => (u \in OfRun' <=> u \in OfRun)
      /\ \A u : u # s => (u \in CameBack' <=> u \in CameBack)
      /\ \A u : u # s => (u \in DidFail' <=> u \in DidFail)
  BY DEF OnlyOne, OfRun, CameBack, DidFail
<1>6. ASSUME clean
      PROVE  attempts' = Cardinality(OfRun') /\ ok' = Cardinality(CameBack') /\ fail' = Cardinality(DidFail')
  <2>1. attempts' = Cardinality(OfRun')
    BY <1>4, <1>5, <1>6, OneMoves DEF CountInv, CountsAddUp, Follows
  <2>2. ok' = Cardinality(CameBack')
    BY <1>4, <1>5, <1>6, OneMoves DEF CountInv, CountsAddUp, Follows
  <2>3. fail' = Cardinality(DidFail')
    BY <1>4, <1>5, <1>6, OneMoves DEF CountInv, CountsAddUp, Follows
  <2> QED
    BY <2>1, <2>2, <2>3
<1> QED
  BY <1>1, <1>2, <1>6 DEF CountInv, CountsAddUp, OnlyOne

\* A step that leaves the messages alone.
LEMMA NoneRecounts ==
  ASSUME CountInv, UNCHANGED <<tech, starts, clean, send, heard, received, counters>> PROVE CountInv'
BY DEF CountInv, Settled, CountsAddUp, OfRun, CameBack, DidFail, Sent, counters

\* startAutoSend counts anew.
LEMMA StartCounts ==
  ASSUME TypeOK, EchoInv, CountInv, NEW STATE w, NEW STATE r, NEW STATE from, NEW t,
         from \in [Sends -> SendStates],
         \A s \in Sends : /\ from[s].epoch = send[s].epoch /\ from[s].auto = send[s].auto
                          /\ from[s].cli = "none" <=> send[s].cli = "none"
                          /\ from[s].cli \in {send[s].cli, "dropped"}
                          /\ from[s].cli = "dropped" => send[s].cli \in Timed
                          /\ from[s].cli \in Timed => from[s].cli = "dropped",
         StartWith(t, w, r, from)
  PROVE  CountInv'
<1>1. PICK s \in Sends, ready \in BOOLEAN :
        /\ Submit(s, from, ready, TRUE, starts + 1)
        /\ fail' = IF ready THEN 0 ELSE 1
  BY DEF StartWith
<1>2. /\ starts \in Nat /\ starts' = starts + 1 /\ tech' = tech /\ heard' = heard
      /\ attempts' = 1 /\ ok' = 0
      /\ clean' => \A u \in Sends : send[u].auto => ~InFlight(u)
  BY AutoAssumption DEF TypeOK, StartWith
<1>3. Begun(s, from, ready, starts + 1) /\ send'[s].auto
  <2>1. starts + 1 \in Nat
    BY <1>2
  <2>2. Submit(s, from, ready, TRUE, starts + 1)
    BY <1>1
  <2> QED
    BY <2>1, <2>2, LoopSubmits
<1>4. s \notin heard
  BY <1>3 DEF EchoInv, Kept, Begun
<1>5. Settled(s)'
  BY <1>2, <1>3, <1>4 DEF Settled, Begun, Returned, Timed
<1>6. ASSUME NEW u \in Sends \ {s} PROVE Settled(u)' /\ (send'[u].auto => send'[u].epoch # starts')
  <2>1. /\ send'[u] = from[u] /\ Settled(u) /\ send[u].epoch \in Nat /\ send[u].epoch <= starts
        /\ send[u].cli \in {"none", "asked", "waiting"} \cup Returned \cup Timed
    BY <1>3 DEF Begun, CountInv, EchoInv, Kept, TypeOK, SendStates
  <2>2. /\ send'[u].epoch = send[u].epoch /\ send'[u].auto = send[u].auto
        /\ send'[u].cli = "none" <=> send[u].cli = "none"
        /\ send'[u].cli \in {send[u].cli, "dropped"}
        /\ send'[u].cli = "dropped" => send[u].cli \in Timed
        /\ send'[u].cli \in Timed => send'[u].cli = "dropped"
    BY <2>1
  <2>3. send'[u].epoch # starts'
    BY <1>2, <2>1, <2>2
  <2>4. clean' /\ send'[u].auto => send'[u].cli \in Returned \cup {"dropped"}
    <3>1. ASSUME clean', send'[u].auto PROVE send[u].cli \in Returned \cup Timed
      BY <1>2, <2>1, <2>2, <3>1 DEF Settled, InFlight
    <3> QED
      BY <2>2, <3>1 DEF Timed, Returned
  <2> QED
    BY <1>2, <2>1, <2>2, <2>3, <2>4 DEF Settled
<1>7. OfRun' = {s} /\ CameBack' = {} /\ DidFail' = IF ready THEN {} ELSE {s}
  <2>1. OfRun' = {s}
    BY <1>2, <1>3, <1>6 DEF OfRun, Begun
  <2> QED
    BY <1>2, <1>3, <2>1 DEF CameBack, DidFail, Begun, Timed
<1>8. IsFiniteSet(Sent')
  <2>1. \A u : u # s => (u \in Sent' <=> u \in Sent)
    BY <1>3 DEF Sent, Begun
  <2> QED
    BY <2>1, OneMoves DEF CountInv
<1> QED
  BY <1>1, <1>2, <1>5, <1>6, <1>7, <1>8, FS_EmptySet, FS_Singleton DEF CountInv, CountsAddUp

LEMMA StartsCount == ASSUME TypeOK, EchoInv, CountInv, Starts PROVE CountInv'
<1>1. CASE SseStarts
  <2> DEFINE from == [s \in Sends |-> IF send[s].cli \in Timed THEN [send[s] EXCEPT !.cli = "dropped"]
                                                            ELSE send[s]]
  <2>1. ASSUME NEW s \in Sends
        PROVE  /\ from[s] \in SendStates
               /\ from[s].epoch = send[s].epoch /\ from[s].auto = send[s].auto
               /\ from[s].cli = "none" <=> send[s].cli = "none"
               /\ from[s].cli \in {send[s].cli, "dropped"}
               /\ from[s].cli = "dropped" => send[s].cli \in Timed
               /\ from[s].cli \in Timed => from[s].cli = "dropped"
    BY DEF TypeOK, SendStates, Timed
  <2>2. StartWith("SSE", waiters, {}, from)
    BY <1>1 DEF SseStarts
  <2>3. from \in [Sends -> SendStates]
    BY <2>1
  <2> HIDE DEF from
  <2> QED
    BY <2>1, <2>2, <2>3, StartCounts
<1>2. CASE SocketStarts \/ GrpcStarts \/ PollingStarts \/ SignalRStarts \/ WebSocketsStarts
  <2>1. PICK t : t # "SSE" /\ (StartWith(t, {}, {}, send) \/ StartWith(t, waiters, received, send))
    BY <1>2 DEF SocketStarts, GrpcStarts, PollingStarts, SignalRStarts, WebSocketsStarts
  <2>2. tech = t
    BY <2>1 DEF StartWith
  <2>3. ASSUME NEW s \in Sends PROVE send[s].cli \notin Timed
    BY <2>1, <2>2 DEF CountInv, Settled
  <2>4. send \in [Sends -> SendStates]
    BY DEF TypeOK
  <2>5. ASSUME NEW s \in Sends
        PROVE  /\ send[s].epoch = send[s].epoch /\ send[s].auto = send[s].auto
               /\ send[s].cli = "none" <=> send[s].cli = "none"
               /\ send[s].cli \in {send[s].cli, "dropped"}
               /\ send[s].cli = "dropped" => send[s].cli \in Timed
               /\ send[s].cli \in Timed => send[s].cli = "dropped"
    BY <2>3 DEF Timed
  <2> QED
    BY <2>1, <2>4, <2>5, StartCounts
<1> QED
  BY <1>1, <1>2 DEF Starts

\* A message is sent in this run, by the loop or by hand.
LEMMA SubmitCounts ==
  ASSUME TypeOK, EchoInv, CountInv, NEW s \in Sends, NEW ready \in BOOLEAN, Begun(s, send, ready, starts),
         UNCHANGED <<tech, starts, clean, received, heard>>,
         \/ ~send'[s].auto /\ UNCHANGED counters
         \/ /\ send'[s].auto /\ attempts' = attempts + 1 /\ ok' = ok
            /\ fail' = IF ready THEN fail ELSE fail + 1
  PROVE  CountInv'
<1>1. OnlyOne(s)
  BY DEF OnlyOne, Begun
<1>2. s \notin heard
  BY DEF EchoInv, Kept, Begun
<1>3. Settled(s)'
  BY <1>2 DEF Settled, Begun, Returned, Timed
<1>4. s \notin OfRun /\ s \notin CameBack /\ s \notin DidFail
  BY DEF OfRun, CameBack, DidFail, CountInv, Settled, Begun
<1>5. Follows(attempts, s, OfRun, attempts', OfRun')
  BY <1>4 DEF Follows, OfRun, Begun, counters
<1>6. Follows(ok, s, CameBack, ok', CameBack')
  BY <1>4, <1>2 DEF Follows, OfRun, CameBack, Begun, counters, Timed
<1>7. Follows(fail, s, DidFail, fail', DidFail')
  BY <1>4, <1>2 DEF Follows, OfRun, DidFail, Begun, counters
<1> QED
  BY <1>1, <1>3, <1>5, <1>6, <1>7, OneRecounts

LEMMA TurnsCount == ASSUME TypeOK, EchoInv, CountInv, NEW l \in Loops, Turns(l) PROVE CountInv'
<1>1. CASE SendAgain(l)
  <2>1. PICK s \in Sends, ready \in BOOLEAN :
          /\ Submit(s, send, ready, TRUE, starts)
          /\ fail' = IF ready THEN fail ELSE fail + 1
    BY <1>1 DEF SendAgain
  <2>2. starts \in Nat /\ send \in [Sends -> SendStates]
    BY AutoAssumption DEF TypeOK
  <2>3. Submit(s, send, ready, TRUE, starts)
    BY <2>1
  <2>4. Begun(s, send, ready, starts) /\ send'[s].auto
    BY <2>2, <2>3, LoopSubmits
  <2>5. UNCHANGED <<tech, starts, clean, received, heard>> /\ attempts' = attempts + 1 /\ ok' = ok
    BY <1>1 DEF SendAgain
  <2> QED
    BY <2>1, <2>4, <2>5, SubmitCounts
<1>2. CASE Elapse(l) \/ EndStopped(l)
  BY <1>2, NoneRecounts DEF Elapse, EndStopped, echoVars
<1> QED
  BY <1>1, <1>2 DEF Turns

LEMMA ByHandCounts == ASSUME TypeOK, EchoInv, CountInv, NEW s \in Sends, SendByHand(s) PROVE CountInv'
<1>1. PICK ready \in BOOLEAN :
        /\ Submit(s, send, ready, FALSE, starts)
        /\ UNCHANGED <<rateVars, tech, loopVars, received, heard, counters>>
  BY DEF SendByHand
<1>2. starts \in Nat
  BY AutoAssumption DEF TypeOK
<1>3. Submit(s, send, ready, FALSE, starts)
  BY <1>1
<1>4. Begun(s, send, ready, starts) /\ ~send'[s].auto
  BY <1>2, <1>3, HandSubmits
<1> QED
  BY <1>1, <1>4, SubmitCounts DEF loopVars

\* What the other steps make of the one message they touch: all but how far its sender is stays.
Moves(s, cli) ==
  /\ \A u \in Sends \ {s} : send'[u] = send[u]
  /\ send'[s].cli = cli /\ send'[s].auto = send[s].auto /\ send'[s].epoch = send[s].epoch

LEMMA ServingCounts ==
  ASSUME TypeOK, CountInv, NEW s \in Sends, SocketServes(s) \/ WebSocketServes(s) \/ CoreServes(s) PROVE CountInv'
<1>1. /\ send' = [send EXCEPT ![s].srv = "saved"] \/ send' = [send EXCEPT ![s].srv = "refused"]
      /\ UNCHANGED <<tech, starts, clean, heard, received, counters>>
  BY DEF SocketServes, WebSocketServes, CoreServes, loopVars, echoVars
<1>2. Moves(s, send[s].cli)
  BY <1>1 DEF TypeOK, SendStates, Moves
<1>3. OnlyOne(s) /\ Settled(s)'
  BY <1>1, <1>2 DEF OnlyOne, Settled, Moves, CountInv
<1>4. /\ s \in OfRun' <=> s \in OfRun
      /\ s \in CameBack' <=> s \in CameBack
      /\ s \in DidFail' <=> s \in DidFail
  BY <1>1, <1>2 DEF OfRun, CameBack, DidFail, Moves
<1> QED
  BY <1>1, <1>3, <1>4, OneRecounts DEF Follows, counters

\* A step that moves a message of a run on from where it is.
LEMMA MoveCounts ==
  ASSUME CountInv, NEW s \in Sends, NEW STATE cli, Moves(s, cli), OnlyOne(s), Settled(s)',
         send[s].cli # "none", cli # "none", attempts' = attempts,
         clean => /\ Follows(ok, s, CameBack, ok', CameBack')
                  /\ Follows(fail, s, DidFail, fail', DidFail')
  PROVE  CountInv'
<1>1. s \in OfRun' <=> s \in OfRun
  BY DEF Moves, OnlyOne, OfRun
<1>2. Follows(attempts, s, OfRun, attempts', OfRun')
  BY <1>1 DEF Follows
<1> QED
  BY <1>2, OneRecounts

\* The answer is counted at once if the message has come back, or by SignalR.
LEMMA AnswerCounts == ASSUME TypeOK, CountInv, NEW s \in Sends, Answered(s) PROVE CountInv'
<1>1. CASE GrpcAnswered(s) \/ PollingAnswered(s) \/ SocketAnswered(s) \/ SignalRAnswered(s)
  <2>1. WaitForReceive(s) /\ tech # "SSE"
    BY <1>1 DEF GrpcAnswered, PollingAnswered, SocketAnswered, SignalRAnswered
  <2>2. UNCHANGED <<tech, starts, clean, received, heard, attempts, fail>> /\ send[s].cli = "asked"
    BY <2>1 DEF WaitForReceive, Return, loopVars
  <2>3. PICK cli \in {"ok", "waiting"} :
          send' = [send EXCEPT ![s].cli = cli] /\ (cli = "ok" <=> s \in received)
    BY <2>1 DEF WaitForReceive, Return
  <2>4. ok' = CountIf(s, ok, s \in received \/ tech = "SignalR")
    BY <1>1 DEF GrpcAnswered, PollingAnswered, SocketAnswered, SignalRAnswered, CountIf
  <2>5. Moves(s, cli) /\ OnlyOne(s)
    BY <2>2, <2>3 DEF Moves, OnlyOne, TypeOK, SendStates
  <2>6. Settled(s)'
    BY <2>1, <2>2, <2>5 DEF Settled, CountInv, Moves, Timed, Returned
  <2>7. ASSUME clean
        PROVE  /\ Follows(ok, s, CameBack, ok', CameBack')
               /\ Follows(fail, s, DidFail, fail', DidFail')
    <3>1. s \in OfRun' <=> s \in OfRun
      BY <2>2, <2>5 DEF Moves, OfRun
    <3>2. send[s].auto => s \in OfRun
      BY <2>2, <2>7 DEF CountInv, Settled, OfRun, Returned
    <3>3. s \notin CameBack /\ s \notin DidFail /\ s \notin DidFail'
      BY <2>2, <2>5 DEF CameBack, DidFail, Timed, Moves
    <3>4. s \in CameBack' <=> send[s].auto /\ (s \in received \/ tech = "SignalR")
      BY <2>1, <2>2, <2>3, <2>5, <3>1, <3>2 DEF CameBack, OfRun, Moves
    <3> QED
      BY <2>2, <2>4, <3>3, <3>4 DEF Follows, CountIf
  <2> QED
    BY <2>2, <2>5, <2>6, <2>7, MoveCounts
<1>2. CASE SseAnsweredByHand(s)
  <2>1. PICK cli \in {"ok", "waiting"} : send' = [send EXCEPT ![s].cli = cli]
    BY <1>2 DEF SseAnsweredByHand
  <2>2. /\ UNCHANGED <<tech, starts, clean, received, heard, attempts, ok, fail>>
        /\ send[s].cli = "asked" /\ ~send[s].auto
    BY <1>2 DEF SseAnsweredByHand, loopVars, counters
  <2>3. Moves(s, cli) /\ OnlyOne(s)
    BY <2>1, <2>2 DEF Moves, OnlyOne, TypeOK, SendStates
  <2>4. Settled(s)'
    BY <2>2, <2>3 DEF Settled, CountInv, Moves, Timed
  <2>5. s \notin CameBack /\ s \notin CameBack' /\ s \notin DidFail /\ s \notin DidFail'
    BY <2>2, <2>3 DEF CameBack, DidFail, OfRun, Moves
  <2> QED
    BY <2>2, <2>3, <2>4, <2>5, MoveCounts DEF Follows
<1>3. CASE SseAnswered(s)
  <2> DEFINE cli == IF s \in received THEN "ok" ELSE "posted"
             runId == IF s \in received THEN 0 ELSE run
  <2>1. send' = [send EXCEPT ![s].cli = cli, ![s].runId = runId] /\ runId \in Nat
    BY <1>3 DEF SseAnswered, TypeOK
  <2>2. /\ UNCHANGED <<tech, starts, clean, heard, attempts, fail>> /\ tech = "SSE"
        /\ send[s].cli = "asked" /\ send[s].auto
        /\ received' = received \ {s} /\ ok' = IF s \in received THEN ok + 1 ELSE ok
    BY <1>3 DEF SseAnswered
  <2>3. Moves(s, cli)
    <3>1. PICK c \in Returned \cup Timed, r \in Nat : c = cli /\ r = runId
      BY <2>1 DEF Returned, Timed
    <3>2. send' = [send EXCEPT ![s].cli = c, ![s].runId = r]
      BY <2>1, <3>1
    <3>3. Moves(s, c)
      BY <3>2, NotedType DEF Moves
    <3> QED
      BY <3>1, <3>3
  <2>4. OnlyOne(s)
    BY <2>2, <2>3 DEF Moves, OnlyOne
  <2>5. clean => s \in OfRun /\ (s \in heard => s \in received)
    BY <2>2 DEF CountInv, Settled, OfRun, Returned
  <2>6. s \in received => s \in heard
    BY DEF TypeOK
  <2>7. Settled(s)'
    BY <2>2, <2>3, <2>5 DEF Settled, Moves, Timed, OfRun
  <2>8. ASSUME clean
        PROVE  /\ Follows(ok, s, CameBack, ok', CameBack')
               /\ Follows(fail, s, DidFail, fail', DidFail')
    <3>1. s \in OfRun' /\ s \notin CameBack /\ s \notin DidFail
      BY <2>2, <2>3, <2>5, <2>8 DEF OfRun, CameBack, DidFail, Moves, Timed
    <3>2. (s \in CameBack' <=> s \in received) /\ s \notin DidFail'
      BY <2>2, <2>3, <2>5, <2>6, <2>8, <3>1 DEF CameBack, DidFail, Moves, Timed
    <3> QED
      BY <2>2, <3>1, <3>2 DEF Follows
  <2> QED
    BY <2>2, <2>3, <2>4, <2>7, <2>8, MoveCounts
<1> QED
  BY <1>1, <1>2, <1>3 DEF Answered

\* The echo, the timers and the failed calls: an SSE message counted as failed is counted back.
LEMMA EchoCounts ==
  ASSUME TypeOK, CountInv, NEW s \in Sends,
         CallFails(s) \/ EchoArrives(s) \/ SseEchoArrives(s) \/ EchoTimesOut(s) \/ SseTimerFires(s)
  PROVE  CountInv'
<1>1. CASE CallFails(s)
  <2>1. /\ send' = [send EXCEPT ![s].cli = "failed"] /\ send[s].cli = "asked"
        /\ UNCHANGED <<tech, starts, clean, heard, received, attempts, ok>>
        /\ fail' = CountIf(s, fail, TRUE)
    BY <1>1 DEF CallFails, Return, echoVars
  <2>2. Moves(s, "failed") /\ OnlyOne(s)
    BY <2>1 DEF Moves, OnlyOne, TypeOK, SendStates
  <2>3. Settled(s)'
    BY <2>1, <2>2 DEF Settled, CountInv, Moves, Timed, Returned
  <2>4. ASSUME clean
        PROVE  /\ Follows(ok, s, CameBack, ok', CameBack')
               /\ Follows(fail, s, DidFail, fail', DidFail')
    <3>1. s \in OfRun' <=> s \in OfRun
      BY <2>1, <2>2 DEF Moves, OfRun
    <3>2. send[s].auto <=> s \in OfRun
      BY <2>1, <2>4 DEF CountInv, Settled, OfRun, Returned
    <3>3. s \notin CameBack /\ s \notin CameBack' /\ s \notin DidFail /\ (s \in DidFail' <=> send[s].auto)
      BY <2>1, <2>2, <3>1, <3>2 DEF CameBack, DidFail, Timed, Moves
    <3> QED
      BY <2>1, <3>3 DEF Follows, CountIf
  <2> QED
    BY <2>1, <2>2, <2>3, <2>4, MoveCounts
<1>2. CASE EchoTimesOut(s)
  <2>1. /\ send' = [send EXCEPT ![s].cli = "unheard"] /\ send[s].cli = "waiting"
        /\ UNCHANGED <<tech, starts, clean, heard, received, attempts, ok, fail>>
    BY <1>2 DEF EchoTimesOut, Return
  <2>2. Moves(s, "unheard") /\ OnlyOne(s)
    BY <2>1 DEF Moves, OnlyOne, TypeOK, SendStates
  <2>3. Settled(s)'
    BY <2>1, <2>2 DEF Settled, CountInv, Moves, Timed, Returned
  <2>4. s \in OfRun' <=> s \in OfRun
    BY <2>1, <2>2 DEF Moves, OfRun
  <2>5. (s \in CameBack' <=> s \in CameBack) /\ s \notin DidFail /\ s \notin DidFail'
    BY <2>1, <2>2, <2>4 DEF CameBack, DidFail, Timed, Moves
  <2> QED
    BY <2>1, <2>2, <2>3, <2>5, MoveCounts DEF Follows
<1>3. CASE EchoArrives(s)
  <2>1. /\ tech # "SSE" \/ ~send[s].auto
        /\ heard' = heard \cup {s} /\ attempts' = attempts /\ fail' = fail
        /\ UNCHANGED <<tech, starts, clean>>
        /\ \A u \in Sends \ {s} : u \in received' <=> u \in received
    BY <1>3 DEF EchoArrives, Return, loopVars
  <2>2. CASE s \in waiters /\ Return(s, "ok") /\ ok' = CountIf(s, ok, tech # "SignalR")
    <3>1. send' = [send EXCEPT ![s].cli = "ok"] /\ send[s].cli = "waiting"
      BY <2>2 DEF Return, TypeOK
    <3>2. Moves(s, "ok") /\ OnlyOne(s)
      BY <2>1, <3>1 DEF Moves, OnlyOne, TypeOK, SendStates
    <3>3. Settled(s)'
      BY <2>1, <3>1, <3>2 DEF Settled, CountInv, Moves, Timed, Returned
    <3>4. ASSUME clean
          PROVE  /\ Follows(ok, s, CameBack, ok', CameBack')
                 /\ Follows(fail, s, DidFail, fail', DidFail')
      <4>1. s \in OfRun' <=> s \in OfRun
        BY <2>1, <3>2 DEF Moves, OfRun
      <4>2. send[s].auto <=> s \in OfRun
        BY <3>1, <3>4 DEF CountInv, Settled, OfRun, Returned
      <4>3. s \notin DidFail /\ s \notin DidFail' /\ (s \in CameBack' <=> s \in OfRun)
        BY <3>2, <3>1, <4>1 DEF CameBack, DidFail, Moves
      <4>4. s \in CameBack <=> s \in OfRun /\ tech = "SignalR"
        BY <3>1 DEF CameBack, Timed
      <4> QED
        BY <2>1, <2>2, <4>2, <4>3, <4>4 DEF Follows, CountIf
    <3> QED
      BY <2>1, <3>1, <3>2, <3>3, <3>4, MoveCounts
  <2>3. CASE UNCHANGED <<send, tech, loopVars, ok, attempts, outrun>>
    <3>1. OnlyOne(s) /\ s \in Sends
      BY <2>1, <2>3 DEF OnlyOne
    <3>2. Settled(s)'
      BY <2>1, <2>3 DEF Settled, CountInv
    <3>3. (s \in OfRun' <=> s \in OfRun) /\ (tech = "SSE" => s \notin OfRun)
      BY <2>1, <2>3 DEF OfRun
    <3>4. (s \in CameBack' <=> s \in CameBack) /\ (s \in DidFail' <=> s \in DidFail)
      <4>1. send[s].cli \in Timed => tech = "SSE" /\ send[s].auto
        BY DEF CountInv, Settled
      <4> QED
        BY <2>1, <2>3, <3>3, <4>1 DEF CameBack, DidFail, Timed
    <3> QED
      BY <2>1, <2>3, <3>1, <3>2, <3>3, <3>4, OneRecounts DEF Follows
  <2> QED
    BY <1>3, <2>2, <2>3 DEF EchoArrives
<1>4. CASE SseEchoArrives(s)
  <2>1. /\ tech = "SSE" /\ send[s].auto /\ s \notin heard /\ heard' = heard \cup {s}
        /\ UNCHANGED <<tech, starts, clean, attempts>>
        /\ \A u \in Sends \ {s} : u \in received' <=> u \in received
    BY <1>4 DEF SseEchoArrives, loopVars
  <2>2. CASE send[s].cli \in {"posted", "late", "silent"}
    <3>1. /\ send' = [send EXCEPT ![s].cli = "ok"] /\ ok' = ok + 1
          /\ fail' = IF send[s].cli = "late" /\ fail > 0 THEN fail - 1 ELSE fail
      BY <1>4, <2>2 DEF SseEchoArrives
    <3>2. Moves(s, "ok") /\ OnlyOne(s)
      BY <2>1, <3>1 DEF Moves, OnlyOne, TypeOK, SendStates
    <3>3. Settled(s)'
      BY <2>1, <2>2, <3>2 DEF Settled, CountInv, Moves, Timed, Returned
    <3>4. ASSUME clean
          PROVE  /\ Follows(ok, s, CameBack, ok', CameBack')
                 /\ Follows(fail, s, DidFail, fail', DidFail')
      <4>1. s \in OfRun /\ s \in OfRun'
        BY <2>1, <2>2, <3>2, <3>4 DEF Moves, OfRun, CountInv, Settled, Returned
      <4>2. s \notin CameBack /\ s \in CameBack' /\ s \notin DidFail' /\ (s \in DidFail <=> send[s].cli = "late")
        BY <2>1, <2>2, <3>2, <4>1 DEF CameBack, DidFail, Moves
      <4>3. s \in DidFail => fail > 0
        <5>1. IsFiniteSet(DidFail)
          <6>1. DidFail \subseteq Sent
            BY DEF DidFail, OfRun, Sent
          <6> QED
            BY <6>1, FS_Subset DEF CountInv
        <5> QED
          BY <3>4, <5>1, FS_EmptySet, FS_CardinalityType DEF CountInv, CountsAddUp
      <4> QED
        BY <3>1, <4>2, <4>3 DEF Follows
    <3> QED
      BY <2>1, <2>2, <3>2, <3>3, <3>4, MoveCounts
  <2>3. CASE send[s].cli \notin {"posted", "late", "silent"}
    <3>1. received' = received \cup {s} /\ UNCHANGED <<send, ok, fail>>
      BY <1>4, <2>3 DEF SseEchoArrives
    <3>2. OnlyOne(s)
      BY <2>1, <3>1 DEF OnlyOne
    <3>3. Settled(s)'
      BY <2>1, <2>3, <3>1 DEF Settled, CountInv, Timed
    <3>4. s \in OfRun' <=> s \in OfRun
      BY <2>1, <3>1 DEF OfRun
    <3>5. ASSUME clean
          PROVE  (s \in CameBack' <=> s \in CameBack) /\ (s \in DidFail' <=> s \in DidFail)
      <4>1. s \in OfRun => send[s].cli \notin Timed
        BY <2>1, <2>3, <3>5 DEF CountInv, Settled, OfRun, Timed
      <4> QED
        BY <2>1, <2>3, <3>1, <3>4, <4>1 DEF CameBack, DidFail
    <3> QED
      BY <2>1, <3>1, <3>2, <3>3, <3>4, <3>5, OneRecounts DEF Follows
  <2> QED
    BY <2>2, <2>3
<1>5. CASE SseTimerFires(s)
  <2>1. PICK cli \in {"late", "silent"} :
          /\ send' = [send EXCEPT ![s].cli = cli, ![s].runId = 0]
          /\ fail' = IF cli = "late" THEN fail + 1 ELSE fail
    BY <1>5 DEF SseTimerFires
  <2>2. send[s].cli = "posted" /\ UNCHANGED <<tech, starts, clean, heard, received, attempts, ok>>
    BY <1>5 DEF SseTimerFires, loopVars, echoVars
  <2>3. Moves(s, cli) /\ OnlyOne(s)
    BY <2>1, <2>2, NotedType DEF Moves, OnlyOne, Timed
  <2>4. Settled(s)'
    BY <2>2, <2>3 DEF Settled, CountInv, Moves, Timed, Returned
  <2>5. ASSUME clean
        PROVE  /\ Follows(ok, s, CameBack, ok', CameBack')
               /\ Follows(fail, s, DidFail, fail', DidFail')
    <3>1. s \in OfRun /\ s \in OfRun' /\ tech = "SSE" /\ s \notin heard
      BY <2>2, <2>3, <2>5 DEF Moves, OfRun, CountInv, Settled, Returned, Timed
    <3>2. s \notin CameBack /\ s \notin CameBack' /\ s \notin DidFail /\ (s \in DidFail' <=> cli = "late")
      BY <2>2, <2>3, <3>1 DEF CameBack, DidFail, Moves
    <3> QED
      BY <2>1, <2>2, <3>2 DEF Follows
  <2> QED
    BY <2>2, <2>3, <2>4, <2>5, MoveCounts
<1> QED
  BY <1>1, <1>2, <1>3, <1>4, <1>5

LEMMA CountStep == TypeOK /\ EchoInv /\ CountInv /\ [Next]_vars => CountInv'
<1> SUFFICES ASSUME TypeOK, EchoInv, CountInv, [Next]_vars PROVE CountInv'
  OBVIOUS
<1>1. CASE Stop \/ Pass \/ UNCHANGED vars
  BY <1>1, NoneRecounts DEF Stop, Pass, vars, loopVars, echoVars, counters
<1> QED
  BY <1>1, StartsCount, TurnsCount, ByHandCounts, ServingCounts, AnswerCounts, EchoCounts DEF Next

\* The aggregates the views show, for any technology and any order of answers, echoes and timers.
THEOREM CountsAddUpHolds == Spec => []CountsAddUp
<1>1. CountInv => CountsAddUp
  BY DEF CountInv
<1>2. Spec => []CountInv
  BY CountInit, CountStep, AutoTypeHolds, EchoInvariant, PTL DEF Spec
<1> QED
  BY <1>1, <1>2, PTL

-----------------------------------------------------------------------------
(* A single run stays under the limits: at each moment, the messages the    *)
(* server has taken lie an interval apart, back from the next one's time.   *)

\* The hypothesis of NeverLimited.
Single == starts <= 1 /\ ~outrun /\ \A s \in Sends : send[s].cli # "none" => send[s].auto

\* The n-th last message taken is n intervals before t, and so is the window's beginning for those counted.
Paced(t) ==
  /\ \A i \in 1..Len(accepted) : accepted[i] + (Len(accepted) + 1 - i) * Interval <= t
  /\ windowStart + count * Interval <= t

Unserved == {s \in Sends : send[s].srv = "sent"}

Untouched == starts = 0 => /\ \A s \in Sends : send[s].cli = "none"
                           /\ accepted = <<>> /\ windowStart = 0 /\ count = 0

LoopPaced(l) ==
  /\ loop[l].pc # "none" => l <= starts
  /\ loop[l].stopAt <= MaxTime
  /\ loop[l].pc = "pausing" => Paced(loop[l].wake)
  /\ loop[l].pc = "sending" /\ loop[l].send \in Unserved => Paced(now)
  /\ loop[l].pc = "sending" /\ loop[l].send \notin Unserved => Paced(now + Interval)

Pacing ==
  /\ Untouched
  /\ \A s \in Sends : send[s].srv # "refused" /\ (send[s].cli = "none" => send[s].srv = "none")
  /\ \A s \in Unserved : \E l \in Loops : loop[l].pc = "sending" /\ loop[l].send = s
  /\ \A l \in Loops : LoopPaced(l)

PaceInv == Single => Pacing

LEMMA PaceInit == Init => PaceInv
BY AutoAssumption DEF Init, RateInit, PaceInv, Pacing, Untouched, Unserved, LoopPaced

LEMMA Times == ASSUME NEW a \in Nat, NEW b \in Nat, NEW c \in Nat, a <= b PROVE a * c <= b * c
<1>1. b * c = a * c + (b - a) * c
  OBVIOUS
<1>2. (b - a) * c >= 0
  OBVIOUS
<1> QED
  BY <1>1, <1>2

LEMMA PacedLater ==
  ASSUME RateTypeOK, NEW STATE t, t \in Nat, NEW STATE u, u \in Nat, t <= u, Paced(t) PROVE Paced(u)
<1>1. windowStart + count * Interval \in Int
  BY AutoAssumption DEF RateTypeOK
<1>2. ASSUME NEW i \in 1..Len(accepted) PROVE accepted[i] + (Len(accepted) + 1 - i) * Interval \in Int
  BY AutoAssumption DEF RateTypeOK
<1> QED
  BY <1>1, <1>2 DEF Paced

\* There is one loop at most.
LEMMA OneLoop ==
  ASSUME TypeOK, Single, PaceInv, NEW l \in Loops, NEW k \in Loops, loop[l].pc # "none", loop[k].pc # "none"
  PROVE  l = k
<1>1. l \in Nat \ {0} /\ k \in Nat \ {0} /\ starts \in Nat
  BY AutoAssumption DEF TypeOK
<1> QED
  BY <1>1 DEF PaceInv, Pacing, Single, LoopPaced

\* The limits find room for a message sent an interval after the last.
LEMMA NoRefusal == ASSUME RateTypeOK, Paced(now) PROVE ~SlidingRefuse /\ ~FixedRefuse
<1>1. /\ now \in Nat /\ count \in Nat /\ windowStart \in Nat /\ Len(accepted) \in Nat
      /\ \A i \in 1..Len(accepted) : accepted[i] \in Nat
      /\ Interval \in Nat /\ Window \in Nat /\ SlidingMax \in Nat \ {0} /\ FixedMax \in Nat \ {0}
      /\ FixedMax * Interval >= Window /\ SlidingMax * Interval > Window
  BY AutoAssumption, RateAssumption DEF RateTypeOK
<1>2. ~FixedRefuse
  <2> SUFFICES ASSUME FixedRefuse PROVE FALSE
    OBVIOUS
  <2>1. ~(now - windowStart >= Window) /\ count >= FixedMax
    BY <1>1 DEF FixedRefuse, Counted, WindowOver
  <2>2. count * Interval >= FixedMax * Interval /\ count * Interval \in Nat /\ FixedMax * Interval \in Nat
    BY <1>1, <2>1, Times
  <2>3. windowStart + count * Interval <= now
    BY DEF Paced
  <2> QED
    BY <1>1, <2>1, <2>2, <2>3
<1>3. ~SlidingRefuse
  <2> SUFFICES ASSUME SlidingRefuse PROVE FALSE
    OBVIOUS
  <2>1. PICK d \in 0..Len(accepted) : Dequeued(d) /\ Len(accepted) - d >= SlidingMax
    BY DEF SlidingRefuse
  <2>2. d + 1 \in 1..Len(accepted) /\ ~(now - accepted[d + 1] > Window)
    BY <1>1, <2>1 DEF Dequeued, Expired
  <2>3. accepted[d + 1] + (Len(accepted) - d) * Interval <= now
    <3>1. Len(accepted) + 1 - (d + 1) = Len(accepted) - d
      BY <1>1
    <3> QED
      BY <2>2, <3>1 DEF Paced
  <2>4. (Len(accepted) - d) * Interval >= SlidingMax * Interval
    <3>1. Len(accepted) - d \in Nat /\ SlidingMax <= Len(accepted) - d /\ SlidingMax \in Nat
      BY <1>1, <2>1
    <3> HIDE <2>1
    <3>2. PICK n \in Nat : n = Len(accepted) - d
      BY <3>1
    <3> QED
      BY <1>1, <3>1, <3>2, Times
  <2>5. accepted[d + 1] \in Nat /\ (Len(accepted) - d) * Interval \in Int /\ SlidingMax * Interval \in Int
    BY <1>1, <2>2
  <2> QED
    BY <1>1, <2>2, <2>3, <2>4, <2>5
<1> QED
  BY <1>2, <1>3

\* Once it is taken, the next is an interval later.
LEMMA TakenPaced ==
  ASSUME RateTypeOK, Paced(now), SlidingAccept \/ FixedAccept \/ UNCHANGED rateVars PROVE Paced(now + Interval)'
<1>1. /\ now \in Nat /\ count \in Nat /\ windowStart \in Nat /\ Len(accepted) \in Nat
      /\ \A i \in 1..Len(accepted) : accepted[i] \in Nat
      /\ Interval \in Nat
  BY AutoAssumption DEF RateTypeOK
<1>2. Paced(now + Interval)
  BY <1>1, PacedLater
<1>3. CASE SlidingAccept
  <2>1. accepted' = Append(accepted, now) /\ UNCHANGED <<now, windowStart, count>>
    BY <1>3 DEF SlidingAccept, fixedVars
  <2>2. /\ Len(accepted') = Len(accepted) + 1 /\ accepted'[Len(accepted) + 1] = now
        /\ \A i \in 1..Len(accepted) : accepted'[i] = accepted[i]
    BY <2>1 DEF RateTypeOK
  <2>3. ASSUME NEW i \in 1..Len(accepted')
        PROVE  accepted'[i] + (Len(accepted') + 1 - i) * Interval <= now + Interval
    <3>1. CASE i \in 1..Len(accepted)
      <4>1. accepted[i] + (Len(accepted) + 1 - i) * Interval <= now
        BY <3>1 DEF Paced
      <4>2. (Len(accepted) + 1 + 1 - i) * Interval = (Len(accepted) + 1 - i) * Interval + Interval
        BY <1>1, <3>1
      <4>3. (Len(accepted) + 1 - i) * Interval \in Int /\ accepted[i] \in Nat
        BY <1>1, <3>1
      <4> QED
        BY <1>1, <2>2, <3>1, <4>1, <4>2, <4>3
    <3>2. CASE i = Len(accepted) + 1
      <4>1. (Len(accepted') + 1 - i) * Interval = Interval
        BY <1>1, <2>2, <3>2
      <4> QED
        BY <1>1, <2>2, <3>2, <4>1
    <3> QED
      BY <1>1, <2>2, <3>1, <3>2
  <2> QED
    BY <1>2, <2>1, <2>3 DEF Paced
<1>4. CASE FixedAccept
  <2>1. UNCHANGED <<now, accepted>>
    BY <1>4 DEF FixedAccept, FixedCount, slidingVars
  <2>2. windowStart' + count' * Interval <= now + Interval
    <3>1. CASE WindowOver
      BY <1>1, <1>4, <3>1 DEF FixedAccept, FixedCount, Counted
    <3>2. CASE ~WindowOver
      <4>1. windowStart' = windowStart /\ count' = count + 1
        BY <1>4, <3>2 DEF FixedAccept, FixedCount, Counted
      <4>2. (count + 1) * Interval = count * Interval + Interval /\ count * Interval \in Nat
        BY <1>1
      <4>3. windowStart + count * Interval <= now
        BY DEF Paced
      <4> QED
        BY <1>1, <4>1, <4>2, <4>3
    <3> QED
      BY <3>1, <3>2
  <2> QED
    BY <1>2, <2>1, <2>2 DEF Paced
<1>5. CASE UNCHANGED rateVars
  BY <1>2, <1>5 DEF Paced, rateVars, slidingVars, fixedVars
<1> QED
  BY <1>3, <1>4, <1>5

\* A step of the loop, or none: the messages and the limits stay.
LEMMA PaceKept ==
  ASSUME PaceInv, UNCHANGED <<rateVars, tech, send, starts, outrun>>,
         \A l \in Loops : loop'[l] = loop[l] \/ (loop[l].pc # "sending" /\ loop'[l].pc = "over"
                                                 /\ loop[l].pc # "none" /\ loop'[l].stopAt = loop[l].stopAt)
  PROVE  PaceInv'
<1> SUFFICES ASSUME Single' PROVE Pacing'
  BY DEF PaceInv
<1>1. Single
  BY DEF Single
<1>2. Unserved' = Unserved /\ (Untouched => Untouched')
  BY DEF Unserved, Untouched, rateVars, slidingVars, fixedVars
<1>3. \A l \in Loops : LoopPaced(l)'
  <2> SUFFICES ASSUME NEW l \in Loops PROVE LoopPaced(l)'
    OBVIOUS
  <2>1. LoopPaced(l)
    BY <1>1 DEF PaceInv, Pacing
  <2> QED
    BY <1>2, <2>1 DEF LoopPaced, Paced, rateVars, slidingVars, fixedVars
<1> QED
  BY <1>1, <1>2, <1>3 DEF PaceInv, Pacing

\* The first run begins with a server that has taken nothing.
LEMMA StartPaces ==
  ASSUME TypeOK, RateTypeOK, EchoInv, PaceInv, NEW STATE w, NEW STATE r, NEW STATE from, NEW t,
         from \in [Sends -> SendStates],
         \A s \in Sends : /\ from[s].srv = send[s].srv /\ from[s].auto = send[s].auto
                          /\ from[s].cli = "none" <=> send[s].cli = "none",
         StartWith(t, w, r, from)
  PROVE  PaceInv'
<1> SUFFICES ASSUME Single' PROVE Pacing'
  BY DEF PaceInv
<1>1. PICK s \in Sends, ready \in BOOLEAN :
        /\ Submit(s, from, ready, TRUE, starts + 1)
        /\ loop' = [loop EXCEPT ![starts + 1] = Sending(s, run + 1, now + SimTime, ready)]
  BY DEF StartWith
<1>2. /\ starts \in Nat /\ starts' = starts + 1 /\ tech' = tech /\ starts + 1 \in Loops
      /\ now \in Nat /\ Interval \in Nat \ {0} /\ now + SimTime <= MaxTime /\ UNCHANGED rateVars
  BY AutoAssumption DEF TypeOK, RateTypeOK, StartWith
<1>3. Begun(s, from, ready, starts + 1) /\ send'[s].auto
  <2>1. starts + 1 \in Nat
    BY <1>2
  <2>2. Submit(s, from, ready, TRUE, starts + 1)
    BY <1>1
  <2> QED
    BY <2>1, <2>2, LoopSubmits
<1>4. starts = 0
  BY <1>2 DEF Single
<1>5. Single
  <2>1. ~outrun
    BY <1>3 DEF Begun, Single
  <2>2. ASSUME NEW u \in Sends, send[u].cli # "none" PROVE send[u].auto
    <3>1. u # s /\ send'[u] = from[u]
      BY <1>3, <2>2 DEF Begun
    <3>2. send'[u].cli # "none" /\ send'[u].auto = send[u].auto
      BY <2>2, <3>1
    <3> QED
      BY <3>2 DEF Single
  <2> QED
    BY <1>4, <2>1, <2>2 DEF Single
<1>6. /\ Pacing /\ accepted = <<>> /\ windowStart = 0 /\ count = 0
      /\ \A u \in Sends : send[u].cli = "none" /\ send[u].srv = "none"
  BY <1>4, <1>5 DEF PaceInv, Pacing, Untouched
<1>7. /\ Paced(now)'
      /\ Paced(now + Interval)'
  BY <1>2, <1>6 DEF Paced, rateVars, slidingVars, fixedVars
<1>8. \A u \in Sends \ {s} : send'[u].srv = "none"
  BY <1>3, <1>6 DEF Begun
<1>9. \A u \in Sends : send'[u].srv # "refused" /\ (send'[u].cli = "none" => send'[u].srv = "none")
  BY <1>3, <1>8 DEF Begun
<1>10. ASSUME NEW u \in Unserved' PROVE \E l \in Loops : loop'[l].pc = "sending" /\ loop'[l].send = u
  <2>1. u = s /\ ready
    BY <1>3, <1>8, <1>10 DEF Unserved, Begun
  <2>2. loop'[starts + 1].pc = "sending" /\ loop'[starts + 1].send = s
    BY <1>1, <1>2, <2>1 DEF Sending, TypeOK
  <2> QED
    BY <1>2, <2>1, <2>2
<1>11. ASSUME NEW l \in Loops PROVE LoopPaced(l)'
  <2>1. CASE l = starts + 1
    <3>1. loop'[l] = Sending(s, run + 1, now + SimTime, ready)
      BY <1>1, <2>1 DEF TypeOK
    <3>2. /\ loop'[l].stopAt = now + SimTime
          /\ loop'[l].pc = (IF ready THEN "sending" ELSE "pausing")
          /\ loop'[l].wake = now + Interval /\ now' = now
      BY <1>2, <3>1 DEF Sending, rateVars
    <3>3. Paced(loop[l].wake)'
      BY <1>7, <3>2 DEF Paced
    <3>4. l <= starts' /\ loop'[l].stopAt <= MaxTime
      BY <1>2, <2>1, <3>2
    <3> QED
      BY <1>7, <3>2, <3>3, <3>4 DEF LoopPaced
  <2>2. CASE l # starts + 1
    <3>1. loop'[l] = loop[l] /\ LoopPaced(l) /\ l \in Nat \ {0}
      BY <1>1, <1>6, <2>2, AutoAssumption DEF Pacing, TypeOK
    <3>2. loop[l].pc = "none"
      BY <1>4, <3>1 DEF LoopPaced
    <3> QED
      BY <3>1, <3>2 DEF LoopPaced
  <2> QED
    BY <2>1, <2>2
<1>12. Untouched'
  BY <1>2 DEF Untouched
<1> QED
  BY <1>9, <1>10, <1>11, <1>12 DEF Pacing

LEMMA StartsPace == ASSUME TypeOK, RateTypeOK, EchoInv, PaceInv, Starts PROVE PaceInv'
<1>1. CASE SseStarts
  <2> DEFINE from == [s \in Sends |-> IF send[s].cli \in Timed THEN [send[s] EXCEPT !.cli = "dropped"]
                                                            ELSE send[s]]
  <2>1. ASSUME NEW s \in Sends
        PROVE  /\ from[s] \in SendStates
               /\ from[s].srv = send[s].srv /\ from[s].auto = send[s].auto
               /\ from[s].cli = "none" <=> send[s].cli = "none"
    BY DEF TypeOK, SendStates, Timed
  <2>2. StartWith("SSE", waiters, {}, from)
    BY <1>1 DEF SseStarts
  <2>3. from \in [Sends -> SendStates]
    BY <2>1
  <2> HIDE DEF from
  <2> QED
    BY <2>1, <2>2, <2>3, StartPaces
<1>2. send \in [Sends -> SendStates]
  BY DEF TypeOK
<1>3. CASE SocketStarts \/ GrpcStarts \/ PollingStarts \/ SignalRStarts \/ WebSocketsStarts
  BY <1>2, <1>3, StartPaces DEF SocketStarts, GrpcStarts, PollingStarts, SignalRStarts, WebSocketsStarts
<1> QED
  BY <1>1, <1>3 DEF Starts

\* The loop sends the next message when its pause is over.
LEMMA AgainPaces == ASSUME TypeOK, RateTypeOK, PaceInv, NEW k \in Loops, SendAgain(k) PROVE PaceInv'
<1> SUFFICES ASSUME Single' PROVE Pacing'
  BY DEF PaceInv
<1>1. PICK s \in Sends, ready \in BOOLEAN :
        /\ Submit(s, send, ready, TRUE, starts)
        /\ loop' = [loop EXCEPT ![k] = Sending(s, loop[k].id, loop[k].stopAt, ready)]
  BY DEF SendAgain
<1>2. starts \in Nat /\ send \in [Sends -> SendStates] /\ now \in Nat /\ Interval \in Nat
      /\ MaxTime \in Nat /\ loop[k] \in LoopStates
  BY AutoAssumption DEF TypeOK, RateTypeOK
<1>3. Submit(s, send, ready, TRUE, starts)
  BY <1>1
<1>4. Begun(s, send, ready, starts) /\ send'[s].auto
  BY <1>2, <1>3, LoopSubmits
<1>5. /\ UNCHANGED <<rateVars, tech, starts>>
      /\ loop[k].pc = "pausing" /\ (now >= loop[k].wake \/ now = MaxTime) /\ now < loop[k].stopAt
  BY DEF SendAgain, Awake
<1>6. Single /\ Pacing
  <2>1. ~outrun /\ starts <= 1
    BY <1>4, <1>5 DEF Begun, Single
  <2>2. ASSUME NEW u \in Sends, send[u].cli # "none" PROVE send[u].auto
    BY <1>4, <2>2 DEF Begun, Single
  <2> QED
    BY <2>1, <2>2 DEF Single, PaceInv
<1>7. Paced(now)
  <2>1. LoopPaced(k)
    BY <1>6 DEF Pacing
  <2>2. loop[k].stopAt \in Nat /\ loop[k].wake \in Nat /\ loop[k].stopAt <= MaxTime /\ Paced(loop[k].wake)
    BY <1>2, <1>5, <2>1 DEF LoopPaced, LoopStates
  <2>3. loop[k].wake <= now
    BY <1>2, <1>5, <2>2
  <2> QED
    BY <1>2, <2>2, <2>3, PacedLater
<1>8. Paced(now)' /\ Paced(now + Interval)'
  <2>1. Paced(now + Interval)
    BY <1>2, <1>7, PacedLater
  <2> QED
    BY <1>5, <1>7, <2>1 DEF Paced, rateVars, slidingVars, fixedVars
<1>9. \A l \in Loops \ {k} : loop[l].pc = "none"
  BY <1>5, <1>6, OneLoop
<1>10. Unserved = {}
  BY <1>5, <1>6, <1>9 DEF Pacing
<1>11. \A u \in Sends : send'[u].srv # "refused" /\ (send'[u].cli = "none" => send'[u].srv = "none")
  BY <1>4, <1>6 DEF Begun, Pacing
<1>12. loop'[k] = Sending(s, loop[k].id, loop[k].stopAt, ready) /\ \A l \in Loops \ {k} : loop'[l] = loop[l]
  BY <1>1 DEF TypeOK
<1>13. ASSUME NEW u \in Unserved' PROVE \E l \in Loops : loop'[l].pc = "sending" /\ loop'[l].send = u
  <2>1. u = s /\ ready
    BY <1>4, <1>10, <1>13 DEF Unserved, Begun
  <2> QED
    BY <1>12, <2>1 DEF Sending
<1>14. ASSUME NEW l \in Loops PROVE LoopPaced(l)'
  <2>1. LoopPaced(l)
    BY <1>6 DEF Pacing
  <2>2. CASE l = k
    <3>1. /\ loop'[l].stopAt = loop[l].stopAt /\ loop'[l].wake = now + Interval /\ now' = now
          /\ loop'[l].pc = (IF ready THEN "sending" ELSE "pausing")
      BY <1>5, <1>12, <2>2 DEF Sending, rateVars
    <3>2. Paced(loop[l].wake)'
      BY <1>8, <3>1 DEF Paced
    <3> QED
      BY <1>5, <1>8, <2>1, <2>2, <3>1, <3>2 DEF LoopPaced
  <2>3. CASE l # k
    BY <1>9, <1>12, <2>1, <2>3 DEF LoopPaced
  <2> QED
    BY <2>2, <2>3
<1>15. Untouched'
  <2>1. k \in Nat \ {0} /\ k <= starts
    BY <1>5, <1>6, AutoAssumption DEF Pacing, LoopPaced
  <2> QED
    BY <1>2, <1>5, <2>1 DEF Untouched
<1> QED
  BY <1>11, <1>13, <1>14, <1>15 DEF Pacing

LEMMA TurnsPace == ASSUME TypeOK, RateTypeOK, PaceInv, NEW k \in Loops, Turns(k) PROVE PaceInv'
<1>1. CASE Elapse(k) \/ EndStopped(k)
  <2>1. /\ UNCHANGED <<rateVars, tech, send, starts, outrun>>
        /\ loop' = [loop EXCEPT ![k].pc = "over"] /\ loop[k].pc = "pausing"
    BY <1>1 DEF Elapse, EndStopped, Awake
  <2>2. loop'[k].pc = "over" /\ loop'[k].stopAt = loop[k].stopAt /\ \A l \in Loops \ {k} : loop'[l] = loop[l]
    BY <2>1 DEF TypeOK, LoopStates
  <2> QED
    BY <2>1, <2>2, PaceKept
<1> QED
  BY <1>1, AgainPaces DEF Turns

\* A message sent by hand is outside the hypothesis.
LEMMA ByHandPaces == ASSUME TypeOK, NEW s \in Sends, SendByHand(s) PROVE PaceInv'
<1>1. PICK ready \in BOOLEAN : Submit(s, send, ready, FALSE, starts)
  BY DEF SendByHand
<1>2. starts \in Nat
  BY AutoAssumption DEF TypeOK
<1>3. Begun(s, send, ready, starts) /\ ~send'[s].auto
  BY <1>1, <1>2, HandSubmits
<1>4. send'[s].cli # "none"
  BY <1>3 DEF Begun
<1> QED
  BY <1>3, <1>4 DEF PaceInv, Single

\* A server takes the one message on its way to it.
LEMMA ServingPaces ==
  ASSUME TypeOK, RateTypeOK, PaceInv, NEW s \in Sends, SocketServes(s) \/ WebSocketServes(s) \/ CoreServes(s)
  PROVE  PaceInv'
<1> SUFFICES ASSUME Single' PROVE Pacing'
  BY DEF PaceInv
<1>1. /\ send[s].srv = "sent" /\ UNCHANGED <<tech, loop, starts, outrun>> /\ now' = now
      /\ \/ (SlidingAccept \/ FixedAccept \/ UNCHANGED rateVars) /\ send' = [send EXCEPT ![s].srv = "saved"]
         \/ (SlidingRefuse \/ FixedRefuse) /\ send' = [send EXCEPT ![s].srv = "refused"]
  BY DEF SocketServes, WebSocketServes, CoreServes, loopVars, SlidingAccept, SlidingRefuse, FixedAccept,
         FixedRefuse, FixedCount, rateVars
<1>2. /\ \A u \in Sends \ {s} : send'[u] = send[u]
      /\ send'[s].cli = send[s].cli /\ send'[s].auto = send[s].auto /\ send'[s].srv \in {"saved", "refused"}
  BY <1>1 DEF TypeOK, SendStates
<1>3. Single /\ Pacing
  BY <1>1, <1>2 DEF Single, PaceInv
<1>4. PICK k \in Loops : loop[k].pc = "sending" /\ loop[k].send = s
  BY <1>1, <1>3 DEF Pacing, Unserved
<1>5. \A l \in Loops \ {k} : loop[l].pc = "none"
  BY <1>3, <1>4, OneLoop
<1>6. Paced(now)
  BY <1>1, <1>3, <1>4 DEF Pacing, LoopPaced, Unserved
<1>7. SlidingAccept \/ FixedAccept \/ UNCHANGED rateVars
  BY <1>1, <1>6, NoRefusal
<1>8. send' = [send EXCEPT ![s].srv = "saved"]
  BY <1>1, <1>6, NoRefusal
<1>9. Paced(now + Interval)'
  BY <1>6, <1>7, TakenPaced
<1>10. send'[s].srv = "saved" /\ Unserved' \subseteq Unserved /\ s \notin Unserved'
  BY <1>2, <1>8 DEF Unserved, TypeOK, SendStates
<1>11. ASSUME NEW l \in Loops PROVE LoopPaced(l)'
  BY <1>1, <1>3, <1>4, <1>5, <1>9, <1>10 DEF Pacing, LoopPaced
<1>12. Untouched'
  BY <1>1, <1>2, <1>3, <1>4 DEF Pacing, Untouched
<1>13. \A u \in Sends : send'[u].srv # "refused" /\ (send'[u].cli = "none" => send'[u].srv = "none")
  BY <1>1, <1>2, <1>3, <1>10 DEF Pacing
<1>14. \A u \in Unserved' : \E l \in Loops : loop'[l].pc = "sending" /\ loop'[l].send = u
  BY <1>1, <1>3, <1>10 DEF Pacing
<1> QED
  BY <1>11, <1>12, <1>13, <1>14 DEF Pacing

\* The answer, the echo, a timer or a failure: what the server has taken stays; a loop that goes on was
\* awaiting a message the server has dealt with, or outruns it.
LEMMA AnsweredPaces ==
  ASSUME TypeOK, RateTypeOK, PaceInv, NEW s \in Sends, UNCHANGED <<rateVars, tech, starts>>, outrun => outrun',
         \A u \in Sends : /\ send'[u].srv = send[u].srv /\ send'[u].auto = send[u].auto
                          /\ send'[u].cli = "none" <=> send[u].cli = "none",
         loop' = loop \/ (loop' = Resumed(s) /\ (send[s].srv = "sent" => outrun'))
  PROVE  PaceInv'
<1> SUFFICES ASSUME Single' PROVE Pacing'
  BY DEF PaceInv
<1>1. Single /\ Pacing
  <2>1. ~outrun /\ starts <= 1
    BY DEF Single
  <2>2. \A u \in Sends : send[u].cli # "none" => send[u].auto
    BY DEF Single
  <2> QED
    BY <2>1, <2>2 DEF Single, PaceInv
<1>2. Unserved' = Unserved /\ Untouched' /\ now \in Nat /\ Interval \in Nat
  <2>1. Unserved' = Unserved
    BY DEF Unserved
  <2>2. Untouched'
    BY <1>1 DEF Pacing, Untouched, rateVars, slidingVars, fixedVars
  <2> QED
    BY <2>1, <2>2, AutoAssumption DEF RateTypeOK
<1>3. \A u \in Sends : send'[u].srv # "refused" /\ (send'[u].cli = "none" => send'[u].srv = "none")
  BY <1>1 DEF Pacing
<1>4. ASSUME NEW l \in Loops
      PROVE  LoopPaced(l)' /\ (loop[l].pc = "sending" /\ loop[l].send \in Unserved => loop'[l] = loop[l])
  <2>1. LoopPaced(l)
    BY <1>1 DEF Pacing
  <2>2. CASE loop'[l] = loop[l]
    BY <1>2, <2>1, <2>2 DEF LoopPaced, Paced, rateVars, slidingVars, fixedVars
  <2>3. CASE loop'[l] # loop[l]
    <3>1. /\ loop' = Resumed(s) /\ loop[l].pc = "sending" /\ loop[l].send = s /\ s \notin Unserved
          /\ loop'[l] = [loop[l] EXCEPT !.pc = "pausing", !.wake = now + Interval]
      BY <2>3 DEF Resumed, Unserved, Single
    <3>2. loop'[l].pc = "pausing" /\ loop'[l].wake = now + Interval /\ loop'[l].stopAt = loop[l].stopAt
      BY <3>1 DEF TypeOK, LoopStates
    <3>3. Paced(loop[l].wake)'
      BY <2>1, <3>1, <3>2 DEF LoopPaced, Paced, rateVars, slidingVars, fixedVars
    <3> QED
      BY <2>1, <3>1, <3>2, <3>3 DEF LoopPaced
  <2> QED
    BY <2>2, <2>3
<1>5. \A u \in Unserved' : \E l \in Loops : loop'[l].pc = "sending" /\ loop'[l].send = u
  <2> SUFFICES ASSUME NEW u \in Unserved' PROVE \E l \in Loops : loop'[l].pc = "sending" /\ loop'[l].send = u
    OBVIOUS
  <2>1. PICK l \in Loops : loop[l].pc = "sending" /\ loop[l].send = u /\ u \in Unserved
    BY <1>1, <1>2 DEF Pacing
  <2> QED
    BY <1>4, <2>1
<1> QED
  BY <1>2, <1>3, <1>4, <1>5 DEF Pacing

LEMMA ReturnOutruns ==
  ASSUME NEW s, NEW cli, Return(s, cli)
  PROVE  /\ loop' = Resumed(s)
         /\ outrun => outrun'
         /\ send[s].srv = "sent" => outrun'
<1>1. outrun' = (outrun \/ send[s].srv = "sent") /\ loop' = Resumed(s)
  BY DEF Return
<1>2. (outrun => outrun') /\ (send[s].srv = "sent" => outrun')
  BY <1>1, Zenon
<1> QED
  BY <1>1, <1>2

LEMMA AnswerPaces == ASSUME TypeOK, RateTypeOK, PaceInv, NEW s \in Sends, Answered(s) PROVE PaceInv'
<1>1. UNCHANGED <<rateVars, tech, starts>>
  BY AnswersOutsideLimits DEF Answered, GrpcAnswered, PollingAnswered, SocketAnswered, SignalRAnswered,
     SseAnsweredByHand, SseAnswered, WaitForReceive, Return, loopVars
<1>2. send[s].srv = "saved" /\ (outrun => outrun') /\ (loop' = loop \/ loop' = Resumed(s))
  <2>1. send[s].srv = "saved"
    BY DEF Answered, GrpcAnswered, PollingAnswered, SocketAnswered, SignalRAnswered,
       SseAnsweredByHand, SseAnswered, WaitForReceive
  <2>2. \/ Return(s, "ok")
        \/ outrun' = outrun /\ (loop' = loop \/ loop' = Resumed(s))
    BY DEF Answered, GrpcAnswered, PollingAnswered, SocketAnswered, SignalRAnswered,
       SseAnsweredByHand, SseAnswered, WaitForReceive, loopVars
  <2>3. CASE Return(s, "ok")
    BY <2>1, <2>3, ReturnOutruns
  <2> QED
    BY <2>1, <2>2, <2>3
<1>3. \A u \in Sends : /\ send'[u].srv = send[u].srv /\ send'[u].auto = send[u].auto
                       /\ send'[u].cli = "none" <=> send[u].cli = "none"
  <2>1. CASE \E cli \in {"ok", "waiting"} : send' = [send EXCEPT ![s].cli = cli]
    <3>1. send[s].cli = "asked"
      BY DEF Answered, GrpcAnswered, PollingAnswered, SocketAnswered, SignalRAnswered,
         SseAnsweredByHand, SseAnswered, WaitForReceive
    <3> QED
      BY <2>1, <3>1 DEF TypeOK, SendStates
  <2>2. CASE SseAnswered(s)
    <3>1. PICK cli \in {"ok", "posted"}, runId \in Nat :
            send' = [send EXCEPT ![s].cli = cli, ![s].runId = runId]
      BY <2>2 DEF SseAnswered, TypeOK
    <3>2. send[s].cli = "asked"
      BY <2>2 DEF SseAnswered
    <3> QED
      BY <3>1, <3>2, NotedType DEF Returned, Timed
  <2>3. CASE SseAnsweredByHand(s)
    BY <2>1, <2>3 DEF SseAnsweredByHand
  <2>4. CASE GrpcAnswered(s) \/ PollingAnswered(s) \/ SocketAnswered(s) \/ SignalRAnswered(s)
    BY <2>1, <2>4 DEF GrpcAnswered, PollingAnswered, SocketAnswered, SignalRAnswered, WaitForReceive, Return
  <2> QED
    BY <2>2, <2>3, <2>4 DEF Answered
<1> QED
  BY <1>1, <1>2, <1>3, AnsweredPaces

LEMMA EchoPaces ==
  ASSUME TypeOK, RateTypeOK, PaceInv, NEW s \in Sends,
         CallFails(s) \/ EchoArrives(s) \/ SseEchoArrives(s) \/ EchoTimesOut(s) \/ SseTimerFires(s)
  PROVE  PaceInv'
<1>1. UNCHANGED <<rateVars, tech, starts>>
  BY DEF CallFails, EchoArrives, SseEchoArrives, EchoTimesOut, SseTimerFires, Return, loopVars
<1>2. /\ outrun => outrun'
      /\ loop' = loop \/ (loop' = Resumed(s) /\ (send[s].srv = "sent" => outrun'))
  <2>1. \/ \E cli \in Returned : Return(s, cli)
        \/ outrun' = outrun /\ loop' = loop
    BY DEF CallFails, EchoArrives, SseEchoArrives, EchoTimesOut, SseTimerFires, Returned, loopVars
  <2>2. CASE \E cli \in Returned : Return(s, cli)
    BY <2>2, ReturnOutruns
  <2>3. CASE outrun' = outrun /\ loop' = loop
    <3>1. outrun => outrun'
      BY <2>3, Zenon
    <3> QED
      BY <2>3, <3>1
  <2> QED
    BY <2>1, <2>2, <2>3
<1>3. \A u \in Sends : /\ send'[u].srv = send[u].srv /\ send'[u].auto = send[u].auto
                       /\ send'[u].cli = "none" <=> send[u].cli = "none"
  <2>1. CASE send[s].cli # "none" /\ \E cli \in Returned : send' = [send EXCEPT ![s].cli = cli]
    BY <2>1 DEF TypeOK, SendStates, Returned
  <2>2. CASE send' = send
    BY <2>2
  <2>3. CASE CallFails(s) \/ EchoTimesOut(s) \/ SseEchoArrives(s)
    BY <2>1, <2>2, <2>3 DEF CallFails, EchoTimesOut, SseEchoArrives, Return, Returned
  <2>4. CASE EchoArrives(s)
    BY <2>1, <2>2, <2>4 DEF EchoArrives, Return, Returned, TypeOK
  <2>5. CASE SseTimerFires(s)
    <3>1. PICK cli \in {"late", "silent"} : send' = [send EXCEPT ![s].cli = cli, ![s].runId = 0]
      BY <2>5 DEF SseTimerFires
    <3>2. send[s].cli = "posted"
      BY <2>5 DEF SseTimerFires
    <3> QED
      BY <3>1, <3>2, NotedType DEF Timed
  <2> QED
    BY <2>3, <2>4, <2>5
<1> QED
  BY <1>1, <1>2, <1>3, AnsweredPaces

\* Time passes: what was an interval ago is longer ago.
LEMMA PassPaces == ASSUME TypeOK, RateTypeOK, PaceInv, Pass PROVE PaceInv'
<1> SUFFICES ASSUME Single' PROVE Pacing'
  BY DEF PaceInv
<1>1. /\ now' = now + 1 /\ now \in Nat /\ Interval \in Nat
      /\ UNCHANGED <<slidingVars, fixedVars, loop, send, starts, outrun>>
  BY AutoAssumption DEF Pass, Tick, RateTypeOK, loopVars
<1>2. Single /\ Pacing /\ Unserved' = Unserved
  BY <1>1 DEF Single, PaceInv, Unserved
<1>3. /\ Paced(now) => Paced(now)'
      /\ Paced(now + Interval) => Paced(now + Interval)'
  <2>1. Paced(now) => Paced(now + 1)
    BY <1>1, PacedLater
  <2>2. Paced(now + Interval) => Paced(now + 1 + Interval)
    BY <1>1, PacedLater
  <2> QED
    BY <1>1, <2>1, <2>2 DEF Paced, slidingVars, fixedVars
<1>4. ASSUME NEW l \in Loops PROVE LoopPaced(l)'
  <2>1. LoopPaced(l)
    BY <1>2 DEF Pacing
  <2>2. Paced(loop[l].wake) => Paced(loop[l].wake)'
    BY <1>1 DEF Paced, slidingVars, fixedVars
  <2> QED
    BY <1>1, <1>2, <1>3, <2>1, <2>2 DEF LoopPaced
<1> QED
  BY <1>1, <1>2, <1>4 DEF Pacing, Untouched, slidingVars, fixedVars

LEMMA PaceStep == TypeOK /\ RateTypeOK /\ EchoInv /\ PaceInv /\ [Next]_vars => PaceInv'
<1> SUFFICES ASSUME TypeOK, RateTypeOK, EchoInv, PaceInv, [Next]_vars PROVE PaceInv'
  OBVIOUS
<1>1. CASE Stop \/ UNCHANGED vars
  BY <1>1, PaceKept DEF Stop, vars, loopVars
<1> QED
  BY <1>1, StartsPace, TurnsPace, ByHandPaces, ServingPaces, AnswerPaces, EchoPaces, PassPaces DEF Next

\* No message of a single run is refused, for any interval the limits leave room for.
THEOREM NeverLimitedHolds == Spec => []NeverLimited
<1>1. PaceInv => NeverLimited
  BY DEF PaceInv, Pacing, Single, NeverLimited
<1>2. Spec => []PaceInv
  BY PaceInit, PaceStep, AutoTypeHolds, EchoInvariant, UsesTheLimits, RateTypeHolds, PTL DEF Spec
<1> QED
  BY <1>1, <1>2, PTL
=============================================================================
