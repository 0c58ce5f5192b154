------------------------------ MODULE RateLimits ------------------------------
(***************************************************************************)
(* The two limits on how fast one connection may send.                     *)
(*                                                                         *)
(* ChatWebSocketHandler keeps the times of the messages it took in a queue *)
(* (_sendTimestamps), and takes one if fewer than MaxMessagesPerSecond are *)
(* left once those more than a second old are out: a sliding window.       *)
(* SocketIoService (server.js) counts the messages of a window that begins *)
(* with the connection, and then with the first message after the last     *)
(* window is over: a fixed window, in which the messages it refuses count  *)
(* too.  Time 0 is when the connection is made.                            *)
(***************************************************************************)
EXTENDS Integers, Sequences

CONSTANTS
  Window,      (* the length of the window: a second                       *)
  SlidingMax,  (* MaxMessagesPerSecond                                     *)
  FixedMax     (* RATE_LIMIT_MAX                                           *)

ASSUME RateAssumption ==
  /\ Window \in Nat \ {0} /\ SlidingMax \in Nat \ {0} /\ FixedMax \in Nat \ {0}

VARIABLES
  now,         (* the server's clock                                       *)
  accepted,    (* history: when the sliding limit took a message           *)
  dropped,     (* how many of them have left _sendTimestamps               *)
  windowStart, (* rate.windowStart                                         *)
  count,       (* rate.count                                               *)
  taken        (* history: when the fixed limit took a message             *)

slidingVars == <<accepted, dropped>>
fixedVars   == <<windowStart, count, taken>>
rateVars    == <<now, slidingVars, fixedVars>>

RateTypeOK ==
  /\ now \in Nat
  /\ accepted \in Seq(Nat) /\ dropped \in 0..Len(accepted)
  /\ windowStart \in Nat /\ count \in Nat /\ taken \in Seq(Nat)

RateInit ==
  /\ now = 0
  /\ accepted = <<>> /\ dropped = 0
  /\ windowStart = 0 /\ count = 0 /\ taken = <<>>

\* The clock (DateTime.UtcNow, Date.now) is taken not to go back.
Tick ==
  /\ now' = now + 1
  /\ UNCHANGED <<slidingVars, fixedVars>>

-----------------------------------------------------------------------------
(* The sliding window.                                                      *)

\* For Expired: a stamp leaves the queue one tick early.
ExpiredEarly(i) == now - accepted[i] >= Window

\* "(now - _sendTimestamps.Peek()).TotalSeconds > 1.0"
Expired(i) == now - accepted[i] > Window

\* The while loop has taken stamps out until the queue has d of them less than there were.
Dequeued(d) ==
  /\ d \in dropped..Len(accepted)
  /\ \A i \in (dropped + 1)..d : Expired(i)
  /\ d < Len(accepted) => ~Expired(d + 1)

SlidingAccept ==
  /\ \E d \in 0..Len(accepted) :
       /\ Dequeued(d)
       /\ Len(accepted) - d < SlidingMax
       /\ dropped' = d
  /\ accepted' = Append(accepted, now)
  /\ UNCHANGED <<now, fixedVars>>

SlidingRefuse ==
  /\ \E d \in 0..Len(accepted) :
       /\ Dequeued(d)
       /\ Len(accepted) - d >= SlidingMax
       /\ dropped' = d
  /\ UNCHANGED <<now, accepted, fixedVars>>

-----------------------------------------------------------------------------
(* The fixed window.                                                        *)

\* For WindowOver: "now - rate.windowStart > RATE.windowMs".
WindowOverLate == now - windowStart > Window

\* "now - rate.windowStart >= RATE.windowMs"
WindowOver == now - windowStart >= Window

\* rate.count once this message is counted, in a new window if the last is over.
Counted == IF WindowOver THEN 1 ELSE count + 1

FixedCount ==
  /\ windowStart' = IF WindowOver THEN now ELSE windowStart
  /\ count' = Counted
  /\ UNCHANGED <<now, slidingVars>>

FixedAccept ==
  /\ Counted <= FixedMax
  /\ FixedCount
  /\ taken' = Append(taken, now)

FixedRefuse ==
  /\ Counted > FixedMax
  /\ FixedCount
  /\ UNCHANGED taken

RateNext == Tick \/ SlidingAccept \/ SlidingRefuse \/ FixedAccept \/ FixedRefuse

RateSpec == RateInit /\ [][RateNext]_rateVars

-----------------------------------------------------------------------------
(* Properties *)

(***************************************************************************)
(* A sliding window holds for every window there is, not only for those    *)
(* that end with a message: of SlidingMax + 1 messages it took, the first  *)
(* and the last are more than a window apart.                              *)
(***************************************************************************)
SlidingBound ==
  \A i, j \in 1..Len(accepted) : j >= i + SlidingMax => accepted[j] - accepted[i] > Window

(***************************************************************************)
(* A fixed window lets twice the maximum through at its edge, and no more: *)
(* of 2 * FixedMax + 1 messages it took, the first and the last are a      *)
(* window apart at least.                                                  *)
(***************************************************************************)
FixedBound ==
  \A i, j \in 1..Len(taken) : j >= i + 2 * FixedMax => taken[j] - taken[i] >= Window

(***************************************************************************)
(* What the two limits let through, at every pace of the clients.          *)
(***************************************************************************)
RateBounds == SlidingBound /\ FixedBound
=============================================================================
