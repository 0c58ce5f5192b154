---------------------------- MODULE OrderedFeed ----------------------------
(***************************************************************************)
(* What a stream of chat messages promises its reader, whatever carries    *)
(* it: message ids are issued in order, a reader asks for what follows an  *)
(* id it has seen, and is then given issued messages of its chat in        *)
(* strictly increasing id order.  Nothing is said of how many: a reader    *)
(* may be passed over.                                                     *)
(***************************************************************************)
EXTENDS Naturals, Sequences

CONSTANTS
  Readers,   (* streams                                                    *)
  Ids,       (* message ids                                                *)
  Wanted     (* reader -> the ids of its chat                              *)

VARIABLES
  issued,    (* the newest id in the database, 0 at first                  *)
  cursor,    (* the id each reader's stream has got to                     *)
  delivered  (* what each reader was given, in order                       *)

feedVars == <<issued, cursor, delivered>>

FeedInit ==
  /\ issued = 0
  /\ cursor = [r \in Readers |-> 0]
  /\ delivered = [r \in Readers |-> <<>>]

Issue(m) ==
  /\ m > issued
  /\ issued' = m
  /\ UNCHANGED <<cursor, delivered>>

Start(r, since) ==
  /\ delivered[r] = <<>>
  /\ since <= issued
  /\ cursor' = [cursor EXCEPT ![r] = since]
  /\ UNCHANGED <<issued, delivered>>

Deliver(r, m) ==
  /\ m \in Wanted[r]
  /\ cursor[r] < m
  /\ m <= issued
  /\ cursor' = [cursor EXCEPT ![r] = m]
  /\ delivered' = [delivered EXCEPT ![r] = Append(@, m)]
  /\ UNCHANGED issued

FeedNext ==
  \/ \E m \in Ids : Issue(m)
  \/ \E r \in Readers, since \in Ids \union {0} : Start(r, since)
  \/ \E r \in Readers, m \in Ids : Deliver(r, m)

FeedSpec == FeedInit /\ [][FeedNext]_feedVars
=============================================================================
