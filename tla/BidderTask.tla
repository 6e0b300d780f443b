----------------------------- MODULE BidderTask ------------------------------
(***************************************************************************)
(* What the auction may rely on of one bidder's task, whatever its adapter *)
(* and its server do: the calls are made one by one, each adds bids or     *)
(* errors and never both, and the result is failed exactly when no call    *)
(* could be made and something went wrong, or when the adapter blamed the  *)
(* input.  HoldAuction runs on tasks of this kind; AdaptedBidder implements *)
(* it for every adapter.                                                   *)
(***************************************************************************)
EXTENDS Naturals

CONSTANTS Kinds,     \* the kinds of error
          Fatal,     \* the kinds that discard the bids
          Late,      \* the kind of a call that timed out
          MaxCalls, MaxBids

VARIABLES state, left, errors, bids, late

taskVars == <<state, left, errors, bids, late>>

TaskInit == state = "spawned" /\ left = 0 /\ errors = {} /\ bids = 0 /\ late = FALSE

Close(n, es) == IF n > 0 THEN "calling" ELSE IF es \cap Fatal = {} THEN "finished" ELSE "failed"

Make ==
    /\ state = "spawned"
    /\ \E n \in 0..MaxCalls, es \in SUBSET Kinds :
          /\ left' = n /\ errors' = es
          /\ state' = IF n = 0 /\ es # {} THEN "failed" ELSE Close(n, {})
    /\ UNCHANGED <<bids, late>>

EndOne(es, isLate) ==
    /\ state = "calling"
    /\ left' = left - 1
    /\ errors' = errors \cup es
    /\ late' = (late \/ isLate)
    /\ state' = Close(left', errors')

Bring == EndOne({}, FALSE) /\ \E n \in 0..MaxBids : bids' = bids + n

Err == (\E es \in (SUBSET (Kinds \ {Late})) \ {{}} : EndOne(es, FALSE)) /\ UNCHANGED bids

TimeOutCall == EndOne({Late}, TRUE) /\ UNCHANGED bids

TaskSpec == TaskInit /\ [][Make \/ Bring \/ Err \/ TimeOutCall]_taskVars
=============================================================================
