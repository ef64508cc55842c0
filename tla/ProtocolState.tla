--------------------------- MODULE ProtocolState ---------------------------
(***************************************************************************)
(* MustQuery of package prost: a view call of the contract, repeated with  *)
(* growing waits until it succeeds, until its context is cancelled, or     *)
(* until a minute has passed.  The call itself has no context: one that    *)
(* hangs is not cut off by the caller's.                                   *)
(***************************************************************************)
EXTENDS Naturals

VARIABLES
  query,      \* "idle", "calling" the contract, or "waiting" for the timer
  result,     \* of the last query: "none", "value" or "error"
  cancelled,  \* whether the caller cancelled the context
  timeUp,     \* whether the minute has passed
  begunAfter  \* history: calls begun after the context was cancelled

queryVars == <<query, result, cancelled, timeUp, begunAfter>>

QueryInit ==
  /\ query = "idle"
  /\ result = "none"
  /\ cancelled = FALSE
  /\ timeUp = FALSE
  /\ begunAfter = 0

(* The first call is made at once, even if the context is cancelled. *)
MustQuery ==
  /\ query = "idle"
  /\ cancelled' \in BOOLEAN
  /\ query' = "calling"
  /\ begunAfter' = IF cancelled' THEN 1 ELSE 0
  /\ result' = "none"
  /\ timeUp' = FALSE

QueryReturns(r) ==
  /\ query' = "idle"
  /\ result' = r

CallSucceeds ==
  /\ query = "calling"
  /\ QueryReturns("value")
  /\ UNCHANGED <<cancelled, timeUp, begunAfter>>

(* The call fails: the query ends, or waits to try again. *)
CallFails_ContextIgnored ==
  /\ query = "calling"
  /\ IF timeUp
     THEN QueryReturns("error")
     ELSE query' = "waiting" /\ UNCHANGED result
  /\ UNCHANGED <<cancelled, timeUp, begunAfter>>

CallFails_ForEver ==
  /\ query = "calling"
  /\ IF cancelled
     THEN QueryReturns("error")
     ELSE query' = "waiting" /\ UNCHANGED result
  /\ UNCHANGED <<cancelled, timeUp, begunAfter>>

CallFails ==
  /\ query = "calling"
  /\ IF cancelled \/ timeUp
     THEN QueryReturns("error")
     ELSE query' = "waiting" /\ UNCHANGED result
  /\ UNCHANGED <<cancelled, timeUp, begunAfter>>

(* The timer and the context may both be ready: either is taken. *)
TimerFires ==
  /\ query = "waiting"
  /\ query' = "calling"
  /\ begunAfter' = begunAfter + (IF cancelled THEN 1 ELSE 0)
  /\ UNCHANGED <<result, cancelled, timeUp>>

ContextDone ==
  /\ query = "waiting" /\ cancelled
  /\ QueryReturns("error")
  /\ UNCHANGED <<cancelled, timeUp, begunAfter>>

Cancel ==
  /\ query # "idle" /\ ~cancelled
  /\ cancelled' = TRUE
  /\ UNCHANGED <<query, result, timeUp, begunAfter>>

MinutePasses ==
  /\ query # "idle" /\ ~timeUp
  /\ timeUp' = TRUE
  /\ UNCHANGED <<query, result, cancelled, begunAfter>>

CallEnds == CallSucceeds \/ CallFails

QueryNext ==
  \/ MustQuery
  \/ CallEnds
  \/ TimerFires \/ ContextDone
  \/ Cancel \/ MinutePasses

-----------------------------------------------------------------------------
(* Properties. *)

QueryTypeOK ==
  /\ query \in {"idle", "calling", "waiting"}
  /\ result \in {"none", "value", "error"}
  /\ cancelled \in BOOLEAN
  /\ timeUp \in BOOLEAN
  /\ begunAfter \in Nat

(* Who cancels the context sees at most one more call begin: the first of  *)
(* the query, or one whose timer was ready at the same time.               *)
OneCallAfterCancel == begunAfter <= 1

(* A query ends, if the calls of the contract do: with an error after a    *)
(* minute, when the contract never answers with a value.                   *)
QueriesEnd == query # "idle" ~> query = "idle"

=============================================================================
