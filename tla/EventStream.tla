----------------------------- MODULE EventStream -----------------------------
(***************************************************************************)
(* What a filter or a watch promises to the one who asked for it, with no  *)
(* channel, goroutine or subscription in it:                               *)
(*                                                                         *)
(*  - a request is made once;                                              *)
(*  - the events that were asked for are given one by one, each time the   *)
(*    first on the chain that was not given yet;                           *)
(*  - a filter is complete only when all were given;                       *)
(*  - at any time the stream may end early, by an error or a Close, but an *)
(*    end is final: nothing is given after it.                             *)
(***************************************************************************)
EXTENDS ContractEvents, Naturals

VARIABLES
  request,    \* what was asked for: kind, event, values wanted
  chain,      \* the logs it is about
  delivered,  \* positions of the events given, in this order
  over        \* "no", "complete" or "early"

streamVars == <<request, chain, delivered, over>>

Unasked == [kind |-> "none"]

StreamInit ==
  /\ request = Unasked
  /\ chain = <<>>
  /\ delivered = <<>>
  /\ over = "no"

(* Events asked for and not given yet. *)
Left ==
  {p \in DOMAIN chain :
     /\ Matches(chain[p], request.event, request.wanted)
     /\ \A i \in DOMAIN delivered : delivered[i] # p}

Request ==
  /\ request = Unasked
  /\ request'.kind \in {"filter", "watch"}
  /\ UNCHANGED <<delivered, over>>

Open == request # Unasked /\ over = "no"

Give ==
  /\ Open
  /\ \E p \in Left :
       /\ \A q \in Left : p <= q
       /\ delivered' = Append(delivered, p)
  /\ UNCHANGED <<request, chain, over>>

Complete ==
  /\ Open
  /\ request.kind = "filter"
  /\ Left = {}
  /\ over' = "complete"
  /\ UNCHANGED <<request, chain, delivered>>

EndEarly ==
  /\ Open
  /\ over' = "early"
  /\ UNCHANGED <<request, chain, delivered>>

StreamNext == Request \/ Give \/ Complete \/ EndEarly

StreamSpec == StreamInit /\ [][StreamNext]_streamVars

=============================================================================
