-------------------------- MODULE ContractBinding --------------------------
(***************************************************************************)
(* A filter over past logs of one event of the contract, or a watch for    *)
(* new ones: the code the generated binding repeats for every event of     *)
(* ContractEvents.                                                         *)
(*                                                                         *)
(* Behind an iterator, a goroutine of go-ethereum sends the logs found     *)
(* into a channel; behind a watch, the node does, and a goroutine of the   *)
(* binding forwards them to the caller's sink.  Where several cases of a   *)
(* select are ready, Go takes any of them.  A log is known by its          *)
(* position on the chain.                                                  *)
(***************************************************************************)
EXTENDS ContractEvents, Naturals

CONSTANTS
  Events,    \* events the caller may ask for
  Values,    \* of indexed fields
  Filters,   \* sets of values the caller may want of a field, {} for any
  Buffer,    \* capacity of the channel of logs (128 in go-ethereum)
  MaxLogs    \* bound: logs of the contract

ASSUME BindingAssumption ==
  /\ Events \subseteq ContractEventTypes
  /\ Buffer \in Nat
  /\ MaxLogs \in Nat

VARIABLES
  request,    \* what the caller asked for: kind, event, values wanted
  chain,      \* the contract's logs, as far as the node comes to tell them
  caller,     \* "free", in "next", or "ending" (Close or Unsubscribe)
  sent,       \* the position up to which logs went into the channel
  logs,       \* the channel, by position
  goroutine,  \* "none", "running" or "ended": the sender, or the forwarder
  quit,       \* whether it was told to quit
  nodeSub,    \* the node's subscription: "none", "live", "failed" or "ended"
  hand,       \* the log the forwarder is delivering, 0 for none
  done,       \* it.done
  fail,       \* it.fail, or the error of a watch
  exhausted,  \* history: whether Next returned false
  delivered   \* positions of the events the caller got, in this order

bindingVars == <<request, chain, caller, sent, logs, goroutine, quit, nodeSub,
                 hand, done, fail, exhausted, delivered>>

NoRequest == [kind |-> "none"]

BindingInit ==
  /\ request = NoRequest
  /\ chain = <<>>
  /\ caller = "free"
  /\ sent = 0
  /\ logs = <<>>
  /\ goroutine = "none"
  /\ quit = FALSE
  /\ nodeSub = "none"
  /\ hand = 0
  /\ done = FALSE
  /\ fail = FALSE
  /\ exhausted = FALSE
  /\ delivered = <<>>

Idle == request = NoRequest

Filtering == request.kind = "filter"

Watching == request.kind = "watch"

-----------------------------------------------------------------------------
(* What is found. *)

(* The rules of a filter, in the order it passes them on. *)
Rules_Reversed(e, wanted) ==
  [i \in DOMAIN e.indexed |-> wanted[e.indexed[Len(e.indexed) + 1 - i]]]

Rules(e, wanted) == [i \in DOMAIN e.indexed |-> wanted[e.indexed[i]]]

(* The node looks at the name and, position by position, at the topics. *)
Found(p) ==
  LET l     == chain[p]
      e     == request.event
      rules == Rules(e, request.wanted)
  IN  /\ l.name = e.name
      /\ \A i \in DOMAIN rules :
           rules[i] = {} \/ l.fields[Topics(l.name)[i]] \in rules[i]

(* What the caller means: field by field. *)
Wanted(p) == Matches(chain[p], request.event, request.wanted)

(* Logs of the event asked for, and of another. *)
LogsFor(e) ==
  [name : {e.name}, fields : [Fields(e) -> Values]]
    \cup {[name |-> "another", fields |-> <<>>]}

Chains(e) == UNION {[1..n -> LogsFor(e)] : n \in 0..MaxLogs}

-----------------------------------------------------------------------------
(* The caller. *)

(* FilterX or WatchX.  When the node refuses, only an error is returned. *)
Ask(kind, e, wanted, c) ==
  /\ request' = [kind |-> kind, event |-> e, wanted |-> wanted]
  /\ chain' = c
  /\ goroutine' = "running"
  /\ nodeSub' = IF kind = "watch" THEN "live" ELSE "none"
  /\ UNCHANGED <<caller, sent, logs, quit, hand, done, fail, exhausted, delivered>>

CallNext ==
  /\ Filtering /\ caller = "free"
  /\ caller' = "next"
  /\ UNCHANGED <<request, chain, sent, logs, goroutine, quit, nodeSub, hand, done, fail,
                 exhausted, delivered>>

(* Next returns false. *)
NoMore ==
  /\ caller' = "free"
  /\ exhausted' = TRUE

NextAfterFailure ==
  /\ caller = "next" /\ fail
  /\ NoMore
  /\ UNCHANGED <<request, chain, sent, logs, goroutine, quit, nodeSub, hand, done, fail, delivered>>

(* Next takes a log, which unpacks or does not. *)
NextTakes_AfterFailure ==
  /\ caller = "next"
  /\ logs # <<>>
  /\ logs' = Tail(logs)
  /\ \/ /\ caller' = "free"
        /\ delivered' = Append(delivered, Head(logs))
        /\ UNCHANGED <<fail, exhausted>>
     \/ /\ fail' = TRUE
        /\ NoMore
        /\ UNCHANGED delivered
  /\ UNCHANGED <<request, chain, sent, goroutine, quit, nodeSub, hand, done>>

NextTakes ==
  /\ caller = "next" /\ ~fail
  /\ logs # <<>>
  /\ logs' = Tail(logs)
  /\ \/ /\ caller' = "free"
        /\ delivered' = Append(delivered, Head(logs))
        /\ UNCHANGED <<fail, exhausted>>
     \/ /\ fail' = TRUE
        /\ NoMore
        /\ UNCHANGED delivered
  /\ UNCHANGED <<request, chain, sent, goroutine, quit, nodeSub, hand, done>>

(* The sender has ended, its Err() is closed; logs may be left. *)
NextSeesEnd_Stops ==
  /\ caller = "next" /\ ~fail /\ ~done
  /\ goroutine = "ended"
  /\ done' = TRUE
  /\ NoMore
  /\ UNCHANGED <<request, chain, sent, logs, goroutine, quit, nodeSub, hand, fail, delivered>>

NextSeesEnd ==
  /\ caller = "next" /\ ~fail /\ ~done
  /\ goroutine = "ended"
  /\ done' = TRUE
  /\ UNCHANGED <<request, chain, caller, sent, logs, goroutine, quit, nodeSub, hand, fail,
                 exhausted, delivered>>

NextFindsNone ==
  /\ caller = "next" /\ ~fail /\ done
  /\ logs = <<>>
  /\ NoMore
  /\ UNCHANGED <<request, chain, sent, logs, goroutine, quit, nodeSub, hand, done, fail, delivered>>

(* Close of an iterator, Unsubscribe of a watch: they tell the goroutine   *)
(* to quit, unless it has ended, and wait for its end.                     *)
CallEnd ==
  /\ ~Idle /\ caller = "free"
  /\ caller' = "ending"
  /\ quit' = (quit \/ goroutine = "running")
  /\ UNCHANGED <<request, chain, sent, logs, goroutine, nodeSub, hand, done, fail, exhausted, delivered>>

EndReturns ==
  /\ caller = "ending" /\ goroutine = "ended"
  /\ caller' = "free"
  /\ UNCHANGED <<request, chain, sent, logs, goroutine, quit, nodeSub, hand, done, fail,
                 exhausted, delivered>>

-----------------------------------------------------------------------------
(* The sender of a filter, and the node behind a watch. *)

SendNext_OneOver ==
  /\ Len(logs) <= Buffer
  /\ \E p \in sent + 1..Len(chain) :
       /\ Found(p)
       /\ \A q \in sent + 1..p - 1 : ~Found(q)
       /\ sent' = p
       /\ logs' = Append(logs, p)
  /\ UNCHANGED <<request, chain, caller, goroutine, quit, nodeSub, hand, done, fail,
                 exhausted, delivered>>

SendNext ==
  /\ Len(logs) < Buffer
  /\ \E p \in sent + 1..Len(chain) :
       /\ Found(p)
       /\ \A q \in sent + 1..p - 1 : ~Found(q)
       /\ sent' = p
       /\ logs' = Append(logs, p)
  /\ UNCHANGED <<request, chain, caller, goroutine, quit, nodeSub, hand, done, fail,
                 exhausted, delivered>>

SenderSends == Filtering /\ goroutine = "running" /\ SendNext

SenderEnds ==
  /\ Filtering /\ goroutine = "running"
  /\ quit \/ \A p \in sent + 1..Len(chain) : ~Found(p)
  /\ goroutine' = "ended"
  /\ UNCHANGED <<request, chain, caller, sent, logs, quit, nodeSub, hand, done, fail,
                 exhausted, delivered>>

NodeSends == nodeSub = "live" /\ SendNext

NodeFails ==
  /\ nodeSub = "live"
  /\ nodeSub' = "failed"
  /\ UNCHANGED <<request, chain, caller, sent, logs, goroutine, quit, hand, done, fail,
                 exhausted, delivered>>

-----------------------------------------------------------------------------
(* The forwarder of a watch. *)

Forwarding == Watching /\ goroutine = "running"

(* It ends, the log in its hand is dropped, and the node's subscription    *)
(* ends with it.                                                           *)
ForwarderReturns_StillSubscribed ==
  /\ goroutine' = "ended"
  /\ hand' = 0
  /\ UNCHANGED nodeSub

ForwarderReturns ==
  /\ goroutine' = "ended"
  /\ hand' = 0
  /\ nodeSub' = "ended"

ForwarderTakes ==
  /\ Forwarding /\ hand = 0
  /\ logs # <<>>
  /\ logs' = Tail(logs)
  /\ \/ hand' = Head(logs) /\ UNCHANGED <<goroutine, nodeSub, fail>>
     \/ fail' = TRUE /\ ForwarderReturns
  /\ UNCHANGED <<request, chain, caller, sent, quit, done, exhausted, delivered>>

(* The caller's sink takes the event. *)
ForwarderDelivers ==
  /\ Forwarding /\ hand # 0
  /\ delivered' = Append(delivered, hand)
  /\ hand' = 0
  /\ UNCHANGED <<request, chain, caller, sent, logs, goroutine, quit, nodeSub, done, fail, exhausted>>

(* It quits, or passes on the error of the node's subscription. *)
ForwarderEnds_NotWhileDelivering ==
  /\ Forwarding /\ hand = 0
  /\ \/ quit /\ UNCHANGED fail
     \/ nodeSub = "failed" /\ fail' = TRUE
  /\ ForwarderReturns
  /\ UNCHANGED <<request, chain, caller, sent, logs, quit, done, exhausted, delivered>>

ForwarderEnds ==
  /\ Forwarding
  /\ \/ quit /\ UNCHANGED fail
     \/ nodeSub = "failed" /\ fail' = TRUE
  /\ ForwarderReturns
  /\ UNCHANGED <<request, chain, caller, sent, logs, quit, done, exhausted, delivered>>

-----------------------------------------------------------------------------
Opening ==
  /\ Idle
  /\ \E kind \in {"filter", "watch"}, e \in Events :
       \E wanted \in [Fields(e) -> Filters], c \in Chains(e) : Ask(kind, e, wanted, c)

NextReturns == NextAfterFailure \/ NextTakes \/ NextSeesEnd \/ NextFindsNone

BindingNext ==
  \/ Opening
  \/ CallNext \/ NextReturns
  \/ CallEnd \/ EndReturns
  \/ SenderSends \/ SenderEnds
  \/ NodeSends \/ NodeFails
  \/ ForwarderTakes \/ ForwarderDelivers \/ ForwarderEnds

-----------------------------------------------------------------------------
(* Properties. *)

BindingTypeOK ==
  /\ Idle \/ (request.kind \in {"filter", "watch"} /\ request.event \in Events)
  /\ caller \in {"free", "next", "ending"}
  /\ sent \in Nat
  /\ logs \in Seq(Nat \ {0}) /\ Len(logs) <= Buffer
  /\ goroutine \in {"none", "running", "ended"}
  /\ quit \in BOOLEAN
  /\ nodeSub \in {"none", "live", "failed", "ended"}
  /\ hand \in Nat
  /\ done \in BOOLEAN /\ fail \in BOOLEAN /\ exhausted \in BOOLEAN
  /\ delivered \in Seq(Nat \ {0})

(* The caller gets events it asked for only, each once, in the order of    *)
(* the chain, and none after one it was not given: the rules sit at the    *)
(* positions of their topics, whatever event it is, and a log is dropped   *)
(* only where the iterator or the watch ends.                              *)
DeliveredExact ==
  /\ \A i \in DOMAIN delivered : delivered[i] \in DOMAIN chain /\ Wanted(delivered[i])
  /\ \A i, j \in DOMAIN delivered : i < j => delivered[i] < delivered[j]
  /\ \A q \in DOMAIN chain, i \in DOMAIN delivered :
       Wanted(q) /\ q < delivered[i] => \E j \in DOMAIN delivered : delivered[j] = q

(* When Next returned false, there was no error and nobody called Close in *)
(* between, the caller has got every event it asked for: that the sender   *)
(* has ended does not hide the logs it left in the channel.                *)
FilterComplete ==
  exhausted /\ ~fail /\ ~quit =>
    \A q \in DOMAIN chain : Wanted(q) => \E j \in DOMAIN delivered : delivered[j] = q

(* How a stream of events ended for its caller: with Next returning false  *)
(* and nothing wrong, or by an error, a Close or an Unsubscribe.           *)
Over ==
  IF fail \/ (Watching /\ goroutine = "ended") \/ (exhausted /\ quit) THEN "early"
  ELSE IF exhausted THEN "complete"
  ELSE "no"

(* The binding as its caller sees it. *)
Stream == INSTANCE EventStream WITH over <- Over

(* Filters and watches give what was asked for, event after event, and     *)
(* nothing after an end: neither the channels and goroutines in between    *)
(* nor an error or a Close in the middle of a delivery can be noticed.     *)
StreamSpec == Stream!StreamSpec

(* A watch that has ended left nothing behind: no event in hand and no     *)
(* subscription, which would go on filling a channel nobody reads.  And    *)
(* who waits in Close or Unsubscribe waits for a goroutine that was told   *)
(* to quit or has ended: caller and goroutine never wait for each other.   *)
NothingLeft ==
  /\ Watching /\ goroutine = "ended" => nodeSub = "ended" /\ hand = 0
  /\ caller = "ending" => quit \/ goroutine = "ended"

(* Next, Close and Unsubscribe return, also when the sink is never read.   *)
BindingReturns == caller # "free" ~> caller = "free"

(* A watch that is told to quit, or whose subscription failed, ends, also  *)
(* in the middle of a delivery that nobody takes, and leaves the node no   *)
(* subscription to a channel nobody reads.                                 *)
WatchEnds ==
  nodeSub = "failed" \/ (Watching /\ quit) ~> goroutine = "ended" /\ nodeSub = "ended"

=============================================================================
