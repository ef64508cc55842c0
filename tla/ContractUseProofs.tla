------------------------- MODULE ContractUseProofs -------------------------
(* Queries, filters and watches of the contract, for any of its events,    *)
(* any logs, any rules, and any buffer.                                    *)
EXTENDS ContractUse, TLAPS, SequenceTheorems

-----------------------------------------------------------------------------
(* The rules of every event are in the order of its topics, so the node's  *)
(* positional check finds what the caller means.                           *)

LEMMA RulesFollowTopics == \A e \in ContractEventTypes : Topics(e.name) = e.indexed
  BY DEF ContractEventTypes, Topics, EventType,
     AdminsUpdated, BatchSubmissionsCompleted, DailyTaskCompletedEvent,
     DataMarketCreated, DayStartedEvent, DelayedAttestationSubmitted,
     DelayedBatchSubmitted, DelayedSnapshotSubmitted, EpochReleased,
     Initialized, OwnershipTransferred, ProjectTypeUpdated, ProjectsUpdated,
     SequencersUpdated, SnapshotBatchAttestationSubmitted,
     SnapshotBatchFinalized, SnapshotBatchSubmitted, SnapshotFinalized,
     TriggerBatchResubmission, Upgraded, ValidatorAttestationsInvalidated,
     ValidatorsUpdated

LEMMA FoundIsWanted ==
  ASSUME request.event \in Events
  PROVE  \A p : Found(p) <=> Wanted(p)
<1> DEFINE e == request.event
           w == request.wanted
<1>1. Topics(e.name) = e.indexed
  BY RulesFollowTopics, BindingAssumption
<1>2. \A i \in DOMAIN e.indexed : e.indexed[i] \in Fields(e)
  BY DEF Fields
<1>3. \A f \in Fields(e) : \E i \in DOMAIN e.indexed : e.indexed[i] = f
  BY DEF Fields
<1>4. /\ DOMAIN Rules(e, w) = DOMAIN e.indexed
      /\ \A i \in DOMAIN e.indexed : Rules(e, w)[i] = w[e.indexed[i]]
  BY DEF Rules
<1>5. ASSUME NEW p
      PROVE  Found(p) <=> Wanted(p)
  <2>1. Found(p) <=> /\ chain[p].name = e.name
                     /\ \A i \in DOMAIN e.indexed :
                          \/ w[e.indexed[i]] = {}
                          \/ chain[p].fields[Topics(chain[p].name)[i]] \in w[e.indexed[i]]
    BY <1>4 DEF Found
  <2>2. Wanted(p) <=> /\ chain[p].name = e.name
                      /\ \A f \in Fields(e) : w[f] = {} \/ chain[p].fields[f] \in w[f]
    BY DEF Wanted, Matches
  <2>3. CASE chain[p].name = e.name
    <3>1. Found(p) <=> \A i \in DOMAIN e.indexed :
                          \/ w[e.indexed[i]] = {}
                          \/ chain[p].fields[e.indexed[i]] \in w[e.indexed[i]]
      BY <1>1, <2>1, <2>3
    <3>2. Wanted(p) <=> \A f \in Fields(e) : w[f] = {} \/ chain[p].fields[f] \in w[f]
      BY <2>2, <2>3
    <3> QED
      BY <3>1, <3>2, <1>2, <1>3
  <2>4. CASE chain[p].name # e.name
    BY <2>1, <2>2, <2>4
  <2> QED
    BY <2>3, <2>4
<1> QED
  BY <1>5

-----------------------------------------------------------------------------
(* The inductive invariant. *)

(* No call begins after the cancellation but one: a query waits only if    *)
(* its last call failed before the cancellation.                           *)
QueryInv ==
  /\ QueryTypeOK
  /\ ~cancelled => begunAfter = 0
  /\ query = "waiting" => begunAfter = 0
  /\ begunAfter <= 1

(* Who is at what. *)
ControlInv ==
  /\ BindingTypeOK
  /\ Len(chain) \in Nat /\ DOMAIN chain = 1..Len(chain)
  /\ Idle => /\ chain = <<>> /\ logs = <<>> /\ delivered = <<>>
             /\ sent = 0 /\ caller = "free" /\ goroutine = "none"
             /\ ~quit /\ ~done /\ ~fail /\ ~exhausted
  /\ ~Idle => goroutine # "none"
  /\ caller = "next" => Filtering
  /\ ~Watching => hand = 0 /\ nodeSub = "none"
  /\ Watching /\ fail => goroutine = "ended"

(* What is delivered, in hand and in the channel lies in this order on the *)
(* chain, and is found.                                                    *)
LineInv ==
  /\ \A i \in DOMAIN delivered : delivered[i] \in 1..sent /\ Found(delivered[i])
  /\ \A i \in DOMAIN logs : logs[i] \in 1..sent /\ Found(logs[i])
  /\ hand # 0 => hand \in 1..sent /\ Found(hand)
  /\ \A i, j \in DOMAIN delivered : i < j => delivered[i] < delivered[j]
  /\ \A i, j \in DOMAIN logs : i < j => logs[i] < logs[j]
  /\ \A i \in DOMAIN delivered, j \in DOMAIN logs : delivered[i] < logs[j]
  /\ hand # 0 => /\ \A i \in DOMAIN delivered : delivered[i] < hand
                 /\ \A j \in DOMAIN logs : hand < logs[j]
  /\ sent <= Len(chain)

Stopped == IF Watching THEN goroutine = "ended" ELSE fail

Given(q) == \E i \in DOMAIN delivered : delivered[i] = q

InChannel(q) == \E i \in DOMAIN logs : logs[i] = q

(* A found log that was sent is delivered or still to come, unless nothing *)
(* is delivered any more.                                                  *)
CoverInv ==
  \A q \in 1..sent : Found(q) =>
    \/ Given(q)
    \/ InChannel(q)
    \/ hand = q
    \/ Stopped /\ \A i \in DOMAIN delivered : delivered[i] < q

(* A sender that was left alone ended after the last log found, and Next   *)
(* says that there are no more when the channel is empty.                  *)
EndInv ==
  /\ Filtering /\ goroutine = "ended" /\ ~quit =>
       \A p \in sent + 1..Len(chain) : ~Found(p)
  /\ done => goroutine = "ended"
  /\ exhausted /\ ~fail => Filtering /\ goroutine = "ended" /\ logs = <<>>

BindingInv == ControlInv /\ LineInv /\ CoverInv /\ EndInv

IInv == QueryInv /\ BindingInv

-----------------------------------------------------------------------------
(* Initial states. *)

LEMMA InitInv == Init => IInv
<1> SUFFICES ASSUME Init
             PROVE  IInv
  OBVIOUS
<1>1. QueryInv
  <2>1. begunAfter = 0 /\ ~cancelled /\ cancelled \in BOOLEAN /\ timeUp \in BOOLEAN
    BY DEF Init, QueryInit
  <2>2. query = "idle" /\ result = "none"
    BY DEF Init, QueryInit
  <2>3. QueryTypeOK
    BY <2>1, <2>2 DEF QueryTypeOK
  <2> QED
    BY <2>1, <2>2, <2>3 DEF QueryInv
<1>2. BindingTypeOK
  <2>1. Idle /\ caller = "free" /\ goroutine = "none" /\ nodeSub = "none"
    BY DEF Init, BindingInit, Idle
  <2>2. sent = 0 /\ hand = 0 /\ logs = <<>> /\ delivered = <<>>
    BY DEF Init, BindingInit
  <2>3. ~quit /\ ~done /\ ~fail /\ ~exhausted
    BY DEF Init, BindingInit
  <2>4. quit \in BOOLEAN /\ done \in BOOLEAN /\ fail \in BOOLEAN /\ exhausted \in BOOLEAN
    BY DEF Init, BindingInit
  <2>5. Len(logs) <= Buffer
    BY <2>2, BindingAssumption
  <2> QED
    BY <2>1, <2>2, <2>4, <2>5 DEF BindingTypeOK
<1>3. ControlInv
  BY <1>2 DEF Init, BindingInit, ControlInv, Idle, Filtering, Watching, NoRequest
<1>4. LineInv /\ CoverInv
  BY DEF Init, BindingInit, LineInv, CoverInv
<1>5. EndInv
  BY DEF Init, BindingInit, EndInv, Filtering, NoRequest
<1> QED
  BY <1>1, <1>3, <1>4, <1>5 DEF IInv, BindingInv

-----------------------------------------------------------------------------
(* Queries. *)

LEMMA QueryStep == QueryInv /\ [QueryNext]_queryVars => QueryInv'
<1> SUFFICES ASSUME QueryInv, [QueryNext]_queryVars
             PROVE  QueryInv'
  OBVIOUS
<1> USE DEF QueryInv, QueryTypeOK
<1>1. CASE MustQuery
  <2>1. query' = "calling" /\ result' = "none"
    BY <1>1 DEF MustQuery
  <2>2. cancelled' \in BOOLEAN /\ timeUp' \in BOOLEAN
    BY <1>1 DEF MustQuery
  <2>3. begunAfter' \in {0, 1} /\ (~cancelled' => begunAfter' = 0)
    BY <1>1 DEF MustQuery
  <2>4. QueryTypeOK'
    BY <2>1, <2>2, <2>3 DEF QueryTypeOK
  <2> QED
    BY <2>1, <2>3, <2>4 DEF QueryInv
<1>2. CASE CallEnds
  BY <1>2 DEF CallEnds, CallSucceeds, CallFails, QueryReturns
<1>3. CASE TimerFires
  BY <1>3 DEF TimerFires
<1>4. CASE ContextDone
  BY <1>4 DEF ContextDone, QueryReturns
<1>5. CASE Cancel
  BY <1>5 DEF Cancel
<1>6. CASE MinutePasses
  BY <1>6 DEF MinutePasses
<1>7. CASE UNCHANGED queryVars
  BY <1>7 DEF queryVars
<1> QED
  BY <1>1, <1>2, <1>3, <1>4, <1>5, <1>6, <1>7 DEF QueryNext

-----------------------------------------------------------------------------
(* The control of a filter or a watch. *)

LEMMA OpeningControl == ControlInv /\ Opening => ControlInv'
<1> SUFFICES ASSUME ControlInv, Idle,
                    NEW kind \in {"filter", "watch"}, NEW e \in Events,
                    NEW wanted \in [Fields(e) -> Filters], NEW c \in Chains(e),
                    Ask(kind, e, wanted, c)
             PROVE  ControlInv'
  BY DEF Opening
<1>1. Len(chain') \in Nat /\ DOMAIN chain' = 1..Len(chain')
  <2>1. PICK n \in 0..MaxLogs : c \in [1..n -> LogsFor(e)]
    BY DEF Chains
  <2>2. n \in Nat
    BY BindingAssumption
  <2>3. c \in Seq(LogsFor(e))
    BY <2>1, <2>2, SeqDef
  <2> QED
    BY <2>3 DEF Ask
<1>2. ~Idle' /\ request'.kind = kind /\ request'.event = e
  BY DEF Ask, Idle, NoRequest
<1>3. BindingTypeOK'
  BY <1>2 DEF ControlInv, BindingTypeOK, Ask
<1>4. ~Watching
  BY DEF Idle, Watching, NoRequest
<1>5. Watching' <=> kind = "watch"
  BY <1>2 DEF Watching
<1>6. /\ goroutine' = "running" /\ caller' = "free" /\ ~fail' /\ hand' = 0
      /\ kind # "watch" => nodeSub' = "none"
  BY <1>4 DEF ControlInv, Ask
<1> QED
  BY <1>1, <1>2, <1>3, <1>5, <1>6 DEF ControlInv

LEMMA StepControl == ControlInv /\ BindingNext => ControlInv'
<1> SUFFICES ASSUME ControlInv, BindingNext
             PROVE  ControlInv'
  OBVIOUS
<1> USE DEF ControlInv, BindingTypeOK, Idle, Filtering, Watching, NoRequest
<1>1. CASE Opening
  BY <1>1, OpeningControl
<1>2. CASE CallNext
  BY <1>2 DEF CallNext
<1>3. CASE NextAfterFailure
  BY <1>3 DEF NextAfterFailure, NoMore
<1>4. CASE NextTakes
  <2>1. logs' \in Seq(Nat \ {0}) /\ Len(logs') <= Len(logs) /\ Head(logs) \in Nat \ {0}
    BY <1>4 DEF NextTakes
  <2>2. CASE /\ caller' = "free" /\ delivered' = Append(delivered, Head(logs))
             /\ UNCHANGED <<fail, exhausted>>
    <3>1. delivered' \in Seq(Nat \ {0})
      BY <2>1, <2>2
    <3> QED
      BY <1>4, <2>1, <2>2, <3>1, BindingAssumption DEF NextTakes
  <2>3. CASE fail' = TRUE /\ NoMore /\ UNCHANGED delivered
    BY <1>4, <2>1, <2>3, BindingAssumption DEF NextTakes, NoMore
  <2> QED
    BY <1>4, <2>2, <2>3 DEF NextTakes
<1>5. CASE NextSeesEnd
  BY <1>5 DEF NextSeesEnd
<1>6. CASE NextFindsNone
  BY <1>6 DEF NextFindsNone, NoMore
<1>7. CASE CallEnd
  BY <1>7 DEF CallEnd
<1>8. CASE EndReturns
  BY <1>8 DEF EndReturns
<1>9. CASE SenderSends \/ NodeSends
  <2>1. SendNext
    BY <1>9 DEF SenderSends, NodeSends
  <2>2. PICK p \in sent + 1..Len(chain) : sent' = p /\ logs' = Append(logs, p)
    BY <2>1 DEF SendNext
  <2>3. p \in Nat \ {0}
    OBVIOUS
  <2>4. logs' \in Seq(Nat \ {0}) /\ Len(logs') = Len(logs) + 1
    BY <2>2, <2>3
  <2>5. ~Idle
    BY <1>9 DEF SenderSends, NodeSends
  <2> QED
    BY <2>1, <2>2, <2>3, <2>4, <2>5, BindingAssumption DEF SendNext
<1>10. CASE SenderEnds
  BY <1>10 DEF SenderEnds
<1>11. CASE NodeFails
  BY <1>11 DEF NodeFails
<1>12. CASE ForwarderTakes
  <2>1. logs' \in Seq(Nat \ {0}) /\ Len(logs') <= Len(logs) /\ Head(logs) \in Nat \ {0}
    BY <1>12 DEF ForwarderTakes
  <2>2. CASE hand' = Head(logs) /\ UNCHANGED <<goroutine, nodeSub, fail>>
    BY <1>12, <2>1, <2>2, BindingAssumption DEF ForwarderTakes, Forwarding
  <2>3. CASE fail' = TRUE /\ ForwarderReturns
    BY <1>12, <2>1, <2>3, BindingAssumption DEF ForwarderTakes, ForwarderReturns, Forwarding
  <2> QED
    BY <1>12, <2>2, <2>3 DEF ForwarderTakes
<1>13. CASE ForwarderDelivers
  <2>1. delivered' \in Seq(Nat \ {0})
    BY <1>13 DEF ForwarderDelivers
  <2> QED
    BY <1>13, <2>1 DEF ForwarderDelivers, Forwarding
<1>14. CASE ForwarderEnds
  BY <1>14 DEF ForwarderEnds, ForwarderReturns, Forwarding
<1> QED
  BY <1>1, <1>2, <1>3, <1>4, <1>5, <1>6, <1>7, <1>8, <1>9, <1>10, <1>11, <1>12, <1>13, <1>14
  DEF BindingNext, NextReturns

-----------------------------------------------------------------------------
(* The line from the chain to the caller. *)

lineVars == <<request, chain, sent, logs, hand, delivered>>

LEMMA FoundStable ==
  ASSUME UNCHANGED <<request, chain>>
  PROVE  \A p : Found(p)' <=> Found(p)
  BY DEF Found

LEMMA LineStable ==
  ASSUME LineInv, UNCHANGED <<request, chain, sent>>, UNCHANGED <<logs, delivered>>,
         hand' = hand \/ hand' = 0
  PROVE  LineInv'
<1>1. \A p : Found(p)' <=> Found(p)
  BY FoundStable
<1> QED
  BY <1>1 DEF LineInv

(* Steps that move nothing but may drop the log in hand. *)
LEMMA QuietSteps ==
  ASSUME ControlInv, BindingNext
  PROVE  \/ Opening \/ NextTakes \/ SenderSends \/ NodeSends
         \/ ForwarderTakes \/ ForwarderDelivers
         \/ ForwarderEnds
         \/ UNCHANGED lineVars /\ (Stopped => Stopped')
<1>1. CASE CallNext
  BY <1>1 DEF CallNext, lineVars, Stopped, Watching
<1>2. CASE NextAfterFailure
  BY <1>2 DEF NextAfterFailure, lineVars, Stopped, Watching
<1>3. CASE NextSeesEnd
  BY <1>3 DEF NextSeesEnd, lineVars, Stopped, Watching
<1>4. CASE NextFindsNone
  BY <1>4 DEF NextFindsNone, lineVars, Stopped, Watching
<1>5. CASE CallEnd
  BY <1>5 DEF CallEnd, lineVars, Stopped, Watching
<1>6. CASE EndReturns
  BY <1>6 DEF EndReturns, lineVars, Stopped, Watching
<1>7. CASE SenderEnds
  BY <1>7 DEF SenderEnds, lineVars, Stopped, Watching
<1>8. CASE NodeFails
  BY <1>8 DEF NodeFails, lineVars, Stopped, Watching
<1> QED
  BY <1>1, <1>2, <1>3, <1>4, <1>5, <1>6, <1>7, <1>8 DEF BindingNext, NextReturns

LEMMA TailFacts ==
  ASSUME NEW S, NEW s \in Seq(S), s # <<>>
  PROVE  /\ Tail(s) \in Seq(S) /\ Head(s) = s[1] /\ 1 \in DOMAIN s
         /\ \A i \in DOMAIN Tail(s) :
              i \in Nat /\ i + 1 \in DOMAIN s /\ Tail(s)[i] = s[i + 1] /\ 1 < i + 1
         /\ \A i \in DOMAIN s : i = 1 \/ (i - 1 \in DOMAIN Tail(s) /\ Tail(s)[i - 1] = s[i])
  OBVIOUS

(* t is s with e at its end. *)
Appended(s, e, t) ==
  /\ \A i \in DOMAIN t : \/ i \in DOMAIN s /\ t[i] = s[i]
                         \/ i = Len(s) + 1 /\ t[i] = e
  /\ \A i \in DOMAIN s : i \in DOMAIN t /\ t[i] = s[i]
  /\ Len(s) + 1 \in DOMAIN t /\ t[Len(s) + 1] = e
  /\ \A i \in DOMAIN s : i \in Nat /\ i < Len(s) + 1

LEMMA AppendFacts ==
  ASSUME NEW s \in Seq(Nat \ {0}), NEW e \in Nat \ {0}
  PROVE  Appended(s, e, Append(s, e))
  BY DEF Appended

LEMMA OpeningLine == ControlInv /\ ControlInv' /\ Opening => LineInv' /\ CoverInv'
<1> SUFFICES ASSUME ControlInv, ControlInv', Idle, Opening
             PROVE  LineInv' /\ CoverInv'
  BY DEF Opening
<1>1. sent' = 0 /\ logs' = <<>> /\ delivered' = <<>> /\ hand' = 0
  BY DEF ControlInv, Opening, Ask, Idle, Watching, NoRequest
<1>2. Len(chain') \in Nat
  BY DEF ControlInv
<1>3. LineInv'
  BY <1>1, <1>2 DEF LineInv
<1>4. CoverInv'
  BY <1>1 DEF CoverInv
<1> QED
  BY <1>3, <1>4

(* The head of the channel is given to the caller, goes into the hand, or  *)
(* is lost as everything stops.                                            *)
LEMMA TakesLine ==
  ASSUME ControlInv, LineInv, CoverInv,
         UNCHANGED <<request, chain, sent>>, logs # <<>>, hand = 0, logs' = Tail(logs),
         \/ /\ delivered' = Append(delivered, Head(logs)) /\ hand' = 0
            /\ ~Stopped
         \/ UNCHANGED delivered /\ hand' = Head(logs) /\ ~Stopped
         \/ UNCHANGED delivered /\ hand' = 0 /\ Stopped'
  PROVE  LineInv' /\ CoverInv'
<1> DEFINE h == Head(logs)
<1>1. logs \in Seq(Nat \ {0}) /\ delivered \in Seq(Nat \ {0}) /\ sent \in Nat
  BY DEF ControlInv, BindingTypeOK
<1>2. /\ h = logs[1] /\ 1 \in DOMAIN logs
      /\ \A i \in DOMAIN logs' :
           i \in Nat /\ i + 1 \in DOMAIN logs /\ logs'[i] = logs[i + 1] /\ 1 < i + 1
      /\ \A i \in DOMAIN logs : i = 1 \/ (i - 1 \in DOMAIN logs' /\ logs'[i - 1] = logs[i])
  BY <1>1, TailFacts
<1>3. \A p : Found(p)' <=> Found(p)
  BY FoundStable
<1>4. h \in Nat \ {0} /\ h \in 1..sent /\ Found(h)
  BY <1>1, <1>2 DEF LineInv
<1>5. \A j \in DOMAIN logs' : h < logs'[j] /\ logs'[j] \in 1..sent /\ Found(logs'[j])
  BY <1>2 DEF LineInv
<1>6. \A i, j \in DOMAIN logs' : i < j => logs'[i] < logs'[j]
  <2> TAKE i, j \in DOMAIN logs'
  <2> HAVE i < j
  <2>1. i + 1 < j + 1
    BY <1>2
  <2> QED
    BY <1>2, <2>1 DEF LineInv
<1>7. \A i \in DOMAIN delivered : delivered[i] < h /\ delivered[i] \in 1..sent /\ Found(delivered[i])
  BY <1>2 DEF LineInv
<1>8. \A q : InChannel(q) => q = h \/ InChannel(q)'
  BY <1>2 DEF InChannel
<1>9. \A i \in DOMAIN delivered : i \in Nat /\ \A j \in DOMAIN logs' : delivered[i] < logs'[j]
  BY <1>1, <1>2 DEF LineInv
<1> HIDE DEF h
<1>10. CASE delivered' = Append(delivered, h) /\ hand' = 0 /\ ~Stopped
  <2>1. Appended(delivered, h, delivered')
    <3>1. h \in Nat \ {0}
      BY <1>4
    <3> QED
      BY <1>1, <1>10, <3>1, AppendFacts
  <2>2. \A i \in DOMAIN delivered' : delivered'[i] \in 1..sent /\ Found(delivered'[i])
    BY <1>4, <1>7, <2>1 DEF Appended
  <2>3. \A i, j \in DOMAIN delivered' : i < j => delivered'[i] < delivered'[j]
    <3> TAKE i, j \in DOMAIN delivered'
    <3> HAVE i < j
    <3>0. Len(delivered) \in Nat
      BY <1>1
    <3>1. i \in DOMAIN delivered
      BY <2>1, <3>0 DEF Appended
    <3> QED
      BY <1>7, <2>1, <3>1 DEF LineInv, Appended
  <2>4. \A i \in DOMAIN delivered', j \in DOMAIN logs' : delivered'[i] < logs'[j]
    BY <1>5, <1>9, <2>1 DEF Appended
  <2>5. LineInv'
    BY <1>3, <1>5, <1>6, <1>10, <2>2, <2>3, <2>4 DEF LineInv
  <2>6. \A q : Given(q) \/ q = h => Given(q)'
    BY <2>1 DEF Given, Appended
  <2>7. CoverInv'
    BY <1>3, <1>4, <1>8, <1>10, <2>6 DEF CoverInv
  <2> QED
    BY <2>5, <2>7
<1>11. CASE UNCHANGED delivered /\ hand' = h /\ ~Stopped
  <2>1. LineInv'
    BY <1>3, <1>4, <1>5, <1>6, <1>7, <1>9, <1>11 DEF LineInv
  <2>2. \A q : Given(q) => Given(q)'
    BY <1>11 DEF Given
  <2>3. CoverInv'
    BY <1>3, <1>4, <1>8, <1>11, <2>2 DEF CoverInv
  <2> QED
    BY <2>1, <2>3
<1>12. CASE UNCHANGED delivered /\ hand' = 0 /\ Stopped'
  <2>1. LineInv'
    BY <1>3, <1>5, <1>6, <1>7, <1>9, <1>12 DEF LineInv
  <2>2. \A q : Given(q) => Given(q)'
    BY <1>12 DEF Given
  <2>3. CoverInv'
    <3> SUFFICES ASSUME NEW q \in 1..sent', Found(q)'
                 PROVE  \/ Given(q)' \/ InChannel(q)' \/ hand' = q
                        \/ Stopped' /\ \A i \in DOMAIN delivered' : delivered'[i] < q
      BY DEF CoverInv
    <3>1. Given(q) \/ InChannel(q) \/ \A i \in DOMAIN delivered : delivered[i] < q
      BY <1>3 DEF CoverInv
    <3> QED
      BY <1>7, <1>8, <1>12, <2>2, <3>1
  <2> QED
    BY <2>1, <2>3
<1> QED
  BY <1>10, <1>11, <1>12 DEF h

(* A log found beyond all others goes into the channel, and none between.  *)
LEMMA SendsLine ==
  ASSUME ControlInv, LineInv, CoverInv, SendNext
  PROVE  LineInv' /\ CoverInv'
<1>1. PICK p \in sent + 1..Len(chain) :
        /\ Found(p)
        /\ \A q \in sent + 1..p - 1 : ~Found(q)
        /\ sent' = p
        /\ logs' = Append(logs, p)
  BY DEF SendNext
<1>2. logs \in Seq(Nat \ {0}) /\ sent \in Nat /\ Len(chain) \in Nat /\ Len(logs) \in Nat
  BY DEF ControlInv, BindingTypeOK
<1>3. p \in Nat \ {0} /\ sent < p /\ p <= Len(chain)
  BY <1>2
<1>4. UNCHANGED <<request, chain, hand, delivered>> /\ UNCHANGED <<goroutine, fail>>
  BY DEF SendNext
<1>5. \A r : Found(r)' <=> Found(r)
  BY <1>4, FoundStable
<1>6. Appended(logs, p, logs')
  BY <1>1, <1>2, <1>3, AppendFacts
<1>7. \A r \in 1..sent : r \in 1..sent' /\ r < p
  BY <1>1, <1>2, <1>3
<1>8. p \in 1..sent'
  BY <1>1, <1>3
<1>9. LineInv'
  <2>1. \A i \in DOMAIN logs' : logs'[i] \in 1..sent' /\ Found(logs'[i])
    BY <1>1, <1>6, <1>7, <1>8 DEF LineInv, Appended
  <2>2. \A i, j \in DOMAIN logs' : i < j => logs'[i] < logs'[j]
    <3> TAKE i, j \in DOMAIN logs'
    <3> HAVE i < j
    <3>1. i \in DOMAIN logs
      BY <1>2, <1>6 DEF Appended
    <3> QED
      BY <1>6, <1>7, <3>1 DEF LineInv, Appended
  <2>3. \A i \in DOMAIN delivered, j \in DOMAIN logs' : delivered[i] < logs'[j]
    BY <1>6, <1>7 DEF LineInv, Appended
  <2>4. hand # 0 => \A j \in DOMAIN logs' : hand < logs'[j]
    BY <1>6, <1>7 DEF LineInv, Appended
  <2>5. /\ \A i \in DOMAIN delivered : delivered[i] \in 1..sent' /\ Found(delivered[i])
        /\ hand # 0 => hand \in 1..sent' /\ Found(hand)
    BY <1>7 DEF LineInv
  <2>6. sent' <= Len(chain)
    BY <1>1, <1>3
  <2> QED
    BY <1>4, <1>5, <2>1, <2>2, <2>3, <2>4, <2>5, <2>6 DEF LineInv
<1>10. CoverInv'
  <2> SUFFICES ASSUME NEW q \in 1..sent', Found(q)
               PROVE  \/ Given(q)' \/ InChannel(q)' \/ hand' = q
                      \/ Stopped' /\ \A i \in DOMAIN delivered' : delivered'[i] < q
    BY <1>5 DEF CoverInv
  <2>1. q = p \/ q \in 1..sent
    <3>1. q \in sent + 1..p - 1 \/ q = p \/ q \in 1..sent
      BY <1>1, <1>2, <1>3
    <3> QED
      BY <1>1, <3>1
  <2>2. CASE q = p
    BY <1>6, <2>2 DEF InChannel, Appended
  <2>3. CASE q \in 1..sent
    <3>1. InChannel(q) => InChannel(q)'
      BY <1>6 DEF InChannel, Appended
    <3>2. (Given(q) => Given(q)') /\ (Stopped => Stopped')
      BY <1>4 DEF Given, Stopped, Watching
    <3> QED
      BY <1>4, <2>3, <3>1, <3>2 DEF CoverInv
  <2> QED
    BY <2>1, <2>2, <2>3
<1> QED
  BY <1>9, <1>10

(* The log in hand is given to the caller. *)
LEMMA DeliversLine ==
  ASSUME ControlInv, LineInv, CoverInv, ForwarderDelivers
  PROVE  LineInv' /\ CoverInv'
<1>1. delivered \in Seq(Nat \ {0}) /\ sent \in Nat /\ hand \in Nat /\ Len(delivered) \in Nat
  BY DEF ControlInv, BindingTypeOK
<1>2. /\ hand # 0 /\ hand' = 0 /\ delivered' = Append(delivered, hand)
      /\ UNCHANGED <<request, chain, sent>> /\ UNCHANGED <<logs, goroutine>>
      /\ ~Stopped
  BY DEF ForwarderDelivers, Forwarding, Stopped
<1>3. \A r : Found(r)' <=> Found(r)
  BY <1>2, FoundStable
<1>4. Appended(delivered, hand, delivered')
  <2>1. hand \in Nat \ {0}
    BY <1>1, <1>2
  <2> QED
    BY <1>1, <1>2, <2>1, AppendFacts
<1>5. LineInv'
  <2>1. \A i \in DOMAIN delivered' : delivered'[i] \in 1..sent /\ Found(delivered'[i])
    BY <1>2, <1>4 DEF LineInv, Appended
  <2>2. \A i, j \in DOMAIN delivered' : i < j => delivered'[i] < delivered'[j]
    <3> TAKE i, j \in DOMAIN delivered'
    <3> HAVE i < j
    <3>1. i \in DOMAIN delivered
      BY <1>1, <1>4 DEF Appended
    <3> QED
      BY <1>2, <1>4, <3>1 DEF LineInv, Appended
  <2>3. \A i \in DOMAIN delivered', j \in DOMAIN logs : delivered'[i] < logs[j]
    BY <1>2, <1>4 DEF LineInv, Appended
  <2> QED
    BY <1>2, <1>3, <2>1, <2>2, <2>3 DEF LineInv
<1>6. \A q : (Given(q) \/ q = hand => Given(q)') /\ (InChannel(q) => InChannel(q)')
  BY <1>2, <1>4 DEF Given, InChannel, Appended
<1>7. CoverInv'
  BY <1>2, <1>3, <1>6 DEF CoverInv
<1> QED
  BY <1>5, <1>7

LEMMA StepLine ==
  ASSUME ControlInv, ControlInv', LineInv, CoverInv, BindingNext
  PROVE  LineInv' /\ CoverInv'
<1>1. CASE Opening
  BY <1>1, OpeningLine
<1>2. CASE NextTakes
  <2>1. Filtering /\ ~Watching /\ hand = 0 /\ ~fail /\ logs # <<>> /\ logs' = Tail(logs)
    BY <1>2 DEF NextTakes, ControlInv, Filtering, Watching
  <2>2. UNCHANGED <<request, chain, sent>> /\ hand' = 0
    BY <1>2, <2>1 DEF NextTakes
  <2>3. \/ delivered' = Append(delivered, Head(logs))
        \/ UNCHANGED delivered /\ fail'
    BY <1>2 DEF NextTakes
  <2>4. ~Stopped /\ (fail' => Stopped')
    BY <2>1, <2>2 DEF Stopped, Watching
  <2> QED
    BY <2>1, <2>2, <2>3, <2>4, TakesLine
<1>3. CASE ForwarderTakes
  <2>1. Watching /\ hand = 0 /\ logs # <<>> /\ logs' = Tail(logs) /\ ~Stopped
    BY <1>3 DEF ForwarderTakes, Forwarding, Stopped
  <2>2. UNCHANGED <<request, chain, sent>> /\ UNCHANGED delivered
    BY <1>3 DEF ForwarderTakes
  <2>3. \/ hand' = Head(logs)
        \/ hand' = 0 /\ Stopped'
    BY <1>3, <2>1, <2>2 DEF ForwarderTakes, ForwarderReturns, Stopped, Watching
  <2> QED
    BY <2>1, <2>2, <2>3, TakesLine
<1>4. CASE SenderSends \/ NodeSends
  BY <1>4, SendsLine DEF SenderSends, NodeSends
<1>5. CASE ForwarderDelivers
  BY <1>5, DeliversLine
<1>6. CASE ForwarderEnds
  <2>1. /\ UNCHANGED <<request, chain, sent>> /\ UNCHANGED <<logs, delivered>> /\ hand' = 0
        /\ Stopped'
    BY <1>6 DEF ForwarderEnds, ForwarderReturns, Forwarding, Stopped, Watching
  <2>2. \A q : (Found(q)' <=> Found(q)) /\ (Given(q) => Given(q)') /\ (InChannel(q) => InChannel(q)')
    BY <2>1, FoundStable DEF Given, InChannel
  <2>3. CoverInv'
    <3> SUFFICES ASSUME NEW q \in 1..sent, Found(q)
                 PROVE  Given(q)' \/ InChannel(q)' \/ \A i \in DOMAIN delivered : delivered[i] < q
      BY <2>1, <2>2 DEF CoverInv
    <3>1. q # 0
      OBVIOUS
    <3>2. hand = q => \A i \in DOMAIN delivered : delivered[i] < q
      BY <3>1 DEF LineInv
    <3> QED
      BY <2>2, <3>2 DEF CoverInv
  <2> QED
    BY <2>1, <2>3, LineStable
<1>7. CASE UNCHANGED lineVars /\ (Stopped => Stopped')
  <2>1. UNCHANGED <<request, chain, sent>> /\ UNCHANGED <<logs, delivered>> /\ hand' = hand
    BY <1>7 DEF lineVars
  <2>2. \A q : (Found(q)' <=> Found(q)) /\ (Given(q) => Given(q)') /\ (InChannel(q) => InChannel(q)')
    BY <2>1, FoundStable DEF Given, InChannel
  <2>3. CoverInv'
    BY <1>7, <2>1, <2>2 DEF CoverInv
  <2> QED
    BY <2>1, <2>3, LineStable
<1> QED
  BY <1>1, <1>2, <1>3, <1>4, <1>5, <1>6, <1>7, QuietSteps

-----------------------------------------------------------------------------
(* The ends. *)

LEMMA StepEnd ==
  ASSUME ControlInv, LineInv, EndInv, BindingNext
  PROVE  EndInv'
<1>1. CASE Opening
  BY <1>1 DEF Opening, Ask, ControlInv, EndInv
<1>2. CASE SenderSends \/ NodeSends
  <2>1. goroutine = "running" \/ Watching
    BY <1>2 DEF SenderSends, NodeSends, ControlInv
  <2>2. ~Filtering \/ goroutine # "ended"
    BY <2>1 DEF Filtering, Watching
  <2>3. UNCHANGED <<request, goroutine, done, fail, exhausted>>
    BY <1>2 DEF SenderSends, NodeSends, SendNext
  <2> QED
    BY <2>2, <2>3 DEF EndInv, Filtering
<1>3. CASE SenderEnds
  <2>1. /\ ~done /\ ~(exhausted /\ ~fail)
        /\ UNCHANGED <<request, chain, sent, quit>> /\ UNCHANGED <<done, fail, exhausted>>
        /\ ~quit => \A p \in sent + 1..Len(chain) : ~Found(p)
    BY <1>3 DEF SenderEnds, EndInv
  <2>2. \A p : Found(p)' <=> Found(p)
    BY <2>1, FoundStable
  <2> QED
    BY <2>1, <2>2 DEF EndInv
<1>4. CASE CallNext \/ NextReturns \/ CallEnd \/ EndReturns \/ NodeFails
  <2>1. UNCHANGED <<request, chain, sent, goroutine>>
    BY <1>4 DEF CallNext, NextReturns, NextAfterFailure, NextTakes, NextSeesEnd, NextFindsNone,
                CallEnd, EndReturns, NodeFails
  <2>2. \A p : Found(p)' <=> Found(p)
    BY <2>1, FoundStable
  <2>3. goroutine = "ended" /\ ~quit' => ~quit
    BY <1>4 DEF CallNext, NextReturns, NextAfterFailure, NextTakes, NextSeesEnd, NextFindsNone,
                CallEnd, EndReturns, NodeFails
  <2>4. (Filtering /\ goroutine = "ended" /\ ~quit => \A p \in sent + 1..Len(chain) : ~Found(p))'
    BY <2>1, <2>2, <2>3 DEF EndInv, Filtering
  <2>5. (done => goroutine = "ended")'
    BY <1>4, <2>1 DEF CallNext, NextReturns, NextAfterFailure, NextTakes, NextSeesEnd,
                      NextFindsNone, CallEnd, EndReturns, NodeFails, EndInv
  <2>6. (exhausted /\ ~fail => Filtering /\ goroutine = "ended" /\ logs = <<>>)'
    <3>1. CASE CallNext \/ CallEnd \/ EndReturns \/ NodeFails \/ NextSeesEnd
      BY <2>1, <3>1 DEF CallNext, CallEnd, EndReturns, NodeFails, NextSeesEnd, EndInv, Filtering
    <3>2. CASE NextAfterFailure
      BY <3>2 DEF NextAfterFailure
    <3>3. CASE NextTakes
      BY <3>3 DEF NextTakes, EndInv
    <3>4. CASE NextFindsNone
      BY <2>1, <3>4 DEF NextFindsNone, EndInv, ControlInv, Filtering
    <3> QED
      BY <1>4, <3>1, <3>2, <3>3, <3>4 DEF NextReturns
  <2> QED
    BY <2>4, <2>5, <2>6 DEF EndInv
<1>5. CASE ForwarderTakes \/ ForwarderDelivers \/ ForwarderEnds
  <2>1. Watching /\ goroutine = "running" /\ UNCHANGED <<request, done, exhausted>>
    BY <1>5 DEF ForwarderTakes, ForwarderDelivers, ForwarderEnds, Forwarding
  <2>2. ~Filtering /\ ~Filtering' /\ ~done /\ ~(exhausted /\ ~fail)
    BY <2>1 DEF Filtering, Watching, EndInv
  <2>3. fail => fail'
    BY <1>5 DEF ForwarderTakes, ForwarderDelivers, ForwarderEnds
  <2> QED
    BY <2>1, <2>2, <2>3 DEF EndInv
<1> QED
  BY <1>1, <1>2, <1>3, <1>4, <1>5 DEF BindingNext

-----------------------------------------------------------------------------
(* The theorems. *)

LEMMA BindingStutters ==
  ASSUME BindingInv, UNCHANGED bindingVars
  PROVE  BindingInv'
<1>1. UNCHANGED <<request, chain, sent>> /\ UNCHANGED <<logs, delivered>> /\ hand' = hand
  BY DEF bindingVars
<1>2. \A p : Found(p)' <=> Found(p)
  BY <1>1, FoundStable
<1>3. LineInv'
  BY <1>1, LineStable DEF BindingInv
<1>4. ControlInv'
  BY DEF BindingInv, ControlInv, BindingTypeOK, Idle, Filtering, Watching, bindingVars
<1>5. CoverInv'
  BY <1>1, <1>2 DEF BindingInv, CoverInv, Given, InChannel, Stopped, Watching, bindingVars
<1>6. EndInv'
  BY <1>1, <1>2 DEF BindingInv, EndInv, Filtering, bindingVars
<1> QED
  BY <1>3, <1>4, <1>5, <1>6 DEF BindingInv

THEOREM Invariance == Spec => []IInv
<1>1. IInv /\ [Next]_vars => IInv'
  <2> SUFFICES ASSUME IInv, [Next]_vars
               PROVE  IInv'
    OBVIOUS
  <2>1. CASE Querying
    BY <2>1, QueryStep, BindingStutters DEF Querying, IInv
  <2>2. CASE Binding(BindingNext)
    <3>1. BindingNext /\ UNCHANGED queryVars
      BY <2>2 DEF Binding
    <3>2. ControlInv'
      BY <3>1, StepControl DEF IInv, BindingInv
    <3>3. LineInv' /\ CoverInv'
      BY <3>1, <3>2, StepLine DEF IInv, BindingInv
    <3>4. EndInv'
      BY <3>1, StepEnd DEF IInv, BindingInv
    <3>5. QueryInv'
      BY <3>1, QueryStep DEF IInv
    <3> QED
      BY <3>2, <3>3, <3>4, <3>5 DEF IInv, BindingInv
  <2>3. CASE UNCHANGED vars
    BY <2>3, QueryStep, BindingStutters DEF vars, IInv
  <2> QED
    BY <2>1, <2>2, <2>3 DEF Next
<1> QED
  BY <1>1, InitInv, PTL DEF Spec

(* Every variable has its type, and the channel of logs is never above its *)
(* capacity.                                                               *)
THEOREM TypeCorrect == Spec => []TypeOK
<1>1. IInv => TypeOK
  BY DEF IInv, QueryInv, BindingInv, ControlInv, TypeOK
<1> QED
  BY <1>1, Invariance, PTL

(* Who cancels a query sees at most one more call begin.                   *)
THEOREM CancelledSoon == Spec => []OneCallAfterCancel
<1>1. IInv => OneCallAfterCancel
  BY DEF IInv, QueryInv, OneCallAfterCancel
<1> QED
  BY <1>1, Invariance, PTL

(* For every event of the contract and any rules, a caller gets exactly    *)
(* what it asked for, in the order of the chain and without gaps.          *)
THEOREM DeliveriesAreExact == Spec => []DeliveredExact
<1>1. ASSUME IInv
      PROVE  DeliveredExact
  <2> USE <1>1 DEF IInv, BindingInv
  <2>1. CASE Idle
    BY <2>1 DEF ControlInv, DeliveredExact
  <2>2. CASE ~Idle
    <3>1. \A p : Found(p) <=> Wanted(p)
      BY <2>2, FoundIsWanted DEF ControlInv, BindingTypeOK
    <3>2. sent \in Nat /\ Len(chain) \in Nat /\ DOMAIN chain = 1..Len(chain) /\ sent <= Len(chain)
      BY DEF ControlInv, BindingTypeOK, LineInv
    <3>3. \A p \in 1..sent : p \in DOMAIN chain
      BY <3>2
    <3>4. \A i \in DOMAIN delivered : delivered[i] \in DOMAIN chain /\ Wanted(delivered[i])
      BY <3>1, <3>3 DEF LineInv
    <3>5. ASSUME NEW q \in DOMAIN chain, NEW i \in DOMAIN delivered,
                 Wanted(q), q < delivered[i]
          PROVE  \E j \in DOMAIN delivered : delivered[j] = q
      <4>1. delivered[i] \in 1..sent /\ q \in 1..sent
        BY <3>2, <3>5 DEF LineInv
      <4>2. ~InChannel(q)
        <5> SUFFICES ASSUME NEW k \in DOMAIN logs, logs[k] = q
                     PROVE  FALSE
          BY DEF InChannel
        <5>1. delivered[i] < logs[k]
          BY DEF LineInv
        <5> QED
          BY <3>5, <4>1, <5>1
      <4>3. hand # q
        <5> SUFFICES ASSUME hand = q
                     PROVE  FALSE
          OBVIOUS
        <5>1. delivered[i] < hand
          BY <4>1 DEF LineInv
        <5> QED
          BY <3>5, <4>1, <5>1
      <4>4. ~ \A k \in DOMAIN delivered : delivered[k] < q
        BY <3>5, <4>1
      <4> QED
        BY <3>1, <3>5, <4>1, <4>2, <4>3, <4>4 DEF CoverInv, Given
    <3> QED
      BY <3>4, <3>5 DEF DeliveredExact, LineInv
  <2> QED
    BY <2>1, <2>2
<1> QED
  BY <1>1, Invariance, PTL

(* An iterator that says there are no more, without an error and without a *)
(* Close, has given all there were.                                        *)
THEOREM FiltersAreComplete == Spec => []FilterComplete
<1>1. ASSUME IInv
      PROVE  FilterComplete
  <2> USE <1>1 DEF IInv, BindingInv
  <2> SUFFICES ASSUME exhausted, ~fail, ~quit, NEW q \in DOMAIN chain, Wanted(q)
               PROVE  \E j \in DOMAIN delivered : delivered[j] = q
    BY DEF FilterComplete
  <2>1. Filtering /\ goroutine = "ended" /\ logs = <<>>
    BY DEF EndInv
  <2>2. ~Watching /\ ~Idle /\ hand = 0
    BY <2>1 DEF ControlInv, Filtering, Watching, Idle, NoRequest
  <2>3. Found(q)
    BY <2>2, FoundIsWanted DEF ControlInv, BindingTypeOK
  <2>4. q \in sent + 1..Len(chain) \/ q \in 1..sent
    BY DEF ControlInv, BindingTypeOK
  <2>5. q \in 1..sent
    BY <2>1, <2>3, <2>4 DEF EndInv
  <2>6. ~InChannel(q) /\ hand # q /\ ~Stopped
    BY <2>1, <2>2, <2>5 DEF InChannel, Stopped
  <2> QED
    BY <2>3, <2>5, <2>6 DEF CoverInv, Given
<1> QED
  BY <1>1, Invariance, PTL

-----------------------------------------------------------------------------
(* The refinement: a filter or a watch, with its channel, its goroutine    *)
(* and the node, implements a stream of events.                            *)

LEMMA StreamLeft == Stream!Left = {p \in DOMAIN chain : Wanted(p) /\ ~Given(p)}
<1>1. ASSUME NEW p
      PROVE  /\ Stream!Matches(chain[p], request.event, request.wanted) <=> Wanted(p)
             /\ (\A i \in DOMAIN delivered : delivered[i] # p) <=> ~Given(p)
  BY DEF Stream!Matches, Stream!Fields, Wanted, Matches, Fields, Given
<1> QED
  BY <1>1 DEF Stream!Left

(* The log at the head of the line is the first of those left.             *)
LEMMA HeadIsFirstLeft ==
  ASSUME BindingInv, ~Idle, ~Stopped, NEW h \in 1..sent, Found(h),
         \A i \in DOMAIN delivered : delivered[i] < h,
         \A q \in Nat : InChannel(q) \/ (hand = q /\ q # 0) => h <= q
  PROVE  h \in Stream!Left /\ \A q \in Stream!Left : h <= q
<1>1. \A p : Found(p) <=> Wanted(p)
  BY FoundIsWanted DEF BindingInv, ControlInv, BindingTypeOK
<1>2. sent \in Nat /\ Len(chain) \in Nat /\ DOMAIN chain = 1..Len(chain) /\ sent <= Len(chain)
  BY DEF BindingInv, ControlInv, BindingTypeOK, LineInv
<1>3. h \in DOMAIN chain /\ Wanted(h) /\ ~Given(h)
  BY <1>1, <1>2 DEF Given
<1>4. ASSUME NEW q \in DOMAIN chain, Wanted(q), ~Given(q)
      PROVE  h <= q
  <2>1. q \in Nat /\ q # 0
    BY <1>2
  <2>2. CASE q \in 1..sent
    <3>1. InChannel(q) \/ hand = q
      BY <1>1, <1>4, <2>2 DEF BindingInv, CoverInv
    <3> QED
      BY <2>1, <3>1
  <2>3. CASE q \notin 1..sent
    BY <1>2, <2>1, <2>3
  <2> QED
    BY <2>2, <2>3
<1> QED
  BY <1>3, <1>4, StreamLeft

(* Where the end of the stream is seen.                                    *)
LEMMA OverAlike ==
  ASSUME UNCHANGED <<request, goroutine, quit>>, UNCHANGED <<fail, exhausted>>
  PROVE  Over' = Over
  BY DEF Over, Watching

LEMMA OpeningStream == BindingInv /\ Opening => Stream!Request
<1> SUFFICES ASSUME BindingInv, Idle,
                    NEW kind \in {"filter", "watch"}, NEW e \in Events,
                    NEW wanted \in [Fields(e) -> Filters], NEW c \in Chains(e),
                    Ask(kind, e, wanted, c)
             PROVE  Stream!Request
  BY DEF Opening
<1>1. ~fail /\ ~exhausted /\ UNCHANGED <<fail, exhausted, delivered>> /\ goroutine' = "running"
  BY DEF BindingInv, ControlInv, Ask
<1>2. Over = "no"
  BY <1>1 DEF Over, Watching, Idle, NoRequest
<1>3. Over' = "no"
  BY <1>1 DEF Over
<1>4. request'.kind = kind
  BY DEF Ask
<1>5. request = Stream!Unasked
  BY DEF Idle, NoRequest, Stream!Unasked
<1> QED
  BY <1>1, <1>2, <1>3, <1>4, <1>5 DEF Stream!Request

LEMMA TakesStream == BindingInv /\ NextTakes => Stream!Give \/ Stream!EndEarly
<1> SUFFICES ASSUME BindingInv, NextTakes
             PROVE  Stream!Give \/ Stream!EndEarly
  OBVIOUS
<1>1. Filtering /\ ~Watching /\ ~Idle /\ ~fail /\ logs # <<>> /\ hand = 0
  BY DEF NextTakes, BindingInv, ControlInv, Filtering, Watching, Idle, NoRequest
<1>2. ~exhausted
  BY <1>1 DEF BindingInv, EndInv
<1>3. Over = "no" /\ Stream!Open
  BY <1>1, <1>2 DEF Over, Stream!Open, Stream!Unasked, Idle, NoRequest
<1>4. UNCHANGED <<request, chain, goroutine, quit>>
  BY DEF NextTakes
<1>5. CASE delivered' = Append(delivered, Head(logs)) /\ UNCHANGED <<fail, exhausted>>
  <2>1. Over' = Over
    BY <1>4, <1>5, OverAlike
  <2> DEFINE h == Head(logs)
  <2>2. logs \in Seq(Nat \ {0})
    BY DEF BindingInv, ControlInv, BindingTypeOK
  <2>3. h = logs[1] /\ 1 \in DOMAIN logs /\ \A i \in DOMAIN logs : i = 1 \/ 1 < i
    BY <1>1, <2>2
  <2>4. h \in 1..sent /\ Found(h) /\ h \in Nat
    BY <2>2, <2>3 DEF BindingInv, LineInv
  <2>5. \A i \in DOMAIN delivered : delivered[i] < h
    BY <2>3 DEF BindingInv, LineInv
  <2>6. \A q \in Nat : InChannel(q) => h <= q
    <3> SUFFICES ASSUME NEW i \in DOMAIN logs
                 PROVE  h <= logs[i]
      BY DEF InChannel
    <3>1. i = 1 \/ h < logs[i]
      BY <2>3 DEF BindingInv, LineInv
    <3>2. logs[i] \in Nat
      BY <2>2
    <3> QED
      BY <2>3, <2>4, <3>1, <3>2
  <2>7. ~Stopped
    BY <1>1 DEF Stopped
  <2> HIDE DEF h
  <2>8. h \in Stream!Left /\ \A q \in Stream!Left : h <= q
    BY <1>1, <2>4, <2>5, <2>6, <2>7, HeadIsFirstLeft
  <2>9. delivered' = Append(delivered, h)
    BY <1>5 DEF h
  <2> QED
    BY <1>3, <1>4, <2>1, <2>8, <2>9 DEF Stream!Give
<1>6. CASE fail' = TRUE /\ UNCHANGED delivered
  <2>1. Over' = "early"
    BY <1>6 DEF Over
  <2> QED
    BY <1>3, <1>4, <1>6, <2>1 DEF Stream!EndEarly
<1> QED
  BY <1>5, <1>6 DEF NextTakes

(* Next says that there are no more.                                       *)
LEMMA NoneStream ==
  BindingInv /\ NextFindsNone =>
    Stream!Complete \/ Stream!EndEarly \/ UNCHANGED Stream!streamVars
<1> SUFFICES ASSUME BindingInv, NextFindsNone
             PROVE  Stream!Complete \/ Stream!EndEarly \/ UNCHANGED Stream!streamVars
  OBVIOUS
<1>1. Filtering /\ ~Watching /\ ~Idle /\ ~fail /\ done /\ logs = <<>> /\ hand = 0
  BY DEF NextFindsNone, BindingInv, ControlInv, Filtering, Watching, Idle, NoRequest
<1>2. UNCHANGED <<request, chain, goroutine, quit>> /\ UNCHANGED <<fail, delivered>>
      /\ exhausted'
  BY DEF NextFindsNone, NoMore
<1>3. ~Watching'
  BY <1>1, <1>2 DEF Watching
<1>4. Over' = IF quit THEN "early" ELSE "complete"
  BY <1>1, <1>2, <1>3 DEF Over
<1>5. CASE exhausted
  <2>1. Over' = Over
    BY <1>1, <1>4, <1>5 DEF Over
  <2> QED
    BY <1>2, <2>1 DEF Stream!streamVars
<1>6. CASE ~exhausted
  <2>1. Over = "no" /\ Stream!Open
    BY <1>1, <1>6 DEF Over, Stream!Open, Stream!Unasked, Idle, NoRequest
  <2>2. CASE quit
    BY <1>2, <1>4, <2>1, <2>2 DEF Stream!EndEarly
  <2>3. CASE ~quit
    <3>1. \A p : Found(p) <=> Wanted(p)
      BY <1>1, FoundIsWanted DEF BindingInv, ControlInv, BindingTypeOK
    <3>2. ASSUME NEW q \in DOMAIN chain, Wanted(q)
          PROVE  Given(q)
      <4>1. q \in sent + 1..Len(chain) \/ q \in 1..sent
        BY DEF BindingInv, ControlInv, BindingTypeOK
      <4>2. goroutine = "ended"
        BY <1>1 DEF BindingInv, EndInv
      <4>3. q \in 1..sent
        BY <1>1, <2>3, <3>1, <3>2, <4>1, <4>2 DEF BindingInv, EndInv
      <4>4. ~InChannel(q) /\ hand # q /\ ~Stopped
        BY <1>1, <4>3 DEF InChannel, Stopped
      <4> QED
        BY <3>1, <3>2, <4>3, <4>4 DEF BindingInv, CoverInv
    <3>3. Stream!Left = {}
      BY <3>2, StreamLeft
    <3> QED
      BY <1>1, <1>2, <1>4, <2>1, <2>3, <3>3 DEF Stream!Complete, Filtering
  <2> QED
    BY <2>2, <2>3
<1> QED
  BY <1>5, <1>6

(* The forwarder of a watch.                                               *)
LEMMA ForwarderStream ==
  BindingInv /\ (ForwarderTakes \/ ForwarderDelivers \/ ForwarderEnds) =>
    Stream!Give \/ Stream!EndEarly \/ UNCHANGED Stream!streamVars
<1> SUFFICES ASSUME BindingInv, ForwarderTakes \/ ForwarderDelivers \/ ForwarderEnds
             PROVE  Stream!Give \/ Stream!EndEarly \/ UNCHANGED Stream!streamVars
  OBVIOUS
<1>1. Watching /\ goroutine = "running"
  BY DEF ForwarderTakes, ForwarderDelivers, ForwarderEnds, Forwarding
<1>2. ~fail /\ ~exhausted /\ ~Filtering /\ ~Idle
  BY <1>1 DEF BindingInv, ControlInv, EndInv, Filtering, Watching, Idle, NoRequest
<1>3. Over = "no" /\ Stream!Open
  BY <1>1, <1>2 DEF Over, Stream!Open, Stream!Unasked, Idle, NoRequest
<1>4. UNCHANGED <<request, chain, quit, exhausted>>
  BY DEF ForwarderTakes, ForwarderDelivers, ForwarderEnds
<1>5. CASE goroutine' = "ended" /\ UNCHANGED delivered
  <2>1. Over' = "early"
    BY <1>1, <1>4, <1>5 DEF Over, Watching
  <2> QED
    BY <1>3, <1>4, <1>5, <2>1 DEF Stream!EndEarly
<1>6. CASE ForwarderTakes /\ UNCHANGED <<goroutine, fail>>
  <2>1. Over' = Over
    BY <1>4, <1>6, OverAlike
  <2> QED
    BY <1>4, <1>6, <2>1 DEF Stream!streamVars, ForwarderTakes
<1>7. CASE ForwarderDelivers
  <2>1. Over' = Over
    BY <1>4, <1>7, OverAlike DEF ForwarderDelivers
  <2>2. hand # 0 /\ delivered' = Append(delivered, hand)
    BY <1>7 DEF ForwarderDelivers
  <2>3. /\ hand \in 1..sent /\ Found(hand) /\ hand \in Nat
        /\ \A i \in DOMAIN delivered : delivered[i] < hand
        /\ \A j \in DOMAIN logs : hand < logs[j]
    BY <2>2 DEF BindingInv, LineInv, ControlInv, BindingTypeOK
  <2>4. \A q \in Nat : InChannel(q) \/ hand = q => hand <= q
    <3>1. \A j \in DOMAIN logs : logs[j] \in Nat
      BY DEF BindingInv, ControlInv, BindingTypeOK
    <3> QED
      BY <2>3, <3>1 DEF InChannel
  <2>5. ~Stopped
    BY <1>1 DEF Stopped
  <2>6. hand \in Stream!Left /\ \A q \in Stream!Left : hand <= q
    BY <1>2, <2>3, <2>4, <2>5, HeadIsFirstLeft
  <2> QED
    BY <1>3, <1>4, <2>1, <2>2, <2>6 DEF Stream!Give
<1>8. CASE ForwarderEnds
  BY <1>5, <1>8 DEF ForwarderEnds, ForwarderReturns
<1> QED
  BY <1>5, <1>6, <1>7, <1>8 DEF ForwarderTakes, ForwarderReturns

(* The other steps show nothing: Close finds the sender ended once the     *)
(* stream is over, so it cannot make an early end of a complete one.       *)
LEMMA HiddenStream ==
  ASSUME BindingInv,
         \/ CallNext \/ NextAfterFailure \/ NextSeesEnd \/ CallEnd \/ EndReturns
         \/ SenderSends \/ SenderEnds \/ NodeSends \/ NodeFails
  PROVE  UNCHANGED Stream!streamVars
<1>1. CASE CallNext \/ NextSeesEnd \/ EndReturns \/ SenderSends \/ NodeSends \/ NodeFails
  <2>1. UNCHANGED <<request, goroutine, quit>> /\ UNCHANGED <<fail, exhausted>>
    BY <1>1 DEF CallNext, NextSeesEnd, EndReturns, SenderSends, NodeSends, SendNext, NodeFails
  <2>2. UNCHANGED <<chain, delivered>>
    BY <1>1 DEF CallNext, NextSeesEnd, EndReturns, SenderSends, NodeSends, SendNext, NodeFails
  <2> QED
    BY <2>1, <2>2, OverAlike DEF Stream!streamVars
<1>2. CASE NextAfterFailure
  <2>1. fail /\ fail' /\ UNCHANGED <<request, chain, delivered>>
    BY <1>2 DEF NextAfterFailure
  <2>2. Over = "early" /\ Over' = "early"
    BY <2>1 DEF Over
  <2> QED
    BY <2>1, <2>2 DEF Stream!streamVars
<1>3. CASE CallEnd
  <2>1. UNCHANGED <<request, chain, delivered>> /\ UNCHANGED <<goroutine, fail, exhausted>>
        /\ quit' = (quit \/ goroutine = "running")
    BY <1>3 DEF CallEnd
  <2>2. Watching' <=> Watching
    BY <2>1 DEF Watching
  <2>3. exhausted /\ ~fail => quit' = quit
    <3>1. exhausted /\ ~fail => goroutine # "running"
      BY DEF BindingInv, EndInv
    <3>2. quit \in BOOLEAN
      BY DEF BindingInv, ControlInv, BindingTypeOK
    <3> QED
      BY <2>1, <3>1, <3>2
  <2>4. Over' = Over
    BY <2>1, <2>2, <2>3 DEF Over
  <2> QED
    BY <2>1, <2>4 DEF Stream!streamVars
<1>4. CASE SenderEnds
  <2>1. UNCHANGED <<request, chain, delivered>> /\ UNCHANGED <<quit, fail, exhausted>> /\ Filtering
    BY <1>4 DEF SenderEnds
  <2>2. ~Watching /\ ~Watching'
    BY <2>1 DEF Filtering, Watching
  <2>3. Over' = Over
    BY <2>1, <2>2 DEF Over
  <2> QED
    BY <2>1, <2>3 DEF Stream!streamVars
<1> QED
  BY <1>1, <1>2, <1>3, <1>4

(* The binding implements the stream: whatever the sender, the node, the   *)
(* forwarder and the caller do between two events, the caller is given     *)
(* what it asked for one by one, is told that a filter is complete only    *)
(* when it is, and is given nothing after an end.                          *)
THEOREM StreamImplemented == Spec => StreamSpec
<1>1. ASSUME Init
      PROVE  Stream!StreamInit
  <2>1. /\ request = Stream!Unasked /\ chain = <<>> /\ delivered = <<>>
        /\ ~fail /\ ~exhausted /\ ~Watching
    BY <1>1 DEF Init, BindingInit, NoRequest, Stream!Unasked, Watching
  <2> QED
    BY <2>1 DEF Stream!StreamInit, Over
<1>2. ASSUME IInv, [Next]_vars
      PROVE  [Stream!StreamNext]_Stream!streamVars
  <2>1. BindingInv
    BY <1>2 DEF IInv
  <2>2. CASE UNCHANGED bindingVars
    <3>1. UNCHANGED <<request, goroutine, quit>> /\ UNCHANGED <<fail, exhausted>>
          /\ UNCHANGED <<chain, delivered>>
      BY <2>2 DEF bindingVars
    <3> QED
      BY <3>1, OverAlike DEF Stream!streamVars
  <2>3. CASE BindingNext
    BY <2>1, <2>3, OpeningStream, TakesStream, NoneStream, ForwarderStream, HiddenStream
    DEF BindingNext, NextReturns, Stream!StreamNext
  <2> QED
    BY <1>2, <2>2, <2>3 DEF Next, Querying, Binding, vars
<1> QED
  BY <1>1, <1>2, Invariance, PTL DEF Spec, StreamSpec, Stream!StreamSpec

(* No goroutine, subscription or caller is left behind by an end.          *)
THEOREM NothingIsLeft == Spec => []NothingLeft
<1>1. Init => NothingLeft
  BY DEF Init, BindingInit, NothingLeft
<1>2. ASSUME IInv, NothingLeft, [Next]_vars
      PROVE  NothingLeft'
  <2> USE DEF Watching
  <2>1. CASE UNCHANGED bindingVars
    BY <1>2, <2>1 DEF NothingLeft, bindingVars
  <2>2. ControlInv
    BY <1>2 DEF IInv, BindingInv
  <2>3. CASE Opening
    BY <2>2, <2>3 DEF NothingLeft, Opening, Ask, ControlInv
  <2>4. CASE CallNext \/ NextReturns \/ SenderSends
    BY <1>2, <2>4 DEF NothingLeft, CallNext, NextReturns, NextAfterFailure, NextTakes, NextSeesEnd,
                      NextFindsNone, NoMore, SenderSends, SendNext
  <2>5. CASE CallEnd \/ EndReturns
    BY <1>2, <2>2, <2>5 DEF NothingLeft, CallEnd, EndReturns, ControlInv, BindingTypeOK
  <2>6. CASE SenderEnds
    BY <1>2, <2>6 DEF NothingLeft, SenderEnds, Filtering
  <2>7. CASE NodeSends \/ NodeFails
    BY <1>2, <2>7 DEF NothingLeft, NodeSends, NodeFails, SendNext
  <2>8. CASE ForwarderTakes \/ ForwarderDelivers \/ ForwarderEnds
    BY <1>2, <2>8 DEF NothingLeft, ForwarderTakes, ForwarderDelivers, ForwarderEnds,
                      ForwarderReturns, Forwarding
  <2> QED
    BY <1>2, <2>1, <2>3, <2>4, <2>5, <2>6, <2>7, <2>8
    DEF Next, Querying, Binding, BindingNext, vars
<1> QED
  BY <1>1, <1>2, Invariance, PTL DEF Spec

=============================================================================
