------------------------ MODULE SubmissionStoreProofs ------------------------
(* The alerts and the submission store, for any capacity of the channel,   *)
(* any workers and keys, and any bounds.                                   *)
EXTENDS SubmissionStore, TLAPS

-----------------------------------------------------------------------------
(* Members of sequences. *)

LEMMA MembersAppend ==
  ASSUME NEW S, NEW s \in Seq(S), NEW e \in S
  PROVE  Members(Append(s, e)) = Members(s) \cup {e}
<1>1. \A x \in Members(s) : x \in Members(Append(s, e))
  BY DEF Members
<1>2. e \in Members(Append(s, e))
  <2>1. Append(s, e)[Len(s) + 1] = e /\ Len(s) + 1 \in DOMAIN Append(s, e)
    OBVIOUS
  <2> QED
    BY <2>1 DEF Members
<1>3. \A x \in Members(Append(s, e)) : x \in Members(s) \/ x = e
  BY DEF Members
<1> QED
  BY <1>1, <1>2, <1>3

LEMMA MembersHeadTail ==
  ASSUME NEW S, NEW s \in Seq(S), s # <<>>
  PROVE  /\ Members(s) = {Head(s)} \cup Members(Tail(s))
         /\ \A i \in DOMAIN Tail(s) : i + 1 \in DOMAIN s /\ Tail(s)[i] = s[i + 1]
         /\ Head(s) = s[1] /\ 1 \in DOMAIN s
<1>1. /\ \A i \in DOMAIN Tail(s) : i + 1 \in DOMAIN s /\ Tail(s)[i] = s[i + 1]
      /\ Head(s) = s[1] /\ 1 \in DOMAIN s
  OBVIOUS
<1>2. \A i \in DOMAIN s : i = 1 \/ (i - 1 \in DOMAIN Tail(s) /\ Tail(s)[i - 1] = s[i])
  OBVIOUS
<1>3. \A x \in Members(s) : x \in {Head(s)} \cup Members(Tail(s))
  <2>1. \A i \in DOMAIN Tail(s) : Tail(s)[i] \in Members(Tail(s))
    BY DEF Members
  <2>2. \A i \in DOMAIN s : s[i] = Head(s) \/ s[i] \in Members(Tail(s))
    BY <1>1, <1>2, <2>1
  <2> QED
    BY <2>2 DEF Members
<1>4. \A x \in {Head(s)} \cup Members(Tail(s)) : x \in Members(s)
  BY <1>1 DEF Members
<1> QED
  BY <1>1, <1>3, <1>4

LEMMA MembersEmpty == Members(<<>>) = {}
  BY DEF Members

LEMMA MembersType ==
  ASSUME NEW S, NEW s \in Seq(S)
  PROVE  Members(s) \subseteq S
  BY DEF Members

-----------------------------------------------------------------------------
(* The alerts. *)

(* Where an alert is, spelled out. *)
AtOnePlace(a) ==
  LET inChannel == a \in Members(channel)
      inHand    == a \in InHand
      onWire    == a \in gaveUp \ Members(posted)
      shown     == a \in Members(posted)
      wasDropped == a \in dropped
      wasLost   == a \in lost
  IN  /\ inChannel \/ inHand \/ onWire \/ shown \/ wasDropped \/ wasLost
      /\ inChannel => ~(inHand \/ onWire \/ shown \/ wasDropped \/ wasLost)
      /\ inHand => ~(onWire \/ shown \/ wasDropped \/ wasLost)
      /\ onWire => ~(shown \/ wasDropped \/ wasLost)
      /\ shown => ~(wasDropped \/ wasLost)
      /\ wasDropped => ~wasLost

LEMMA AccountedIsOnePlace == AlertsAccounted <=> \A a \in 1..raised : AtOnePlace(a)
<1> DEFINE P == Places
<1>1. /\ DOMAIN P = 1..6
      /\ P[1] = Members(channel) /\ P[2] = InHand /\ P[3] = gaveUp \ Members(posted)
      /\ P[4] = Members(posted) /\ P[5] = dropped /\ P[6] = lost
  BY DEF Places
<1>2. \A i : i \in 1..6 <=> i \in {1, 2, 3, 4, 5, 6}
  OBVIOUS
<1> HIDE DEF P
<1>3. ASSUME NEW a
      PROVE  AtOnePlace(a) <=> \E i \in DOMAIN P : /\ a \in P[i]
                                                   /\ \A j \in DOMAIN P : a \in P[j] => j = i
  BY <1>1, <1>2 DEF AtOnePlace
<1> QED
  BY <1>3 DEF AlertsAccounted, P

Increasing(s) == \A i, j \in DOMAIN s : i < j => s[i] < s[j]

(* Alerts go through channel and reporter in the order they were raised:   *)
(* the one being posted is older than those in the channel, and those      *)
(* shown in time are older than both.                                      *)
OrderOK ==
  /\ Increasing(channel)
  /\ \A a \in Members(channel) : posting < a
  /\ \A b \in Members(posted) \ gaveUp :
       /\ posting # 0 => b < posting
       /\ \A a \in Members(channel) : b < a

AlertInv ==
  /\ AlertsTypeOK
  /\ \A a \in 1..raised : AtOnePlace(a)
  /\ OrderOK
  /\ Feed!FeedInOrder

LEMMA AlertInitInv == AlertsInit => AlertInv
<1> SUFFICES ASSUME AlertsInit PROVE AlertInv
  OBVIOUS
<1>1. AlertsTypeOK
  BY CapacityAssumption DEF AlertsInit, AlertsTypeOK
<1>2. OrderOK /\ Feed!FeedInOrder /\ 1..raised = {}
  BY DEF AlertsInit, OrderOK, Increasing, Members, Feed!FeedInOrder
<1> QED
  BY <1>1, <1>2 DEF AlertInv

(* Only what is posted changes what the feed is, or its order. *)
LEMMA SameFeed ==
  ASSUME Feed!FeedInOrder, posted' = posted,
         gaveUp' \cap Members(posted) = gaveUp \cap Members(posted)
  PROVE  Feed!FeedInOrder'
  BY DEF Feed!FeedInOrder, Members

LEMMA RaiseKeepsInv ==
  ASSUME AlertInv, SendFailureNotification, UNCHANGED <<wellFormed, running>>
  PROVE  AlertInv'
<1>1. AlertsTypeOK /\ OrderOK /\ raised \in Nat /\ channel \in Seq(1..raised)
  BY DEF AlertInv, AlertsTypeOK
<1>2. raised' = raised + 1 /\ UNCHANGED <<posting, posted, gaveUp, lost>>
  BY DEF SendFailureNotification
<1>3. /\ channel \in Seq(1..raised') /\ posted \in Seq(1..raised')
      /\ 1..raised \subseteq 1..raised' /\ raised' \in 1..raised' /\ raised' \notin 1..raised
  BY <1>1, <1>2 DEF AlertsTypeOK
<1>4. Members(channel) \subseteq 1..raised /\ Members(posted) \subseteq 1..raised
  BY <1>1, MembersType DEF AlertsTypeOK
<1>5. Feed!FeedInOrder'
  BY <1>2, SameFeed DEF AlertInv
<1>6. CASE channel' = Append(channel, raised') /\ Len(channel) < Capacity /\ dropped' = dropped
  <2>1. Members(channel') = Members(channel) \cup {raised'}
    BY <1>3, <1>6, MembersAppend
  <2>2. AlertsTypeOK'
    BY <1>1, <1>2, <1>3, <1>6, CapacityAssumption DEF AlertsTypeOK
  <2>3. Increasing(channel)'
    <3>1. \A i \in DOMAIN channel : channel[i] < raised'
      BY <1>1, <1>2
    <3> QED
      BY <1>1, <1>6, <3>1 DEF Increasing, OrderOK
  <2>4. OrderOK'
    <3>1. posting < raised' /\ \A b \in Members(posted) : b < raised'
      BY <1>1, <1>2, <1>4 DEF AlertsTypeOK
    <3> QED
      BY <1>1, <1>2, <2>1, <2>3, <3>1 DEF OrderOK
  <2>5. ASSUME NEW a \in 1..raised' PROVE AtOnePlace(a)'
    <3>1. CASE a = raised'
      <4>1. /\ raised' \notin InHand /\ raised' \notin gaveUp /\ raised' \notin Members(posted)
            /\ raised' \notin dropped /\ raised' \notin lost
        BY <1>1, <1>2, <1>3, <1>4 DEF AlertsTypeOK, InHand
      <4> QED
        BY <1>2, <1>6, <2>1, <3>1, <4>1 DEF AtOnePlace, InHand
    <3>2. CASE a # raised'
      <4>1. a \in 1..raised
        BY <1>1, <1>2, <3>2
      <4> QED
        BY <1>2, <1>6, <2>1, <3>2, <4>1 DEF AlertInv, AtOnePlace, InHand
    <3> QED
      BY <3>1, <3>2
  <2> QED
    BY <1>5, <2>2, <2>4, <2>5 DEF AlertInv
<1>7. CASE channel' = channel /\ dropped' = dropped \cup {raised'}
  <2>1. AlertsTypeOK'
    BY <1>1, <1>2, <1>3, <1>7 DEF AlertsTypeOK
  <2>2. OrderOK'
    BY <1>1, <1>2, <1>7 DEF OrderOK, Increasing
  <2>3. ASSUME NEW a \in 1..raised' PROVE AtOnePlace(a)'
    <3>1. CASE a = raised'
      <4>1. /\ raised' \notin InHand /\ raised' \notin gaveUp /\ raised' \notin Members(posted)
            /\ raised' \notin Members(channel) /\ raised' \notin lost
        BY <1>1, <1>2, <1>3, <1>4 DEF AlertsTypeOK, InHand
      <4> QED
        BY <1>2, <1>7, <3>1, <4>1 DEF AtOnePlace, InHand
    <3>2. CASE a # raised'
      <4>1. a \in 1..raised
        BY <1>1, <1>2, <3>2
      <4> QED
        BY <1>2, <1>7, <3>2, <4>1 DEF AlertInv, AtOnePlace, InHand
    <3> QED
      BY <3>1, <3>2
  <2> QED
    BY <1>5, <2>1, <2>2, <2>3 DEF AlertInv
<1> QED
  BY <1>6, <1>7 DEF SendFailureNotification

LEMMA ReceiveKeepsInv == AlertInv /\ Receive => AlertInv'
<1> SUFFICES ASSUME AlertInv, Receive PROVE AlertInv'
  OBVIOUS
<1>1. /\ AlertsTypeOK /\ OrderOK /\ raised \in Nat /\ channel \in Seq(1..raised)
      /\ channel # <<>> /\ posting = 0 /\ posting' = Head(channel) /\ channel' = Tail(channel)
      /\ UNCHANGED <<wellFormed, running, raised, posted, gaveUp, dropped, lost>>
  BY DEF AlertInv, AlertsTypeOK, Receive
<1>2. /\ Members(channel) = {posting'} \cup Members(channel')
      /\ \A i \in DOMAIN channel' : i + 1 \in DOMAIN channel /\ channel'[i] = channel[i + 1]
      /\ posting' = channel[1] /\ 1 \in DOMAIN channel
  BY <1>1, MembersHeadTail
<1>3. posting' \in 1..raised /\ channel' \in Seq(1..raised) /\ Len(channel') <= Len(channel)
      /\ Len(channel) \in Nat /\ Len(channel') \in Nat
  BY <1>1
<1>4. AlertsTypeOK'
  BY <1>1, <1>3, CapacityAssumption DEF AlertsTypeOK
<1>5. \A a \in Members(channel') : posting' < a
  <2>1. \A i \in DOMAIN channel' : channel[1] < channel[i + 1]
    <3>1. \A i \in DOMAIN channel' : i \in Nat /\ i >= 1 /\ 1 < i + 1
      BY <1>3
    <3> QED
      BY <1>1, <1>2, <3>1 DEF OrderOK, Increasing
  <2> QED
    BY <1>2, <2>1 DEF Members
<1>6. Increasing(channel')
  <2>1. \A i, j \in DOMAIN channel' : i < j => i + 1 < j + 1
    BY <1>3
  <2> QED
    BY <1>1, <1>2, <2>1 DEF OrderOK, Increasing
<1>7. OrderOK'
  <2>1. \A b \in Members(posted) \ gaveUp : b < posting'
    BY <1>1, <1>2 DEF OrderOK
  <2> QED
    BY <1>1, <1>2, <1>5, <1>6, <2>1 DEF OrderOK, Increasing
<1>8. ASSUME NEW a \in 1..raised' PROVE AtOnePlace(a)'
  <2>1. posting' # 0 /\ posting' \notin Members(channel')
    BY <1>3, <1>5
  <2>2. AtOnePlace(a)
    BY <1>1 DEF AlertInv
  <2>3. (a \in InHand') = (a = posting') /\ a \notin InHand
    BY <1>1, <2>1 DEF InHand
  <2> QED
    BY <1>1, <1>2, <2>1, <2>2, <2>3 DEF AtOnePlace
<1>9. Feed!FeedInOrder'
  BY <1>1, SameFeed DEF AlertInv
<1> QED
  BY <1>4, <1>7, <1>8, <1>9 DEF AlertInv

(* The alert in hand is shown in time: it is newer than those shown before *)
(* it in time.                                                             *)
LEMMA PostedKeepsInv ==
  ASSUME AlertInv, Posted
  PROVE  /\ AlertInv'
         /\ posting \notin Members(posted) /\ posting \notin gaveUp
         /\ posting \in 1..raised
         /\ Members(posted') = Members(posted) \cup {posting}
<1>1. /\ AlertsTypeOK /\ OrderOK /\ raised \in Nat /\ posted \in Seq(1..raised)
      /\ posting \in 1..raised /\ posted' = Append(posted, posting) /\ posting' = 0
      /\ UNCHANGED <<wellFormed, running, raised, channel, gaveUp, dropped, lost>>
  BY DEF AlertInv, AlertsTypeOK, Posted, Posting
<1>2. Members(posted') = Members(posted) \cup {posting}
  BY <1>1, MembersAppend
<1>3. /\ posting \notin Members(posted) /\ posting \notin gaveUp
      /\ posting \notin Members(channel) /\ posting \notin dropped /\ posting \notin lost
  <2>1. AtOnePlace(posting) /\ posting \in InHand
    BY <1>1 DEF AlertInv, InHand
  <2> QED
    BY <2>1 DEF AtOnePlace
<1>4. AlertsTypeOK'
  BY <1>1 DEF AlertsTypeOK
<1>5. OrderOK'
  <2>1. \A a \in Members(channel) : posting' < a
    BY <1>1, MembersType DEF AlertsTypeOK
  <2> QED
    BY <1>1, <1>2, <2>1 DEF OrderOK
<1>6. ASSUME NEW a \in 1..raised' PROVE AtOnePlace(a)'
  <2>1. AtOnePlace(a) /\ (a \in InHand <=> a = posting) /\ InHand' = {}
    BY <1>1 DEF AlertInv, InHand
  <2> QED
    BY <1>1, <1>2, <1>3, <2>1 DEF AtOnePlace
<1>7. Feed!FeedInOrder'
  <2>1. \A i \in DOMAIN posted :
          /\ posted[i] # posting
          /\ posted[i] \notin gaveUp => posted[i] < posting
    BY <1>1, <1>3 DEF OrderOK, Members
  <2>2. /\ DOMAIN posted' = DOMAIN posted \cup {Len(posted) + 1}
        /\ posted'[Len(posted) + 1] = posting
        /\ \A i \in DOMAIN posted : posted'[i] = posted[i] /\ i < Len(posted) + 1 /\ i \in Nat
        /\ Len(posted) \in Nat
    BY <1>1
  <2>3. /\ \A i \in DOMAIN posted : posted[i] \in Members(posted)
        /\ \A i \in DOMAIN posted' : posted'[i] \in Members(posted')
    BY DEF Members
  <2>4. \A i, j \in DOMAIN posted :
          /\ posted[i] = posted[j] => i = j
          /\ (i < j /\ posted[i] \notin gaveUp /\ posted[j] \notin gaveUp) => posted[i] < posted[j]
    BY <2>3 DEF AlertInv, Feed!FeedInOrder
  <2> QED
    BY <1>1, <2>1, <2>2, <2>3, <2>4 DEF Feed!FeedInOrder
<1> QED
  BY <1>1, <1>2, <1>3, <1>4, <1>5, <1>6, <1>7 DEF AlertInv

LEMMA FailKeepsAlerts ==
  ASSUME AlertInv, PostFails \/ PostTimesOut
  PROVE  /\ AlertInv'
         /\ gaveUp' \cap Members(posted) = gaveUp \cap Members(posted)
<1>1. /\ AlertsTypeOK /\ OrderOK /\ raised \in Nat /\ posting \in 1..raised /\ posting' = 0
      /\ UNCHANGED <<wellFormed, running, raised, channel, posted, dropped>>
      /\ \/ gaveUp' = gaveUp /\ lost' = lost \cup {posting}
         \/ gaveUp' = gaveUp \cup {posting} /\ lost' = lost
  BY DEF AlertInv, AlertsTypeOK, PostFails, PostTimesOut, Posting
<1>3. /\ posting \notin Members(posted) /\ posting \notin gaveUp
      /\ posting \notin Members(channel) /\ posting \notin dropped /\ posting \notin lost
  <2>1. AtOnePlace(posting) /\ posting \in InHand
    BY <1>1 DEF AlertInv, InHand
  <2> QED
    BY <2>1 DEF AtOnePlace
<1>4. AlertsTypeOK'
  <2>1. posting' \in 0..raised
    BY <1>1
  <2>2. gaveUp \subseteq 1..raised /\ lost \subseteq 1..raised
    BY <1>1 DEF AlertsTypeOK
  <2>3. gaveUp' \subseteq 1..raised /\ lost' \subseteq 1..raised
    BY <1>1, <2>2
  <2> QED
    BY <1>1, <2>1, <2>3 DEF AlertsTypeOK
<1>5. OrderOK'
  <2>1. \A a \in Members(channel) : posting' < a
    BY <1>1, MembersType DEF AlertsTypeOK
  <2> QED
    BY <1>1, <2>1 DEF OrderOK, Increasing
<1>6. ASSUME NEW a \in 1..raised' PROVE AtOnePlace(a)'
  <2>1. AtOnePlace(a) /\ (a \in InHand <=> a = posting) /\ InHand' = {}
    BY <1>1 DEF AlertInv, InHand
  <2> QED
    BY <1>1, <1>3, <2>1 DEF AtOnePlace
<1>7. gaveUp' \cap Members(posted) = gaveUp \cap Members(posted)
  BY <1>1, <1>3
<1>8. Feed!FeedInOrder'
  BY <1>1, <1>7, SameFeed DEF AlertInv
<1> QED
  BY <1>4, <1>5, <1>6, <1>7, <1>8 DEF AlertInv

LEMMA ArrivalKeepsInv ==
  ASSUME AlertInv, NEW a \in gaveUp \ Members(posted), posted' = Append(posted, a),
         UNCHANGED <<wellFormed, running, raised, channel, posting, gaveUp, dropped, lost>>
  PROVE  /\ AlertInv'
         /\ a \in 1..raised
         /\ Members(posted') = Members(posted) \cup {a}
<1>1. /\ AlertsTypeOK /\ OrderOK /\ raised \in Nat /\ posted \in Seq(1..raised) /\ a \in 1..raised
  BY DEF AlertInv, AlertsTypeOK
<1>2. Members(posted') = Members(posted) \cup {a}
  BY <1>1, MembersAppend
<1>3. AlertsTypeOK'
  BY <1>1 DEF AlertsTypeOK
<1>4. OrderOK'
  BY <1>1, <1>2 DEF OrderOK, Increasing
<1>5. ASSUME NEW b \in 1..raised' PROVE AtOnePlace(b)'
  <2>1. AtOnePlace(b) /\ AtOnePlace(a) /\ InHand' = InHand
    BY <1>1 DEF AlertInv, InHand
  <2> QED
    BY <1>1, <1>2, <2>1 DEF AtOnePlace
<1>6. Feed!FeedInOrder'
  <2>1. \A i \in DOMAIN posted : posted[i] # a
    BY DEF Members
  <2>2. /\ DOMAIN posted' = DOMAIN posted \cup {Len(posted) + 1}
        /\ posted'[Len(posted) + 1] = a
        /\ \A i \in DOMAIN posted : posted'[i] = posted[i] /\ i < Len(posted) + 1 /\ i \in Nat
        /\ Len(posted) \in Nat
    BY <1>1
  <2>3. /\ \A i \in DOMAIN posted : posted[i] \in Members(posted)
        /\ \A i \in DOMAIN posted' : posted'[i] \in Members(posted')
    BY DEF Members
  <2>4. \A i, j \in DOMAIN posted :
          /\ posted[i] = posted[j] => i = j
          /\ (i < j /\ posted[i] \notin gaveUp /\ posted[j] \notin gaveUp) => posted[i] < posted[j]
    BY <2>3 DEF AlertInv, Feed!FeedInOrder
  <2> QED
    BY <1>1, <2>1, <2>2, <2>3, <2>4 DEF Feed!FeedInOrder
<1> QED
  BY <1>1, <1>2, <1>3, <1>4, <1>5, <1>6 DEF AlertInv

LEMMA EndKeepsAlerts == AlertInv /\ EndAlerts => AlertInv'
<1> SUFFICES ASSUME AlertInv, EndAlerts PROVE AlertInv'
  OBVIOUS
<1>1. /\ AlertsTypeOK /\ OrderOK /\ raised \in Nat
      /\ running' = FALSE /\ lost' = lost \cup Members(channel) \cup InHand
      /\ channel' = <<>> /\ posting' = 0
      /\ UNCHANGED <<wellFormed, raised, posted, gaveUp, dropped>>
  BY DEF AlertInv, AlertsTypeOK, EndAlerts
<1>2. Members(channel) \subseteq 1..raised /\ InHand \subseteq 1..raised /\ Members(channel') = {}
  BY <1>1, MembersType, MembersEmpty DEF AlertsTypeOK, InHand
<1>3. AlertsTypeOK'
  <2>1. posting' \in 0..raised
    BY <1>1
  <2>2. lost' \subseteq 1..raised
    BY <1>1, <1>2 DEF AlertsTypeOK
  <2>3. channel' \in Seq(1..raised) /\ Len(channel') <= Capacity
    BY <1>1, CapacityAssumption
  <2> QED
    BY <1>1, <2>1, <2>2, <2>3 DEF AlertsTypeOK
<1>4. OrderOK'
  BY <1>1, <1>2 DEF OrderOK, Increasing
<1>5. ASSUME NEW a \in 1..raised' PROVE AtOnePlace(a)'
  <2>1. AtOnePlace(a) /\ InHand' = {}
    BY <1>1 DEF AlertInv, InHand
  <2> QED
    BY <1>1, <1>2, <2>1 DEF AtOnePlace
<1>6. Feed!FeedInOrder'
  BY <1>1, SameFeed DEF AlertInv
<1> QED
  BY <1>3, <1>4, <1>5, <1>6 DEF AlertInv

(* What the reporter does, and an arrival, is a step of the feed. *)
LEMMA ReporterIsFeedStep ==
  ASSUME AlertInv, Report \/ ArrivesLate
  PROVE  AlertInv' /\ [Feed!FeedNext]_Feed!feedVars
<1>1. CASE Receive
  BY <1>1, ReceiveKeepsInv DEF Receive, Feed!feedVars
<1>2. CASE Posted
  <2>1. /\ posting \notin Members(posted) /\ posting \notin gaveUp /\ posting \in 1..raised
        /\ Members(posted') = Members(posted) \cup {posting}
        /\ posted' = Append(posted, posting) /\ UNCHANGED <<raised, gaveUp>>
    BY <1>2, PostedKeepsInv DEF Posted
  <2>2. gaveUp' \cap Members(posted') = gaveUp \cap Members(posted)
    BY <2>1
  <2>3. \A b \in Members(posted) \ gaveUp : b < posting
    BY <1>2 DEF AlertInv, OrderOK, Posted, Posting
  <2>4. Feed!Shown = Members(posted)
    BY DEF Feed!Shown, Members
  <2>5. Feed!Show(posting)
    BY <2>1, <2>2, <2>3, <2>4 DEF Feed!Show
  <2> QED
    BY <1>2, <2>1, <2>5, PostedKeepsInv DEF Feed!FeedNext
<1>3. CASE PostFails \/ PostTimesOut
  <2>1. UNCHANGED <<raised, posted>>
    BY <1>3 DEF PostFails, PostTimesOut
  <2> QED
    BY <1>3, <2>1, FailKeepsAlerts DEF Feed!feedVars, Members
<1>4. CASE ArrivesLate
  <2>1. PICK a \in gaveUp \ Members(posted) :
          /\ posted' = Append(posted, a)
          /\ UNCHANGED <<wellFormed, running, raised, channel, posting, gaveUp, dropped, lost>>
    BY <1>4 DEF ArrivesLate
  <2>2. AlertInv' /\ a \in 1..raised /\ Members(posted') = Members(posted) \cup {a}
    BY <2>1, ArrivalKeepsInv
  <2>3. gaveUp' \cap Members(posted') = (gaveUp \cap Members(posted)) \cup {a}
    BY <2>1, <2>2
  <2>4. Feed!Shown = Members(posted)
    BY DEF Feed!Shown, Members
  <2>5. Feed!ShowLate(a)
    BY <2>1, <2>3, <2>4 DEF Feed!ShowLate
  <2> QED
    BY <2>2, <2>5 DEF Feed!FeedNext
<1> QED
  BY <1>1, <1>2, <1>3, <1>4 DEF Report

-----------------------------------------------------------------------------
(* The store. *)

Known == listed \cup unlisted

Had == stored \cup gone

(* A key has its value or had it, or a SetSubmission is to give it one, or *)
(* nothing is promised of it.                                              *)
Covered(k) ==
  \/ k \in stored \cup gone \cup unpaired
  \/ \E w \in Workers : /\ call[w] # Idle
                        /\ call[w].op = "SetSubmission"
                        /\ call[w].key = k

(* SetSubmission has listed the key it goes on to store; what AddToSet     *)
(* lists has no value to come.                                             *)
CallOK(c) ==
  c # Idle =>
    /\ (c.op = "SetSubmission" /\ c.step = 2) => c.key \in Known
    /\ c.op = "AddToSet" => c.key \in unpaired

(* So it is with commands on the wire. *)
LateOK(c) ==
  /\ c.cmd \in {"SAdd", "SRem"} => c.key \in Keys
  /\ (c.cmd = "Set" /\ c.key \in Keys) => c.key \in Known
  /\ c.cmd = "SAdd" => Covered(c.key)

StoreInv ==
  /\ \A w \in Workers : CallOK(call[w])
  /\ \A c \in late : LateOK(c)
  /\ StoredIsListed
  /\ AckedIsStored
  /\ \A k \in listed : Covered(k)

IInv == TypeOK /\ AlertInv /\ StoreInv

(* The command of a call, by the helper it belongs to. *)
LEMMA CommandOfCall ==
  ASSUME TypeOK, NEW w \in Workers, call[w] # Idle, call[w].step > 0
  PROVE  /\ call[w] \in Calls
         /\ call[w].step \in 1..Len(CommandsOf(call[w].op))
         /\ Command(w).key = call[w].key
         /\ Command(w).key \in Keys \cup {Other, TheSet}
         /\ Command(w).cmd \in {"SAdd", "SRem"} => Command(w).key \in Keys
         /\ Command(w).cmd = "SAdd" => call[w].op \in {"SetSubmission", "AddToSet"}
         /\ (Command(w).cmd = "Set" /\ Command(w).key \in Keys) =>
              call[w].op = "SetSubmission" /\ call[w].step = 2
         /\ call[w].op = "SetSubmission" =>
              /\ Len(CommandsOf(call[w].op)) = 2
              /\ call[w].key \in Keys
              /\ call[w].step = 1 => Command(w).cmd = "SAdd"
              /\ call[w].step = 2 => Command(w).cmd = "Set"
<1> DEFINE op == call[w].op
<1>1. /\ call[w] \in Calls /\ op \in Ops /\ call[w].step \in 0..Len(CommandsOf(op))
      /\ call[w].key \in KeysOf(op)
  BY DEF TypeOK, Calls
<1>2. Command(w).key = call[w].key /\ Command(w).cmd = CommandsOf(op)[call[w].step]
  BY DEF Command
<1> HIDE DEF op
<1>3. CASE op = "SetSubmission"
  <2>1. CommandsOf(op) = <<"SAdd", "Set">> /\ KeysOf(op) = Keys
    BY <1>3 DEF CommandsOf, KeysOf
  <2>2. call[w].step \in 1..2 /\ Len(CommandsOf(op)) = 2
    BY <1>1, <2>1
  <2> QED
    BY <1>1, <1>2, <1>3, <2>1, <2>2 DEF op
<1>4. CASE op = "AddToSet"
  <2>1. CommandsOf(op) = <<"SAdd">> /\ KeysOf(op) = Keys
    BY <1>4 DEF CommandsOf, KeysOf
  <2> QED
    BY <1>1, <1>2, <1>4, <2>1 DEF op
<1>5. CASE op \in {"Set", "SetProcessLog"}
  <2>1. CommandsOf(op) = <<"Set">> /\ KeysOf(op) = {Other}
    BY <1>5 DEF CommandsOf, KeysOf
  <2> QED
    BY <1>1, <1>2, <1>5, <2>1, StoreAssumption DEF op
<1>6. CASE op = "RemoveFromSet"
  <2>1. CommandsOf(op) = <<"SRem">> /\ KeysOf(op) = Keys
    BY <1>6 DEF CommandsOf, KeysOf
  <2> QED
    BY <1>1, <1>2, <1>6, <2>1 DEF op
<1>7. CASE op = "Delete"
  <2>1. CommandsOf(op) = <<"Del">> /\ KeysOf(op) = Keys \cup {TheSet}
    BY <1>7 DEF CommandsOf, KeysOf
  <2> QED
    BY <1>1, <1>2, <1>7, <2>1 DEF op
<1>8. CASE op = "Get"
  <2>1. CommandsOf(op) = <<"Get">> /\ KeysOf(op) = {Other}
    BY <1>8 DEF CommandsOf, KeysOf
  <2> QED
    BY <1>1, <1>2, <1>8, <2>1 DEF op
<1>9. CASE op = "GetSetKeys"
  <2>1. CommandsOf(op) = <<"SMembers">> /\ KeysOf(op) = {TheSet}
    BY <1>9 DEF CommandsOf, KeysOf
  <2> QED
    BY <1>1, <1>2, <1>9, <2>1 DEF op
<1> QED
  BY <1>1, <1>3, <1>4, <1>5, <1>6, <1>7, <1>8, <1>9 DEF Ops

(* The server forgets no key it knew or had; what it lists or stores new   *)
(* is of the command.                                                      *)
LEMMA ExecuteEffect ==
  ASSUME TypeOK, NEW c, c.cmd \in {"SAdd", "SRem"} => c.key \in Keys, Execute(c)
  PROVE  /\ listed' \subseteq Keys /\ stored' \subseteq Keys
         /\ unlisted' \subseteq Keys /\ gone' \subseteq Keys
         /\ Known \subseteq Known' /\ Had \subseteq Had'
         /\ \A k \in listed' : k \in listed \/ (c.cmd = "SAdd" /\ k = c.key)
         /\ \A k \in stored' : k \in stored \/ (c.cmd = "Set" /\ k = c.key)
         /\ c.cmd = "SAdd" => c.key \in Known'
         /\ (c.cmd = "Set" /\ c.key \in Keys) => c.key \in Had'
<1> USE DEF Known, Had
<1>1. CASE c.cmd = "SAdd"
  BY <1>1 DEF Execute, TypeOK
<1>2. CASE c.cmd = "SRem"
  BY <1>2 DEF Execute, TypeOK
<1>3. CASE c.cmd = "Set" /\ c.key \in Keys
  BY <1>3 DEF Execute, TypeOK
<1>4. CASE c.cmd = "Del" /\ c.key \in Keys
  BY <1>4 DEF Execute, TypeOK
<1>5. CASE c.cmd = "Del" /\ c.key = TheSet /\ c.key \notin Keys
  BY <1>5 DEF Execute, TypeOK
<1>6. CASE /\ c.cmd \notin {"SAdd", "SRem"}
           /\ ~(c.cmd = "Set" /\ c.key \in Keys)
           /\ ~(c.cmd = "Del" /\ c.key \in Keys \cup {TheSet})
  BY <1>6 DEF Execute, serverVars, TypeOK
<1> QED
  BY <1>1, <1>2, <1>3, <1>4, <1>5, <1>6

(* What is not of the store stays as it is, and so does what is promised   *)
(* of it, while nothing is forgotten.                                      *)
LEMMA Monotone ==
  ASSUME StoreInv, Known \subseteq Known', Had \subseteq Had', unpaired \subseteq unpaired',
         \A k : Covered(k) => Covered(k)'
  PROVE  /\ \A c \in late : LateOK(c)'
         /\ \A w \in Workers : call'[w] = call[w] => CallOK(call[w])'
         /\ stored \subseteq Known' /\ acked \subseteq Known' \cap Had'
         /\ \A k \in listed : Covered(k)'
<1>1. stored \subseteq Known /\ acked \subseteq Known \cap Had
  BY DEF StoreInv, StoredIsListed, AckedIsStored, Known, Had
<1> QED
  BY <1>1 DEF StoreInv, LateOK, CallOK

LEMMA StartKeepsStore ==
  ASSUME TypeOK, StoreInv, NEW w \in Workers,
         MarshalFails(w) \/ \E op \in Ops : \E key \in KeysOf(op) : Start(w, op, key)
  PROVE  TypeOK' /\ StoreInv'
<1>1. PICK op \in Ops : \E key \in KeysOf(op), step \in {0, 1} :
        /\ call[w] = Idle
        /\ call' = [call EXCEPT ![w] = [op |-> op, step |-> step, key |-> key]]
        /\ unpaired' = IF op = "AddToSet" THEN unpaired \cup {key} ELSE unpaired
        /\ UNCHANGED <<wellFormed, running, alertVars, serverVars, late, acked>>
  <2>1. CASE MarshalFails(w)
    <3>1. "SetProcessLog" \in Ops /\ Other \in KeysOf("SetProcessLog")
      BY DEF Ops, KeysOf
    <3> QED
      BY <2>1, <3>1 DEF MarshalFails
  <2>2. CASE \E op \in Ops : \E key \in KeysOf(op) : Start(w, op, key)
    BY <2>2 DEF Start
  <2> QED
    BY <2>1, <2>2
<1>2. PICK key \in KeysOf(op), step \in {0, 1} :
        /\ call[w] = Idle
        /\ call' = [call EXCEPT ![w] = [op |-> op, step |-> step, key |-> key]]
        /\ unpaired' = IF op = "AddToSet" THEN unpaired \cup {key} ELSE unpaired
        /\ UNCHANGED <<wellFormed, running, alertVars, serverVars, late, acked>>
  BY <1>1
<1> DEFINE c == [op |-> op, step |-> step, key |-> key]
<1>3. /\ c \in Calls /\ c.op = op /\ c.step \in {0, 1} /\ c.key = key
      /\ op = "AddToSet" => key \in Keys
  <2>1. Len(CommandsOf(op)) \in Nat /\ Len(CommandsOf(op)) >= 1
    BY DEF Ops, CommandsOf
  <2>2. step \in 0..Len(CommandsOf(op))
    BY <2>1
  <2>3. c \in [op : {op}, step : 0..Len(CommandsOf(op)), key : KeysOf(op)]
    BY <2>2
  <2>4. op = "AddToSet" => key \in Keys
    BY DEF KeysOf
  <2> QED
    BY <2>3, <2>4 DEF Calls
<1>4. call'[w] = c /\ \A v \in Workers : v # w => call'[v] = call[v]
  BY <1>2 DEF TypeOK
<1>5. UNCHANGED <<wellFormed, running, raised, channel, posting, posted, gaveUp, dropped, lost>>
      /\ UNCHANGED <<listed, stored, unlisted, gone, late, acked>>
  BY <1>2 DEF alertVars, serverVars
<1> HIDE DEF c
<1>6. TypeOK'
  <2>1. call' \in [Workers -> Calls \cup {Idle}]
    BY <1>2, <1>3 DEF TypeOK, c
  <2>2. unpaired' \subseteq Keys
    BY <1>2, <1>3 DEF TypeOK
  <2> QED
    BY <1>5, <2>1, <2>2 DEF TypeOK, AlertsTypeOK
<1>7. \A k : Covered(k) => Covered(k)'
  BY <1>2, <1>4, <1>5 DEF Covered
<1>8. CallOK(c)'
  BY <1>2, <1>3 DEF CallOK
<1> QED
  BY <1>2, <1>4, <1>5, <1>6, <1>7, <1>8, Monotone
  DEF StoreInv, StoredIsListed, AckedIsStored, Known, Had

LEMMA AnsweredKeepsStore ==
  ASSUME TypeOK, StoreInv, NEW w \in Workers, Answered(w)
  PROVE  TypeOK' /\ StoreInv'
<1> DEFINE c == Command(w)
<1>1. /\ call[w] # Idle /\ call[w].step > 0 /\ Execute(c) /\ Succeed(w)
      /\ UNCHANGED <<wellFormed, running, raised, channel, posting, posted, gaveUp, dropped, lost>>
      /\ UNCHANGED <<late, unpaired>>
  BY DEF Answered, Calling, alertVars
<1>2. /\ call[w] \in Calls
      /\ call[w].step \in 1..Len(CommandsOf(call[w].op))
      /\ c.key = call[w].key
      /\ c.cmd \in {"SAdd", "SRem"} => c.key \in Keys
      /\ c.cmd = "SAdd" => call[w].op \in {"SetSubmission", "AddToSet"}
      /\ (c.cmd = "Set" /\ c.key \in Keys) => call[w].op = "SetSubmission" /\ call[w].step = 2
      /\ call[w].op = "SetSubmission" =>
           /\ Len(CommandsOf(call[w].op)) = 2
           /\ call[w].key \in Keys
           /\ call[w].step = 1 => c.cmd = "SAdd"
           /\ call[w].step = 2 => c.cmd = "Set"
  BY <1>1, CommandOfCall
<1> HIDE DEF c
<1>3. /\ listed' \subseteq Keys /\ stored' \subseteq Keys
      /\ unlisted' \subseteq Keys /\ gone' \subseteq Keys
      /\ Known \subseteq Known' /\ Had \subseteq Had'
      /\ \A k \in listed' : k \in listed \/ (c.cmd = "SAdd" /\ k = c.key)
      /\ \A k \in stored' : k \in stored \/ (c.cmd = "Set" /\ k = c.key)
      /\ c.cmd = "SAdd" => c.key \in Known'
      /\ (c.cmd = "Set" /\ c.key \in Keys) => c.key \in Had'
  BY <1>1, <1>2, ExecuteEffect
<1>4. /\ call' \in [Workers -> Calls \cup {Idle}]
      /\ \A v \in Workers : v # w => call'[v] = call[v]
      /\ \/ /\ call[w].step = Len(CommandsOf(call[w].op))
            /\ call'[w] = Idle
            /\ acked' = IF call[w].op = "SetSubmission" THEN acked \cup {call[w].key} ELSE acked
         \/ /\ call[w].step # Len(CommandsOf(call[w].op))
            /\ call'[w] \in Calls /\ call'[w] # Idle
            /\ call'[w].op = call[w].op /\ call'[w].key = call[w].key
            /\ call'[w].step = call[w].step + 1
            /\ acked' = acked
  <2>1. CASE call[w].step = Len(CommandsOf(call[w].op))
    BY <1>1, <2>1 DEF Succeed, TypeOK
  <2>2. CASE call[w].step # Len(CommandsOf(call[w].op))
    <3>1. call' = [call EXCEPT ![w] = [call[w] EXCEPT !.step = @ + 1]] /\ acked' = acked
      BY <1>1, <2>2 DEF Succeed
    <3>2. PICK op \in Ops :
            call[w] \in [op : {op}, step : 0..Len(CommandsOf(op)), key : KeysOf(op)]
      BY <1>2 DEF Calls
    <3>3. Len(CommandsOf(op)) \in Nat
      BY DEF Ops, CommandsOf
    <3>4. call[w].step + 1 \in 0..Len(CommandsOf(op))
      BY <1>2, <2>2, <3>2, <3>3
    <3>5. /\ [call[w] EXCEPT !.step = @ + 1] \in Calls
          /\ [call[w] EXCEPT !.step = @ + 1].op = call[w].op
          /\ [call[w] EXCEPT !.step = @ + 1].key = call[w].key
          /\ [call[w] EXCEPT !.step = @ + 1].step = call[w].step + 1
      BY <3>2, <3>4 DEF Calls
    <3> QED
      BY <2>2, <3>1, <3>5, IdleAssumption DEF TypeOK
  <2> QED
    BY <2>1, <2>2
<1>5. TypeOK'
  <2>1. acked' \subseteq Keys
    BY <1>2, <1>4 DEF TypeOK
  <2> QED
    BY <1>1, <1>3, <1>4, <2>1 DEF TypeOK, AlertsTypeOK
<1>6. call[w].op = "SetSubmission" => call[w].step \in {1, 2}
  <2> SUFFICES ASSUME call[w].op = "SetSubmission" PROVE call[w].step \in {1, 2}
    OBVIOUS
  <2>1. call[w].step \in 1..2
    BY <1>2
  <2> QED
    BY <2>1
<1>7. call[w].op = "SetSubmission" =>
        \/ call[w].step = 2 /\ c.key \in Known /\ c.key \in Had'
        \/ call[w].step = 1 /\ c.key \in Known' /\ call'[w] # Idle
           /\ call'[w].op = "SetSubmission" /\ call'[w].key = c.key
  BY <1>1, <1>2, <1>3, <1>4, <1>6 DEF StoreInv, CallOK
<1>8. ASSUME NEW k, Covered(k) PROVE Covered(k)'
  <2>1. CASE k \in stored \cup gone \cup unpaired
    BY <1>1, <1>3, <2>1 DEF Covered, Had
  <2>2. ASSUME NEW v \in Workers, call[v] # Idle, call[v].op = "SetSubmission", call[v].key = k
        PROVE  Covered(k)'
    <3>1. CASE v # w
      BY <1>4, <2>2, <3>1 DEF Covered
    <3>2. CASE v = w
      BY <1>2, <1>7, <2>2, <3>2 DEF Covered, Had
    <3> QED
      BY <3>1, <3>2
  <2> QED
    BY <1>8, <2>1, <2>2 DEF Covered
<1>9. /\ \A d \in late : LateOK(d)'
      /\ \A v \in Workers : v # w => CallOK(call[v])'
      /\ stored \subseteq Known' /\ acked \subseteq Known' \cap Had'
      /\ \A k \in listed : Covered(k)'
  BY <1>1, <1>3, <1>4, <1>8, Monotone
<1>10. stored' \subseteq Known'
  BY <1>2, <1>3, <1>7, <1>9
<1>11. acked' \subseteq Known' \cap Had'
  BY <1>2, <1>3, <1>4, <1>7, <1>9
<1>12. ASSUME NEW k \in listed' PROVE Covered(k)'
  <2>1. CASE k \in listed
    BY <1>9, <2>1
  <2>2. CASE c.cmd = "SAdd" /\ k = c.key /\ call[w].op = "SetSubmission"
    <3>1. call[w].step = 1
      BY <1>2, <1>6, <2>2
    <3> QED
      BY <1>7, <2>2, <3>1 DEF Covered
  <2>3. CASE c.cmd = "SAdd" /\ k = c.key /\ call[w].op = "AddToSet"
    BY <1>1, <1>2, <2>3 DEF StoreInv, CallOK, Covered
  <2> QED
    BY <1>2, <1>3, <1>12, <2>1, <2>2, <2>3
<1>13. CallOK(call[w])'
  <2>1. (call'[w] # Idle /\ call'[w].op = "SetSubmission") => call'[w].key \in Known'
    BY <1>2, <1>3, <1>4, <1>7
  <2>2. (call'[w] # Idle /\ call'[w].op = "AddToSet") => call'[w].key \in unpaired'
    BY <1>1, <1>4 DEF StoreInv, CallOK
  <2> QED
    BY <2>1, <2>2 DEF CallOK
<1>14. \A v \in Workers : CallOK(call[v])'
  <2>1. \A v \in Workers : v # w => (CallOK(call[v])' <=> CallOK(call[v])')
    OBVIOUS
  <2> QED
    BY <1>9, <1>13
<1> QED
  BY <1>1, <1>5, <1>9, <1>10, <1>11, <1>12, <1>14
  DEF StoreInv, StoredIsListed, AckedIsStored, Known, Had

(* A call's step to the alert keeps it a call. *)
LEMMA StepToAlert ==
  ASSUME NEW c \in Calls
  PROVE  LET d == [c EXCEPT !.step = 0]
         IN  d \in Calls /\ d # Idle /\ d.op = c.op /\ d.key = c.key /\ d.step = 0
<1>1. PICK op \in Ops :
        c \in [op : {op}, step : 0..Len(CommandsOf(op)), key : KeysOf(op)]
  BY DEF Calls
<1>2. 0 \in 0..Len(CommandsOf(op))
  BY DEF Ops, CommandsOf
<1> QED
  BY <1>1, <1>2, IdleAssumption DEF Calls

LEMMA OverdueKeepsStore ==
  ASSUME TypeOK, StoreInv, NEW w \in Workers, Overdue(w)
  PROVE  TypeOK' /\ StoreInv'
<1> DEFINE c == Command(w)
<1>1. /\ call[w] # Idle /\ call[w].step > 0 /\ c.cmd \in Writes
      /\ late' = late \cup {c}
      /\ UNCHANGED <<wellFormed, running, raised, channel, posting, posted, gaveUp, dropped, lost>>
      /\ UNCHANGED <<listed, stored, unlisted, gone, call, acked, unpaired>>
  BY DEF Overdue, Calling, alertVars, serverVars
<1>2. /\ c.key = call[w].key
      /\ c.key \in Keys \cup {Other, TheSet}
      /\ c.cmd \in {"SAdd", "SRem"} => c.key \in Keys
      /\ c.cmd = "SAdd" => call[w].op \in {"SetSubmission", "AddToSet"}
      /\ (c.cmd = "Set" /\ c.key \in Keys) => call[w].op = "SetSubmission" /\ call[w].step = 2
  BY <1>1, CommandOfCall
<1>3. c \in [cmd : Writes, key : Keys \cup {Other, TheSet}]
  BY <1>1, <1>2 DEF Command
<1> HIDE DEF c
<1>4. TypeOK'
  BY <1>1, <1>3 DEF TypeOK, AlertsTypeOK
<1>5. LateOK(c)
  BY <1>1, <1>2 DEF StoreInv, CallOK, LateOK, Covered
<1>6. ASSUME NEW d PROVE LateOK(d)' <=> LateOK(d)
  BY <1>1 DEF LateOK, Covered, Known
<1>7. \A v \in Workers : CallOK(call[v])' <=> CallOK(call[v])
  BY <1>1 DEF CallOK, Known
<1> QED
  BY <1>1, <1>4, <1>5, <1>6, <1>7 DEF StoreInv, StoredIsListed, AckedIsStored, Covered

(* A call that fails stays a call until it has told of it. *)
LEMMA FailureKeepsStore ==
  ASSUME TypeOK, StoreInv, AlertsTypeOK', NEW w \in Workers, GivesUp(w) \/ Fail(w)
  PROVE  TypeOK' /\ StoreInv'
<1>1. /\ call[w] # Idle /\ call[w] \in Calls
      /\ UNCHANGED <<listed, stored, unlisted, gone, late, acked>>
  BY DEF GivesUp, Fail, Calling, Failing, serverVars, TypeOK
<1>2. \/ /\ call' = [call EXCEPT ![w] = [call[w] EXCEPT !.step = 0]]
         /\ unpaired' = unpaired
      \/ /\ call' = [call EXCEPT ![w] = Idle]
         /\ unpaired' \in {unpaired, unpaired \cup {call[w].key}}
         /\ call[w].op = "SetSubmission" => call[w].key \in unpaired'
         /\ unpaired' # unpaired => call[w].op = "SetSubmission"
  BY DEF GivesUp, Fail, Alerting
<1>3. /\ \A v \in Workers : v # w => call'[v] = call[v]
      /\ call' \in [Workers -> Calls \cup {Idle}]
      /\ \/ /\ call'[w] # Idle /\ call'[w].step = 0
            /\ call'[w].op = call[w].op /\ call'[w].key = call[w].key
            /\ unpaired' = unpaired
         \/ /\ call'[w] = Idle
            /\ unpaired' \in {unpaired, unpaired \cup {call[w].key}}
            /\ call[w].op = "SetSubmission" => call[w].key \in unpaired'
  <2>1. CASE call' = [call EXCEPT ![w] = [call[w] EXCEPT !.step = 0]] /\ unpaired' = unpaired
    BY <1>1, <2>1, StepToAlert DEF TypeOK
  <2>2. CASE call' = [call EXCEPT ![w] = Idle]
    BY <1>1, <1>2, <2>2, StepToAlert DEF TypeOK
  <2> QED
    BY <1>2, <2>1, <2>2
<1>4. TypeOK'
  <2>1. call[w].op = "SetSubmission" => call[w].key \in Keys
    BY <1>1 DEF Calls, KeysOf
  <2>2. unpaired' \subseteq Keys
    BY <1>2, <2>1 DEF TypeOK
  <2> QED
    BY <1>1, <1>3, <2>2 DEF TypeOK
<1>5. ASSUME NEW k, Covered(k) PROVE Covered(k)'
  BY <1>1, <1>3, <1>5 DEF Covered
<1>6. CallOK(call[w])'
  BY <1>1, <1>3 DEF StoreInv, CallOK
<1>7. unpaired \subseteq unpaired' /\ Known' = Known /\ Had' = Had
  BY <1>1, <1>3 DEF Known, Had
<1>8. /\ \A d \in late : LateOK(d)'
      /\ \A v \in Workers : v # w => CallOK(call[v])'
      /\ stored \subseteq Known' /\ acked \subseteq Known' \cap Had'
      /\ \A k \in listed : Covered(k)'
  BY <1>3, <1>5, <1>7, Monotone
<1> QED
  BY <1>1, <1>4, <1>6, <1>8 DEF StoreInv, StoredIsListed, AckedIsStored, Known, Had

LEMMA LateKeepsStore ==
  ASSUME TypeOK, StoreInv, LateArrival
  PROVE  TypeOK' /\ StoreInv'
<1>1. PICK c \in late :
        /\ Execute(c) /\ late' \in {late, late \ {c}}
        /\ UNCHANGED <<wellFormed, running, alertVars, call, acked, unpaired>>
  BY DEF LateArrival
<1>2. LateOK(c)
  BY DEF StoreInv
<1>3. /\ listed' \subseteq Keys /\ stored' \subseteq Keys
      /\ unlisted' \subseteq Keys /\ gone' \subseteq Keys
      /\ Known \subseteq Known' /\ Had \subseteq Had'
      /\ \A k \in listed' : k \in listed \/ (c.cmd = "SAdd" /\ k = c.key)
      /\ \A k \in stored' : k \in stored \/ (c.cmd = "Set" /\ k = c.key)
  BY <1>1, <1>2, ExecuteEffect DEF LateOK
<1>4. TypeOK'
  BY <1>1, <1>3 DEF TypeOK, AlertsTypeOK, alertVars
<1>5. \A k : Covered(k) => Covered(k)'
  BY <1>1, <1>3 DEF Covered, Had
<1>6. /\ \A d \in late : LateOK(d)'
      /\ \A v \in Workers : CallOK(call[v])'
      /\ stored \subseteq Known' /\ acked \subseteq Known' \cap Had'
      /\ \A k \in listed : Covered(k)'
  BY <1>1, <1>3, <1>5, Monotone
<1>7. stored' \subseteq Known'
  BY <1>2, <1>3, <1>6 DEF LateOK
<1>8. \A k \in listed' : Covered(k)'
  BY <1>2, <1>3, <1>5, <1>6 DEF LateOK
<1> QED
  BY <1>1, <1>4, <1>6, <1>7, <1>8 DEF StoreInv, StoredIsListed, AckedIsStored, Known, Had

LEMMA ExpiryKeepsStore ==
  ASSUME TypeOK, StoreInv, ValueExpires
  PROVE  TypeOK' /\ StoreInv'
<1>1. PICK k \in stored :
        /\ stored' = stored \ {k} /\ gone' = gone \cup {k}
        /\ UNCHANGED <<wellFormed, running, raised, channel, posting, posted, gaveUp, dropped, lost>>
        /\ UNCHANGED <<listed, unlisted, call, late, acked, unpaired>>
  BY DEF ValueExpires, alertVars
<1>2. TypeOK'
  BY <1>1 DEF TypeOK, AlertsTypeOK
<1>3. Known' = Known /\ Had \subseteq Had' /\ \A j : Covered(j) => Covered(j)'
  BY <1>1 DEF Known, Had, Covered
<1>4. /\ \A d \in late : LateOK(d)'
      /\ \A v \in Workers : CallOK(call[v])'
      /\ stored \subseteq Known' /\ acked \subseteq Known' \cap Had'
      /\ \A j \in listed : Covered(j)'
  BY <1>1, <1>3, Monotone
<1> QED
  BY <1>1, <1>2, <1>4 DEF StoreInv, StoredIsListed, AckedIsStored, Known, Had

(* The process ends, and calls of SetSubmission with it. *)
LEMMA EndKeepsStore ==
  ASSUME TypeOK, StoreInv, AlertsTypeOK', End
  PROVE  TypeOK' /\ StoreInv'
<1>1. /\ call' = [w \in Workers |-> Idle]
      /\ unpaired' = unpaired \cup {call[w].key :
                 w \in {v \in Workers : call[v] # Idle /\ call[v].op = "SetSubmission"}}
      /\ UNCHANGED <<listed, stored, unlisted, gone, late, acked>>
  BY DEF End, serverVars
<1>2. \A w \in Workers : (call[w] # Idle /\ call[w].op = "SetSubmission") => call[w].key \in Keys
  <2> SUFFICES ASSUME NEW w \in Workers, call[w] # Idle, call[w].op = "SetSubmission"
               PROVE  call[w].key \in Keys
    OBVIOUS
  <2>1. call[w] \in Calls
    BY DEF TypeOK
  <2> QED
    BY <2>1 DEF Calls, KeysOf
<1>3. TypeOK'
  <2>1. unpaired' \subseteq Keys
    BY <1>1, <1>2 DEF TypeOK
  <2> QED
    BY <1>1, <2>1 DEF TypeOK
<1>4. Known' = Known /\ Had' = Had /\ unpaired \subseteq unpaired'
      /\ \A k : Covered(k) => Covered(k)'
  BY <1>1 DEF Known, Had, Covered
<1>5. /\ \A d \in late : LateOK(d)'
      /\ stored \subseteq Known' /\ acked \subseteq Known' \cap Had'
      /\ \A k \in listed : Covered(k)'
  BY <1>4, Monotone
<1>6. \A v \in Workers : CallOK(call[v])'
  BY <1>1 DEF CallOK
<1> QED
  BY <1>1, <1>3, <1>5, <1>6 DEF StoreInv, StoredIsListed, AckedIsStored, Known, Had

(* The alerts alone move. *)
LEMMA OthersKeepStore ==
  ASSUME TypeOK, StoreInv, AlertsTypeOK', UNCHANGED storeVars
  PROVE  TypeOK' /\ StoreInv'
  BY DEF storeVars, serverVars, TypeOK, StoreInv, StoredIsListed, AckedIsStored,
         CallOK, LateOK, Covered, Known

-----------------------------------------------------------------------------
(* The invariant. *)

LEMMA InitInv == Init => IInv
<1> SUFFICES ASSUME Init PROVE IInv
  OBVIOUS
<1>1. AlertInv
  BY AlertInitInv DEF Init
<1> QED
  BY <1>1 DEF Init, IInv, AlertInv, TypeOK, StoreInv, CallOK, StoredIsListed, AckedIsStored

LEMMA SameAlerts ==
  ASSUME AlertInv, UNCHANGED alertVars, running' \in BOOLEAN, wellFormed' = wellFormed
  PROVE  AlertInv'
<1>1. UNCHANGED <<raised, channel, posting, posted, gaveUp, dropped, lost>>
  BY DEF alertVars
<1>2. AlertsTypeOK' /\ OrderOK' /\ Feed!FeedInOrder'
  BY <1>1, SameFeed DEF AlertInv, AlertsTypeOK, OrderOK, Increasing
<1> QED
  BY <1>1, <1>2 DEF AlertInv, AtOnePlace, InHand

(* A step keeps the invariant and is a step of the feed, or changes        *)
(* nothing that the feed shows.                                            *)
LEMMA StepInv == IInv /\ [Next]_vars => IInv' /\ [Feed!FeedNext]_Feed!feedVars
<1> SUFFICES ASSUME IInv, [Next]_vars
             PROVE  IInv' /\ [Feed!FeedNext]_Feed!feedVars
  OBVIOUS
<1>1. TypeOK /\ AlertInv /\ StoreInv
  BY DEF IInv
<1>2. ASSUME UNCHANGED alertVars, running' \in BOOLEAN, wellFormed' = wellFormed
      PROVE  AlertInv' /\ AlertsTypeOK' /\ UNCHANGED Feed!feedVars
  BY <1>1, <1>2, SameAlerts DEF AlertInv, Feed!feedVars, alertVars, Members
<1>3. running \in BOOLEAN
  BY <1>1 DEF TypeOK, AlertsTypeOK
<1>4. ASSUME NEW w \in Workers,
             MarshalFails(w) \/ \E op \in Ops : \E key \in KeysOf(op) : Start(w, op, key)
      PROVE  IInv' /\ [Feed!FeedNext]_Feed!feedVars
  <2>1. UNCHANGED <<wellFormed, running, alertVars>>
    BY <1>4 DEF MarshalFails, Start
  <2> QED
    BY <1>1, <1>2, <1>3, <1>4, <2>1, StartKeepsStore DEF IInv
<1>5. ASSUME NEW w \in Workers, Answered(w) \/ Overdue(w) \/ GivesUp(w)
      PROVE  IInv' /\ [Feed!FeedNext]_Feed!feedVars
  <2>1. UNCHANGED <<wellFormed, running, alertVars>>
    BY <1>5 DEF Answered, Overdue, GivesUp
  <2> QED
    BY <1>1, <1>2, <1>3, <1>5, <2>1, AnsweredKeepsStore, OverdueKeepsStore,
       FailureKeepsStore DEF IInv
<1>6. ASSUME NEW w \in Workers, Fail(w)
      PROVE  IInv' /\ [Feed!FeedNext]_Feed!feedVars
  <2>1. AlertInv' /\ AlertsTypeOK'
    BY <1>1, <1>6, RaiseKeepsInv DEF Fail, AlertInv
  <2>2. Feed!Raise
    BY <1>6 DEF Fail, SendFailureNotification, Feed!Raise, Members
  <2> QED
    BY <1>1, <1>6, <2>1, <2>2, FailureKeepsStore DEF IInv, Feed!FeedNext
<1>7. CASE (Report \/ ArrivesLate) /\ UNCHANGED storeVars
  BY <1>1, <1>7, ReporterIsFeedStep, OthersKeepStore DEF IInv, AlertInv
<1>8. CASE LateArrival \/ ValueExpires
  <2>1. UNCHANGED <<wellFormed, running, alertVars>>
    BY <1>8 DEF LateArrival, ValueExpires
  <2> QED
    BY <1>1, <1>2, <1>3, <1>8, <2>1, LateKeepsStore, ExpiryKeepsStore DEF IInv
<1>9. CASE End
  <2>1. AlertInv' /\ AlertsTypeOK'
    BY <1>1, <1>9, EndKeepsAlerts DEF End, AlertInv
  <2>2. UNCHANGED Feed!feedVars
    BY <1>9 DEF End, EndAlerts, Feed!feedVars, Members
  <2> QED
    BY <1>1, <1>9, <2>1, <2>2, EndKeepsStore DEF IInv
<1>10. CASE Restart \/ UNCHANGED vars
  <2>1. UNCHANGED <<wellFormed, alertVars, storeVars>> /\ running' \in BOOLEAN
    BY <1>3, <1>10 DEF Restart, vars
  <2> QED
    BY <1>1, <1>2, <2>1, OthersKeepStore DEF IInv
<1> QED
  BY <1>4, <1>5, <1>6, <1>7, <1>8, <1>9, <1>10 DEF Next, Worker, Return, Reporter

THEOREM Invariance == Spec => []IInv
  BY InitInv, StepInv, PTL DEF Spec

(* Every variable keeps its type, and SequencerAlertsChannel its capacity. *)
THEOREM TypeCorrect == Spec => []TypeOK
<1>1. IInv => TypeOK
  BY DEF IInv
<1> QED
  BY <1>1, Invariance, PTL

(* Whatever the helpers of redis/client.go do in whatever order, with late *)
(* commands and ends of the process, a submission that has its value is    *)
(* listed, or was taken out of the set.                                    *)
THEOREM StoredAreListed == Spec => []StoredIsListed
<1>1. IInv => StoredIsListed
  BY DEF IInv, StoreInv
<1> QED
  BY <1>1, Invariance, PTL

(* What SetSubmission returned no error for is listed and stored, but for  *)
(* what was removed or expired.                                            *)
THEOREM AckedAreStored == Spec => []AckedIsStored
<1>1. IInv => AckedIsStored
  BY DEF IInv, StoreInv
<1> QED
  BY <1>1, Invariance, PTL

(* The set has no member without a value that no failed SetSubmission or   *)
(* AddToSet explains.                                                      *)
THEOREM MembersHaveValues == Spec => []MemberHasValue
<1>1. IInv => MemberHasValue
  BY DEF IInv, StoreInv, Covered, MemberHasValue
<1> QED
  BY <1>1, Invariance, PTL

(* Every alert raised is in the channel, with the reporter, on the wire,   *)
(* shown, dropped or lost, and in one of them only.                        *)
THEOREM AllAccounted == Spec => []AlertsAccounted
<1>1. IInv => AlertsAccounted
  BY AccountedIsOnePlace DEF IInv, AlertInv
<1> QED
  BY <1>1, Invariance, PTL

(* The channel, the reporter and its timeout implement the feed: an alert  *)
(* is shown at most once, and in the order raised unless it was late.      *)
THEOREM FeedImplemented == Spec => FeedSpec
<1>1. Init => Feed!FeedInit
  BY DEF Init, AlertsInit, Feed!FeedInit, Members
<1> QED
  BY <1>1, StepInv, Invariance, PTL DEF Spec, FeedSpec, Feed!FeedSpec

(* So the reader of the reporting channel sees no alert twice, and those   *)
(* shown in time in order.                                                 *)
THEOREM FeedIsInOrder == Spec => []Feed!FeedInOrder
<1>1. IInv => Feed!FeedInOrder
  BY DEF IInv, AlertInv
<1> QED
  BY <1>1, Invariance, PTL

-----------------------------------------------------------------------------
(* Calls run down. *)

LEMMA StepsOfCall ==
  ASSUME TypeOK, NEW w \in Workers, call[w] # Idle
  PROVE  /\ call[w] \in Calls
         /\ Len(CommandsOf(call[w].op)) \in Nat
         /\ call[w].step \in 0..Len(CommandsOf(call[w].op))
         /\ StepsLeft(w) \in Nat /\ StepsLeft(w) >= 1
<1>1. call[w] \in Calls
  BY DEF TypeOK
<1>2. PICK op \in Ops :
        call[w] \in [op : {op}, step : 0..Len(CommandsOf(op)), key : KeysOf(op)]
  BY <1>1 DEF Calls
<1>3. Len(CommandsOf(op)) \in Nat
  BY DEF Ops, CommandsOf
<1>4. call[w].op = op /\ call[w].step \in 0..Len(CommandsOf(op))
  BY <1>2
<1>5. StepsLeft(w) \in Nat /\ StepsLeft(w) >= 1
  BY <1>3, <1>4 DEF StepsLeft
<1> QED
  BY <1>1, <1>3, <1>4, <1>5

(* What is left of call w is less than it was. *)
MovedOn(w) ==
  \/ call'[w] = call[w]
  \/ /\ StepsLeft(w)' \in 0..(StepsLeft(w) - 1)
     /\ \/ call'[w] = Idle
        \/ call'[w].op = call[w].op /\ call'[w].key = call[w].key

LEMMA EndedMovesOn ==
  ASSUME TypeOK, NEW w \in Workers, call[w] # Idle, call'[w] = Idle
  PROVE  MovedOn(w)
<1>1. StepsLeft(w)' = 0
  BY DEF StepsLeft
<1>2. 0 \in 0..(StepsLeft(w) - 1)
  BY StepsOfCall
<1> QED
  BY <1>1, <1>2 DEF MovedOn

LEMMA ReturnMovesOn ==
  ASSUME TypeOK, NEW w \in Workers, call[w] # Idle, Return(w)
  PROVE  MovedOn(w) /\ \A v \in Workers : v # w => call'[v] = call[v]
<1> DEFINE n == Len(CommandsOf(call[w].op))
<1>1. call[w] \in Calls /\ n \in Nat /\ call[w].step \in 0..n
  BY StepsOfCall
<1>2. ASSUME NEW step \in 0..n, call' = [call EXCEPT ![w] = [call[w] EXCEPT !.step = step]]
      PROVE  /\ \A v \in Workers : v # w => call'[v] = call[v]
             /\ call'[w] # Idle /\ call'[w].step = step
             /\ call'[w].op = call[w].op /\ call'[w].key = call[w].key
  <2>1. call'[w] = [call[w] EXCEPT !.step = step] /\ \A v \in Workers : v # w => call'[v] = call[v]
    BY <1>2 DEF TypeOK
  <2>2. PICK op \in Ops :
          call[w] \in [op : {op}, step : 0..Len(CommandsOf(op)), key : KeysOf(op)]
    BY <1>1 DEF Calls
  <2>3. /\ call'[w] \in [op : {op}, step : 0..Len(CommandsOf(op)), key : KeysOf(op)]
        /\ call'[w].step = step /\ call'[w].op = call[w].op /\ call'[w].key = call[w].key
    BY <1>2, <2>1, <2>2
  <2>4. call'[w] \in Calls
    BY <2>3 DEF Calls
  <2> QED
    BY <2>1, <2>3, <2>4, IdleAssumption
<1>3. CASE call' = [call EXCEPT ![w] = Idle]
  <2>1. call'[w] = Idle /\ \A v \in Workers : v # w => call'[v] = call[v]
    BY <1>3 DEF TypeOK
  <2> QED
    BY <2>1, EndedMovesOn
<1>4. CASE call' = [call EXCEPT ![w].step = @ + 1] /\ call[w].step > 0 /\ call[w].step # n
  <2> DEFINE step == call[w].step + 1
  <2>1. step \in 0..n /\ step # 0
    BY <1>1, <1>4
  <2>2. call' = [call EXCEPT ![w] = [call[w] EXCEPT !.step = step]]
    BY <1>4
  <2>3. /\ \A v \in Workers : v # w => call'[v] = call[v]
        /\ call'[w] # Idle /\ call'[w].step = step
        /\ call'[w].op = call[w].op /\ call'[w].key = call[w].key
    BY <1>2, <2>1, <2>2
  <2>4. StepsLeft(w) = 2 + n - call[w].step
    BY <1>4, <1>1 DEF StepsLeft
  <2>5. StepsLeft(w)' = 2 + n - step
    BY <2>1, <2>3 DEF StepsLeft
  <2>6. StepsLeft(w)' \in 0..(StepsLeft(w) - 1)
    BY <1>1, <2>1, <2>4, <2>5
  <2> QED
    BY <2>3, <2>6 DEF MovedOn
<1>5. CASE call' = [call EXCEPT ![w].step = 0] /\ call[w].step > 0
  <2>1. 0 \in 0..n
    BY <1>1
  <2>2. call' = [call EXCEPT ![w] = [call[w] EXCEPT !.step = 0]]
    BY <1>5
  <2>3. /\ \A v \in Workers : v # w => call'[v] = call[v]
        /\ call'[w] # Idle /\ call'[w].step = 0
        /\ call'[w].op = call[w].op /\ call'[w].key = call[w].key
    BY <1>2, <2>1, <2>2
  <2>4. StepsLeft(w) = 2 + n - call[w].step /\ StepsLeft(w)' = 1
    BY <1>1, <1>5, <2>3 DEF StepsLeft
  <2>5. StepsLeft(w)' \in 0..(StepsLeft(w) - 1)
    BY <1>1, <1>5, <2>4
  <2> QED
    BY <2>3, <2>5 DEF MovedOn
<1>6. CASE Answered(w)
  BY <1>3, <1>4, <1>6 DEF Answered, Succeed, Calling
<1>7. CASE GivesUp(w)
  BY <1>3, <1>5, <1>7 DEF GivesUp, Calling
<1>8. CASE Fail(w)
  BY <1>3, <1>8 DEF Fail
<1> QED
  BY <1>6, <1>7, <1>8 DEF Return

(* Every step leaves every call as it is, or with less to do: the safety   *)
(* core of CallsReturn, for any number of workers and any keys.            *)
THEOREM RunDown == Spec => CallsRunDown
<1>1. ASSUME TypeOK, [Next]_vars, NEW w \in Workers, call[w] # Idle
      PROVE  MovedOn(w)
  <2>1. ASSUME NEW v \in Workers, Worker(v)
        PROVE  MovedOn(w)
    <3>1. CASE call[v] = Idle
      <4>1. \/ Overdue(v)
            \/ Return(v)
            \/ \E c : call' = [call EXCEPT ![v] = c]
        BY <2>1 DEF Worker, Start, MarshalFails
      <4>2. ~Overdue(v) /\ ~Return(v)
        BY <3>1 DEF Overdue, Return, Answered, GivesUp, Fail, Calling, Failing
      <4>3. w # v
        BY <1>1, <3>1
      <4> QED
        BY <4>1, <4>2, <4>3, <1>1 DEF MovedOn, TypeOK
    <3>2. CASE call[v] # Idle
      <4>1. Return(v) \/ UNCHANGED call
        BY <2>1, <3>2 DEF Worker, Start, MarshalFails, Overdue
      <4>2. CASE Return(v)
        BY <1>1, <3>2, <4>2, ReturnMovesOn DEF MovedOn
      <4> QED
        BY <4>1, <4>2 DEF MovedOn
    <3> QED
      BY <3>1, <3>2
  <2>2. CASE End
    <3>1. call'[w] = Idle
      BY <2>2 DEF End
    <3> QED
      BY <1>1, <3>1, EndedMovesOn
  <2>3. CASE UNCHANGED call
    BY <2>3 DEF MovedOn
  <2>4. CASE Reporter \/ (ArrivesLate /\ UNCHANGED storeVars) \/ LateArrival \/ ValueExpires \/ Restart
    BY <2>2, <2>3, <2>4 DEF Reporter, LateArrival, ValueExpires, Restart, storeVars
  <2>5. CASE UNCHANGED vars
    BY <2>3, <2>5 DEF vars, storeVars
  <2> QED
    BY <1>1, <2>1, <2>2, <2>4, <2>5 DEF Next
<1>2. IInv /\ [Next]_vars =>
        [\A w \in Workers : call[w] # Idle =>
           \/ call'[w] = call[w]
           \/ /\ StepsLeft(w)' \in 0..(StepsLeft(w) - 1)
              /\ \/ call'[w] = Idle
                 \/ call'[w].op = call[w].op /\ call'[w].key = call[w].key]_vars
  BY <1>1 DEF IInv, MovedOn
<1> QED
  BY <1>2, Invariance, PTL DEF Spec, CallsRunDown

=============================================================================
