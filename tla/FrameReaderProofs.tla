-------------------------- MODULE FrameReaderProofs --------------------------
(* What the reader does with the messages of a stream, for every length of *)
(* ID and buffer and every layout of messages.                             *)
EXTENDS FrameReader, TLAPS

(* Messages do not overlap, and their bytes are all the bytes sent. *)
LEMMA LayoutFacts ==
  ASSUME ends \in Layouts
  PROVE  /\ ends \in Seq(Nat) /\ Messages = 1..Len(ends) /\ Len(ends) \in Nat
         /\ Sent \in Nat
         /\ \A m \in Messages :
              /\ m \in Nat /\ Start(m) \in Nat /\ Finish(m) \in Nat
              /\ Start(m) + IdLen < Finish(m) /\ Finish(m) <= Sent
              /\ Finish(m) = Sent => m = Len(ends)
         /\ \A m, k \in Messages :
              m < k => Finish(m) <= Start(k) /\ Start(m) < Start(k) /\ Finish(m) < Finish(k)
<1>1. /\ ends \in Seq(Nat)
      /\ \A m \in DOMAIN ends : IdLen < ends[m]
      /\ \A m, k \in DOMAIN ends : m < k => ends[m] + IdLen < ends[k]
  BY LayoutsAssumption DEF Layout
<1>2. Messages = 1..Len(ends) /\ Len(ends) \in Nat
  BY <1>1 DEF Messages
<1>3. \A m \in Messages : ends[m] \in Nat
  BY <1>1 DEF Messages
<1>4. Sent \in Nat
  BY <1>1, <1>2, <1>3 DEF Sent
<1>5. ASSUME NEW m \in Messages
      PROVE  /\ m \in Nat /\ Start(m) \in Nat /\ Finish(m) \in Nat
             /\ Start(m) + IdLen < Finish(m) /\ Finish(m) <= Sent
             /\ Finish(m) = Sent => m = Len(ends)
  <2>1. m \in Nat /\ Start(m) \in Nat /\ Finish(m) \in Nat
    BY <1>2, <1>3 DEF Start, Finish
  <2>2. Start(m) + IdLen < Finish(m)
    BY <1>1, <1>2, <1>3, LengthsAssumption DEF Start, Finish, Messages
  <2>3. Finish(m) <= Sent /\ (Finish(m) = Sent => m = Len(ends))
    <3>1. Sent = ends[Len(ends)] /\ Len(ends) \in Messages
      BY <1>1, <1>2 DEF Sent
    <3>2. m = Len(ends) \/ m < Len(ends)
      BY <1>2
    <3> QED
      BY <1>1, <1>3, <3>1, <3>2, LengthsAssumption DEF Finish, Messages
  <2> QED
    BY <2>1, <2>2, <2>3
<1>6. ASSUME NEW m \in Messages, NEW k \in Messages, m < k
      PROVE  Finish(m) <= Start(k) /\ Start(m) < Start(k) /\ Finish(m) < Finish(k)
  <2>1. k # 1 /\ k - 1 \in Messages /\ (m = k - 1 \/ m < k - 1) /\ Start(k) = ends[k - 1]
    BY <1>2, <1>6 DEF Start
  <2>2. Finish(m) <= Start(k)
    BY <1>1, <1>3, <2>1, LengthsAssumption DEF Finish, Messages
  <2> QED
    BY <1>5, <2>2, LengthsAssumption
<1> QED
  BY <1>1, <1>2, <1>4, <1>5, <1>6

(* A read takes some bytes of those that were sent. *)
LEMMA ChunkFacts ==
  ASSUME TypeOK, NEW n, Chunk(n)
  PROVE  n \in 1..BufLen /\ pos \in Nat /\ pos + n \in 1..Sent
<1>1. n \in 1..BufLen /\ pos + n <= Sent
  BY DEF Chunk, Given
<1>2. pos \in Nat /\ Sent \in Nat
  BY LayoutFacts DEF TypeOK
<1> QED
  BY <1>1, <1>2, LengthsAssumption

-----------------------------------------------------------------------------
(* Order, however the bytes are cut. *)

(* What was decoded as a whole ends before the next byte, and what was     *)
(* decoded out of a message begins before it.                              *)
BehindPos ==
  \A i \in DOMAIN decoded :
    /\ decoded[i].msg \in Messages
    /\ decoded[i].ownId => Finish(decoded[i].msg) <= pos
    /\ ~decoded[i].ownId => Start(decoded[i].msg) < pos

OrderInv == TypeOK /\ BehindPos /\ InOrder

LEMMA OrderInit == Init => OrderInv
<1> SUFFICES ASSUME Init PROVE OrderInv
  OBVIOUS
<1>1. TypeOK
  <2>1. Sent \in Nat
    BY LayoutFacts DEF Init
  <2> QED
    BY <2>1, LengthsAssumption DEF Init, TypeOK
<1> QED
  BY <1>1 DEF Init, OrderInv, BehindPos, InOrder

(* Reading on without decoding anything. *)
LEMMA OrderSkip ==
  ASSUME OrderInv, NEW n \in 0..BufLen, pos + n <= Sent,
         pos' = pos + n, UNCHANGED <<ends, segmented, decoded>>,
         state' \in {"reading", "closed", "panicked"}, unhandled' \in 0..BufLen
  PROVE  OrderInv'
<1>1. TypeOK /\ BehindPos /\ InOrder
  BY DEF OrderInv
<1>2. pos \in Nat /\ pos' \in Nat /\ pos <= pos' /\ pos' <= Sent /\ Sent \in Nat
  BY <1>1, LayoutFacts, LengthsAssumption DEF TypeOK
<1>3. TypeOK'
  BY <1>1, <1>2 DEF TypeOK, Sent
<1>4. BehindPos'
  <2> SUFFICES ASSUME NEW i \in DOMAIN decoded
               PROVE  /\ decoded[i].msg \in Messages
                      /\ decoded[i].ownId => Finish(decoded[i].msg) <= pos'
                      /\ ~decoded[i].ownId => Start(decoded[i].msg) < pos'
    BY DEF BehindPos, Messages, Start, Finish
  <2>1. decoded[i].msg \in Messages
    BY <1>1 DEF BehindPos
  <2>2. Start(decoded[i].msg) \in Nat /\ Finish(decoded[i].msg) \in Nat
    BY <1>1, <2>1, LayoutFacts DEF TypeOK
  <2> QED
    BY <1>1, <1>2, <2>1, <2>2 DEF BehindPos
<1>5. InOrder'
  BY <1>1 DEF InOrder
<1> QED
  BY <1>3, <1>4, <1>5 DEF OrderInv

LEMMA OrderDecode ==
  ASSUME OrderInv, NEW n \in 1..BufLen, ReadSubmission(n) \/ ReadNested(n)
  PROVE  OrderInv'
<1>1. TypeOK /\ BehindPos /\ InOrder
  BY DEF OrderInv
<1>2. PICK m \in Messages, own \in BOOLEAN :
        /\ own => Whole(m, n)
        /\ ~own => Nested(m, n)
        /\ decoded' = Append(decoded, [msg |-> m, ownId |-> own])
  BY DEF ReadSubmission, ReadNested
<1>3. /\ pos' = pos + n /\ pos \in Nat /\ pos' \in 1..Sent /\ Sent \in Nat
      /\ UNCHANGED <<ends, segmented, unhandled>>
      /\ state' \in {"reading", "closed", "panicked"}
  BY <1>1, ChunkFacts, LayoutFacts DEF ReadSubmission, ReadNested, TypeOK
<1>4. /\ m \in Nat /\ Start(m) \in Nat /\ Finish(m) \in Nat /\ Start(m) < Finish(m)
      /\ \A k \in Messages :
           /\ k \in Nat /\ Start(k) \in Nat /\ Finish(k) \in Nat
           /\ m < k => Start(m) < Start(k) /\ Finish(m) < Finish(k) /\ Finish(m) <= Start(k)
  <2>1. \A k \in Messages : k \in Nat /\ Start(k) \in Nat /\ Finish(k) \in Nat
    BY <1>1, LayoutFacts DEF TypeOK
  <2>2. Start(m) + IdLen < Finish(m)
    BY <1>1, LayoutFacts DEF TypeOK
  <2>3. \A k \in Messages :
          m < k => Start(m) < Start(k) /\ Finish(m) < Finish(k) /\ Finish(m) <= Start(k)
    BY <1>1, LayoutFacts DEF TypeOK
  <2> QED
    BY <2>1, <2>2, <2>3, LengthsAssumption
<1> DEFINE e == [msg |-> m, ownId |-> own]
           d == Len(decoded)
<1>5. e \in Decoded
  BY <1>4 DEF Decoded
<1>6. /\ decoded' \in Seq(Decoded) /\ d \in Nat
      /\ DOMAIN decoded = 1..d /\ DOMAIN decoded' = 1..(d + 1)
      /\ \A i \in 1..d : decoded'[i] = decoded[i]
      /\ decoded'[d + 1] = e /\ e.msg = m /\ e.ownId = own
  BY <1>1, <1>2, <1>5 DEF TypeOK
<1> HIDE DEF d, e
<1>7. TypeOK'
  BY <1>1, <1>3, <1>6 DEF TypeOK, Sent
<1>8. BehindPos'
  <2>1. own => Finish(m) <= pos'
    BY <1>2, <1>3, <1>4 DEF Whole
  <2>2. ~own => Start(m) < pos'
    BY <1>2, <1>3, <1>4 DEF Nested
  <2>3. ASSUME NEW i \in 1..d
        PROVE  /\ decoded[i].msg \in Messages
               /\ decoded[i].ownId => Finish(decoded[i].msg) <= pos'
               /\ ~decoded[i].ownId => Start(decoded[i].msg) < pos'
    <3> DEFINE k == decoded[i].msg
    <3>1. k \in Messages
      BY <1>1, <1>6 DEF BehindPos
    <3>2. (decoded[i].ownId => Finish(k) <= pos) /\ (~decoded[i].ownId => Start(k) < pos)
      BY <1>1, <1>6 DEF BehindPos
    <3>3. Start(k) \in Nat /\ Finish(k) \in Nat /\ pos < pos'
      <4>1. pos < pos'
        BY <1>3, LengthsAssumption
      <4> QED
        BY <1>4, <3>1, <4>1
    <3>4. Finish(k) <= pos => Finish(k) <= pos'
      BY <1>3, <3>3
    <3>5. Start(k) < pos => Start(k) < pos'
      BY <1>3, <3>3
    <3> QED
      BY <3>1, <3>2, <3>4, <3>5
  <2> QED
    BY <1>3, <1>6, <2>1, <2>2, <2>3 DEF BehindPos, Messages, Start, Finish
<1>9. InOrder'
  <2> SUFFICES ASSUME NEW j \in 1..(d + 1), NEW i \in 1..(j - 1)
               PROVE  /\ decoded'[i].msg <= decoded'[j].msg
                      /\ decoded'[i].ownId \/ decoded'[j].ownId
                           => decoded'[i].msg < decoded'[j].msg
    BY <1>6 DEF InOrder
  <2>1. CASE j \in 1..d
    <3>1. i \in 1..d /\ decoded'[i] = decoded[i] /\ decoded'[j] = decoded[j]
      BY <1>6, <2>1
    <3> QED
      BY <1>1, <1>6, <2>1, <3>1 DEF InOrder
  <2>2. CASE j = d + 1
    <3>1. i \in 1..d /\ decoded'[i] = decoded[i] /\ decoded'[j] = e
      BY <1>6, <2>2
    <3>2. /\ decoded[i].msg \in Messages
          /\ decoded[i].ownId => Finish(decoded[i].msg) <= pos
          /\ ~decoded[i].ownId => Start(decoded[i].msg) < pos
      BY <1>1, <1>6, <3>1 DEF BehindPos
    <3> DEFINE k == decoded[i].msg
    <3>3. k \in Nat /\ Start(k) \in Nat /\ Finish(k) \in Nat
          /\ (m < k => Start(m) < Start(k) /\ Finish(m) < Finish(k) /\ Finish(m) <= Start(k))
      BY <1>4, <3>2
    <3>4. (decoded[i].ownId => Finish(k) <= pos) /\ (~decoded[i].ownId => Start(k) < pos)
      BY <3>2
    <3> HIDE DEF k
    <3>5. CASE own
      <4>1. pos = Start(m) /\ Start(m) < Finish(m)
        BY <1>2, <1>4, <3>5 DEF Whole
      <4>2. k # m /\ ~(m < k)
        BY <1>3, <1>4, <3>3, <3>4, <4>1
      <4>3. k < m
        BY <1>4, <3>3, <4>2
      <4>4. k <= m
        BY <1>4, <3>3, <4>3
      <4> QED
        BY <1>6, <3>1, <4>3, <4>4 DEF k
    <3>6. CASE ~own
      <4>1. Start(m) < pos /\ pos < Finish(m)
        BY <1>2, <1>3, <1>4, <3>6 DEF Nested
      <4>2. ~(m < k) /\ (decoded[i].ownId => k # m)
        BY <1>3, <1>4, <3>3, <3>4, <4>1
      <4>3. k <= m /\ (decoded[i].ownId => k < m)
        BY <1>4, <3>3, <4>2
      <4>4. ~decoded'[j].ownId
        BY <1>6, <3>1, <3>6
      <4> QED
        BY <1>6, <3>1, <4>3, <4>4 DEF k
    <3> QED
      BY <3>5, <3>6
  <2> QED
    BY <1>6, <2>1, <2>2
<1> QED
  BY <1>7, <1>8, <1>9 DEF OrderInv

LEMMA OrderStep == OrderInv /\ [Next]_vars => OrderInv'
<1> SUFFICES ASSUME OrderInv, [Next]_vars PROVE OrderInv'
  OBVIOUS
<1>0. TypeOK /\ 0 \in 0..BufLen
  BY LengthsAssumption DEF OrderInv
<1>1. ASSUME NEW n \in 1..BufLen, ReadShort(n)
      PROVE  OrderInv'
  <2>1. n \in 0..BufLen /\ pos + n <= Sent
    BY <1>0, <1>1, LengthsAssumption DEF ReadShort, Chunk, Given
  <2> QED
    BY <1>0, <1>1, <2>1, OrderSkip DEF ReadShort, TypeOK
<1>2. ASSUME NEW n \in 1..BufLen, ReadGarbage(n)
      PROVE  OrderInv'
  <2>1. n \in 0..BufLen /\ pos + n <= Sent
    BY <1>0, <1>2, LengthsAssumption DEF ReadGarbage, Chunk, Given
  <2> QED
    BY <1>0, <1>2, <2>1, OrderSkip DEF ReadGarbage, TypeOK
<1>3. ASSUME NEW n \in 0..BufLen, ReadEnd(n)
      PROVE  OrderInv'
  <2>1. pos + n <= Sent
    BY <1>0, <1>3, LayoutFacts DEF ReadEnd, TypeOK
  <2> QED
    BY <1>3, <2>1, OrderSkip DEF ReadEnd
<1>4. CASE UNCHANGED vars
  <2>1. pos \in Nat /\ pos + 0 = pos /\ pos + 0 <= Sent
    BY <1>0, LayoutFacts DEF TypeOK
  <2> QED
    BY <1>0, <1>4, <2>1, OrderSkip DEF vars, TypeOK
<1> QED
  BY <1>1, <1>2, <1>3, <1>4, OrderDecode DEF Next

(* handleStream decodes the messages of a stream in the order sent, and no *)
(* message twice, for any lengths and however the bytes are cut.           *)
THEOREM DecodedInOrder == Spec => []InOrder
<1>1. OrderInv => InOrder
  BY DEF OrderInv
<1> QED
  BY <1>1, OrderInit, OrderStep, PTL DEF Spec

(* handleStream's buffer is never left holding more than one chunk, and no *)
(* more is read of a stream than was sent.                                 *)
THEOREM TypeCorrect == Spec => []TypeOK
<1>1. OrderInv => TypeOK
  BY DEF OrderInv
<1> QED
  BY <1>1, OrderInit, OrderStep, PTL DEF Spec

-----------------------------------------------------------------------------
(* Loss, when reads stop where writes ended. *)

(* The next byte to read lies a number of whole buffers behind the start   *)
(* of its message, none of them if the message fits a buffer.              *)
OnBufferEdge ==
  state = "reading" =>
    \A m \in Messages :
      (Start(m) <= pos /\ pos < Finish(m)) => \E k \in Nat : pos = Start(m) + k * BufLen

SegmentInv ==
  /\ TypeOK
  /\ OnBufferEdge
  /\ FittingDecoded
  /\ state = "reading" => unhandled = 0
  /\ ForeignIdNeedsLongMessage
  /\ PanicsInLongMessages

(* A chunk of a segment is a whole message, or a full buffer within a long *)
(* one, or the tail of a long one.                                         *)
LEMMA SegmentFacts ==
  ASSUME SegmentInv, segmented, state = "reading", NEW n, Chunk(n)
  PROVE  \E m \in Messages, k \in Nat :
           /\ pos = Start(m) + k * BufLen
           /\ pos < Finish(m) /\ pos + n <= Finish(m)
           /\ pos + n < Finish(m) => n = BufLen
           /\ k = 0 \/ k * BufLen >= BufLen
           /\ k * BufLen \in Nat /\ k <= k * BufLen
           /\ Fits(m) => k = 0 /\ Whole(m, n)
<1>1. TypeOK /\ OnBufferEdge
  BY DEF SegmentInv
<1>2. PICK m \in Messages :
        /\ Start(m) <= pos /\ pos < Finish(m)
        /\ n = IF Finish(m) - pos < BufLen THEN Finish(m) - pos ELSE BufLen
  BY DEF Chunk, Given
<1>3. PICK k \in Nat : pos = Start(m) + k * BufLen
  BY <1>1, <1>2 DEF OnBufferEdge
<1>4. pos \in Nat /\ Start(m) \in Nat /\ Finish(m) \in Nat /\ BufLen \in Nat /\ 1 < BufLen
  BY <1>1, ChunkFacts, LayoutFacts, LengthsAssumption DEF TypeOK
<1>5. /\ k = 0 \/ k * BufLen >= BufLen
      /\ k * BufLen \in Nat /\ k <= k * BufLen
  <2>1. CASE k = 0
    BY <1>4, <2>1
  <2>2. CASE k >= 1
    <3>1. (k - 1) * BufLen >= 0 /\ k * (BufLen - 1) >= 0
      BY <1>4, <2>2
    <3>2. k * BufLen = (k - 1) * BufLen + BufLen /\ k * BufLen = k * (BufLen - 1) + k
      BY <1>4, <2>2
    <3>3. (k - 1) * BufLen \in Nat /\ k * (BufLen - 1) \in Nat /\ k * BufLen \in Nat
      BY <1>4, <2>2
    <3> QED
      BY <1>4, <2>2, <3>2, <3>3
  <2> QED
    BY <2>1, <2>2
<1>6. pos + n <= Finish(m) /\ (pos + n < Finish(m) => n = BufLen)
  BY <1>2, <1>4
<1>7. ASSUME Fits(m)
      PROVE  k = 0 /\ Whole(m, n)
  <2>1. Finish(m) - Start(m) <= BufLen
    BY <1>7 DEF Fits, Length
  <2> DEFINE b == k * BufLen
  <2>2. b \in Nat /\ (k = 0 \/ b >= BufLen) /\ pos = Start(m) + b
    BY <1>3, <1>5
  <2> HIDE DEF b
  <2>3. k = 0
    BY <1>2, <1>4, <2>1, <2>2
  <2>4. pos = Start(m)
    BY <1>3, <1>4, <2>3
  <2>5. pos + n = Finish(m)
    BY <1>2, <1>4, <2>1, <2>4
  <2> QED
    BY <2>3, <2>4, <2>5 DEF Whole
<1> QED
  BY <1>2, <1>3, <1>5, <1>6, <1>7

(* Reading on keeps the place within the message, or comes to the start of *)
(* the next message.                                                       *)
LEMMA EdgeAdvance ==
  ASSUME SegmentInv, segmented, state = "reading", NEW n, Chunk(n),
         ends' = ends, pos' = pos + n
  PROVE  OnBufferEdge'
<1> SUFFICES ASSUME NEW m \in Messages, Start(m) <= pos', pos' < Finish(m)
             PROVE  \E k \in Nat : pos' = Start(m) + k * BufLen
  BY DEF OnBufferEdge, Messages, Start, Finish
<1>1. PICK p \in Messages, k \in Nat :
        /\ pos = Start(p) + k * BufLen
        /\ pos < Finish(p) /\ pos + n <= Finish(p)
        /\ pos + n < Finish(p) => n = BufLen
        /\ k * BufLen \in Nat
  BY SegmentFacts
<1>2. /\ n \in 1..BufLen /\ pos \in Nat /\ BufLen \in Nat
      /\ m \in Nat /\ p \in Nat
      /\ Start(m) \in Nat /\ Finish(m) \in Nat /\ Start(p) \in Nat /\ Finish(p) \in Nat
  <2>1. n \in 1..BufLen /\ pos \in Nat /\ BufLen \in Nat
    BY ChunkFacts, LengthsAssumption DEF SegmentInv
  <2> QED
    BY <2>1, LayoutFacts DEF SegmentInv, TypeOK
<1>3. /\ m < p => Finish(m) <= Start(p)
      /\ p < m => Finish(p) <= Start(m)
  BY LayoutFacts DEF SegmentInv, TypeOK
<1>4. CASE m = p
  <2>1. n = BufLen
    BY <1>1, <1>2, <1>4
  <2>2. (k + 1) * BufLen = k * BufLen + BufLen
    BY <1>2
  <2>3. pos' = Start(m) + (k + 1) * BufLen
    BY <1>1, <1>2, <1>4, <2>1, <2>2
  <2> QED
    BY <2>3
<1>5. CASE p < m
  <2>1. pos' = Start(m) + 0
    BY <1>1, <1>2, <1>3, <1>5
  <2> QED
    BY <1>2, <2>1
<1>6. CASE m < p
  BY <1>1, <1>2, <1>3, <1>6
<1> QED
  BY <1>2, <1>4, <1>5, <1>6

(* Reading on loses no message that fits, if it decodes or leaves to the   *)
(* end of the stream the one that it reads, and panics on no whole one.    *)
LEMMA FittingAdvance ==
  ASSUME SegmentInv, segmented, state = "reading", NEW n, Chunk(n),
         ends' = ends, pos' = pos + n,
         \A x : (\E i \in DOMAIN decoded : decoded[i] = x)
                  => \E i \in DOMAIN decoded' : decoded'[i] = x,
         \A m \in Messages : Whole(m, n) =>
           /\ state' # "panicked"
           /\ \/ DecodedWhole(m)'
              \/ state' = "closed" /\ m = Len(ends) /\ unhandled' = Length(m)
  PROVE  FittingDecoded'
<1> SUFFICES ASSUME NEW m \in Messages, Fits(m)
             PROVE  \/ DecodedWhole(m)'
                    \/ /\ pos' <= Start(m)
                       /\ state' = "panicked" =>
                            \E l \in Messages :
                              l < m /\ ~Fits(l) /\ Start(l) < pos' /\ pos' <= Finish(l)
                    \/ state' = "closed" /\ m = Len(ends) /\ unhandled' = Length(m)
  BY DEF FittingDecoded, DecodedWhole, Messages, Start, Finish, Fits, Length
<1>1. PICK p \in Messages, k \in Nat :
        /\ pos = Start(p) + k * BufLen
        /\ pos < Finish(p) /\ pos + n <= Finish(p)
        /\ k * BufLen \in Nat
        /\ Fits(p) => Whole(p, n)
  BY SegmentFacts
<1>2. /\ n \in 1..BufLen /\ pos \in Nat /\ BufLen \in Nat
      /\ m \in Nat /\ p \in Nat
      /\ Start(m) \in Nat /\ Finish(m) \in Nat /\ Start(p) \in Nat /\ Finish(p) \in Nat
      /\ Start(m) + IdLen < Finish(m)
  <2>1. n \in 1..BufLen /\ pos \in Nat /\ BufLen \in Nat
    BY ChunkFacts, LengthsAssumption DEF SegmentInv
  <2> QED
    BY <2>1, LayoutFacts DEF SegmentInv, TypeOK
<1>3. /\ m < p => Start(m) < Start(p)
      /\ p < m => Finish(p) <= Start(m)
  BY LayoutFacts DEF SegmentInv, TypeOK
<1>4. CASE m = p
  BY <1>1, <1>4
<1>5. CASE m < p
  <2>1. ~(pos <= Start(m))
    BY <1>1, <1>2, <1>3, <1>5
  <2>2. DecodedWhole(m)
    BY <2>1 DEF SegmentInv, FittingDecoded
  <2> QED
    BY <2>2 DEF DecodedWhole
<1>6. CASE p < m
  <2>1. pos' <= Start(m) /\ pos' <= Finish(p) /\ Start(p) < pos'
    BY <1>1, <1>2, <1>3, <1>6
  <2>2. state' = "panicked" => ~Fits(p)
    BY <1>1
  <2> QED
    BY <1>6, <2>1, <2>2
<1> QED
  BY <1>2, <1>4, <1>5, <1>6

LEMMA SegmentInit == Init => SegmentInv
<1> SUFFICES ASSUME Init PROVE SegmentInv
  OBVIOUS
<1>1. TypeOK
  BY OrderInit DEF OrderInv
<1>2. \A m \in Messages :
        /\ Start(m) \in Nat /\ Finish(m) \in Nat /\ Start(m) + IdLen < Finish(m)
  BY <1>1, LayoutFacts DEF TypeOK
<1>3. OnBufferEdge
  <2> SUFFICES ASSUME NEW m \in Messages, Start(m) <= 0
               PROVE  0 = Start(m) + 0 * BufLen
    BY DEF Init, OnBufferEdge
  <2> QED
    BY <1>2, LengthsAssumption
<1>4. FittingDecoded
  BY <1>2, LengthsAssumption DEF Init, FittingDecoded
<1> QED
  BY <1>1, <1>3, <1>4 DEF Init, SegmentInv, ForeignIdNeedsLongMessage, PanicsInLongMessages

(* Only a message that does not fit has a chunk shorter than an ID, and    *)
(* only its last chunk is one.                                             *)
LEMMA ShortKeepsSegments ==
  ASSUME SegmentInv, segmented, state = "reading", NEW n \in 1..BufLen, ReadShort(n)
  PROVE  SegmentInv'
<1>1. /\ Chunk(n) /\ n < IdLen /\ pos' = pos + n /\ state' = "panicked"
      /\ UNCHANGED <<ends, segmented, unhandled, decoded>>
  BY DEF ReadShort
<1>2. PICK p \in Messages, k \in Nat :
        /\ pos = Start(p) + k * BufLen
        /\ pos < Finish(p) /\ pos + n <= Finish(p)
        /\ pos + n < Finish(p) => n = BufLen
        /\ k * BufLen \in Nat /\ k <= k * BufLen
        /\ Fits(p) => k = 0 /\ Whole(p, n)
  BY <1>1, SegmentFacts
<1>3. /\ pos \in Nat /\ BufLen \in Nat /\ IdLen \in Nat /\ IdLen < BufLen /\ n >= 1
      /\ Start(p) \in Nat /\ Finish(p) \in Nat /\ Start(p) + IdLen < Finish(p)
  <2>1. pos \in Nat /\ BufLen \in Nat /\ IdLen \in Nat /\ IdLen < BufLen /\ n >= 1
    BY <1>1, ChunkFacts, LengthsAssumption DEF SegmentInv
  <2> QED
    BY <2>1, LayoutFacts DEF SegmentInv, TypeOK
<1>4. pos + n = Finish(p)
  BY <1>1, <1>2, <1>3
<1>5. k # 0
  <2> SUFFICES ASSUME k = 0 PROVE FALSE
    OBVIOUS
  <2>1. pos = Start(p)
    BY <1>2, <1>3
  <2> QED
    BY <1>1, <1>3, <1>4, <2>1
<1>6. PanicsInLongMessages'
  <2> DEFINE b == k * BufLen
  <2>1. b \in Nat /\ k <= b /\ pos = Start(p) + b
    BY <1>2
  <2> HIDE DEF b
  <2>2. Length(p) - b = n
    BY <1>3, <1>4, <2>1 DEF Length
  <2>3. k \in 1..(pos + n)
    BY <1>3, <1>5, <2>1
  <2>4. Length(p) - k * BufLen \in 1..(IdLen - 1)
    BY <1>1, <1>3, <2>2 DEF b
  <2>5. Start(p) < pos + n
    BY <1>3, <1>4
  <2> QED
    BY <1>1, <1>4, <2>3, <2>4, <2>5 DEF PanicsInLongMessages, Length, Messages, Start, Finish
<1>7. ASSUME NEW m \in Messages
      PROVE  ~Whole(m, n)
  <2>1. Start(m) + IdLen < Finish(m) /\ Start(m) \in Nat /\ Finish(m) \in Nat
    BY LayoutFacts DEF SegmentInv, TypeOK
  <2> QED
    BY <1>1, <1>3, <2>1 DEF Whole
<1>8. FittingDecoded'
  BY <1>1, <1>7, FittingAdvance
<1>9. TypeOK'
  <2>1. pos + n \in 0..Sent
    BY <1>1, ChunkFacts DEF SegmentInv
  <2> QED
    BY <1>1, <2>1 DEF SegmentInv, TypeOK, Sent
<1> QED
  BY <1>1, <1>6, <1>8, <1>9
  DEF SegmentInv, OnBufferEdge, ForeignIdNeedsLongMessage, Length, Start, Finish

(* A chunk within a message that is no message and whose rest is nested in *)
(* it is a full buffer behind a full buffer.                               *)
LEMMA NestedIsLong ==
  ASSUME SegmentInv, segmented, state = "reading", NEW n, Chunk(n),
         NEW m \in Messages, Nested(m, n)
  PROVE  Length(m) > 2 * BufLen
<1>1. PICK p \in Messages, k \in Nat :
        /\ pos = Start(p) + k * BufLen
        /\ pos < Finish(p) /\ pos + n <= Finish(p)
        /\ pos + n < Finish(p) => n = BufLen
        /\ k = 0 \/ k * BufLen >= BufLen
        /\ k * BufLen \in Nat
  BY SegmentFacts
<1>2. /\ n \in 1..BufLen /\ pos \in Nat /\ BufLen \in Nat
      /\ m \in Nat /\ p \in Nat
      /\ Start(m) \in Nat /\ Finish(m) \in Nat /\ Start(p) \in Nat /\ Finish(p) \in Nat
  <2>1. n \in 1..BufLen /\ pos \in Nat /\ BufLen \in Nat
    BY ChunkFacts, LengthsAssumption DEF SegmentInv
  <2> QED
    BY <2>1, LayoutFacts DEF SegmentInv, TypeOK
<1>3. /\ m < p => Finish(m) <= Start(p)
      /\ p < m => Finish(p) <= Start(m)
  BY LayoutFacts DEF SegmentInv, TypeOK
<1>4. Start(m) < pos /\ pos + n < Finish(m)
  BY DEF Nested
<1>5. m = p
  BY <1>1, <1>2, <1>3, <1>4
<1> DEFINE b == k * BufLen
<1>6. b \in Nat /\ (k = 0 \/ b >= BufLen) /\ pos = Start(m) + b /\ n = BufLen
  BY <1>1, <1>4, <1>5
<1>7. k # 0
  <2> SUFFICES ASSUME k = 0 PROVE FALSE
    OBVIOUS
  <2>1. b = 0
    BY <1>2
  <2> QED
    BY <1>2, <1>4, <1>6, <2>1
<1> HIDE DEF b
<1> QED
  BY <1>2, <1>4, <1>6, <1>7 DEF Length

LEMMA DecodeKeepsSegments ==
  ASSUME SegmentInv, segmented, state = "reading", NEW n \in 1..BufLen,
         ReadSubmission(n) \/ ReadNested(n)
  PROVE  SegmentInv'
<1>1. Chunk(n) /\ pos' = pos + n /\ UNCHANGED <<ends, segmented, unhandled>>
  BY DEF ReadSubmission, ReadNested
<1>2. PICK m \in Messages, own \in BOOLEAN :
        /\ own => Whole(m, n) /\ state' = "reading"
        /\ ~own => Nested(m, n) /\ state' \in {"reading", "panicked"}
        /\ decoded' = Append(decoded, [msg |-> m, ownId |-> own])
  BY DEF ReadSubmission, ReadNested
<1> DEFINE e == [msg |-> m, ownId |-> own]
           d == Len(decoded)
<1>3. e \in Decoded
  BY LayoutFacts DEF Decoded, SegmentInv, TypeOK
<1>4. /\ decoded' \in Seq(Decoded) /\ d \in Nat
      /\ DOMAIN decoded = 1..d /\ DOMAIN decoded' = 1..(d + 1)
      /\ \A i \in 1..d : decoded'[i] = decoded[i]
      /\ decoded'[d + 1] = e
  BY <1>2, <1>3 DEF SegmentInv, TypeOK
<1>5. e.msg = m /\ e.ownId = own
  OBVIOUS
<1>6. own => e = [msg |-> m, ownId |-> TRUE]
  OBVIOUS
<1>7. ~own => e = [msg |-> m, ownId |-> FALSE]
  OBVIOUS
<1> HIDE DEF e, d
<1>8. TypeOK'
  <2>1. pos + n \in 0..Sent
    BY <1>1, ChunkFacts DEF SegmentInv
  <2> QED
    BY <1>1, <1>2, <1>4, <2>1 DEF SegmentInv, TypeOK, Sent
<1>9. OnBufferEdge'
  BY <1>1, EdgeAdvance
<1>10. FittingDecoded'
  <2>1. ASSUME NEW x, \E i \in DOMAIN decoded : decoded[i] = x
        PROVE  \E i \in DOMAIN decoded' : decoded'[i] = x
    BY <1>4, <2>1
  <2>2. ASSUME NEW w \in Messages, Whole(w, n)
        PROVE  DecodedWhole(w)' /\ state' # "panicked"
    <3>1. /\ pos \in Nat /\ n \in 1..BufLen /\ m \in Nat /\ w \in Nat
          /\ Start(m) \in Nat /\ Finish(m) \in Nat /\ Start(w) \in Nat /\ Finish(w) \in Nat
          /\ Start(m) < Finish(m) /\ Start(w) < Finish(w)
      <4>1. pos \in Nat /\ n \in 1..BufLen /\ IdLen \in Nat
        BY <1>1, ChunkFacts, LengthsAssumption DEF SegmentInv
      <4>2. /\ m \in Nat /\ Start(m) \in Nat /\ Finish(m) \in Nat /\ Start(m) + IdLen < Finish(m)
            /\ w \in Nat /\ Start(w) \in Nat /\ Finish(w) \in Nat /\ Start(w) + IdLen < Finish(w)
        BY LayoutFacts DEF SegmentInv, TypeOK
      <4> QED
        BY <4>1, <4>2
    <3>2. /\ m < w => Finish(m) <= Start(w)
          /\ w < m => Finish(w) <= Start(m)
      BY LayoutFacts DEF SegmentInv, TypeOK
    <3>3. pos = Start(w) /\ pos + n = Finish(w)
      BY <2>2 DEF Whole
    <3>4. Start(m) <= pos /\ pos < Finish(m)
      <4>1. CASE own
        BY <1>2, <3>1, <4>1 DEF Whole
      <4>2. CASE ~own
        BY <1>2, <3>1, <4>2 DEF Nested
      <4> QED
        BY <4>1, <4>2
    <3>5. m = w
      BY <3>1, <3>2, <3>3, <3>4
    <3>6. own
      <4> SUFFICES ASSUME ~own PROVE FALSE
        OBVIOUS
      <4> QED
        BY <1>2, <3>1, <3>3, <3>5 DEF Nested
    <3>7. e = [msg |-> w, ownId |-> TRUE]
      BY <1>6, <3>5, <3>6
    <3>8. d + 1 \in DOMAIN decoded'
      BY <1>4
    <3> QED
      BY <1>2, <1>4, <3>6, <3>7, <3>8 DEF DecodedWhole
  <2> QED
    BY <1>1, <2>1, <2>2, FittingAdvance
<1>11. ForeignIdNeedsLongMessage'
  <2> SUFFICES ASSUME NEW i \in 1..(d + 1), ~decoded'[i].ownId
               PROVE  Length(decoded'[i].msg) > 2 * BufLen
    BY <1>1, <1>4 DEF ForeignIdNeedsLongMessage, Length, Start, Finish
  <2>1. CASE i \in 1..d
    BY <1>4, <2>1 DEF SegmentInv, ForeignIdNeedsLongMessage
  <2>2. CASE i = d + 1
    <3>1. ~own /\ decoded'[i].msg = m
      BY <1>4, <1>5, <2>2
    <3> QED
      BY <1>1, <1>2, <3>1, NestedIsLong
  <2> QED
    BY <1>4, <2>1, <2>2
<1>12. PanicsInLongMessages'
  <2> SUFFICES ASSUME state' = "panicked" PROVE PanicsInLongMessages'
    BY DEF PanicsInLongMessages
  <2>1. ~own /\ Nested(m, n)
    BY <1>2
  <2>2. Length(m) > 2 * BufLen
    BY <1>1, <2>1, NestedIsLong
  <2>3. /\ pos \in Nat /\ n \in 1..BufLen
        /\ Start(m) \in Nat /\ Finish(m) \in Nat
    BY <1>1, ChunkFacts, LayoutFacts DEF SegmentInv, TypeOK
  <2>4. Start(m) < pos + n /\ pos + n < Finish(m)
    BY <2>1, <2>3 DEF Nested
  <2>5. d + 1 \in DOMAIN decoded' /\ decoded'[d + 1] = [msg |-> m, ownId |-> FALSE]
    BY <1>4, <1>7, <2>1
  <2> QED
    BY <1>1, <2>2, <2>4, <2>5 DEF PanicsInLongMessages, Length, Messages, Start, Finish
<1> QED
  BY <1>1, <1>8, <1>9, <1>10, <1>11, <1>12 DEF SegmentInv

LEMMA GarbageKeepsSegments ==
  ASSUME SegmentInv, segmented, state = "reading", NEW n \in 1..BufLen, ReadGarbage(n)
  PROVE  SegmentInv'
<1>1. /\ Chunk(n) /\ pos' = pos + n /\ UNCHANGED <<ends, segmented, state, unhandled, decoded>>
      /\ \A m \in Messages : ~Whole(m, n)
  BY DEF ReadGarbage
<1>2. TypeOK'
  <2>1. pos + n \in 0..Sent
    BY <1>1, ChunkFacts DEF SegmentInv
  <2> QED
    BY <1>1, <2>1 DEF SegmentInv, TypeOK, Sent
<1>3. OnBufferEdge'
  BY <1>1, EdgeAdvance
<1>4. FittingDecoded'
  BY <1>1, FittingAdvance
<1> QED
  BY <1>1, <1>2, <1>3, <1>4
  DEF SegmentInv, ForeignIdNeedsLongMessage, PanicsInLongMessages, Length, Start, Finish

LEMMA EndKeepsSegments ==
  ASSUME SegmentInv, segmented, state = "reading", NEW n \in 0..BufLen, ReadEnd(n)
  PROVE  SegmentInv'
<1>1. /\ pos' = pos + n /\ unhandled' = n /\ state' = "closed" /\ UNCHANGED <<ends, segmented, decoded>>
      /\ n = 0 \/ (Chunk(n) /\ pos + n = Sent)
  BY DEF ReadEnd
<1>2. pos \in Nat /\ Sent \in Nat /\ pos <= Sent
  BY LayoutFacts DEF SegmentInv, TypeOK
<1>3. TypeOK'
  <2>1. pos + n \in 0..Sent
    BY <1>1, <1>2
  <2> QED
    BY <1>1, <2>1 DEF SegmentInv, TypeOK, Sent
<1>4. FittingDecoded'
  <2>1. CASE n = 0
    <3>1. pos' = pos
      BY <1>1, <1>2, <2>1
    <3>2. unhandled' = unhandled /\ ends' = ends /\ decoded' = decoded
      BY <1>1, <2>1 DEF SegmentInv
    <3>3. FittingDecoded
      BY DEF SegmentInv
    <3> QED
      BY <1>1, <3>1, <3>2, <3>3
      DEF FittingDecoded, DecodedWhole, Fits, Length, Messages, Start, Finish
  <2>2. CASE Chunk(n) /\ pos + n = Sent
    <3>1. ASSUME NEW m \in Messages, Whole(m, n)
          PROVE  m = Len(ends) /\ unhandled' = Length(m)
      <4>1. Finish(m) = Sent /\ pos = Start(m)
        BY <2>2, <3>1 DEF Whole
      <4>2. /\ Finish(m) = Sent => m = Len(ends)
            /\ Start(m) \in Nat /\ Finish(m) \in Nat
        BY LayoutFacts DEF SegmentInv, TypeOK
      <4>3. n = Finish(m) - Start(m)
        BY <2>2, <4>1, <4>2
      <4> QED
        BY <1>1, <4>1, <4>2, <4>3 DEF Length
    <3> QED
      BY <1>1, <2>2, <3>1, FittingAdvance
  <2> QED
    BY <1>1, <2>1, <2>2
<1> QED
  BY <1>1, <1>3, <1>4
  DEF SegmentInv, OnBufferEdge, ForeignIdNeedsLongMessage, PanicsInLongMessages,
      Length, Start, Finish

LEMMA SegmentStep == segmented /\ SegmentInv /\ [Next]_vars => SegmentInv'
<1> SUFFICES ASSUME segmented, SegmentInv, [Next]_vars PROVE SegmentInv'
  OBVIOUS
<1>1. CASE Next
  BY <1>1, ShortKeepsSegments, DecodeKeepsSegments, GarbageKeepsSegments, EndKeepsSegments
  DEF Next
<1>2. CASE UNCHANGED vars
  BY <1>2
  DEF vars, SegmentInv, TypeOK, Sent, OnBufferEdge, FittingDecoded, DecodedWhole,
      ForeignIdNeedsLongMessage, PanicsInLongMessages, Fits, Length, Messages, Start, Finish
<1> QED
  BY <1>1, <1>2

(* How reads stop does not change on the way. *)
LEMMA SegmentedStays == [Next]_vars => segmented' = segmented
<1> SUFFICES ASSUME [Next]_vars PROVE segmented' = segmented
  OBVIOUS
<1>1. CASE Next
  BY <1>1 DEF Next, ReadShort, ReadSubmission, ReadNested, ReadGarbage, ReadEnd
<1>2. CASE UNCHANGED vars
  BY <1>2 DEF vars
<1> QED
  BY <1>1, <1>2

LEMMA SegmentInvariance == Spec => [](segmented => SegmentInv)
<1>1. Init => (segmented => SegmentInv)
  BY SegmentInit
<1>2. (segmented => SegmentInv) /\ [Next]_vars => (segmented => SegmentInv)'
  BY SegmentStep, SegmentedStays
<1> QED
  BY <1>1, <1>2, PTL DEF Spec

(* handleStream with reads that stop where writes ended: a message of up   *)
(* to 1024 bytes is decoded, but for the one that came with io.EOF, those  *)
(* behind an error of Read, and those behind a panic in a longer message.  *)
THEOREM FittingMessagesDecoded == Spec => []FittingDecoded
<1>1. (segmented => SegmentInv) => FittingDecoded
  BY DEF SegmentInv, FittingDecoded
<1> QED
  BY <1>1, SegmentInvariance, PTL

(* With such reads handleStream queues an ID that is not the submission's  *)
(* only out of a message of over 2048 bytes.                               *)
THEOREM ForeignIdsAreOfLongMessages == Spec => []ForeignIdNeedsLongMessage
<1>1. (segmented => SegmentInv) => ForeignIdNeedsLongMessage
  BY DEF SegmentInv, ForeignIdNeedsLongMessage
<1> QED
  BY <1>1, SegmentInvariance, PTL

(* With such reads the process panics in parseSubmissionBytes only on the  *)
(* tail of a message longer than the buffer of handleStream, and over a    *)
(* nil request only in a message of over 2048 bytes, of which it has       *)
(* queued a part.                                                          *)
THEOREM PanicsAreInLongMessages == Spec => []PanicsInLongMessages
<1>1. (segmented => SegmentInv) => PanicsInLongMessages
  BY DEF SegmentInv, PanicsInLongMessages
<1> QED
  BY <1>1, SegmentInvariance, PTL

-----------------------------------------------------------------------------
(* Streams of messages that fit, when reads stop where writes ended. *)

AllFit == segmented /\ \A m \in Messages : Fits(m)

DecodedEnd == IF decoded = <<>> THEN 0 ELSE Finish(Len(decoded))

OneByOneInv ==
  /\ TypeOK
  /\ state = "reading" => unhandled = 0
  /\ AllFit => Len(decoded) <= Len(ends)
  /\ OneByOne

(* Between two reads the next byte is the first one of the next message,   *)
(* and a read gives all of that message.                                   *)
LEMMA NextMessageWhole ==
  ASSUME OneByOneInv, AllFit, state = "reading", NEW n, Chunk(n)
  PROVE  /\ Len(decoded) + 1 \in Messages
         /\ \A m \in Messages :
              /\ Whole(m, n) <=> m = Len(decoded) + 1
              /\ ~Nested(m, n)
         /\ IdLen < n
         /\ unhandled = 0
         /\ pos + n = Finish(Len(decoded) + 1)
<1> DEFINE d == Len(decoded)
<1>1. PICK m \in Messages :
        /\ Start(m) <= pos /\ pos < Finish(m)
        /\ n = IF Finish(m) - pos < BufLen THEN Finish(m) - pos ELSE BufLen
  BY DEF Chunk, Given, AllFit
<1>2. /\ Messages = 1..Len(ends) /\ Len(ends) \in Nat /\ pos \in Nat /\ n \in 1..BufLen
      /\ BufLen \in Nat /\ IdLen \in Nat
  BY LayoutFacts, ChunkFacts, LengthsAssumption DEF OneByOneInv, TypeOK
<1>3. \A k \in Messages :
        /\ k \in Nat /\ Start(k) \in Nat /\ Finish(k) \in Nat /\ Start(k) + IdLen < Finish(k)
        /\ k < m => Finish(k) <= Start(m)
        /\ m < k => Finish(m) <= Start(k)
  BY LayoutFacts DEF OneByOneInv, TypeOK
<1>4. d \in 0..Len(ends) /\ unhandled = 0
      /\ pos = IF d = 0 THEN 0 ELSE Finish(d)
  <2>1. decoded \in Seq(Decoded) /\ unhandled = 0 /\ d <= Len(ends)
    BY DEF OneByOneInv, TypeOK
  <2>2. d \in Nat /\ (d = 0 <=> decoded = <<>>)
    BY <2>1
  <2>3. pos = unhandled + DecodedEnd
    BY DEF OneByOneInv, OneByOne, AllFit, DecodedEnd
  <2>4. DecodedEnd \in Nat
    BY <1>2, <1>3, <2>1, <2>2 DEF DecodedEnd
  <2> QED
    BY <1>2, <2>1, <2>2, <2>3, <2>4 DEF DecodedEnd
<1> HIDE DEF d
<1>5. m = d + 1 /\ pos = Start(m)
  <2>1. d < m
    <3> SUFFICES ASSUME m <= d PROVE FALSE
      BY <1>2, <1>3, <1>4
    <3>1. d \in Messages /\ pos = Finish(d)
      BY <1>2, <1>3, <1>4
    <3>2. Start(d) \in Nat /\ Finish(d) \in Nat /\ Start(d) + IdLen < Finish(d)
          /\ (m < d => Finish(m) <= Start(d))
      BY <1>3, <3>1
    <3>3. m = d \/ m < d
      BY <1>2, <1>4
    <3> QED
      BY <1>1, <1>2, <1>3, <3>1, <3>2, <3>3
  <2>2. ~(d + 1 < m)
    <3> SUFFICES ASSUME d + 1 < m PROVE FALSE
      OBVIOUS
    <3>1. d + 1 \in Messages
      BY <1>2, <1>4
    <3>2. /\ Start(d + 1) \in Nat /\ Finish(d + 1) \in Nat
          /\ Start(d + 1) + IdLen < Finish(d + 1) /\ Finish(d + 1) <= Start(m)
      BY <1>3, <3>1
    <3>3. pos < Finish(d + 1)
      <4>1. CASE d = 0
        BY <1>2, <1>4, <3>2, <4>1
      <4>2. CASE d # 0
        <5>1. Start(d + 1) = Finish(d) /\ d \in Messages
          BY <1>2, <1>4, <4>2 DEF Start, Finish
        <5> QED
          BY <1>2, <1>4, <3>2, <4>2, <5>1
      <4> QED
        BY <4>1, <4>2
    <3> QED
      BY <1>1, <1>2, <1>3, <3>2, <3>3
  <2>3. m = d + 1
    BY <1>2, <1>4, <2>1, <2>2
  <2>4. Start(m) = IF d = 0 THEN 0 ELSE Finish(d)
    BY <1>4, <2>3 DEF Start, Finish
  <2> QED
    BY <1>4, <2>3, <2>4
<1>6. n = Finish(m) - Start(m)
  <2>1. Finish(m) - Start(m) <= BufLen
    BY DEF AllFit, Fits, Length
  <2>2. Start(m) \in Nat /\ Finish(m) \in Nat /\ pos = Start(m)
    BY <1>3, <1>5
  <2> QED
    BY <1>1, <1>2, <2>1, <2>2
<1>7. IdLen < n /\ pos + n = Finish(m)
  <2>1. Start(m) \in Nat /\ Finish(m) \in Nat /\ Start(m) + IdLen < Finish(m)
    BY <1>3
  <2> QED
    BY <1>2, <1>5, <1>6, <2>1
<1>8. ASSUME NEW k \in Messages
      PROVE  (Whole(k, n) <=> k = m) /\ ~Nested(k, n)
  <2>1. CASE k = m
    BY <1>2, <1>3, <1>5, <1>7, <2>1 DEF Whole, Nested
  <2>2. CASE k < m
    <3>1. Finish(k) <= pos /\ Start(k) < Finish(k) /\ Finish(k) \in Nat /\ Start(k) \in Nat
      <4>1. Start(k) + IdLen < Finish(k) /\ Start(k) \in Nat /\ Finish(k) \in Nat
        BY <1>3
      <4> QED
        BY <1>2, <1>3, <1>5, <2>2, <4>1
    <3> QED
      BY <1>2, <2>2, <3>1 DEF Whole, Nested
  <2>3. CASE m < k
    <3>1. pos < Start(k) /\ Start(k) \in Nat
      BY <1>1, <1>2, <1>3, <2>3
    <3> QED
      BY <1>2, <2>3, <3>1 DEF Whole, Nested
  <2> QED
    BY <1>3, <2>1, <2>2, <2>3
<1> QED
  BY <1>4, <1>5, <1>7, <1>8 DEF d

LEMMA OneByOneStep == OneByOneInv /\ TypeOK' /\ [Next]_vars => OneByOneInv'
<1> SUFFICES ASSUME OneByOneInv, TypeOK', [Next]_vars
             PROVE  OneByOneInv'
  OBVIOUS
<1>0. TypeOK /\ decoded \in Seq(Decoded)
  BY DEF OneByOneInv, TypeOK
<1>1. AllFit' <=> AllFit
  BY SegmentedStays
  DEF Next, ReadShort, ReadSubmission, ReadNested, ReadGarbage, ReadEnd, vars, AllFit, Messages, Fits,
      Length, Start, Finish
<1>2. ends' = ends
  BY DEF Next, ReadShort, ReadSubmission, ReadNested, ReadGarbage, ReadEnd, vars
<1>3. state' = "reading" => unhandled' = 0
  BY DEF OneByOneInv, Next, ReadShort, ReadSubmission, ReadNested, ReadGarbage, ReadEnd, vars
<1> SUFFICES ASSUME AllFit
             PROVE  /\ Len(decoded') <= Len(ends)
                    /\ state' # "panicked"
                    /\ \A i \in DOMAIN decoded' : decoded'[i] = [msg |-> i, ownId |-> TRUE]
                    /\ pos' = unhandled' + DecodedEnd'
  BY <1>1, <1>2, <1>3 DEF OneByOneInv, OneByOne, AllFit, DecodedEnd
<1>4. /\ Len(decoded) <= Len(ends) /\ state # "panicked"
      /\ \A i \in DOMAIN decoded : decoded[i] = [msg |-> i, ownId |-> TRUE]
      /\ pos = unhandled + DecodedEnd
  BY DEF OneByOneInv, OneByOne, AllFit, DecodedEnd
<1>5. decoded' = decoded => DecodedEnd' = DecodedEnd
  BY <1>2 DEF DecodedEnd, Finish
<1>6. ASSUME state = "reading", NEW n \in 1..BufLen,
             ReadShort(n) \/ ReadNested(n) \/ ReadGarbage(n)
      PROVE  FALSE
  <2>1. Chunk(n)
    BY <1>6 DEF ReadShort, ReadNested, ReadGarbage
  <2>2. /\ IdLen < n
        /\ \E m \in Messages : Whole(m, n)
        /\ \A m \in Messages : ~Nested(m, n)
    BY <1>6, <2>1, NextMessageWhole
  <2>3. CASE ReadShort(n)
    BY <2>2, <2>3, LengthsAssumption DEF ReadShort
  <2>4. CASE ReadNested(n)
    BY <2>2, <2>4 DEF ReadNested
  <2>5. CASE ReadGarbage(n)
    BY <2>2, <2>5 DEF ReadGarbage
  <2> QED
    BY <1>6, <2>3, <2>4, <2>5
<1>7. ASSUME state = "reading", NEW n \in 1..BufLen, ReadSubmission(n)
      PROVE  /\ Len(decoded') <= Len(ends)
             /\ state' # "panicked"
             /\ \A i \in DOMAIN decoded' : decoded'[i] = [msg |-> i, ownId |-> TRUE]
             /\ pos' = unhandled' + DecodedEnd'
  <2> DEFINE m == Len(decoded) + 1
             e == [msg |-> m, ownId |-> TRUE]
  <2>1. /\ Chunk(n) /\ pos' = pos + n /\ UNCHANGED <<state, unhandled>>
        /\ \E k \in Messages :
             Whole(k, n) /\ decoded' = Append(decoded, [msg |-> k, ownId |-> TRUE])
    BY <1>7 DEF ReadSubmission
  <2>2. /\ m \in Messages /\ unhandled = 0 /\ pos + n = Finish(m)
        /\ \A k \in Messages : (Whole(k, n) <=> k = m) /\ ~Nested(k, n)
    BY <1>7, <2>1, NextMessageWhole
  <2>3. decoded' = Append(decoded, e)
    BY <2>1, <2>2
  <2>4. e \in Decoded
    BY <2>2, LayoutFacts DEF Decoded, OneByOneInv, TypeOK
  <2>5. /\ Len(decoded') = m /\ decoded' # <<>> /\ Len(decoded) \in Nat
        /\ DOMAIN decoded' = 1..m /\ DOMAIN decoded = 1..Len(decoded)
        /\ \A i \in 1..Len(decoded) : decoded'[i] = decoded[i]
        /\ decoded'[m] = e
    <3> HIDE DEF e
    <3> QED
      BY <1>0, <2>3, <2>4
  <2>6. \A i \in DOMAIN decoded' : decoded'[i] = [msg |-> i, ownId |-> TRUE]
    BY <1>4, <2>5
  <2>7. m <= Len(ends) /\ Finish(m) \in Nat
    BY <1>0, <2>2, LayoutFacts DEF TypeOK
  <2>8. DecodedEnd' = Finish(m)
    BY <1>2, <2>5 DEF DecodedEnd, Finish
  <2> QED
    BY <1>4, <2>1, <2>2, <2>5, <2>6, <2>7, <2>8
<1>8. ASSUME state = "reading", NEW n \in 0..BufLen, ReadEnd(n)
      PROVE  pos' = unhandled' + DecodedEnd' /\ decoded' = decoded /\ state' # "panicked"
  <2>1. pos' = pos + n /\ unhandled' = n /\ decoded' = decoded /\ state' = "closed"
    BY <1>8 DEF ReadEnd
  <2>2. unhandled = 0 /\ pos \in Nat
    BY <1>8, LayoutFacts DEF OneByOneInv, TypeOK
  <2>3. DecodedEnd \in Nat
    <3>1. decoded = <<>> \/ Len(decoded) \in 1..Len(ends)
      BY <1>0, <1>4, LayoutFacts DEF TypeOK
    <3>2. \A m \in 1..Len(ends) : Finish(m) \in Nat
      BY <1>0, LayoutFacts DEF TypeOK
    <3> QED
      BY <3>1, <3>2 DEF DecodedEnd
  <2>4. DecodedEnd' = DecodedEnd /\ pos = DecodedEnd
    BY <1>4, <1>5, <2>1, <2>2, <2>3
  <2> QED
    BY <2>1, <2>2, <2>3, <2>4
<1>9. CASE UNCHANGED vars
  BY <1>4, <1>5, <1>9 DEF vars
<1> QED
  BY <1>4, <1>6, <1>7, <1>8, <1>9 DEF Next

(* handleStream does its whole job on the streams it is made for: with     *)
(* reads that stop where writes ended and messages of up to 1024 bytes,    *)
(* every message becomes the submission it is, once and in its place.      *)
THEOREM FittingStreamsDecoded == Spec => []OneByOne
<1>1. Init => OneByOneInv
  <2> SUFFICES ASSUME Init PROVE OneByOneInv
    OBVIOUS
  <2>1. TypeOK
    BY OrderInit DEF OrderInv
  <2>2. Len(ends) \in Nat
    BY <2>1, LayoutFacts DEF TypeOK
  <2> QED
    BY <2>1, <2>2 DEF Init, OneByOneInv, OneByOne
<1>2. OneByOneInv => OneByOne
  BY DEF OneByOneInv
<1> QED
  BY <1>1, <1>2, TypeCorrect, OneByOneStep, PTL DEF Spec

=============================================================================
