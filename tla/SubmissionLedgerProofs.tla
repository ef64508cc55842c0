----------------------- MODULE SubmissionLedgerProofs -----------------------
(* The ledger keeps accepted entries of a stream in order, for any sets of *)
(* streams, markets, slots and epochs.                                     *)
EXTENDS SubmissionLedger, TLAPS

(* InOrder is not inductive alone: an entry accepted long ago must still   *)
(* be on the queue when a newer one joins it.                              *)
LedgerInv == LedgerTypeOK /\ AcceptedAreQueued /\ InOrder

(* The counter of an entry with a request is one of the counters. *)
LEMMA KeyIsKey ==
  ASSUME NEW e \in Entry, HasRequest(e)
  PROVE  KeyOf(e) \in Keys
<1>1. e.sub.market \in Markets /\ e.sub.request \in Request
  BY DEF Entry, Submission, HasRequest
<1> QED
  BY <1>1 DEF KeyOf, Keys, Request

(* Joining the queue keeps every entry where it is. *)
LEMMA AppendKeeps ==
  ASSUME NEW q \in Seq(Entry), NEW e \in Entry
  PROVE  /\ Append(q, e) \in Seq(Entry)
         /\ DOMAIN q = 1..Len(q)
         /\ Len(q) \in Nat
         /\ DOMAIN Append(q, e) = 1..(Len(q) + 1)
         /\ \A i \in 1..Len(q) : Append(q, e)[i] = q[i]
         /\ Append(q, e)[Len(q) + 1] = e
  OBVIOUS

LEMMA LedgerInitInv == LedgerInit => LedgerInv
  BY DEF LedgerInit, LedgerInv, LedgerTypeOK, AcceptedAreQueued, InOrder

(* An entry joins the queue, and may be accepted if it is the newest of    *)
(* its stream.                                                             *)
LEMMA JoinKeepsOrder ==
  ASSUME LedgerInv,
         NEW e \in Entry,
         submissionQueue' = Append(submissionQueue, e),
         accepted' = accepted \/ (Newest(e) /\ accepted' = accepted \cup {e})
  PROVE  AcceptedAreQueued' /\ InOrder'
<1> DEFINE n == Len(submissionQueue)
<1>1. /\ submissionQueue \in Seq(Entry)
      /\ DOMAIN submissionQueue = 1..n
      /\ n \in Nat
      /\ DOMAIN submissionQueue' = 1..(n + 1)
      /\ \A i \in 1..n : submissionQueue'[i] = submissionQueue[i]
      /\ submissionQueue'[n + 1] = e
  BY AppendKeeps DEF LedgerInv, LedgerTypeOK
<1> HIDE DEF n
<1>2. accepted' \subseteq accepted \cup {e} /\ accepted \subseteq Entry
  BY DEF LedgerInv, LedgerTypeOK
<1>3. AcceptedAreQueued'
  <2> SUFFICES ASSUME NEW a \in accepted'
               PROVE  \E j \in DOMAIN submissionQueue' : submissionQueue'[j] = a
    BY DEF AcceptedAreQueued
  <2>1. CASE a = e
    BY <1>1, <2>1
  <2>2. CASE a \in accepted
    <3>1. PICK j \in 1..n : submissionQueue[j] = a
      BY <1>1, <2>2 DEF LedgerInv, AcceptedAreQueued
    <3> QED
      BY <1>1, <3>1
  <2> QED
    BY <1>2, <2>1, <2>2
<1>4. InOrder'
  <2> SUFFICES ASSUME NEW i \in DOMAIN submissionQueue',
                      NEW a \in accepted',
                      a.stream = submissionQueue'[i].stream,
                      a.seq < submissionQueue'[i].seq
               PROVE  \E j \in 1..(i - 1) : submissionQueue'[j] = a
    BY DEF InOrder, Precedes
  <2>1. CASE a \in accepted /\ i \in 1..n
    <3>1. PICK j \in 1..(i - 1) : submissionQueue[j] = a
      BY <1>1, <2>1 DEF LedgerInv, InOrder, Precedes
    <3> QED
      BY <1>1, <2>1, <3>1
  <2>2. CASE a \in accepted /\ i = n + 1
    <3>1. PICK j \in 1..n : submissionQueue[j] = a
      BY <1>1, <2>2 DEF LedgerInv, AcceptedAreQueued
    <3> QED
      BY <1>1, <2>2, <3>1
  <2>3. CASE a = e /\ a \notin accepted
    <3>1. Newest(e)
      BY <2>3
    <3>2. i # n + 1
      BY <1>1, <2>3 DEF Entry
    <3>3. i \in 1..n /\ submissionQueue'[i] = submissionQueue[i]
      BY <1>1, <3>2
    <3>4. submissionQueue[i] \in Entry
      BY <1>1, <3>3
    <3> QED
      BY <1>1, <2>3, <3>1, <3>3, <3>4, MaxChunksAssumption DEF Newest, Entry
  <2> QED
    BY <1>1, <1>2, <2>1, <2>2, <2>3
<1> QED
  BY <1>3, <1>4

LEMMA LedgerStepInv == LedgerInv /\ [LedgerNext]_ledgerVars => LedgerInv'
<1> SUFFICES ASSUME LedgerInv, [LedgerNext]_ledgerVars
             PROVE  LedgerInv'
  OBVIOUS
<1>1. ASSUME NEW e \in Entry, Queue(e)
      PROVE  LedgerInv'
  <2>1. LedgerTypeOK'
    BY <1>1, AppendKeeps DEF Queue, LedgerInv, LedgerTypeOK
  <2> QED
    BY <1>1, <2>1, JoinKeepsOrder DEF Queue, LedgerInv
<1>2. ASSUME NEW e \in Entry, Accept(e)
      PROVE  LedgerInv'
  <2>1. LedgerTypeOK'
    BY <1>2, AppendKeeps DEF Accept, LedgerInv, LedgerTypeOK
  <2> QED
    BY <1>2, <2>1, JoinKeepsOrder DEF Accept, LedgerInv
<1>3. ASSUME NEW e \in Entry, Tally(e)
      PROVE  LedgerInv'
  <2>1. LedgerTypeOK'
    BY <1>3, KeyIsKey DEF Tally, LedgerInv, LedgerTypeOK
  <2> QED
    BY <1>3, <2>1 DEF Tally, LedgerInv, AcceptedAreQueued, InOrder, Precedes
<1>4. ASSUME NEW k \in Keys, Forget(k)
      PROVE  LedgerInv'
  <2>1. LedgerTypeOK'
    BY <1>4 DEF Forget, LedgerInv, LedgerTypeOK
  <2> QED
    BY <1>4, <2>1 DEF Forget, LedgerInv, AcceptedAreQueued, InOrder, Precedes
<1>5. CASE UNCHANGED ledgerVars
  BY <1>5 DEF ledgerVars, LedgerInv, LedgerTypeOK, AcceptedAreQueued, InOrder,
              Precedes
<1> QED
  BY <1>1, <1>2, <1>3, <1>4, <1>5 DEF LedgerNext

(* In the ledger, accepted entries of one stream stand in the order in     *)
(* which they were read: what collector.go promises with one handler per   *)
(* stream that waits for LPUSH before it reads on.                         *)
THEOREM LedgerInOrder == LedgerSpec => []InOrder
<1>1. LedgerInv => InOrder
  BY DEF LedgerInv
<1> QED
  BY <1>1, LedgerInitInv, LedgerStepInv, PTL DEF LedgerSpec

(* What the ledger took for accepted is on its queue: the listener counts  *)
(* no entry that WriteToSubmissionQueue did not put there.                 *)
THEOREM LedgerKeepsAccepted == LedgerSpec => []AcceptedAreQueued
<1>1. LedgerInv => AcceptedAreQueued
  BY DEF LedgerInv
<1> QED
  BY <1>1, LedgerInitInv, LedgerStepInv, PTL DEF LedgerSpec

LEMMA LedgerStepGrows == LedgerInv /\ [LedgerNext]_ledgerVars => [Grows]_ledgerVars
<1> SUFFICES ASSUME LedgerInv, LedgerNext
             PROVE  Grows
  OBVIOUS
<1>1. submissionQueue \in Seq(Entry)
  BY DEF LedgerInv, LedgerTypeOK
<1>2. ASSUME NEW e \in Entry, submissionQueue' = Append(submissionQueue, e),
             accepted' \in {accepted, accepted \cup {e}}
      PROVE  Grows
  BY <1>1, <1>2, AppendKeeps DEF Grows
<1>3. ASSUME UNCHANGED <<submissionQueue, accepted>>
      PROVE  Grows
  BY <1>1, <1>3 DEF Grows
<1> QED
  BY <1>2, <1>3 DEF LedgerNext, Queue, Accept, Tally, Forget

(* No step of the ledger removes, replaces or moves a queued entry, or     *)
(* takes back an acceptance: the listener has LPUSH, and nothing that      *)
(* undoes it.                                                              *)
THEOREM LedgerOnlyGrows == LedgerSpec => OnlyGrows
  BY LedgerInitInv, LedgerStepInv, LedgerStepGrows, PTL DEF LedgerSpec, OnlyGrows

=============================================================================
