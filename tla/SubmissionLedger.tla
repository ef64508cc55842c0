-------------------------- MODULE SubmissionLedger --------------------------
(***************************************************************************)
(* What the collector promises to whoever reads the queue and the          *)
(* counters, with no handlers, calls, retries or crashes in it:            *)
(*                                                                         *)
(*  - entries only ever join the queue at its end, possibly in copies;     *)
(*  - an entry is accepted in the step that puts a copy of it on the       *)
(*    queue, and no later while newer entries of its stream are queued;    *)
(*  - a counter moves up by one, and only for an accepted entry;           *)
(*  - a counter may be forgotten as a whole.                               *)
(***************************************************************************)
EXTENDS Sequences, Submissions

VARIABLES
  submissionQueue,  \* entries ever queued, oldest first
  accepted,         \* entries the listener knows to be queued
  count             \* per-key counter of accepted entries

ledgerVars == <<submissionQueue, accepted, count>>

LedgerInit ==
  /\ submissionQueue = <<>>
  /\ accepted = {}
  /\ count = [k \in Keys |-> 0]

Newest(e) ==
  \A i \in DOMAIN submissionQueue :
    submissionQueue[i].stream = e.stream => submissionQueue[i].seq <= e.seq

Queue(e) ==
  /\ submissionQueue' = Append(submissionQueue, e)
  /\ UNCHANGED <<accepted, count>>

Accept(e) ==
  /\ Newest(e)
  /\ submissionQueue' = Append(submissionQueue, e)
  /\ accepted' = accepted \cup {e}
  /\ UNCHANGED count

Tally(e) ==
  /\ e \in accepted
  /\ HasRequest(e)
  /\ count' = [count EXCEPT ![KeyOf(e)] = @ + 1]
  /\ UNCHANGED <<submissionQueue, accepted>>

Forget(k) ==
  /\ count' = [count EXCEPT ![k] = 0]
  /\ UNCHANGED <<submissionQueue, accepted>>

LedgerNext ==
  \/ \E e \in Entry : Queue(e) \/ Accept(e) \/ Tally(e)
  \/ \E k \in Keys : Forget(k)

LedgerSpec == LedgerInit /\ [][LedgerNext]_ledgerVars

LedgerTypeOK ==
  /\ submissionQueue \in Seq(Entry)
  /\ accepted \subseteq Entry
  /\ count \in [Keys -> Nat]

(* What was accepted is on the queue: the listener never takes for queued  *)
(* what a reader of the queue will not find.                               *)
AcceptedAreQueued ==
  \A a \in accepted : \E j \in DOMAIN submissionQueue : submissionQueue[j] = a

(* The queue only grows, at its end, and nothing accepted is taken back.   *)
Grows ==
  /\ accepted \subseteq accepted'
  /\ Len(submissionQueue) <= Len(submissionQueue')
  /\ \A i \in DOMAIN submissionQueue : submissionQueue'[i] = submissionQueue[i]

OnlyGrows == [][Grows]_ledgerVars

Precedes(a, i) == \E j \in 1..(i - 1) : submissionQueue[j] = a

(* Entries of one stream that the listener accepted are met by a reader of *)
(* the queue in the order in which they were read from the stream: before  *)
(* any copy of a newer entry stands a copy of every older accepted one.    *)
InOrder ==
  \A i \in DOMAIN submissionQueue : \A a \in accepted :
    /\ a.stream = submissionQueue[i].stream
    /\ a.seq < submissionQueue[i].seq
    => Precedes(a, i)

=============================================================================
