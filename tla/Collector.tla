------------------------------ MODULE Collector ------------------------------
(***************************************************************************)
(* The submission collector: one handleStream goroutine per open stream,   *)
(* all of them writing to the same Redis list and counters.                *)
(*                                                                         *)
(* A turn of a handler is: read a chunk, split and decode it, LPUSH the    *)
(* entry, INCR the counter of its slot and epoch, EXPIRE that counter.     *)
(* Each Redis call is made of attempts: the client, left with its default  *)
(* number of retries and given timeouts of 200 ms, repeats an attempt      *)
(* whose reply it did not get, whether or not the server executed it.  An  *)
(* attempt may even be executed after the client gave up on it, because    *)
(* its bytes were on the wire ("late").                                    *)
(*                                                                         *)
(* How the bytes of a stream become chunks is the subject of FrameReader;  *)
(* here a read gives one of the four results the decoding can have.        *)
(***************************************************************************)
EXTENDS RedisStore, FiniteSets

CONSTANTS
  MaxRetries,   \* attempts of a call after the first (3 in the client)
  MaxReads,     \* bound: chunks read from all remote ends together
  Environments  \* what the environment of a behaviour may do: sets of Events

Calls == {"LPush", "Incr", "Expire"}

(* A call among them may lose its reply or fail; "late" lets an attempt    *)
(* without a reply be executed afterwards; "panic" lets a stream carry     *)
(* what the handler panics on; "kill" stops the process from outside; and  *)
(* "ttl" lets counters reach the end of their time to live.                *)
Events == Calls \cup {"late", "panic", "kill", "ttl"}

ASSUME RetriesAssumption == MaxRetries \in Nat

ASSUME EnvironmentsAssumption == Environments \subseteq SUBSET Events

VARIABLES
  allowed,   \* what the environment of this behaviour may do
  up,        \* whether the process runs, with its "/collect" handler set
  pc,        \* where the handler of each stream is
  hand,      \* the entry a handler works on, Nil between two turns
  attempt,   \* attempts already made of the call in progress
  nread,     \* chunks read from each remote end
  late,      \* attempts on the wire that nobody waits for any more
  accepted,  \* history: entries whose LPUSH returned without an error
  executed   \* history: attempts of LPUSH and INCR the server executed

handlerVars == <<pc, hand, attempt>>
vars == <<redisVars, allowed, up, handlerVars, nread, late, accepted, executed>>

Init ==
  /\ RedisInit
  /\ allowed \in Environments
  /\ up = TRUE
  /\ pc = [s \in Streams |-> "closed"]
  /\ hand = [s \in Streams |-> Nil]
  /\ attempt = [s \in Streams |-> 0]
  /\ nread = [s \in Streams |-> 0]
  /\ late = {}
  /\ accepted = {}
  /\ executed = {}

-----------------------------------------------------------------------------
(* The process.  A panic in one handler is not recovered from, so it stops *)
(* the handlers of all streams where they are; so does a signal.           *)

Stop ==
  /\ up' = FALSE
  /\ pc' = [s \in Streams |-> "closed"]
  /\ hand' = [s \in Streams |-> Nil]
  /\ attempt' = [s \in Streams |-> 0]
  /\ UNCHANGED <<redisVars, nread, late, accepted, executed>>

Kill == "kill" \in allowed /\ up /\ Stop

(* The new process registers the handler again and finds Redis as it is. *)
Restart ==
  /\ ~up
  /\ up' = TRUE
  /\ UNCHANGED <<redisVars, handlerVars, nread, late, accepted, executed>>

-----------------------------------------------------------------------------
(* Reading. *)

Open(s) ==
  /\ up
  /\ pc[s] = "closed"
  /\ pc' = [pc EXCEPT ![s] = "read"]
  /\ UNCHANGED <<redisVars, up, hand, attempt, nread, late, accepted, executed>>

(* End of stream, or any other error of Read: the deferred Close runs. *)
ReadEnd(s) ==
  /\ pc[s] = "read"
  /\ pc' = [pc EXCEPT ![s] = "closed"]
  /\ UNCHANGED <<redisVars, up, hand, attempt, nread, late, accepted, executed>>

ChunksRead == {r \in Streams \X (1..MaxChunks) : r[2] <= nread[r[1]]}

CanRead(s) ==
  /\ pc[s] = "read"
  /\ nread[s] < MaxChunks
  /\ Cardinality(ChunksRead) < MaxReads

(* A chunk shorter than the submission ID: slicing off the rest panics. *)
ReadShort(s) ==
  /\ "panic" \in allowed
  /\ CanRead(s)
  /\ Stop

(* What follows the ID is not the JSON of a submission: the chunk is       *)
(* dropped and the handler reads on.                                       *)
ReadGarbage(s) ==
  /\ CanRead(s)
  /\ nread' = [nread EXCEPT ![s] = @ + 1]
  /\ UNCHANGED <<redisVars, up, handlerVars, late, accepted, executed>>

(* A submission, which has no request only where the panic that follows    *)
(* from it is allowed.                                                     *)
ReadSubmission(s) ==
  /\ CanRead(s)
  /\ nread' = [nread EXCEPT ![s] = @ + 1]
  /\ pc' = [pc EXCEPT ![s] = "LPush"]
  /\ \E sub \in Submission :
       /\ sub.request = Nil => "panic" \in allowed
       /\ hand' = [hand EXCEPT ![s] =
                     [stream |-> s, seq |-> nread[s] + 1, sub |-> sub]]
  /\ UNCHANGED <<redisVars, up, attempt, late, accepted, executed>>

-----------------------------------------------------------------------------
(* Redis calls. *)

Commands == [call : Calls, entry : Entry, attempt : 0..MaxRetries]

Command(s) == [call |-> pc[s], entry |-> hand[s], attempt |-> attempt[s]]

(* The server executes a command. *)
Execute(c) ==
  \/ /\ c.call = "LPush"
     /\ LPush(c.entry)
     /\ executed' = executed \cup {c}
  \/ /\ c.call = "Incr"
     /\ Incr(KeyOf(c.entry))
     /\ executed' = executed \cup {c}
  \/ /\ c.call = "Expire"
     /\ Expire(KeyOf(c.entry))
     /\ UNCHANGED executed

(* Where the handler goes when a call returns.  A failed LPUSH ends the    *)
(* turn; a failed INCR does not keep EXPIRE from being called.             *)
AfterCall_IncrErrorEndsTurn(call, ok) ==
  CASE call = "LPush"  -> IF ok THEN "Incr" ELSE "read"
    [] call = "Incr"   -> IF ok THEN "Expire" ELSE "read"
    [] call = "Expire" -> "read"

AfterCall_PushErrorIgnored(call, ok) ==
  CASE call = "LPush"  -> "Incr"
    [] call = "Incr"   -> "Expire"
    [] call = "Expire" -> "read"

AfterCall_PushErrorInverted(call, ok) ==
  CASE call = "LPush"  -> IF ok THEN "read" ELSE "Incr"
    [] call = "Incr"   -> "Expire"
    [] call = "Expire" -> "read"

AfterCall_PushTriedAgain(call, ok) ==
  CASE call = "LPush"  -> IF ok THEN "Incr" ELSE "LPush"
    [] call = "Incr"   -> "Expire"
    [] call = "Expire" -> "read"

AfterCall(call, ok) ==
  CASE call = "LPush"  -> IF ok THEN "Incr" ELSE "read"
    [] call = "Incr"   -> "Expire"
    [] call = "Expire" -> "read"

(* Back to reading, the handler has nothing in hand. *)
Return_PushErrorUnchecked(s, ok) ==
  /\ pc' = [pc EXCEPT ![s] = AfterCall(@, TRUE)]
  /\ hand' = [hand EXCEPT ![s] = IF AfterCall(pc[s], TRUE) = "read" THEN Nil ELSE @]
  /\ attempt' = [attempt EXCEPT ![s] = 0]
  /\ accepted' = IF pc[s] = "LPush" THEN accepted \cup {hand[s]} ELSE accepted

Return(s, ok) ==
  /\ pc' = [pc EXCEPT ![s] = AfterCall(@, ok)]
  /\ hand' = [hand EXCEPT ![s] = IF AfterCall(pc[s], ok) = "read" THEN Nil ELSE @]
  /\ attempt' = [attempt EXCEPT ![s] = 0]
  /\ accepted' = IF pc[s] = "LPush" /\ ok THEN accepted \cup {hand[s]} ELSE accepted

Retry_OneTooMany(s) ==
  /\ attempt[s] <= MaxRetries
  /\ attempt' = [attempt EXCEPT ![s] = @ + 1]
  /\ UNCHANGED <<pc, hand, accepted>>

Retry(s) ==
  /\ attempt[s] < MaxRetries
  /\ attempt' = [attempt EXCEPT ![s] = @ + 1]
  /\ UNCHANGED <<pc, hand, accepted>>

(* No reply within the timeout: try again, or return the error. *)
TimeOut(s) ==
  \/ Retry(s)
  \/ attempt[s] = MaxRetries /\ Return(s, FALSE)

(* The key of INCR and EXPIRE is built from the request, and building it   *)
(* from an absent one panics, after the entry was queued.                  *)
InCall(s) == pc[s] \in Calls /\ (pc[s] = "Incr" => HasRequest(hand[s]))

DerefNilRequest(s) ==
  /\ pc[s] = "Incr"
  /\ ~HasRequest(hand[s])
  /\ Stop

(* The attempt is executed and the reply arrives. *)
Answered(s) ==
  /\ InCall(s)
  /\ Execute(Command(s))
  /\ Return(s, TRUE)
  /\ UNCHANGED <<up, nread, late>>

(* The attempt is executed and its reply is lost. *)
ReplyLost(s) ==
  /\ InCall(s)
  /\ pc[s] \in allowed
  /\ Execute(Command(s))
  /\ TimeOut(s)
  /\ UNCHANGED <<up, nread, late>>

(* The attempt is sent, no reply comes in time, and the server has not     *)
(* executed it yet.                                                        *)
Overtaken(s) ==
  /\ InCall(s)
  /\ {pc[s], "late"} \subseteq allowed
  /\ late' = late \cup {Command(s)}
  /\ TimeOut(s)
  /\ UNCHANGED <<redisVars, up, nread, executed>>

(* The attempt never reaches the server, or the server refuses it.  The    *)
(* client retries a broken connection but not, say, an exhausted pool.     *)
Failed(s) ==
  /\ InCall(s)
  /\ pc[s] \in allowed
  /\ Retry(s) \/ Return(s, FALSE)
  /\ UNCHANGED <<redisVars, up, nread, late, executed>>

(* The server gets to an attempt nobody waits for. *)
LateArrival ==
  \E c \in late :
    /\ Execute(c)
    /\ late' = late \ {c}
    /\ UNCHANGED <<up, handlerVars, nread, accepted>>

CounterExpires ==
  /\ "ttl" \in allowed
  /\ \E k \in Keys : TtlFires(k)
  /\ UNCHANGED <<up, handlerVars, nread, late, accepted, executed>>

-----------------------------------------------------------------------------

Call(s) ==
  Answered(s) \/ ReplyLost(s) \/ Overtaken(s) \/ Failed(s) \/ DerefNilRequest(s)

Handler(s) ==
  \/ ReadEnd(s) \/ ReadShort(s) \/ ReadGarbage(s) \/ ReadSubmission(s)
  \/ Call(s)

Next ==
  /\ UNCHANGED allowed
  /\ \/ \E s \in Streams : Open(s) \/ Handler(s)
     \/ LateArrival
     \/ CounterExpires
     \/ Kill
     \/ Restart

Spec == Init /\ [][Next]_vars

(* A goroutine that is ready runs, and a call that waits for Redis is cut  *)
(* short by the client's timeouts: handlers in a call do not stand still.  *)
(* Nothing is assumed of the remote ends, of late attempts, of the ends of *)
(* times to live, or of restarts.                                          *)
FairSpec == Spec /\ \A s \in Streams : WF_vars(Call(s) /\ UNCHANGED allowed)

-----------------------------------------------------------------------------
(* Properties. *)

(* Every variable has its type, and a call is never at more attempts than  *)
(* the client makes of it.                                                 *)
TypeOK ==
  /\ RedisTypeOK
  /\ allowed \subseteq Events
  /\ up \in BOOLEAN
  /\ pc \in [Streams -> {"closed", "read"} \cup Calls]
  /\ hand \in [Streams -> Entry \cup {Nil}]
  /\ attempt \in [Streams -> 0..MaxRetries]
  /\ nread \in [Streams -> 0..MaxChunks]
  /\ late \subseteq Commands
  /\ accepted \subseteq Entry
  /\ executed \subseteq Commands

(* How often the server may execute one call of a handler. *)
Tries(call) == IF call \in allowed THEN MaxRetries + 1 ELSE 1

(* A submission the listener read is on the queue at most as often as its  *)
(* LPUSH was tried, so exactly-once as long as no reply of LPUSH is lost.  *)
CopiesBounded ==
  \A i \in DOMAIN submissionQueue :
    Cardinality({j \in DOMAIN submissionQueue :
                   submissionQueue[j] = submissionQueue[i]}) <= Tries("LPush")

(* A counter never exceeds the accepted submissions of its market, slot    *)
(* and epoch by more than repeated INCRs explain: nothing is counted that  *)
(* was not queued, and nothing is counted under another key.               *)
CountBounded ==
  \A k \in Keys :
    count[k] <= Tries("Incr") *
                Cardinality({e \in accepted : HasRequest(e) /\ KeyOf(e) = k})

(* With a healthy Redis, a process that runs on and no time to live at its *)
(* end, the counter of a market, slot and epoch is the number of their     *)
(* queued submissions, but for those between their LPUSH and their INCR.   *)
CountMatchesQueue ==
  allowed = {} =>
  \A m \in Markets, slot \in Slots, epoch \in Epochs :
    LET sub == [market |-> m, request |-> [slot |-> slot, epoch |-> epoch]]
    IN  count[EpochSubmissionCountsReceivedInSlotKey(m, slot, epoch)]
          + Cardinality({s \in Streams : pc[s] = "Incr" /\ hand[s].sub = sub})
        = Cardinality({i \in DOMAIN submissionQueue : submissionQueue[i].sub = sub})

(* Replies of LPUSH and INCR may be lost, and counters expire. *)
Undisturbed == allowed \subseteq {"LPush", "Incr", "ttl"}

(* When a process runs on and EXPIRE does not fail, a counter has a time   *)
(* to live, except while a handler that may have incremented it has its    *)
(* EXPIRE still to come.  EXPIRE being called even after a failed INCR is  *)
(* what makes this hold when replies are lost.                             *)
CountersMortal ==
  Undisturbed =>
  \A k \in Keys :
    (count[k] > 0 /\ ~ttl[k]) =>
      \E s \in Streams :
        /\ pc[s] = "Expire" \/ (pc[s] = "Incr" /\ attempt[s] > 0)
        /\ HasRequest(hand[s])
        /\ KeyOf(hand[s]) = k

(* The collector as the reader of the queue and of the counters sees it. *)
Ledger == INSTANCE SubmissionLedger
            WITH submissionQueue <- submissionQueue, accepted <- accepted, count <- count

LedgerSpec == Ledger!LedgerSpec

(* Accepted submissions of one stream are queued in the order read, with   *)
(* retries, late attempts, crashes and other streams in between.           *)
AcceptedInOrder == Ledger!InOrder

(* What was accepted is on the queue and stays there: no crash, retry or   *)
(* late attempt takes an entry from the queue or an acceptance back.       *)
AcceptedAreQueued == Ledger!AcceptedAreQueued

NothingTakenBack == Ledger!OnlyGrows

(* As long as LPUSH neither fails nor loses a reply, the queue holds, of   *)
(* every stream, exactly the accepted submissions, each once and in the    *)
(* order read, whatever becomes of the counters and however often the      *)
(* process stops.                                                          *)
ExactlyOnce ==
  "LPush" \notin allowed =>
  /\ AcceptedAreQueued
  /\ \A i \in DOMAIN submissionQueue : submissionQueue[i] \in accepted
  /\ \A i, j \in DOMAIN submissionQueue :
       i < j /\ submissionQueue[i].stream = submissionQueue[j].stream
         => submissionQueue[i].seq < submissionQueue[j].seq

(* Attempts a handler has left before its turn is over. *)
AttemptsLeft(s) ==
  LET perCall == MaxRetries + 1
  IN  CASE pc[s] = "LPush"  -> 3 * perCall - attempt[s]
        [] pc[s] = "Incr"   -> 2 * perCall - attempt[s]
        [] pc[s] = "Expire" -> perCall - attempt[s]
        [] OTHER            -> 0

(* A turn only runs down: a step leaves a handler in a call where it is,   *)
(* or takes at least one of the attempts it has left, with no other entry  *)
(* in hand.  Neither another handler, a late attempt nor a restart gives   *)
(* it attempts back, so a turn is 3 * (MaxRetries + 1) attempts at most.   *)
TurnsRunDown ==
  [][\A s \in Streams : pc[s] \in Calls =>
       \/ pc'[s] = pc[s] /\ hand'[s] = hand[s] /\ attempt'[s] = attempt[s]
       \/ /\ AttemptsLeft(s)' \in 0..(AttemptsLeft(s) - 1)
          /\ hand'[s] = IF pc'[s] \in Calls THEN hand[s] ELSE Nil]_vars

(* A handler that calls Redis returns to its stream, or ends with it,      *)
(* however the calls fail: no call is repeated for ever.                   *)
EveryTurnEnds ==
  \A s \in Streams : pc[s] \in Calls ~> pc[s] \in {"read", "closed"}

(* With a healthy Redis and a process that runs on, a submission that was  *)
(* read is accepted by the queue and counted.                              *)
EverySubmissionCounted ==
  allowed = {} =>
  \A s \in Streams : \A n \in 1..MaxChunks :
    (hand[s] # Nil /\ hand[s].seq = n)
      ~> \E c \in executed : /\ c.call = "Incr"
                             /\ c.entry \in accepted
                             /\ c.entry.stream = s
                             /\ c.entry.seq = n

=============================================================================
