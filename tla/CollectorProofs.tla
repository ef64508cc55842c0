--------------------------- MODULE CollectorProofs ---------------------------
(* The collector's invariants and its refinement of the ledger, for any    *)
(* sets of streams and keys, any bound on chunks, any number of retries    *)
(* and any behaviour of the environment.                                   *)
EXTENDS Collector, FiniteSetTheorems, TLAPS

L == INSTANCE SubmissionLedgerProofs

-----------------------------------------------------------------------------
(* The inductive invariant. *)

(* A handler in a call has the entry of the chunk read last in its hand;   *)
(* it increments and expires only what was accepted, and is at a second    *)
(* attempt only of a call that may fail.                                   *)
HandOK(s) ==
  /\ pc[s] \in Calls =>
       /\ hand[s] \in Entry
       /\ hand[s].stream = s
       /\ hand[s].seq = nread[s]
  /\ pc[s] = "LPush" => hand[s] \notin accepted
  /\ pc[s] \in {"Incr", "Expire"} => hand[s] \in accepted
  /\ pc[s] = "Expire" => HasRequest(hand[s])
  /\ attempt[s] > 0 => pc[s] \in Calls \cap allowed

(* The entries of queue, history and wire were read before. *)
Read(e) == e.seq <= nread[e.stream]

PastOK ==
  /\ \A i \in DOMAIN submissionQueue : Read(submissionQueue[i])
  /\ \A e \in accepted : Read(e)
  /\ \A c \in late \cup executed : Read(c.entry)

(* The wire carries only calls that may fail, and INCR and EXPIRE only of  *)
(* accepted entries with a request.                                        *)
LateOK ==
  \A c \in late :
    /\ c.call \in allowed
    /\ c.call \in {"Incr", "Expire"} => c.entry \in accepted /\ HasRequest(c.entry)

(* What was executed is one of the attempts a call has, and INCR was       *)
(* executed only for accepted entries with a request.                      *)
ExecutedOK ==
  \A c \in executed :
    /\ c.call \in {"LPush", "Incr"}
    /\ c.call = "Incr" => c.entry \in accepted /\ HasRequest(c.entry)
    /\ c.attempt < Tries(c.call)

(* No attempt is executed twice: one that was executed is not on the wire, *)
(* and a handler is past all attempts it made.                             *)
OnceEach ==
  /\ late \cap executed = {}
  /\ \A s \in Streams : \A c \in late \cup executed :
       (pc[s] \in {"LPush", "Incr"} /\ c.call = pc[s] /\ c.entry = hand[s])
         => c.attempt < attempt[s]

Increments(k) == {c \in executed : c.call = "Incr" /\ KeyOf(c.entry) = k}

(* A counter is at most the number of increments of its key. *)
CountOK ==
  /\ IsFiniteSet(executed)
  /\ \A k \in Keys : count[k] <= Cardinality(Increments(k))

Copies(e) == {i \in DOMAIN submissionQueue : submissionQueue[i] = e}

Pushes(e) == {c \in executed : c.call = "LPush" /\ c.entry = e}

(* An entry has as many copies as its LPUSH was executed. *)
QueueOK == \A e \in Entry : Cardinality(Copies(e)) <= Cardinality(Pushes(e))

IInv ==
  /\ TypeOK
  /\ \A s \in Streams : HandOK(s)
  /\ PastOK
  /\ LateOK
  /\ ExecutedOK
  /\ OnceEach
  /\ CountOK
  /\ QueueOK
  /\ IsFiniteSet(accepted)

-----------------------------------------------------------------------------
(* Commands and their execution. *)

(* What a handler in a call sends is a command, of a key that exists. *)
Sendable(c) == c \in Commands /\ (c.call \in {"Incr", "Expire"} => HasRequest(c.entry))

(* The counter of an entry with a request is one of the counters. *)
LEMMA KeyIsKey ==
  ASSUME NEW e \in Entry, HasRequest(e)
  PROVE  KeyOf(e) \in Keys
<1>1. e.sub.market \in Markets /\ e.sub.request \in Request
  BY DEF Entry, Submission, HasRequest
<1> QED
  BY <1>1 DEF KeyOf, Keys, Request

LEMMA CommandSendable ==
  ASSUME IInv, NEW s \in Streams, InCall(s)
  PROVE  /\ Sendable(Command(s))
         /\ Command(s).call = pc[s]
         /\ Command(s).entry = hand[s]
         /\ Command(s).attempt = attempt[s]
         /\ Read(hand[s])
         /\ attempt[s] > 0 => pc[s] \in allowed
<1>1. TypeOK /\ HandOK(s)
  BY DEF IInv
<1>2. hand[s] \in Entry /\ hand[s].stream = s /\ hand[s].seq = nread[s]
  BY <1>1 DEF HandOK, InCall
<1>3. pc[s] \in Calls /\ attempt[s] \in 0..MaxRetries /\ nread[s] \in Nat
  BY <1>1, MaxChunksAssumption DEF TypeOK, InCall
<1>4. pc[s] \in {"Incr", "Expire"} => HasRequest(hand[s])
  BY <1>1 DEF HandOK, InCall
<1> QED
  BY <1>1, <1>2, <1>3, <1>4 DEF Command, Commands, Sendable, Read, HandOK

(* The types are kept, and only LPUSH and INCR add to what was executed. *)
LEMMA ExecuteKeepsTypes ==
  ASSUME TypeOK, NEW c, Sendable(c), Execute(c)
  PROVE  /\ RedisTypeOK'
         /\ executed' \subseteq Commands
         /\ \/ executed' = executed
            \/ c.call \in {"LPush", "Incr"} /\ executed' = executed \cup {c}
<1>1. c.entry \in Entry
  BY DEF Sendable, Commands
<1>2. CASE c.call = "LPush" /\ LPush(c.entry) /\ executed' = executed \cup {c}
  BY <1>1, <1>2 DEF LPush, TypeOK, RedisTypeOK, Sendable
<1>3. CASE c.call = "Incr" /\ Incr(KeyOf(c.entry)) /\ executed' = executed \cup {c}
  <2>1. KeyOf(c.entry) \in Keys
    BY <1>1, <1>3, KeyIsKey DEF Sendable
  <2> QED
    BY <1>3, <2>1 DEF Incr, TypeOK, RedisTypeOK, Sendable
<1>4. CASE c.call = "Expire" /\ Expire(KeyOf(c.entry)) /\ UNCHANGED executed
  <2>1. KeyOf(c.entry) \in Keys
    BY <1>1, <1>4, KeyIsKey DEF Sendable
  <2>2. ttl' \in [Keys -> BOOLEAN]
    <3>1. ttl[KeyOf(c.entry)] \in BOOLEAN
      BY <2>1 DEF TypeOK, RedisTypeOK
    <3> QED
      BY <1>4, <2>1, <3>1 DEF Expire, TypeOK, RedisTypeOK
  <2> QED
    BY <1>4, <2>2 DEF Expire, TypeOK, RedisTypeOK
<1> QED
  BY <1>2, <1>3, <1>4 DEF Execute

(* The queue gains at most the entry of the command. *)
LEMMA ExecuteQueue ==
  ASSUME TypeOK, NEW c, Sendable(c), Execute(c)
  PROVE  \A i \in DOMAIN submissionQueue' :
           \/ submissionQueue'[i] = c.entry
           \/ \E j \in DOMAIN submissionQueue : submissionQueue'[i] = submissionQueue[j]
<1>1. c.entry \in Entry /\ submissionQueue \in Seq(Entry)
  BY DEF Sendable, Commands, TypeOK, RedisTypeOK
<1>2. CASE submissionQueue' = Append(submissionQueue, c.entry)
  BY <1>1, <1>2
<1>3. CASE submissionQueue' = submissionQueue
  BY <1>3
<1> QED
  BY <1>2, <1>3 DEF Execute, LPush, Incr, Expire

(* Every increment is one attempt: a counter grows with its attempts. *)
LEMMA ExecuteKeepsCount ==
  ASSUME IInv, NEW c, Sendable(c), c \notin executed, Execute(c)
  PROVE  CountOK'
<1>1. TypeOK /\ CountOK /\ IsFiniteSet(executed)
  BY DEF IInv, CountOK
<1>2. CASE c.call # "Incr"
  <2>1. executed' \in {executed, executed \cup {c}} /\ count' = count
    BY <1>2 DEF Execute, LPush, Expire
  <2>2. IsFiniteSet(executed')
    BY <1>1, <2>1, FS_AddElement
  <2>3. \A k \in Keys : Increments(k)' = Increments(k)
    BY <1>2, <2>1 DEF Increments
  <2> QED
    BY <1>1, <2>1, <2>2, <2>3 DEF CountOK
<1>3. CASE c.call = "Incr"
  <2>1. c.entry \in Entry /\ HasRequest(c.entry)
    BY <1>3 DEF Sendable, Commands
  <2>2. executed' = executed \cup {c}
    BY <1>3 DEF Execute
  <2>3. KeyOf(c.entry) \in Keys
    BY <2>1, KeyIsKey
  <2>4. count' = [count EXCEPT ![KeyOf(c.entry)] = @ + 1]
    BY <1>3 DEF Execute, Incr
  <2>5. IsFiniteSet(executed')
    BY <1>1, <2>2, FS_AddElement
  <2>6. ASSUME NEW k \in Keys
        PROVE  count'[k] <= Cardinality(Increments(k)')
    <3>1. IsFiniteSet(Increments(k)) /\ Cardinality(Increments(k)) \in Nat
      BY <1>1, FS_Subset, FS_CardinalityType DEF Increments
    <3>2. count[k] \in Nat /\ count[k] <= Cardinality(Increments(k))
      BY <1>1 DEF TypeOK, RedisTypeOK, CountOK
    <3>3. CASE k = KeyOf(c.entry)
      <4>1. Increments(k)' = Increments(k) \cup {c}
        BY <1>3, <2>2, <3>3 DEF Increments
      <4>2. c \notin Increments(k)
        BY DEF Increments
      <4>3. Cardinality(Increments(k)') = Cardinality(Increments(k)) + 1
        BY <3>1, <4>1, <4>2, FS_AddElement
      <4>4. count'[k] = count[k] + 1
        BY <1>1, <2>4, <3>3 DEF TypeOK, RedisTypeOK
      <4> QED
        BY <3>1, <3>2, <4>3, <4>4
    <3>4. CASE k # KeyOf(c.entry)
      <4>1. Increments(k)' = Increments(k)
        BY <2>2, <3>4 DEF Increments
      <4>2. count'[k] = count[k]
        BY <1>1, <2>3, <2>4, <3>4 DEF TypeOK, RedisTypeOK
      <4> QED
        BY <3>2, <4>1, <4>2
    <3> QED
      BY <3>3, <3>4
  <2> QED
    BY <2>5, <2>6 DEF CountOK
<1> QED
  BY <1>2, <1>3

(* Every copy is one attempt. *)
LEMMA ExecuteKeepsQueue ==
  ASSUME IInv, NEW c, Sendable(c), c \notin executed, Execute(c)
  PROVE  QueueOK'
<1>1. TypeOK /\ QueueOK /\ IsFiniteSet(executed) /\ submissionQueue \in Seq(Entry)
  BY DEF IInv, CountOK, TypeOK, RedisTypeOK
<1>2. CASE c.call # "LPush"
  <2>1. submissionQueue' = submissionQueue /\ executed' \in {executed, executed \cup {c}}
    BY <1>2 DEF Execute, Incr, Expire
  <2>2. \A e \in Entry : Copies(e)' = Copies(e) /\ Pushes(e)' = Pushes(e)
    BY <1>2, <2>1 DEF Copies, Pushes
  <2> QED
    BY <1>1, <2>2 DEF QueueOK
<1>3. CASE c.call = "LPush"
  <2>1. /\ submissionQueue' = Append(submissionQueue, c.entry)
        /\ executed' = executed \cup {c}
    BY <1>3 DEF Execute, LPush
  <2>2. c.entry \in Entry
    BY DEF Sendable, Commands
  <2> SUFFICES ASSUME NEW e \in Entry
               PROVE  Cardinality(Copies(e)') <= Cardinality(Pushes(e)')
    BY DEF QueueOK
  <2>3. /\ IsFiniteSet(Copies(e)) /\ Cardinality(Copies(e)) \in Nat
        /\ IsFiniteSet(Pushes(e)) /\ Cardinality(Pushes(e)) \in Nat
        /\ Cardinality(Copies(e)) <= Cardinality(Pushes(e))
    <3>1. IsFiniteSet(Pushes(e))
      BY <1>1, FS_Subset DEF Pushes
    <3>2. IsFiniteSet(1..Len(submissionQueue)) /\ DOMAIN submissionQueue = 1..Len(submissionQueue)
      BY <1>1, FS_Interval
    <3>3. IsFiniteSet(Copies(e))
      BY <3>2, FS_Subset DEF Copies
    <3> QED
      BY <1>1, <3>1, <3>3, FS_CardinalityType DEF QueueOK
  <2>4. CASE e = c.entry
    <3>1. Copies(e)' = Copies(e) \cup {Len(submissionQueue) + 1}
      BY <1>1, <2>1, <2>4 DEF Copies
    <3>2. Len(submissionQueue) + 1 \notin Copies(e)
      BY <1>1 DEF Copies
    <3>3. Pushes(e)' = Pushes(e) \cup {c} /\ c \notin Pushes(e)
      BY <1>3, <2>1, <2>4 DEF Pushes
    <3>4. Cardinality(Copies(e)') = Cardinality(Copies(e)) + 1
      BY <2>3, <3>1, <3>2, FS_AddElement
    <3>5. Cardinality(Pushes(e)') = Cardinality(Pushes(e)) + 1
      BY <2>3, <3>3, FS_AddElement
    <3> QED
      BY <2>3, <3>4, <3>5
  <2>5. CASE e # c.entry
    <3>1. Copies(e)' = Copies(e)
      BY <1>1, <2>1, <2>2, <2>5 DEF Copies
    <3>2. Pushes(e)' = Pushes(e)
      BY <2>1, <2>5 DEF Pushes
    <3> QED
      BY <2>3, <3>1, <3>2
  <2> QED
    BY <2>4, <2>5
<1> QED
  BY <1>2, <1>3

-----------------------------------------------------------------------------
(* The handler's side of a call. *)

(* After an attempt the handler tries again or returns from the call. *)
Moves(s, ok) ==
  /\ up' = up
  /\ nread' = nread
  /\ \/ Retry(s) /\ pc[s] \in allowed
     \/ Return(s, ok)

LEMMA MoveKeepsTypes ==
  ASSUME IInv, NEW s \in Streams, InCall(s), NEW ok \in BOOLEAN, Moves(s, ok)
  PROVE  /\ pc' \in [Streams -> {"closed", "read"} \cup Calls]
         /\ hand' \in [Streams -> Entry \cup {Nil}]
         /\ attempt' \in [Streams -> 0..MaxRetries]
         /\ accepted' \subseteq Entry
         /\ accepted \subseteq accepted'
         /\ accepted' \subseteq accepted \cup {hand[s]}
         /\ pc[s] # "LPush" => accepted' = accepted
<1>1. TypeOK /\ HandOK(s) /\ pc[s] \in Calls /\ hand[s] \in Entry
  BY DEF IInv, InCall, HandOK
<1>2. CASE Retry(s)
  BY <1>1, <1>2, RetriesAssumption DEF Retry, TypeOK
<1>3. CASE Return(s, ok)
  <2>1. AfterCall(pc[s], ok) \in {"read"} \cup Calls
    BY <1>1 DEF AfterCall, Calls
  <2>2. pc' \in [Streams -> {"closed", "read"} \cup Calls]
    BY <1>1, <1>3, <2>1 DEF Return, TypeOK
  <2>3. /\ hand' \in [Streams -> Entry \cup {Nil}]
        /\ attempt' \in [Streams -> 0..MaxRetries]
    BY <1>1, <1>3, RetriesAssumption DEF Return, TypeOK
  <2>4. accepted' = accepted \/ (pc[s] = "LPush" /\ accepted' = accepted \cup {hand[s]})
    BY <1>3 DEF Return
  <2> QED
    BY <1>1, <2>2, <2>3, <2>4 DEF TypeOK
<1> QED
  BY <1>2, <1>3 DEF Moves

LEMMA MoveKeepsHands ==
  ASSUME IInv, UNCHANGED allowed, NEW s \in Streams, InCall(s), NEW ok \in BOOLEAN, Moves(s, ok),
         NEW t \in Streams
  PROVE  HandOK(t)'
<1>1. TypeOK /\ HandOK(s) /\ HandOK(t) /\ pc[s] \in Calls
  BY DEF IInv, InCall
<1>2. nread' = nread /\ accepted \subseteq accepted' /\ accepted' \subseteq accepted \cup {hand[s]}
  BY MoveKeepsTypes DEF Moves
<1>3. hand[s] \in Entry /\ hand[s].stream = s /\ hand[s].seq = nread[s]
  BY <1>1 DEF HandOK
<1>4. CASE t # s
  <2>1. pc'[t] = pc[t] /\ hand'[t] = hand[t] /\ attempt'[t] = attempt[t]
    BY <1>1, <1>4 DEF Moves, Retry, Return, TypeOK
  <2>2. pc[t] = "LPush" => hand[t] # hand[s]
    BY <1>1, <1>3, <1>4 DEF HandOK, Calls
  <2> QED
    BY <1>1, <1>2, <2>1, <2>2 DEF HandOK
<1>5. CASE t = s /\ Retry(s) /\ pc[s] \in allowed
  <2>1. pc' = pc /\ hand' = hand /\ accepted' = accepted
    BY <1>5 DEF Retry
  <2> QED
    BY <1>1, <1>2, <1>5, <2>1 DEF HandOK
<1>6. CASE t = s /\ Return(s, ok)
  <2>1. pc'[s] = AfterCall(pc[s], ok) /\ attempt'[s] = 0
    BY <1>1, <1>6 DEF Return, TypeOK
  <2>2. pc'[s] # "read" => hand'[s] = hand[s]
    BY <1>1, <1>6, <2>1 DEF Return, TypeOK
  <2>3. pc'[s] \in {"read", "Incr", "Expire"}
    BY <1>1, <2>1 DEF AfterCall, Calls
  <2>4. pc'[s] \in {"Incr", "Expire"} => hand[s] \in accepted'
    BY <1>1, <1>2, <1>6, <2>1 DEF AfterCall, Return, HandOK, Calls
  <2>5. pc'[s] = "Expire" => HasRequest(hand[s])
    BY <1>1, <2>1 DEF AfterCall, InCall, Calls
  <2> QED
    BY <1>2, <1>3, <1>6, <2>1, <2>2, <2>3, <2>4, <2>5 DEF HandOK, Calls
<1> QED
  BY <1>4, <1>5, <1>6 DEF Moves

(* A handler that is before an attempt of LPUSH or INCR after its move     *)
(* either made one attempt more, or just had its entry accepted, or did    *)
(* not move.                                                               *)
LEMMA MoveToAttempt ==
  ASSUME IInv, NEW s \in Streams, InCall(s), NEW ok \in BOOLEAN, Moves(s, ok),
         NEW t \in Streams, pc'[t] \in {"LPush", "Incr"}
  PROVE  \/ t = s /\ pc'[s] = pc[s] /\ hand'[s] = hand[s] /\ attempt'[s] = attempt[s] + 1
         \/ t = s /\ pc[s] = "LPush" /\ pc'[s] = "Incr" /\ hand'[s] = hand[s]
         \/ t # s /\ pc'[t] = pc[t] /\ hand'[t] = hand[t] /\ attempt'[t] = attempt[t]
<1>1. TypeOK /\ pc[s] \in Calls
  BY DEF IInv, InCall
<1>2. CASE t # s
  BY <1>1, <1>2 DEF Moves, Retry, Return, TypeOK
<1>3. CASE t = s /\ Retry(s)
  BY <1>1, <1>3 DEF Retry, TypeOK
<1>4. CASE t = s /\ Return(s, ok)
  <2>1. AfterCall(pc[s], ok) = pc'[s]
    BY <1>1, <1>4 DEF Return, TypeOK
  <2>2. pc[s] = "LPush" /\ pc'[s] = "Incr"
    BY <1>1, <1>4, <2>1 DEF AfterCall, Calls
  <2>3. hand'[s] = hand[s]
    BY <1>1, <1>4, <2>1, <2>2 DEF Return, TypeOK
  <2> QED
    BY <1>4, <2>2, <2>3
<1> QED
  BY <1>2, <1>3, <1>4 DEF Moves

(* A call that may fail makes one attempt more than it makes retries. *)
LEMMA AttemptsWithinTries ==
  ASSUME NEW c \in Commands, c.call \in allowed \/ c.attempt = 0
  PROVE  c.attempt < Tries(c.call)
BY RetriesAssumption DEF Commands, Tries

(* What a call does to queue, wire and history: its attempt is executed,   *)
(* or goes on the wire, or neither.                                        *)
Attempts(s) ==
  \/ Execute(Command(s)) /\ late' = late
  \/ UNCHANGED <<redisVars, executed>> /\ late' = late \cup {Command(s)} /\ pc[s] \in allowed
  \/ UNCHANGED <<redisVars, executed, late>>

LEMMA AttemptKeepsRest ==
  ASSUME IInv, NEW s \in Streams, InCall(s), Attempts(s)
  PROVE  /\ RedisTypeOK'
         /\ late' \subseteq Commands /\ executed' \subseteq Commands
         /\ late' = late \/ (late' = late \cup {Command(s)} /\ pc[s] \in allowed)
         /\ \/ executed' = executed
            \/ pc[s] \in {"LPush", "Incr"} /\ executed' = executed \cup {Command(s)}
         /\ late' = late \/ executed' = executed
         /\ CountOK' /\ QueueOK'
         /\ \A i \in DOMAIN submissionQueue' :
              \/ submissionQueue'[i] = hand[s]
              \/ \E j \in DOMAIN submissionQueue : submissionQueue'[i] = submissionQueue[j]
<1>1. TypeOK /\ OnceEach /\ CountOK /\ QueueOK /\ ExecutedOK
  BY DEF IInv
<1>2. /\ Sendable(Command(s))
      /\ Command(s).call = pc[s]
      /\ Command(s).entry = hand[s]
      /\ Command(s).attempt = attempt[s]
  BY CommandSendable
<1>3. Command(s) \notin executed
  <2> SUFFICES ASSUME Command(s) \in executed PROVE FALSE
    OBVIOUS
  <2>1. pc[s] \in {"LPush", "Incr"}
    BY <1>1, <1>2 DEF ExecutedOK
  <2>2. Command(s).attempt < attempt[s]
    BY <1>1, <1>2, <2>1 DEF OnceEach
  <2> QED
    BY <1>1, <1>2, <2>2 DEF TypeOK
<1>4. CASE Execute(Command(s)) /\ late' = late
  <2>1. CountOK' /\ QueueOK'
    BY <1>2, <1>3, <1>4, ExecuteKeepsCount, ExecuteKeepsQueue
  <2> QED
    BY <1>1, <1>2, <1>4, <2>1, ExecuteKeepsTypes, ExecuteQueue DEF TypeOK
<1>5. CASE UNCHANGED <<redisVars, executed>> /\ late' \subseteq late \cup {Command(s)}
  <2>1. CountOK' /\ QueueOK' /\ RedisTypeOK'
    BY <1>1, <1>5 DEF redisVars, CountOK, Increments, QueueOK, Copies, Pushes, TypeOK, RedisTypeOK
  <2>2. Command(s) \in Commands
    BY <1>2 DEF Sendable
  <2> QED
    BY <1>1, <1>5, <2>1, <2>2 DEF TypeOK, redisVars, Attempts
<1> QED
  BY <1>4, <1>5 DEF Attempts

LEMMA AttemptKeepsInv ==
  ASSUME IInv, UNCHANGED allowed, NEW s \in Streams, InCall(s), NEW ok \in BOOLEAN,
         Moves(s, ok), Attempts(s)
  PROVE  IInv'
<1> DEFINE c == Command(s)
<1>1. TypeOK /\ PastOK /\ LateOK /\ ExecutedOK /\ OnceEach
  BY DEF IInv
<1>2. /\ c \in Commands
      /\ c.call \in {"Incr", "Expire"} => HasRequest(c.entry)
      /\ c.call = pc[s] /\ c.entry = hand[s] /\ c.attempt = attempt[s]
      /\ Read(hand[s])
      /\ attempt[s] > 0 => pc[s] \in allowed
  BY CommandSendable DEF Sendable
<1> HIDE DEF c
<1>3. /\ nread' = nread /\ up' = up
      /\ accepted' \subseteq Entry
      /\ accepted \subseteq accepted'
      /\ accepted' \subseteq accepted \cup {hand[s]}
  BY MoveKeepsTypes DEF Moves
<1>4. /\ late' = late \/ (late' = late \cup {c} /\ pc[s] \in allowed)
      /\ \/ executed' = executed
         \/ pc[s] \in {"LPush", "Incr"} /\ executed' = executed \cup {c}
      /\ late' = late \/ executed' = executed
      /\ \A i \in DOMAIN submissionQueue' :
           \/ submissionQueue'[i] = hand[s]
           \/ \E j \in DOMAIN submissionQueue : submissionQueue'[i] = submissionQueue[j]
  BY AttemptKeepsRest DEF c
<1>5. HandOK(s) /\ pc[s] \in Calls /\ hand[s] \in Entry /\ hand[s].stream = s
  BY DEF IInv, InCall, HandOK
<1>6. TypeOK'
  BY <1>1, <1>3, AttemptKeepsRest, MoveKeepsTypes DEF TypeOK
<1>7. \A t \in Streams : HandOK(t)'
  BY MoveKeepsHands
<1>8. PastOK'
  BY <1>1, <1>2, <1>3, <1>4 DEF PastOK, Read
<1>9. pc[s] \in {"Incr", "Expire"} => hand[s] \in accepted
  BY <1>5 DEF HandOK
<1>10. LateOK'
  BY <1>1, <1>2, <1>3, <1>4, <1>9 DEF LateOK
<1>11. ExecutedOK'
  <2>1. c.attempt < Tries(c.call)
    <3>1. attempt[s] \in Nat
      BY <1>1 DEF TypeOK
    <3> QED
      BY <1>2, <3>1, AttemptsWithinTries
  <2> QED
    BY <1>1, <1>2, <1>3, <1>4, <1>9, <2>1 DEF ExecutedOK, Tries
<1>12. \A d \in late \cup executed :
         (d.call = "Incr" /\ d.entry = hand[s]) => pc[s] # "LPush"
  BY <1>1, <1>5 DEF LateOK, ExecutedOK, HandOK
<1>13. pc[s] \in {"LPush", "Incr"} => c \notin late \cup executed
  <2>1. attempt[s] \in Nat
    BY <1>1 DEF TypeOK
  <2> QED
    BY <1>1, <1>2, <2>1 DEF OnceEach
<1>14. late' \cap executed' = {}
  BY <1>1, <1>2, <1>4, <1>13 DEF OnceEach, ExecutedOK
<1>15. ASSUME NEW t \in Streams, NEW d \in (late \cup executed)',
              pc'[t] \in {"LPush", "Incr"}, d.call = pc'[t], d.entry = hand'[t]
       PROVE  d.attempt < attempt'[t]
  <2>1. d \in late \cup executed \/ d = c
    BY <1>4, <1>15
  <2>2. attempt[s] \in Nat
    BY <1>1 DEF TypeOK
  <2>3. CASE t = s /\ pc'[s] = pc[s] /\ hand'[s] = hand[s] /\ attempt'[s] = attempt[s] + 1
    <3>1. CASE d = c
      BY <1>2, <2>2, <2>3, <3>1
    <3>2. CASE d \in late \cup executed
      <4>1. d.attempt < attempt[s] /\ d.attempt \in Nat
        BY <1>1, <1>15, <2>3, <3>2 DEF OnceEach, TypeOK, Commands
      <4> QED
        BY <2>2, <2>3, <4>1
    <3> QED
      BY <2>1, <3>1, <3>2
  <2>4. CASE t = s /\ pc[s] = "LPush" /\ pc'[s] = "Incr" /\ hand'[s] = hand[s]
    BY <1>2, <1>12, <1>15, <2>1, <2>4
  <2>5. CASE t # s /\ pc'[t] = pc[t] /\ hand'[t] = hand[t] /\ attempt'[t] = attempt[t]
    <3>1. hand[t].stream = t
      BY <1>15, <2>5 DEF IInv, HandOK, Calls
    <3>2. d # c
      BY <1>2, <1>5, <1>15, <2>5, <3>1
    <3> QED
      BY <1>1, <1>15, <2>1, <2>5, <3>2 DEF OnceEach
  <2> QED
    BY <1>15, <2>3, <2>4, <2>5, MoveToAttempt
<1>16. CountOK' /\ QueueOK'
  BY AttemptKeepsRest
<1>17. IsFiniteSet(accepted')
  BY <1>3, FS_AddElement, FS_Subset DEF IInv
<1> QED
  BY <1>6, <1>7, <1>8, <1>10, <1>11, <1>14, <1>15, <1>16, <1>17 DEF IInv, OnceEach

-----------------------------------------------------------------------------
(* The invariant of the collector. *)

LEMMA InitInv == Init => IInv
<1> SUFFICES ASSUME Init PROVE IInv
  OBVIOUS
<1>1. TypeOK
  BY RetriesAssumption, MaxChunksAssumption, EnvironmentsAssumption
  DEF Init, RedisInit, TypeOK, RedisTypeOK
<1>2. CountOK
  <2>1. \A k \in Keys : Cardinality(Increments(k)) = 0 /\ count[k] = 0
    BY FS_EmptySet DEF Init, RedisInit, Increments
  <2> QED
    BY <2>1, FS_EmptySet DEF Init, CountOK
<1>3. IsFiniteSet(accepted)
  BY FS_EmptySet DEF Init
<1>4. QueueOK
  <2>1. \A e \in Entry : Copies(e) = {} /\ Pushes(e) = {}
    BY DEF Init, RedisInit, Copies, Pushes
  <2> QED
    BY <2>1, FS_EmptySet DEF QueueOK
<1> QED
  BY <1>1, <1>2, <1>3, <1>4
  DEF Init, RedisInit, IInv, HandOK, PastOK, LateOK, ExecutedOK, OnceEach, Calls

LEMMA SameQueue == QueueOK /\ UNCHANGED <<submissionQueue, executed>> => QueueOK'
  BY DEF QueueOK, Copies, Pushes

(* The process stops: Redis and the wire are as they were. *)
LEMMA StopKeepsInv == IInv /\ Stop /\ UNCHANGED allowed => IInv'
<1> SUFFICES ASSUME IInv, Stop, UNCHANGED allowed PROVE IInv'
  OBVIOUS
<1>1. TypeOK'
  <2>1. TypeOK /\ UNCHANGED <<submissionQueue, count, ttl, nread, late, accepted, executed>>
    BY DEF IInv, Stop, redisVars
  <2>2. /\ pc' \in [Streams -> {"closed", "read"} \cup Calls]
        /\ hand' \in [Streams -> Entry \cup {Nil}]
        /\ attempt' \in [Streams -> 0..MaxRetries]
        /\ up' \in BOOLEAN
    <3>1. 0 \in 0..MaxRetries
      BY RetriesAssumption
    <3>2. /\ pc' = [s \in Streams |-> "closed"]
          /\ hand' = [s \in Streams |-> Nil]
          /\ attempt' = [s \in Streams |-> 0]
          /\ up' = FALSE
      BY DEF Stop
    <3> QED
      BY <3>1, <3>2
  <2> QED
    BY <2>1, <2>2 DEF TypeOK, RedisTypeOK
<1>2. CountOK' /\ QueueOK'
  BY SameQueue DEF IInv, Stop, CountOK, Increments, redisVars
<1> QED
  BY <1>1, <1>2
  DEF IInv, Stop, redisVars, HandOK, PastOK, Read, LateOK, ExecutedOK, Tries, OnceEach, Calls

(* A handler opens, ends, or reads what it drops. *)
LEMMA IdleKeepsInv ==
  ASSUME IInv, UNCHANGED allowed, NEW s \in Streams, Open(s) \/ ReadEnd(s) \/ ReadGarbage(s)
  PROVE  IInv'
<1>1. TypeOK /\ CountOK /\ QueueOK
  BY DEF IInv
<1>2. /\ UNCHANGED <<redisVars, up, hand, attempt, late, accepted, executed>>
      /\ pc[s] \in {"closed", "read"} /\ pc'[s] \in {"closed", "read"}
      /\ \A t \in Streams : t # s => pc'[t] = pc[t] /\ nread'[t] = nread[t]
      /\ pc' \in [Streams -> {"closed", "read"} \cup Calls]
      /\ nread' \in [Streams -> 0..MaxChunks]
      /\ \A t \in Streams : nread[t] <= nread'[t]
  BY <1>1, MaxChunksAssumption DEF Open, ReadEnd, ReadGarbage, CanRead, handlerVars, TypeOK
<1>3. TypeOK' /\ CountOK' /\ QueueOK'
  BY <1>1, <1>2, SameQueue DEF TypeOK, RedisTypeOK, CountOK, Increments, redisVars
<1>4. PastOK'
  <2>1. \A e \in Entry : Read(e) => Read(e)'
    BY <1>1, <1>2, MaxChunksAssumption DEF Read, TypeOK, Entry
  <2>2. /\ \A i \in DOMAIN submissionQueue : submissionQueue[i] \in Entry
        /\ \A c \in late \cup executed : c.entry \in Entry
    BY <1>1 DEF TypeOK, RedisTypeOK, Commands
  <2>3. PastOK /\ accepted \subseteq Entry
    BY <1>1 DEF IInv, TypeOK
  <2> QED
    BY <1>2, <2>1, <2>2, <2>3 DEF PastOK, redisVars
<1>5. ASSUME NEW t \in Streams
      PROVE  HandOK(t)'
  <2>1. HandOK(t)
    BY DEF IInv
  <2>2. CASE t = s
    BY <1>1, <1>2, <2>1, <2>2 DEF HandOK, Calls, TypeOK
  <2>3. CASE t # s
    BY <1>2, <2>1, <2>3 DEF HandOK
  <2> QED
    BY <2>2, <2>3
<1>6. LateOK' /\ ExecutedOK' /\ IsFiniteSet(accepted')
  BY <1>2 DEF IInv, LateOK, ExecutedOK, Tries
<1>7. OnceEach'
  BY <1>2 DEF IInv, OnceEach
<1> QED
  BY <1>3, <1>4, <1>5, <1>6, <1>7 DEF IInv

(* A handler reads a submission: it is newer than all that was read.  *)
LEMMA ReadKeepsInv ==
  ASSUME IInv, UNCHANGED allowed, NEW s \in Streams, ReadSubmission(s)
  PROVE  IInv'
<1>1. TypeOK /\ CountOK /\ QueueOK /\ PastOK /\ LateOK /\ ExecutedOK /\ OnceEach
  BY DEF IInv
<1>2. PICK sub \in Submission :
        hand' = [hand EXCEPT ![s] = [stream |-> s, seq |-> nread[s] + 1, sub |-> sub]]
  BY DEF ReadSubmission
<1> DEFINE e == [stream |-> s, seq |-> nread[s] + 1, sub |-> sub]
<1>3. /\ UNCHANGED <<redisVars, up, attempt, late, accepted, executed>>
      /\ pc[s] = "read" /\ pc' = [pc EXCEPT ![s] = "LPush"]
      /\ nread' = [nread EXCEPT ![s] = @ + 1] /\ nread[s] < MaxChunks
  BY DEF ReadSubmission, CanRead
<1>4. nread[s] \in Nat /\ nread'[s] = nread[s] + 1
  BY <1>1, <1>3 DEF TypeOK
<1>5. e \in Entry /\ e.stream = s /\ e.seq = nread[s] + 1
  BY <1>3, <1>4, MaxChunksAssumption DEF Entry
<1>6. ~Read(e)
  BY <1>4, <1>5 DEF Read
<1>7. hand'[s] = e /\ pc'[s] = "LPush"
  BY <1>1, <1>2, <1>3 DEF TypeOK
<1>8. \A t \in Streams : t # s =>
        pc'[t] = pc[t] /\ hand'[t] = hand[t] /\ nread'[t] = nread[t]
  BY <1>1, <1>2, <1>3 DEF TypeOK
<1>9. TypeOK'
  <2>1. nread' \in [Streams -> 0..MaxChunks]
    BY <1>1, <1>3, <1>4, MaxChunksAssumption DEF TypeOK
  <2>2. hand' \in [Streams -> Entry \cup {Nil}]
    BY <1>1, <1>2, <1>5 DEF TypeOK
  <2>3. pc' \in [Streams -> {"closed", "read"} \cup Calls]
    BY <1>1, <1>3 DEF TypeOK, Calls
  <2> QED
    BY <1>1, <1>3, <2>1, <2>2, <2>3 DEF TypeOK, RedisTypeOK, redisVars
<1> HIDE DEF e
<1>10. PastOK'
  <2>1. \A d \in Entry : Read(d) => Read(d)'
    BY <1>1, <1>3, <1>4, <1>8, MaxChunksAssumption DEF Read, TypeOK, Entry
  <2>2. /\ \A i \in DOMAIN submissionQueue : submissionQueue[i] \in Entry
        /\ \A c \in late \cup executed : c.entry \in Entry
    BY <1>1 DEF TypeOK, RedisTypeOK, Commands
  <2>3. accepted \subseteq Entry
    BY <1>1 DEF TypeOK
  <2> QED
    BY <1>1, <1>3, <2>1, <2>2, <2>3 DEF PastOK, redisVars
<1>11. ASSUME NEW t \in Streams
       PROVE  HandOK(t)'
  <2>1. HandOK(t)
    BY DEF IInv
  <2>2. CASE t = s
    <3>1. e \notin accepted
      BY <1>1, <1>6 DEF PastOK
    <3>2. ~(attempt[s] > 0)
      BY <1>3, <2>1, <2>2 DEF HandOK, Calls
    <3> QED
      BY <1>3, <1>4, <1>5, <1>7, <2>2, <3>1, <3>2 DEF HandOK
  <2>3. CASE t # s
    BY <1>3, <1>8, <2>1, <2>3 DEF HandOK
  <2> QED
    BY <2>2, <2>3
<1>12. OnceEach'
  <2>1. \A c \in late \cup executed : c.entry # e
    BY <1>1, <1>6 DEF PastOK
  <2> QED
    BY <1>1, <1>3, <1>7, <1>8, <2>1 DEF OnceEach
<1>13. LateOK' /\ ExecutedOK' /\ CountOK' /\ QueueOK' /\ IsFiniteSet(accepted')
  BY <1>1, <1>3, SameQueue DEF IInv, LateOK, ExecutedOK, Tries, CountOK, Increments, redisVars
<1> QED
  BY <1>9, <1>10, <1>11, <1>12, <1>13 DEF IInv

(* The server executes an attempt nobody waits for. *)
LEMMA LateKeepsInv == IInv /\ LateArrival /\ UNCHANGED allowed => IInv'
<1> SUFFICES ASSUME IInv, UNCHANGED allowed, NEW c \in late, Execute(c), late' = late \ {c},
                    UNCHANGED <<up, handlerVars, nread, accepted>>
             PROVE  IInv'
  BY DEF LateArrival
<1>1. TypeOK /\ PastOK /\ LateOK /\ ExecutedOK /\ OnceEach
  BY DEF IInv
<1>2. Sendable(c) /\ c \in Commands /\ c.call \in allowed
  BY <1>1 DEF Sendable, LateOK, TypeOK
<1>3. c \notin executed
  BY <1>1 DEF OnceEach
<1>4. UNCHANGED <<up, pc, hand, attempt, nread, accepted>>
  BY DEF handlerVars
<1>5. /\ RedisTypeOK'
      /\ executed' \subseteq Commands
      /\ \/ executed' = executed
         \/ c.call \in {"LPush", "Incr"} /\ executed' = executed \cup {c}
  BY <1>1, <1>2, ExecuteKeepsTypes
<1>6. TypeOK'
  BY <1>1, <1>4, <1>5 DEF TypeOK
<1>7. \A s \in Streams : HandOK(s)'
  BY <1>4 DEF IInv, HandOK
<1>8. PastOK'
  BY <1>1, <1>2, <1>4, <1>5, ExecuteQueue DEF PastOK, Read
<1>9. LateOK'
  BY <1>1, <1>4 DEF LateOK
<1>10. ExecutedOK'
  BY <1>1, <1>2, <1>4, <1>5, AttemptsWithinTries DEF ExecutedOK, LateOK, Tries
<1>11. OnceEach'
  BY <1>1, <1>4, <1>5 DEF OnceEach
<1>12. CountOK' /\ QueueOK'
  BY <1>2, <1>3, ExecuteKeepsCount, ExecuteKeepsQueue
<1> QED
  BY <1>4, <1>6, <1>7, <1>8, <1>9, <1>10, <1>11, <1>12 DEF IInv

(* A counter reaches the end of its time to live. *)
LEMMA ExpiryKeepsInv == IInv /\ CounterExpires /\ UNCHANGED allowed => IInv'
<1> SUFFICES ASSUME IInv, UNCHANGED allowed, NEW k \in Keys, TtlFires(k),
                    UNCHANGED <<up, handlerVars, nread, late, accepted, executed>>
             PROVE  IInv'
  BY DEF CounterExpires
<1>1. UNCHANGED <<submissionQueue, up, pc, hand, attempt, nread, late, accepted, executed>>
  BY DEF TtlFires, handlerVars
<1>2. TypeOK'
  BY <1>1 DEF IInv, TypeOK, RedisTypeOK, TtlFires
<1>3. CountOK'
  <2>1. ASSUME NEW j \in Keys
        PROVE  count'[j] <= Cardinality(Increments(j)')
    <3>1. Increments(j)' = Increments(j) /\ IsFiniteSet(Increments(j)) /\ Cardinality(Increments(j)) \in Nat
      BY <1>1, FS_Subset, FS_CardinalityType DEF IInv, CountOK, Increments
    <3>2. count[j] <= Cardinality(Increments(j)) /\ count'[j] \in {0, count[j]}
      BY DEF IInv, CountOK, TypeOK, RedisTypeOK, TtlFires
    <3> QED
      BY <3>1, <3>2
  <2> QED
    BY <1>1, <2>1 DEF IInv, CountOK
<1> QED
  BY <1>1, <1>2, <1>3, SameQueue DEF IInv, HandOK, PastOK, Read, LateOK, ExecutedOK, Tries, OnceEach

(* The attempts of a call, whatever becomes of them. *)
LEMMA CallIsMove ==
  ASSUME IInv, NEW s \in Streams, Call(s)
  PROVE  \/ Stop
         \/ InCall(s) /\ \E ok \in BOOLEAN : Moves(s, ok) /\ Attempts(s)
<1>1. CASE Answered(s)
  BY <1>1 DEF Answered, Moves, Attempts
<1>2. CASE ReplyLost(s)
  BY <1>2 DEF ReplyLost, TimeOut, Moves, Attempts
<1>3. CASE Overtaken(s)
  BY <1>3 DEF Overtaken, TimeOut, Moves, Attempts
<1>4. CASE Failed(s)
  BY <1>4 DEF Failed, Moves, Attempts
<1>5. CASE DerefNilRequest(s)
  BY <1>5 DEF DerefNilRequest
<1> QED
  BY <1>1, <1>2, <1>3, <1>4, <1>5 DEF Call

LEMMA StepInv == IInv /\ [Next]_vars => IInv'
<1> SUFFICES ASSUME IInv, [Next]_vars PROVE IInv'
  OBVIOUS
<1>0. UNCHANGED allowed
  BY DEF Next, vars
<1>1. ASSUME NEW s \in Streams, Open(s) \/ ReadEnd(s) \/ ReadGarbage(s)
      PROVE  IInv'
  BY <1>0, <1>1, IdleKeepsInv
<1>2. ASSUME NEW s \in Streams, ReadShort(s)
      PROVE  IInv'
  BY <1>0, <1>2, StopKeepsInv DEF ReadShort
<1>3. ASSUME NEW s \in Streams, ReadSubmission(s)
      PROVE  IInv'
  BY <1>0, <1>3, ReadKeepsInv
<1>4. ASSUME NEW s \in Streams, Call(s)
      PROVE  IInv'
  BY <1>0, <1>4, CallIsMove, StopKeepsInv, AttemptKeepsInv
<1>5. CASE LateArrival
  BY <1>0, <1>5, LateKeepsInv
<1>6. CASE CounterExpires
  BY <1>0, <1>6, ExpiryKeepsInv
<1>7. CASE Kill
  BY <1>0, <1>7, StopKeepsInv DEF Kill
<1>8. CASE Restart \/ UNCHANGED vars
  <2>1. /\ UNCHANGED <<submissionQueue, count, ttl, pc, hand, attempt, nread>>
        /\ UNCHANGED <<late, accepted, executed>>
        /\ up' \in BOOLEAN
    BY <1>8 DEF Restart, vars, handlerVars, redisVars, IInv, TypeOK
  <2>2. TypeOK' /\ CountOK' /\ QueueOK'
    BY <1>0, <2>1, SameQueue DEF IInv, TypeOK, RedisTypeOK, CountOK, Increments
  <2>3. PastOK' /\ LateOK' /\ ExecutedOK' /\ OnceEach' /\ \A s \in Streams : HandOK(s)'
    BY <1>0, <2>1 DEF IInv, HandOK, PastOK, Read, LateOK, ExecutedOK, Tries, OnceEach
  <2> QED
    BY <2>1, <2>2, <2>3 DEF IInv
<1> QED
  BY <1>1, <1>2, <1>3, <1>4, <1>5, <1>6, <1>7, <1>8 DEF Next, Handler

THEOREM Invariance == Spec => []IInv
  BY InitInv, StepInv, PTL DEF Spec

(* Every variable of the collector keeps its type, and handleStream's      *)
(* calls never use more attempts than the client makes.                    *)
THEOREM TypeCorrect == Spec => []TypeOK
<1>1. IInv => TypeOK
  BY DEF IInv
<1> QED
  BY <1>1, Invariance, PTL

-----------------------------------------------------------------------------
(* Copies and counters. *)

(* The attempts of a call that were executed for some entries are told     *)
(* apart by their entry and their number, and there are few of either.     *)
LEMMA AttemptsBounded ==
  ASSUME ExecutedOK, executed \subseteq Commands,
         NEW call \in Calls, NEW D, D \subseteq executed,
         \A c \in D : c.call = call,
         NEW E, IsFiniteSet(E), \A c \in D : c.entry \in E
  PROVE  /\ IsFiniteSet(D) /\ Cardinality(D) \in Nat
         /\ Cardinality(D) <= Tries(call) * Cardinality(E)
<1> DEFINE n == Tries(call)
           T == E \X (0..(n - 1))
           f == [c \in D |-> <<c.entry, c.attempt>>]
<1>1. n \in Nat \ {0}
  BY RetriesAssumption DEF Tries
<1>2. IsFiniteSet(0..(n - 1)) /\ Cardinality(0..(n - 1)) = n
  <2> HIDE DEF n
  <2> QED
    BY <1>1, FS_Interval
<1>3. IsFiniteSet(T) /\ Cardinality(T) = Cardinality(E) * n
  BY <1>2, FS_Product
<1>4. f \in Injection(D, T)
  <2>1. ASSUME NEW c \in D
        PROVE  <<c.entry, c.attempt>> \in T
    <3>1. c.attempt \in Nat /\ c.attempt < n
      BY DEF ExecutedOK, Commands
    <3> HIDE DEF n
    <3> QED
      BY <1>1, <3>1
  <2>2. ASSUME NEW c \in D, NEW d \in D, f[c] = f[d]
        PROVE  c = d
    <3>1. c \in Commands /\ d \in Commands /\ c.call = d.call
      OBVIOUS
    <3>2. c.entry = d.entry /\ c.attempt = d.attempt
      BY <2>2
    <3> QED
      BY <3>1, <3>2 DEF Commands
  <2>3. f \in [D -> T] /\ DOMAIN f = D
    BY <2>1
  <2> HIDE DEF f, T
  <2> QED
    BY <2>2, <2>3 DEF Injection, IsInjective
<1>5. IsFiniteSet(D) /\ Cardinality(D) <= Cardinality(T)
  <2> HIDE DEF f, T
  <2> QED
    BY <1>3, <1>4, FS_Injection
<1>6. Cardinality(E) \in Nat /\ Cardinality(D) \in Nat
  BY <1>5, FS_CardinalityType
<1>7. Cardinality(E) * n = n * Cardinality(E)
  <2> HIDE DEF n
  <2> QED
    BY <1>1, <1>6
<1> QED
  BY <1>3, <1>5, <1>6, <1>7

(* An entry of collector.go's LPush is queued no more often than the       *)
(* client tries a call that may fail, and once if LPUSH does not fail.     *)
THEOREM FewCopies == Spec => []CopiesBounded
<1>1. IInv => CopiesBounded
  <2> SUFFICES ASSUME IInv, NEW i \in DOMAIN submissionQueue
               PROVE  Cardinality(Copies(submissionQueue[i])) <= Tries("LPush")
    BY DEF CopiesBounded, Copies
  <2> DEFINE e == submissionQueue[i]
  <2>1. e \in Entry
    BY DEF IInv, TypeOK, RedisTypeOK
  <2> HIDE DEF e
  <2>2. Cardinality(Copies(e)) <= Cardinality(Pushes(e))
    BY <2>1 DEF IInv, QueueOK
  <2>3. IsFiniteSet({e}) /\ Cardinality({e}) = 1
    BY FS_Singleton
  <2>4. /\ IsFiniteSet(Pushes(e)) /\ Cardinality(Pushes(e)) \in Nat
        /\ Cardinality(Pushes(e)) <= Tries("LPush") * Cardinality({e})
    <3>1. /\ ExecutedOK /\ executed \subseteq Commands
          /\ Pushes(e) \subseteq executed
          /\ \A c \in Pushes(e) : c.call = "LPush" /\ c.entry \in {e}
      BY DEF IInv, TypeOK, Pushes
    <3>2. "LPush" \in Calls
      BY DEF Calls
    <3> QED
      BY <2>3, <3>1, <3>2, AttemptsBounded
  <2>5. Tries("LPush") \in Nat
    BY RetriesAssumption DEF Tries
  <2>6. Cardinality(Copies(e)) \in Nat
    <3>1. submissionQueue \in Seq(Entry)
      BY DEF IInv, TypeOK, RedisTypeOK
    <3>2. IsFiniteSet(1..Len(submissionQueue)) /\ Copies(e) \subseteq 1..Len(submissionQueue)
      BY <3>1, FS_Interval DEF Copies
    <3> QED
      BY <3>2, FS_Subset, FS_CardinalityType
  <2> QED
    BY <2>2, <2>3, <2>4, <2>5, <2>6 DEF e
<1> QED
  BY <1>1, Invariance, PTL

AcceptedOf(k) == {e \in accepted : HasRequest(e) /\ KeyOf(e) = k}

LEMMA IncrementsBounded ==
  ASSUME IInv, NEW k \in Keys
  PROVE  /\ IsFiniteSet(Increments(k)) /\ IsFiniteSet(AcceptedOf(k))
         /\ Cardinality(Increments(k)) <= Tries("Incr") * Cardinality(AcceptedOf(k))
<1>1. IsFiniteSet(AcceptedOf(k))
  BY FS_Subset DEF IInv, AcceptedOf
<1>2. /\ ExecutedOK /\ executed \subseteq Commands
      /\ Increments(k) \subseteq executed
      /\ \A c \in Increments(k) : c.call = "Incr" /\ c.entry \in AcceptedOf(k)
  BY DEF IInv, TypeOK, ExecutedOK, Increments, AcceptedOf
<1>3. "Incr" \in Calls
  BY DEF Calls
<1> QED
  BY <1>1, <1>2, <1>3, AttemptsBounded

(* No counter of collector.go's Incr ever exceeds the submissions of its   *)
(* market, slot and epoch that LPush accepted, times the attempts of INCR. *)
THEOREM CountersBounded == Spec => []CountBounded
<1>1. IInv => CountBounded
  <2> SUFFICES ASSUME IInv, NEW k \in Keys
               PROVE  count[k] <= Tries("Incr") * Cardinality(AcceptedOf(k))
    BY DEF CountBounded, AcceptedOf
  <2>1. count[k] \in Nat /\ count[k] <= Cardinality(Increments(k))
    BY DEF IInv, TypeOK, RedisTypeOK, CountOK
  <2>2. Cardinality(Increments(k)) \in Nat /\ Cardinality(AcceptedOf(k)) \in Nat
    BY IncrementsBounded, FS_CardinalityType
  <2>3. Tries("Incr") \in Nat
    BY RetriesAssumption DEF Tries
  <2>4. Tries("Incr") * Cardinality(AcceptedOf(k)) \in Nat
    BY <2>2, <2>3
  <2> QED
    BY <2>1, <2>2, <2>4, IncrementsBounded
<1> QED
  BY <1>1, Invariance, PTL

-----------------------------------------------------------------------------
(* Environments that stop no handler in the middle of its turn. *)

(* Nothing is on the wire, and every entry in work has a request. *)
UndisturbedOK ==
  /\ late = {}
  /\ \A s \in Streams : pc[s] \in Calls => HasRequest(hand[s])

LEMMA UndisturbedCall ==
  ASSUME Undisturbed, IInv, UndisturbedOK, NEW s \in Streams, Call(s)
  PROVE  /\ InCall(s)
         /\ late' = {}
         /\ pc[s] \in Calls /\ pc'[s] \in Calls \cup {"read"}
         /\ \A t \in Streams : t # s =>
              pc'[t] = pc[t] /\ hand'[t] = hand[t] /\ attempt'[t] = attempt[t]
         /\ pc'[s] \in Calls => hand'[s] = hand[s]
<1>1. TypeOK
  BY DEF IInv
<1>2. ~DerefNilRequest(s) /\ ~Overtaken(s)
  BY DEF Undisturbed, UndisturbedOK, DerefNilRequest, Overtaken, Calls
<1>3. InCall(s) /\ late' = {}
  BY <1>2 DEF Call, UndisturbedOK, Answered, ReplyLost, Failed
<1>4. Retry(s) \/ \E ok \in BOOLEAN : Return(s, ok)
  BY <1>2 DEF Call, Answered, ReplyLost, Failed, TimeOut
<1>5. CASE Retry(s)
  BY <1>1, <1>3, <1>5 DEF Retry, TypeOK, InCall
<1>6. ASSUME NEW ok \in BOOLEAN, Return(s, ok)
      PROVE  /\ pc'[s] \in Calls \cup {"read"}
             /\ \A t \in Streams : t # s =>
                  pc'[t] = pc[t] /\ hand'[t] = hand[t] /\ attempt'[t] = attempt[t]
             /\ pc'[s] \in Calls => hand'[s] = hand[s]
  <2>1. pc'[s] = AfterCall(pc[s], ok) /\ pc[s] \in Calls
    BY <1>1, <1>3, <1>6 DEF Return, TypeOK, InCall
  <2>2. pc'[s] \in Calls \cup {"read"}
    BY <2>1 DEF AfterCall, Calls
  <2>3. pc'[s] \in Calls => hand'[s] = hand[s]
    BY <1>1, <1>6, <2>1 DEF Return, TypeOK, Calls
  <2> QED
    BY <1>1, <1>6, <2>2, <2>3 DEF Return, TypeOK
<1> QED
  BY <1>3, <1>4, <1>5, <1>6 DEF InCall

(* No process stops, and what the other steps leave alone. *)
LEMMA UndisturbedStep ==
  ASSUME Undisturbed, IInv, UndisturbedOK, [Next]_vars
  PROVE  /\ UndisturbedOK'
         /\ \/ \E s \in Streams : Call(s)
            \/ /\ \E s \in Streams : Open(s) \/ ReadEnd(s) \/ ReadGarbage(s) \/ ReadSubmission(s)
               /\ UNCHANGED <<redisVars, attempt>>
               /\ \A t \in Streams : \/ pc'[t] = pc[t] /\ hand'[t] = hand[t]
                                     \/ /\ pc[t] \in {"closed", "read"}
                                        /\ pc'[t] \in {"closed", "read", "LPush"}
            \/ CounterExpires
            \/ UNCHANGED <<redisVars, pc, hand, attempt>>
<1>1. TypeOK
  BY DEF IInv
<1>2. ASSUME NEW s \in Streams, Call(s)
      PROVE  UndisturbedOK'
  BY <1>2, UndisturbedCall DEF UndisturbedOK, HasRequest
<1>3. ASSUME NEW s \in Streams, Open(s) \/ ReadEnd(s) \/ ReadGarbage(s) \/ ReadSubmission(s)
      PROVE  /\ UNCHANGED <<redisVars, attempt>>
             /\ UndisturbedOK'
             /\ \A t \in Streams : \/ pc'[t] = pc[t] /\ hand'[t] = hand[t]
                                   \/ /\ pc[t] \in {"closed", "read"}
                                      /\ pc'[t] \in {"closed", "read", "LPush"}
  <2>1. UNCHANGED <<redisVars, attempt, late>>
    BY <1>3 DEF Open, ReadEnd, ReadGarbage, ReadSubmission, handlerVars
  <2>2. \A t \in Streams : t # s => pc'[t] = pc[t] /\ hand'[t] = hand[t]
    BY <1>1, <1>3 DEF Open, ReadEnd, ReadGarbage, ReadSubmission, handlerVars, TypeOK
  <2>3. pc[s] \in {"closed", "read"} /\ pc'[s] \in {"closed", "read", "LPush"}
    BY <1>1, <1>3 DEF Open, ReadEnd, ReadGarbage, ReadSubmission, CanRead, handlerVars, TypeOK
  <2>4. pc'[s] \in Calls => HasRequest(hand[s])'
    <3>1. CASE ReadSubmission(s)
      <4>1. PICK sub \in Submission :
              /\ sub.request # Nil
              /\ hand' = [hand EXCEPT ![s] =
                             [stream |-> s, seq |-> nread[s] + 1, sub |-> sub]]
        BY <3>1 DEF ReadSubmission, Undisturbed
      <4>2. hand'[s].sub = sub
        BY <1>1, <4>1 DEF TypeOK
      <4> QED
        BY <4>1, <4>2 DEF HasRequest
    <3>2. CASE ~ReadSubmission(s)
      BY <1>1, <1>3, <3>2
      DEF Open, ReadEnd, ReadGarbage, CanRead, handlerVars, TypeOK, Calls
    <3> QED
      BY <3>1, <3>2
  <2>5. UndisturbedOK'
    <3>1. \A t \in Streams : t # s => (pc'[t] \in Calls => HasRequest(hand[t])')
      BY <2>2 DEF UndisturbedOK, HasRequest
    <3> QED
      BY <2>1, <2>4, <3>1 DEF UndisturbedOK
  <2> QED
    BY <2>1, <2>2, <2>3, <2>5
<1>4. CASE CounterExpires
  BY <1>4 DEF CounterExpires, handlerVars, UndisturbedOK, HasRequest
<1>5. CASE Restart \/ UNCHANGED vars
  BY <1>5 DEF Restart, vars, handlerVars, UndisturbedOK, HasRequest
<1>6. ~Kill /\ ~LateArrival /\ \A s \in Streams : ~ReadShort(s)
  BY DEF Undisturbed, Kill, LateArrival, ReadShort, UndisturbedOK
<1>7. Restart \/ UNCHANGED vars => UNCHANGED <<redisVars, pc, hand, attempt>>
  BY DEF Restart, vars, handlerVars
<1> QED
  BY <1>2, <1>3, <1>4, <1>5, <1>6, <1>7 DEF Next, Handler

LEMMA UndisturbedInit == Init => UndisturbedOK
  BY DEF Init, UndisturbedOK, Calls

(* EXPIRE is still to come from s for the counter k. *)
ExpireDue(s, k) ==
  /\ pc[s] = "Expire" \/ (pc[s] = "Incr" /\ attempt[s] > 0)
  /\ HasRequest(hand[s])
  /\ KeyOf(hand[s]) = k

(* A call leaves a counter mortal, or EXPIRE due, if it was one of them. *)
LEMMA CallKeepsMortal ==
  ASSUME Undisturbed, IInv, UndisturbedOK, NEW s \in Streams, Call(s),
         NEW k \in Keys, (count[k] > 0 /\ ~ttl[k]) => \E u \in Streams : ExpireDue(u, k),
         count'[k] > 0, ~ttl'[k]
  PROVE  \E u \in Streams : ExpireDue(u, k)'
<1>1. TypeOK /\ InCall(s) /\ HasRequest(hand[s])
  BY UndisturbedCall DEF IInv, UndisturbedOK
<1>2. hand[s] \in Entry /\ KeyOf(hand[s]) \in Keys
  BY <1>1, KeyIsKey DEF IInv, HandOK, InCall
<1>3. \A u \in Streams : u # s /\ ExpireDue(u, k) => ExpireDue(u, k)'
  BY UndisturbedCall DEF ExpireDue, HasRequest, KeyOf
<1>4. CASE pc[s] = "Incr" /\ KeyOf(hand[s]) = k
  <2>1. pc'[s] = "Expire" \/ (pc'[s] = "Incr" /\ attempt'[s] = attempt[s] + 1)
    <3>1. Retry(s) \/ \E ok \in BOOLEAN : Return(s, ok)
      BY <1>1 DEF Call, Answered, ReplyLost, Overtaken, Failed, DerefNilRequest, TimeOut
    <3> QED
      BY <1>1, <1>4, <3>1 DEF Retry, Return, AfterCall, TypeOK
  <2>2. hand'[s] = hand[s]
    BY <2>1, UndisturbedCall DEF Calls
  <2> QED
    BY <1>1, <1>4, <2>1, <2>2 DEF ExpireDue, HasRequest, KeyOf, TypeOK
<1>5. CASE pc[s] = "Expire" /\ KeyOf(hand[s]) = k
  <2>1. Answered(s)
    BY <1>5, UndisturbedCall
    DEF Call, ReplyLost, Overtaken, Failed, DerefNilRequest, Undisturbed
  <2>2. ttl' = [ttl EXCEPT ![k] = @ \/ count[k] > 0] /\ count' = count
    BY <1>5, <2>1 DEF Answered, Execute, Command, Expire
  <2>3. ttl'[k] = (ttl[k] \/ count[k] > 0)
    BY <1>1, <2>2 DEF TypeOK, RedisTypeOK
  <2> QED
    BY <2>2, <2>3
<1>6. CASE ~(pc[s] \in {"Incr", "Expire"} /\ KeyOf(hand[s]) = k)
  <2>1. count'[k] = count[k] /\ ttl'[k] = ttl[k]
    <3>1. Execute(Command(s)) \/ UNCHANGED redisVars
      BY <1>1, CallIsMove, UndisturbedCall
      DEF Call, Answered, ReplyLost, Overtaken, Failed, DerefNilRequest
    <3>2. Command(s).call = pc[s] /\ Command(s).entry = hand[s]
      BY <1>1, CommandSendable
    <3> QED
      BY <1>1, <1>2, <1>6, <3>1, <3>2
      DEF Execute, LPush, Incr, Expire, redisVars, TypeOK, RedisTypeOK
  <2>2. PICK u \in Streams : ExpireDue(u, k)
    BY <2>1
  <2>3. u # s
    BY <1>6, <2>2 DEF ExpireDue
  <2> QED
    BY <1>3, <2>2, <2>3
<1> QED
  BY <1>4, <1>5, <1>6

(* Where only replies of LPush and Incr are lost, the Expire after them    *)
(* leaves no counter without a time to live.                               *)
THEOREM MortalCounters == Spec => []CountersMortal
<1> DEFINE J == Undisturbed => UndisturbedOK /\ CountersMortal
<1>1. Undisturbed =>
        (CountersMortal <=> \A k \in Keys :
           (count[k] > 0 /\ ~ttl[k]) => \E s \in Streams : ExpireDue(s, k))
  BY DEF CountersMortal, ExpireDue
<1>2. Init => J
  BY UndisturbedInit DEF Init, RedisInit, CountersMortal
<1>3. IInv /\ J /\ [Next]_vars => J'
  <2> SUFFICES ASSUME IInv, J, [Next]_vars, Undisturbed
               PROVE  UndisturbedOK' /\ CountersMortal'
    BY DEF Next, vars, Undisturbed
  <2>1. UndisturbedOK'
    BY UndisturbedStep
  <2> SUFFICES ASSUME NEW k \in Keys, count'[k] > 0, ~ttl'[k]
               PROVE  \E s \in Streams : ExpireDue(s, k)'
    BY <2>1 DEF CountersMortal, ExpireDue
  <2>2. (count[k] > 0 /\ ~ttl[k]) => \E s \in Streams : ExpireDue(s, k)
    BY <1>1
  <2>3. ASSUME NEW s \in Streams, Call(s)
        PROVE  \E u \in Streams : ExpireDue(u, k)'
    BY <2>2, <2>3, CallKeepsMortal
  <2>4. ASSUME UNCHANGED <<redisVars, attempt>>,
               \A t \in Streams : \/ pc'[t] = pc[t] /\ hand'[t] = hand[t]
                                  \/ /\ pc[t] \in {"closed", "read"}
                                     /\ pc'[t] \in {"closed", "read", "LPush"}
        PROVE  \E u \in Streams : ExpireDue(u, k)'
    <3>1. PICK s \in Streams : ExpireDue(s, k)
      BY <2>2, <2>4 DEF redisVars
    <3>2. pc'[s] = pc[s] /\ hand'[s] = hand[s] /\ attempt' = attempt
      BY <2>4, <3>1 DEF ExpireDue
    <3> QED
      BY <3>1, <3>2 DEF ExpireDue, HasRequest, KeyOf
  <2>5. CASE CounterExpires
    <3>1. PICK j \in Keys : TtlFires(j)
      BY <2>5 DEF CounterExpires
    <3>2. count'[k] = count[k] /\ ttl'[k] = ttl[k]
      <4>1. count \in [Keys -> Nat] /\ ttl \in [Keys -> BOOLEAN]
        BY DEF IInv, TypeOK, RedisTypeOK
      <4>2. CASE j = k
        <5>1. count'[k] = 0
          BY <3>1, <4>1, <4>2 DEF TtlFires
        <5> QED
          BY <5>1
      <4>3. CASE j # k
        BY <3>1, <4>1, <4>3 DEF TtlFires
      <4> QED
        BY <4>2, <4>3
    <3>3. PICK s \in Streams : ExpireDue(s, k)
      BY <2>2, <3>2
    <3> QED
      BY <2>5, <3>3 DEF CounterExpires, handlerVars, ExpireDue, HasRequest, KeyOf
  <2> QED
    BY <2>3, <2>4, <2>5, UndisturbedStep
<1>4. J => CountersMortal
  BY DEF CountersMortal
<1> QED
  BY <1>2, <1>3, <1>4, Invariance, PTL DEF Spec

-----------------------------------------------------------------------------
(* Without faults, counters agree with the queue. *)

Queued(sub) == {i \in DOMAIN submissionQueue : submissionQueue[i].sub = sub}

(* Handlers that have queued such a submission and not yet counted it. *)
Uncounted(sub) == {s \in Streams : pc[s] = "Incr" /\ hand[s].sub = sub}

Sub(m, slot, epoch) == [market |-> m, request |-> [slot |-> slot, epoch |-> epoch]]

(* Only finitely many handlers are ever in INCR. *)
FewUncounted == IsFiniteSet({s \in Streams : pc[s] = "Incr"})

Balanced(m, slot, epoch) ==
  count[<<m, slot, epoch>>] + Cardinality(Uncounted(Sub(m, slot, epoch)))
    = Cardinality(Queued(Sub(m, slot, epoch)))

AllBalanced == \A m \in Markets, slot \in Slots, epoch \in Epochs : Balanced(m, slot, epoch)

LEMMA CallKeepsFew ==
  ASSUME Undisturbed, IInv, UndisturbedOK, FewUncounted, NEW s \in Streams, Call(s)
  PROVE  FewUncounted'
<1>1. {t \in Streams : pc[t] = "Incr"}' \subseteq {t \in Streams : pc[t] = "Incr"} \cup {s}
  BY UndisturbedCall
<1> QED
  BY <1>1, FS_AddElement, FS_Subset DEF FewUncounted

LEMMA CallKeepsBalance ==
  ASSUME allowed = {}, IInv, UndisturbedOK, FewUncounted, NEW s \in Streams, Call(s),
         NEW m \in Markets, NEW slot \in Slots, NEW epoch \in Epochs,
         Balanced(m, slot, epoch)
  PROVE  Balanced(m, slot, epoch)'
<1> DEFINE k == <<m, slot, epoch>>
           sub == Sub(m, slot, epoch)
<1>1. TypeOK /\ InCall(s) /\ HasRequest(hand[s]) /\ submissionQueue \in Seq(Entry)
      /\ count \in [Keys -> Nat]
  <2>1. Undisturbed
    BY DEF Undisturbed
  <2> QED
    BY <2>1, UndisturbedCall DEF IInv, UndisturbedOK, TypeOK, RedisTypeOK
<1>2. Answered(s)
  BY <1>1, UndisturbedOK DEF Call, ReplyLost, Overtaken, Failed, DerefNilRequest
<1>3. hand[s] \in Entry /\ KeyOf(hand[s]) \in Keys /\ k \in Keys /\ count[k] \in Nat
  <2>1. k \in Keys
    BY DEF Keys, EpochSubmissionCountsReceivedInSlotKey
  <2> QED
    BY <1>1, <2>1, KeyIsKey DEF IInv, HandOK, InCall
<1>4. KeyOf(hand[s]) = k <=> hand[s].sub = sub
  BY <1>1, <1>3
  DEF KeyOf, EpochSubmissionCountsReceivedInSlotKey, Sub, HasRequest, Entry, Submission, Request
<1>5. /\ \A t \in Streams : t # s => pc'[t] = pc[t] /\ hand'[t] = hand[t]
      /\ pc'[s] \in Calls => hand'[s] = hand[s]
      /\ pc'[s] = AfterCall(pc[s], TRUE)
  <2>1. Undisturbed
    BY DEF Undisturbed
  <2> QED
    BY <1>1, <1>2, <2>1, UndisturbedCall DEF Answered, Return, TypeOK
<1> HIDE DEF k, sub
<1>6. /\ IsFiniteSet(Uncounted(sub)) /\ Cardinality(Uncounted(sub)) \in Nat
      /\ IsFiniteSet(Queued(sub)) /\ Cardinality(Queued(sub)) \in Nat
  <2>1. IsFiniteSet(1..Len(submissionQueue)) /\ Queued(sub) \subseteq 1..Len(submissionQueue)
    <3>1. Len(submissionQueue) \in Nat /\ DOMAIN submissionQueue = 1..Len(submissionQueue)
      BY <1>1
    <3> QED
      BY <3>1, FS_Interval DEF Queued
  <2>2. IsFiniteSet(Uncounted(sub)) /\ IsFiniteSet(Queued(sub))
    BY <2>1, FS_Subset DEF Uncounted, FewUncounted
  <2> QED
    BY <2>2, FS_CardinalityType
<1>7. CASE pc[s] = "LPush"
  <2>1. /\ pc'[s] = "Incr" /\ hand'[s] = hand[s] /\ count' = count
        /\ submissionQueue' = Append(submissionQueue, hand[s])
    BY <1>2, <1>5, <1>7 DEF Answered, Execute, Command, LPush, AfterCall, Calls
  <2>3. CASE hand[s].sub = sub
    <3>1. Uncounted(sub)' = Uncounted(sub) \cup {s} /\ s \notin Uncounted(sub)
      BY <1>5, <1>7, <2>1, <2>3 DEF Uncounted
    <3>2. /\ Queued(sub)' = Queued(sub) \cup {Len(submissionQueue) + 1}
          /\ Len(submissionQueue) + 1 \notin Queued(sub)
      BY <1>1, <1>3, <2>1, <2>3 DEF Queued
    <3>3. Cardinality(Uncounted(sub)') = Cardinality(Uncounted(sub)) + 1
      BY <1>6, <3>1, FS_AddElement
    <3>4. Cardinality(Queued(sub)') = Cardinality(Queued(sub)) + 1
      BY <1>6, <3>2, FS_AddElement
    <3> QED
      BY <1>3, <1>6, <2>1, <3>3, <3>4 DEF Balanced, k, sub
  <2>4. CASE hand[s].sub # sub
    <3>1. Uncounted(sub)' = Uncounted(sub)
      BY <1>5, <1>7, <2>1, <2>4 DEF Uncounted
    <3>2. Queued(sub)' = Queued(sub)
      BY <1>1, <1>3, <2>1, <2>4 DEF Queued
    <3> QED
      BY <2>1, <3>1, <3>2 DEF Balanced, k, sub
  <2> QED
    BY <2>3, <2>4
<1>8. CASE pc[s] # "LPush"
  <2>1. submissionQueue' = submissionQueue /\ Queued(sub)' = Queued(sub)
    BY <1>2, <1>8 DEF Answered, Execute, Command, Incr, Expire, Queued
  <2>2. pc'[s] # "Incr"
    BY <1>1, <1>5, <1>8 DEF AfterCall, Calls, InCall
  <2>4. CASE pc[s] = "Incr"
    <3>1. count' = [count EXCEPT ![KeyOf(hand[s])] = @ + 1]
      BY <1>2, <2>4 DEF Answered, Execute, Command, Incr
    <3>2. CASE hand[s].sub = sub
      <4>1. Uncounted(sub)' = Uncounted(sub) \ {s} /\ s \in Uncounted(sub)
        BY <1>5, <2>2, <2>4, <3>2 DEF Uncounted
      <4>2. Cardinality(Uncounted(sub)') = Cardinality(Uncounted(sub)) - 1
        BY <1>6, <4>1, FS_RemoveElement
      <4>3. count'[k] = count[k] + 1
        BY <1>1, <1>3, <1>4, <3>1, <3>2
      <4> QED
        BY <1>3, <1>6, <2>1, <4>2, <4>3 DEF Balanced, k, sub
    <3>3. CASE hand[s].sub # sub
      <4>1. Uncounted(sub)' = Uncounted(sub)
        BY <1>5, <2>2, <3>3 DEF Uncounted
      <4>2. count'[k] = count[k]
        BY <1>1, <1>3, <1>4, <3>1, <3>3
      <4> QED
        BY <2>1, <4>1, <4>2 DEF Balanced, k, sub
    <3> QED
      BY <3>2, <3>3
  <2>5. CASE pc[s] = "Expire"
    <3>1. count' = count
      BY <1>2, <2>5 DEF Answered, Execute, Command, Expire
    <3>2. Uncounted(sub)' = Uncounted(sub)
      BY <1>5, <2>2, <2>5 DEF Uncounted
    <3> QED
      BY <2>1, <3>1, <3>2 DEF Balanced, k, sub
  <2> QED
    BY <1>1, <1>8, <2>4, <2>5 DEF InCall, Calls
<1> QED
  BY <1>7, <1>8

(* With a healthy Redis, the counters that handleStream keeps are the      *)
(* numbers of queued submissions, up to handlers between LPush and Incr.   *)
THEOREM MatchingCounts == Spec => []CountMatchesQueue
<1> DEFINE J == allowed = {} => UndisturbedOK /\ FewUncounted /\ AllBalanced
<1>1. Init => J
  <2> SUFFICES ASSUME Init PROVE UndisturbedOK /\ FewUncounted /\ AllBalanced
    OBVIOUS
  <2>1. FewUncounted
    <3>1. {s \in Streams : pc[s] = "Incr"} = {}
      BY DEF Init
    <3> QED
      BY <3>1, FS_EmptySet DEF FewUncounted
  <2>2. ASSUME NEW m \in Markets, NEW slot \in Slots, NEW epoch \in Epochs
        PROVE  Balanced(m, slot, epoch)
    <3>1. count[<<m, slot, epoch>>] = 0
      BY DEF Init, RedisInit, Keys, EpochSubmissionCountsReceivedInSlotKey
    <3>2. Uncounted(Sub(m, slot, epoch)) = {} /\ Queued(Sub(m, slot, epoch)) = {}
      BY DEF Init, RedisInit, Uncounted, Queued
    <3> QED
      BY <3>1, <3>2, FS_EmptySet DEF Balanced
  <2> QED
    BY <2>1, <2>2, UndisturbedInit DEF AllBalanced
<1>2. IInv /\ J /\ [Next]_vars => J'
  <2> SUFFICES ASSUME IInv, J, [Next]_vars, allowed = {}
               PROVE  UndisturbedOK' /\ FewUncounted' /\ AllBalanced'
    BY DEF Next, vars
  <2>1. Undisturbed
    BY DEF Undisturbed
  <2>2. UndisturbedOK'
    BY <2>1, UndisturbedStep
  <2>3. ~CounterExpires
    BY DEF CounterExpires
  <2>4. ASSUME NEW s \in Streams, Call(s)
        PROVE  FewUncounted' /\ AllBalanced'
    <3>1. FewUncounted'
      BY <2>1, <2>4, CallKeepsFew
    <3>2. ASSUME NEW m \in Markets, NEW slot \in Slots, NEW epoch \in Epochs
          PROVE  Balanced(m, slot, epoch)'
      BY <2>4, CallKeepsBalance DEF AllBalanced
    <3> QED
      BY <3>1, <3>2 DEF AllBalanced
  <2>5. ASSUME UNCHANGED redisVars,
               \A t \in Streams : \/ pc'[t] = pc[t] /\ hand'[t] = hand[t]
                                  \/ /\ pc[t] \in {"closed", "read"}
                                     /\ pc'[t] \in {"closed", "read", "LPush"}
        PROVE  FewUncounted' /\ AllBalanced'
    <3>1. {t \in Streams : pc[t] = "Incr"}' = {t \in Streams : pc[t] = "Incr"}
      BY <2>5
    <3>2. FewUncounted'
      BY <3>1 DEF FewUncounted
    <3>3. ASSUME NEW m \in Markets, NEW slot \in Slots, NEW epoch \in Epochs
          PROVE  Balanced(m, slot, epoch)'
      <4>1. Balanced(m, slot, epoch)
        BY DEF AllBalanced
      <4>2. Uncounted(Sub(m, slot, epoch))' = Uncounted(Sub(m, slot, epoch))
        BY <2>5 DEF Uncounted, Sub
      <4>3. Queued(Sub(m, slot, epoch))' = Queued(Sub(m, slot, epoch)) /\ count' = count
        BY <2>5 DEF Queued, redisVars, Sub
      <4> QED
        BY <4>1, <4>2, <4>3 DEF Balanced
    <3> QED
      BY <3>2, <3>3 DEF AllBalanced
  <2>6. UNCHANGED <<redisVars, pc, hand, attempt>> => FewUncounted' /\ AllBalanced'
    BY <2>5
  <2> QED
    BY <2>1, <2>2, <2>3, <2>4, <2>5, <2>6, UndisturbedStep
<1>3. J => CountMatchesQueue
  BY DEF AllBalanced, Balanced, CountMatchesQueue, EpochSubmissionCountsReceivedInSlotKey,
         Uncounted, Queued, Sub
<1> QED
  BY <1>1, <1>2, <1>3, Invariance, PTL DEF Spec

-----------------------------------------------------------------------------
(* Refinement. *)

(* The ledger's entries and keys are the collector's. *)
LEMMA SameData ==
  /\ Ledger!Entry = Entry /\ Ledger!Keys = Keys
  /\ \A e : Ledger!KeyOf(e) = KeyOf(e) /\ (Ledger!HasRequest(e) <=> HasRequest(e))
<1>1. Ledger!Entry = Entry
  BY DEF Ledger!Entry, Entry, Ledger!Submission, Submission, Ledger!Request, Request
<1>2. Ledger!Keys = Keys
  BY DEF Ledger!Keys, Keys, Ledger!EpochSubmissionCountsReceivedInSlotKey,
         EpochSubmissionCountsReceivedInSlotKey
<1>3. \A e : Ledger!KeyOf(e) = KeyOf(e) /\ (Ledger!HasRequest(e) <=> HasRequest(e))
  BY DEF Ledger!KeyOf, KeyOf, Ledger!HasRequest, HasRequest,
         Ledger!EpochSubmissionCountsReceivedInSlotKey,
         EpochSubmissionCountsReceivedInSlotKey
<1> QED
  BY <1>1, <1>2, <1>3

(* A command does to queue and counters what the ledger allows.            *)
LEMMA ExecuteIsLedgerStep ==
  ASSUME TypeOK, NEW c, Sendable(c), Execute(c),
         c.call \in {"Incr", "Expire"} => c.entry \in accepted,
         accepted' = accepted
  PROVE  [Ledger!LedgerNext]_Ledger!ledgerVars
<1>1. c.entry \in Entry
  BY DEF Sendable, Commands
<1>2. CASE c.call = "LPush" /\ LPush(c.entry)
  BY <1>1, <1>2, SameData DEF LPush, Ledger!LedgerNext, Ledger!Queue
<1>3. CASE c.call = "Incr" /\ Incr(KeyOf(c.entry))
  <2>1. HasRequest(c.entry) /\ c.entry \in accepted
    BY <1>3 DEF Sendable
  <2> QED
    BY <1>1, <1>3, <2>1, SameData DEF Incr, Ledger!LedgerNext, Ledger!Tally
<1>4. CASE c.call = "Expire" /\ Expire(KeyOf(c.entry))
  BY <1>4 DEF Expire, Ledger!ledgerVars
<1> QED
  BY <1>2, <1>3, <1>4 DEF Execute

(* The entry in a handler's hand is the newest of its stream. *)
LEMMA HandIsNewest ==
  ASSUME IInv, NEW s \in Streams, InCall(s)
  PROVE  Ledger!Newest(hand[s])
<1>1. HandOK(s) /\ PastOK
  BY DEF IInv
<1>2. hand[s].stream = s /\ hand[s].seq = nread[s]
  BY <1>1 DEF HandOK, InCall
<1> QED
  BY <1>1, <1>2 DEF PastOK, Read, Ledger!Newest

LEMMA CallIsLedgerStep ==
  ASSUME IInv, NEW s \in Streams, Call(s)
  PROVE  [Ledger!LedgerNext]_Ledger!ledgerVars
<1> DEFINE c == Command(s)
<1>1. CASE Stop
  BY <1>1 DEF Stop, redisVars, Ledger!ledgerVars
<1>2. ASSUME InCall(s), NEW ok \in BOOLEAN, Moves(s, ok), Attempts(s), accepted' = accepted
      PROVE  [Ledger!LedgerNext]_Ledger!ledgerVars
  <2>1. Sendable(c) /\ c.call = pc[s] /\ c.entry = hand[s]
    BY <1>2, CommandSendable
  <2>2. pc[s] \in {"Incr", "Expire"} => hand[s] \in accepted
    BY DEF IInv, HandOK
  <2>3. CASE Execute(c)
    BY <1>2, <2>1, <2>2, <2>3, ExecuteIsLedgerStep DEF IInv
  <2>4. CASE UNCHANGED redisVars
    BY <1>2, <2>4 DEF redisVars, Ledger!ledgerVars
  <2> QED
    BY <1>2, <2>3, <2>4 DEF Attempts
<1>3. CASE Answered(s) /\ pc[s] = "LPush"
  <2>1. hand[s] \in Entry
    BY <1>3 DEF IInv, HandOK, Answered, InCall
  <2>2. LPush(hand[s])
    BY <1>3 DEF Answered, Execute, Command
  <2>3. accepted' = accepted \cup {hand[s]}
    BY <1>3 DEF Answered, Return
  <2>4. Ledger!Newest(hand[s])
    BY <1>3, HandIsNewest DEF Answered
  <2> QED
    BY <2>1, <2>2, <2>3, <2>4, SameData DEF LPush, Ledger!LedgerNext, Ledger!Accept
<1>4. ~Stop /\ ~(Answered(s) /\ pc[s] = "LPush") => accepted' = accepted
  BY DEF Call, Answered, ReplyLost, Overtaken, Failed, DerefNilRequest, TimeOut, Retry, Return
<1> QED
  BY <1>1, <1>2, <1>3, <1>4, CallIsMove

LEMMA StepIsLedgerStep == IInv /\ [Next]_vars => [Ledger!LedgerNext]_Ledger!ledgerVars
<1> SUFFICES ASSUME IInv, [Next]_vars
             PROVE  [Ledger!LedgerNext]_Ledger!ledgerVars
  OBVIOUS
<1>1. ASSUME NEW s \in Streams, Open(s) \/ ReadEnd(s) \/ ReadGarbage(s) \/ ReadSubmission(s)
      PROVE  UNCHANGED Ledger!ledgerVars
  BY <1>1 DEF Open, ReadEnd, ReadGarbage, ReadSubmission, redisVars, Ledger!ledgerVars
<1>2. ASSUME NEW s \in Streams, ReadShort(s)
      PROVE  UNCHANGED Ledger!ledgerVars
  BY <1>2 DEF ReadShort, Stop, redisVars, Ledger!ledgerVars
<1>3. CASE LateArrival
  <2>1. PICK c \in late : Execute(c) /\ accepted' = accepted
    BY <1>3 DEF LateArrival
  <2>2. Sendable(c) /\ (c.call \in {"Incr", "Expire"} => c.entry \in accepted)
    BY DEF IInv, TypeOK, LateOK, Sendable
  <2> QED
    BY <2>1, <2>2, ExecuteIsLedgerStep DEF IInv
<1>4. CASE CounterExpires
  BY <1>4, SameData DEF CounterExpires, TtlFires, Ledger!LedgerNext, Ledger!Forget
<1>5. CASE Kill \/ Restart \/ UNCHANGED vars
  BY <1>5 DEF Kill, Stop, Restart, vars, redisVars, Ledger!ledgerVars
<1> QED
  BY <1>1, <1>2, <1>3, <1>4, <1>5, CallIsLedgerStep DEF Next, Handler

LEMMA InitIsLedgerInit == Init => Ledger!LedgerInit
  BY SameData DEF Init, RedisInit, Ledger!LedgerInit

(* The handlers, with their retries, late attempts, panics and restarts,   *)
(* do to queue and counters only what the ledger promises.                 *)
THEOREM Implementation == Spec => LedgerSpec
  BY InitIsLedgerInit, StepIsLedgerStep, Invariance, PTL
  DEF Spec, LedgerSpec, Ledger!LedgerSpec

(* The ledger's invariant, proved of the ledger alone, holds here.  The    *)
(* two instances of the ledger have equal definitions, not shared ones.    *)
LEMMA LedgerInvInit == Ledger!LedgerInit => L!LedgerInv
<1>1. Nil \notin L!Request /\ MaxChunks \in Nat
  BY NilAssumption, MaxChunksAssumption DEF L!Request, Request
<1> QED
  BY <1>1, L!LedgerInitInv
  DEF Ledger!LedgerInit, L!LedgerInit, Ledger!Keys, L!Keys,
      Ledger!EpochSubmissionCountsReceivedInSlotKey,
      L!EpochSubmissionCountsReceivedInSlotKey

LEMMA SameLedgerStep ==
  [Ledger!LedgerNext]_Ledger!ledgerVars => [L!LedgerNext]_L!ledgerVars
<1>1. Ledger!Entry = L!Entry
  BY DEF Ledger!Entry, L!Entry, Ledger!Submission, L!Submission,
         Ledger!Request, L!Request
<1>2. Ledger!Keys = L!Keys
  BY DEF Ledger!Keys, L!Keys, Ledger!EpochSubmissionCountsReceivedInSlotKey,
         L!EpochSubmissionCountsReceivedInSlotKey
<1>3. ASSUME NEW e
      PROVE  /\ Ledger!Queue(e) => L!Queue(e)
             /\ Ledger!Accept(e) => L!Accept(e)
             /\ Ledger!Tally(e) => L!Tally(e)
  BY DEF Ledger!Queue, Ledger!Accept, Ledger!Tally, Ledger!Newest, L!Queue,
         L!Accept, L!Tally, L!Newest, Ledger!KeyOf, L!KeyOf, Ledger!HasRequest,
         L!HasRequest, Ledger!EpochSubmissionCountsReceivedInSlotKey,
         L!EpochSubmissionCountsReceivedInSlotKey
<1>4. \A k : Ledger!Forget(k) => L!Forget(k)
  BY DEF Ledger!Forget, L!Forget
<1> QED
  BY <1>1, <1>2, <1>3, <1>4
  DEF Ledger!LedgerNext, L!LedgerNext, Ledger!ledgerVars, L!ledgerVars

LEMMA LedgerInvStep ==
  L!LedgerInv /\ [Ledger!LedgerNext]_Ledger!ledgerVars
    => L!LedgerInv' /\ [Ledger!Grows]_Ledger!ledgerVars
<1>1. Nil \notin L!Request /\ MaxChunks \in Nat
  BY NilAssumption, MaxChunksAssumption DEF L!Request, Request
<1> QED
  BY <1>1, SameLedgerStep, L!LedgerStepInv, L!LedgerStepGrows
  DEF L!ledgerVars, Ledger!ledgerVars, L!Grows, Ledger!Grows

(* Accepted submissions of a stream are queued in the order read: proved   *)
(* of the ledger, hence true of handleStream.                              *)
THEOREM Ordered == Spec => []AcceptedInOrder
<1>1. L!LedgerInv => AcceptedInOrder
  BY DEF AcceptedInOrder, Ledger!InOrder, Ledger!Precedes,
         L!LedgerInv, L!InOrder, L!Precedes
<1> QED
  BY <1>1, LedgerInvInit, LedgerInvStep, Implementation, PTL
  DEF LedgerSpec, Ledger!LedgerSpec

(* What handleStream counts as queued is queued: again of the ledger.      *)
THEOREM NothingMissing == Spec => []AcceptedAreQueued
<1>1. L!LedgerInv => AcceptedAreQueued
  BY DEF AcceptedAreQueued, Ledger!AcceptedAreQueued, L!LedgerInv, L!AcceptedAreQueued
<1> QED
  BY <1>1, LedgerInvInit, LedgerInvStep, Implementation, PTL
  DEF LedgerSpec, Ledger!LedgerSpec

(* It stays queued, at its place, and stays accepted, over panics,         *)
(* signals, restarts and attempts executed late.                           *)
THEOREM NothingLost == Spec => NothingTakenBack
  BY LedgerInvInit, LedgerInvStep, Implementation, PTL
  DEF LedgerSpec, Ledger!LedgerSpec, NothingTakenBack, Ledger!OnlyGrows

-----------------------------------------------------------------------------
(* Exactly once, while LPUSH is answered. *)

(* Every queued entry was accepted, the entries of a stream stand in the   *)
(* order read, and a handler about to push holds a newer one.              *)
InStep ==
  "LPush" \notin allowed =>
  /\ \A i \in DOMAIN submissionQueue : submissionQueue[i] \in accepted
  /\ \A i, j \in DOMAIN submissionQueue :
       i < j /\ submissionQueue[i].stream = submissionQueue[j].stream
         => submissionQueue[i].seq < submissionQueue[j].seq
  /\ \A s \in Streams : pc[s] = "LPush" =>
       \A i \in DOMAIN submissionQueue :
         submissionQueue[i].stream = s => submissionQueue[i].seq < nread[s]

(* Steps that put nothing on the queue. *)
LEMMA QuietKeepsInStep ==
  ASSUME InStep, UNCHANGED <<submissionQueue, allowed>>, accepted \subseteq accepted',
         \A s \in Streams : pc'[s] = "LPush" => pc[s] = "LPush" /\ nread'[s] = nread[s]
  PROVE  InStep'
  BY DEF InStep

LEMMA CallKeepsInStep ==
  ASSUME IInv, InStep, UNCHANGED allowed, NEW s \in Streams, Call(s)
  PROVE  InStep'
<1> SUFFICES ASSUME "LPush" \notin allowed
             PROVE  InStep'
  BY DEF InStep
<1>1. CASE Stop
  BY <1>1, QuietKeepsInStep DEF Stop, redisVars
<1>2. ASSUME InCall(s), NEW ok \in BOOLEAN, Moves(s, ok), Attempts(s)
      PROVE  InStep'
  <2>1. /\ accepted \subseteq accepted' /\ nread' = nread
        /\ Command(s).call = pc[s] /\ Command(s).entry = hand[s]
    BY <1>2, MoveKeepsTypes, CommandSendable DEF Moves
  <2>2. \A t \in Streams : pc'[t] = "LPush" => pc[t] = "LPush" /\ (t = s => pc[s] \in allowed)
    <3> SUFFICES ASSUME NEW t \in Streams, pc'[t] = "LPush"
                 PROVE  pc[t] = "LPush" /\ (t = s => pc[s] \in allowed)
      OBVIOUS
    <3>1. CASE t = s
      <4>1. ~Return(s, ok)
        <5>1. AfterCall(pc[s], ok) # "LPush"
          BY <1>2 DEF InCall, Calls, AfterCall
        <5> QED
          BY <3>1, <5>1 DEF Return, IInv, TypeOK
      <4> QED
        BY <1>2, <3>1, <4>1 DEF Moves, Retry
    <3>2. CASE t # s
      BY <1>2, <3>2, MoveToAttempt
    <3> QED
      BY <3>1, <3>2
  <2>3. CASE pc[s] # "LPush"
    <3>1. submissionQueue' = submissionQueue
      BY <1>2, <2>1, <2>3 DEF Attempts, Execute, Incr, Expire, redisVars
    <3> QED
      BY <2>1, <2>2, <3>1, QuietKeepsInStep
  <2>4. CASE pc[s] = "LPush"
    <3>1. Answered(s)
      BY <2>4 DEF Call, Answered, ReplyLost, Overtaken, Failed, DerefNilRequest
    <3>2. /\ submissionQueue' = Append(submissionQueue, hand[s])
          /\ accepted' = accepted \cup {hand[s]}
      BY <2>1, <2>4, <3>1 DEF Answered, Execute, LPush, Return
    <3>3. /\ submissionQueue \in Seq(Entry)
          /\ hand[s].stream = s /\ hand[s].seq = nread[s]
      BY <2>4 DEF IInv, TypeOK, RedisTypeOK, HandOK, Calls
    <3>4. /\ Len(submissionQueue) \in Nat
          /\ DOMAIN submissionQueue = 1..Len(submissionQueue)
          /\ DOMAIN submissionQueue' = 1..(Len(submissionQueue) + 1)
          /\ \A i \in 1..Len(submissionQueue) : submissionQueue'[i] = submissionQueue[i]
          /\ submissionQueue'[Len(submissionQueue) + 1] = hand[s]
      BY <3>2, <3>3
    <3>5. \A i \in DOMAIN submissionQueue' : submissionQueue'[i] \in accepted'
      BY <3>2, <3>4 DEF InStep
    <3>6. ASSUME NEW i \in DOMAIN submissionQueue', NEW j \in DOMAIN submissionQueue', i < j,
                 submissionQueue'[i].stream = submissionQueue'[j].stream
          PROVE  submissionQueue'[i].seq < submissionQueue'[j].seq
      <4>1. i \in DOMAIN submissionQueue /\ submissionQueue'[i] = submissionQueue[i]
        BY <3>4, <3>6
      <4>2. CASE j \in DOMAIN submissionQueue
        BY <3>4, <3>6, <4>1, <4>2 DEF InStep
      <4>3. CASE submissionQueue'[j] = hand[s]
        BY <2>4, <3>3, <3>6, <4>1, <4>3 DEF InStep
      <4> QED
        BY <3>4, <4>2, <4>3
    <3>7. ASSUME NEW t \in Streams, pc'[t] = "LPush", NEW i \in DOMAIN submissionQueue',
                 submissionQueue'[i].stream = t
          PROVE  submissionQueue'[i].seq < nread'[t]
      <4>1. t # s /\ pc[t] = "LPush"
        BY <2>2, <2>4, <3>7
      <4>2. i \in DOMAIN submissionQueue /\ submissionQueue'[i] = submissionQueue[i]
        BY <3>3, <3>4, <3>7, <4>1
      <4> QED
        BY <2>1, <3>7, <4>1, <4>2 DEF InStep
    <3> QED
      BY <3>5, <3>6, <3>7 DEF InStep
  <2> QED
    BY <2>3, <2>4
<1> QED
  BY <1>1, <1>2, CallIsMove

LEMMA NextKeepsInStep == IInv /\ InStep /\ [Next]_vars => InStep'
<1> SUFFICES ASSUME IInv, InStep, [Next]_vars
             PROVE  InStep'
  OBVIOUS
<1>0. UNCHANGED allowed /\ TypeOK
  BY DEF Next, vars, IInv
<1>1. ASSUME NEW s \in Streams, Open(s) \/ ReadEnd(s) \/ ReadGarbage(s)
      PROVE  InStep'
  <2>1. /\ UNCHANGED <<submissionQueue, accepted>>
        /\ \A t \in Streams : pc'[t] = "LPush" => pc[t] = "LPush" /\ t # s
        /\ \A t \in Streams : t # s => nread'[t] = nread[t]
    BY <1>0, <1>1 DEF Open, ReadEnd, ReadGarbage, CanRead, handlerVars, redisVars, TypeOK
  <2> QED
    BY <1>0, <2>1, QuietKeepsInStep
<1>2. ASSUME NEW s \in Streams, ReadShort(s)
      PROVE  InStep'
  BY <1>0, <1>2, QuietKeepsInStep DEF ReadShort, Stop, redisVars
<1>3. ASSUME NEW s \in Streams, ReadSubmission(s)
      PROVE  InStep'
  <2>1. /\ UNCHANGED <<submissionQueue, accepted>>
        /\ \A t \in Streams : t # s => pc'[t] = pc[t] /\ nread'[t] = nread[t]
        /\ nread'[s] = nread[s] + 1 /\ nread[s] \in Nat
    BY <1>0, <1>3 DEF ReadSubmission, redisVars, TypeOK
  <2>2. \A i \in DOMAIN submissionQueue :
          submissionQueue[i].stream = s => submissionQueue[i].seq < nread'[s]
    <3>1. \A i \in DOMAIN submissionQueue : submissionQueue[i] \in Entry
      BY <1>0 DEF TypeOK, RedisTypeOK
    <3> QED
      BY <2>1, <3>1, MaxChunksAssumption DEF IInv, PastOK, Read, Entry
  <2> QED
    BY <1>0, <2>1, <2>2 DEF InStep
<1>4. ASSUME NEW s \in Streams, Call(s)
      PROVE  InStep'
  BY <1>0, <1>4, CallKeepsInStep
<1>5. CASE LateArrival
  <2>1. PICK c \in late : Execute(c) /\ UNCHANGED <<handlerVars, nread, accepted>>
    BY <1>5 DEF LateArrival
  <2>2. c.call \in allowed
    BY DEF IInv, LateOK
  <2>3. "LPush" \notin allowed => submissionQueue' = submissionQueue
    BY <2>1, <2>2 DEF Execute, Incr, Expire
  <2> QED
    BY <1>0, <2>1, <2>3 DEF handlerVars, InStep
<1>6. CASE CounterExpires \/ Restart \/ UNCHANGED vars
  BY <1>0, <1>6, QuietKeepsInStep
  DEF CounterExpires, TtlFires, Restart, vars, handlerVars, redisVars
<1>7. CASE Kill
  BY <1>0, <1>7, QuietKeepsInStep DEF Kill, Stop, redisVars
<1> QED
  BY <1>1, <1>2, <1>3, <1>4, <1>5, <1>6, <1>7 DEF Next, Handler

(* As long as LPUSH is answered, WriteToSubmissionQueue puts every         *)
(* submission it reports as queued on the queue once and in the order      *)
(* read, and none that it reports as failed.                               *)
THEOREM PushedOnce == Spec => []ExactlyOnce
<1>1. Init => InStep
  BY DEF Init, RedisInit, InStep
<1>2. InStep /\ AcceptedAreQueued => ExactlyOnce
  BY DEF InStep, ExactlyOnce
<1> QED
  BY <1>1, <1>2, NextKeepsInStep, Invariance, NothingMissing, PTL DEF Spec

-----------------------------------------------------------------------------
(* Turns run down. *)

(* An attempt, whatever becomes of it, is one attempt less. *)
LEMMA MoveRunsDown ==
  ASSUME IInv, NEW s \in Streams, InCall(s), NEW ok \in BOOLEAN, Moves(s, ok)
  PROVE  /\ AttemptsLeft(s)' \in 0..(AttemptsLeft(s) - 1)
         /\ hand'[s] = IF pc'[s] \in Calls THEN hand[s] ELSE Nil
<1>1. TypeOK /\ pc[s] \in Calls /\ attempt[s] \in 0..MaxRetries /\ MaxRetries \in Nat
  BY RetriesAssumption DEF IInv, InCall, TypeOK
<1>2. CASE Retry(s)
  <2>1. pc'[s] = pc[s] /\ hand'[s] = hand[s] /\ attempt'[s] = attempt[s] + 1
        /\ attempt[s] < MaxRetries
    BY <1>1, <1>2 DEF Retry, TypeOK
  <2> QED
    BY <1>1, <2>1 DEF AttemptsLeft, Calls
<1>3. CASE Return(s, ok)
  <2>1. /\ pc'[s] = AfterCall(pc[s], ok) /\ attempt'[s] = 0
        /\ hand'[s] = IF pc'[s] = "read" THEN Nil ELSE hand[s]
    BY <1>1, <1>3 DEF Return, TypeOK
  <2>2. /\ pc[s] = "LPush" => pc'[s] \in {"Incr", "read"}
        /\ pc[s] = "Incr" => pc'[s] = "Expire"
        /\ pc[s] = "Expire" => pc'[s] = "read"
    BY <1>1, <2>1 DEF AfterCall
  <2>3. hand'[s] = IF pc'[s] \in Calls THEN hand[s] ELSE Nil
    BY <1>1, <2>1, <2>2 DEF Calls
  <2> QED
    BY <1>1, <2>1, <2>2, <2>3 DEF AttemptsLeft, Calls
<1> QED
  BY <1>2, <1>3 DEF Moves

LEMMA StopRunsDown ==
  ASSUME IInv, Stop, NEW s \in Streams, pc[s] \in Calls
  PROVE  /\ AttemptsLeft(s)' \in 0..(AttemptsLeft(s) - 1)
         /\ hand'[s] = IF pc'[s] \in Calls THEN hand[s] ELSE Nil
<1>1. attempt[s] \in 0..MaxRetries /\ MaxRetries \in Nat
  BY RetriesAssumption DEF IInv, TypeOK
<1>2. pc'[s] = "closed" /\ hand'[s] = Nil
  BY DEF Stop
<1> QED
  BY <1>1, <1>2 DEF AttemptsLeft, Calls

(* No call of WriteToSubmissionQueue, Incr or Expire is made for ever: a   *)
(* turn of handleStream has 3 * (MaxRetries + 1) attempts, and no step of  *)
(* anybody gives one back.                                                 *)
THEOREM RunDown == Spec => TurnsRunDown
<1> DEFINE Down(s) ==
             pc[s] \in Calls =>
               \/ pc'[s] = pc[s] /\ hand'[s] = hand[s] /\ attempt'[s] = attempt[s]
               \/ /\ AttemptsLeft(s)' \in 0..(AttemptsLeft(s) - 1)
                  /\ hand'[s] = IF pc'[s] \in Calls THEN hand[s] ELSE Nil
<1>1. IInv /\ Next => \A s \in Streams : Down(s)
  <2> SUFFICES ASSUME IInv, Next, NEW s \in Streams, pc[s] \in Calls
               PROVE  Down(s)
    OBVIOUS
  <2>0. TypeOK
    BY DEF IInv
  <2>1. ASSUME NEW t \in Streams, Open(t) \/ ReadEnd(t) \/ ReadGarbage(t) \/ ReadSubmission(t)
        PROVE  Down(s)
    <3>1. t # s
      BY <2>1 DEF Open, ReadEnd, ReadGarbage, ReadSubmission, CanRead, Calls
    <3> QED
      BY <2>0, <2>1, <3>1
      DEF Open, ReadEnd, ReadGarbage, ReadSubmission, handlerVars, TypeOK
  <2>2. CASE Stop
    BY <2>2, StopRunsDown
  <2>3. ASSUME NEW t \in Streams, InCall(t), NEW ok \in BOOLEAN, Moves(t, ok)
        PROVE  Down(s)
    <3>1. CASE t = s
      BY <2>3, <3>1, MoveRunsDown
    <3>2. CASE t # s
      BY <2>0, <2>3, <3>2 DEF Moves, Retry, Return, TypeOK
    <3> QED
      BY <3>1, <3>2
  <2>4. CASE LateArrival \/ CounterExpires \/ Restart
    BY <2>4 DEF LateArrival, CounterExpires, Restart, handlerVars
  <2> QED
    BY <2>1, <2>2, <2>3, <2>4, CallIsMove DEF Next, Handler, ReadShort, Kill
<1>2. IInv /\ [Next]_vars => [\A s \in Streams : Down(s)]_vars
  BY <1>1
<1> HIDE DEF Down
<1>3. Spec => [][\A s \in Streams : Down(s)]_vars
  BY <1>2, Invariance, PTL DEF Spec
<1> QED
  BY <1>3 DEF Down, TurnsRunDown

=============================================================================
