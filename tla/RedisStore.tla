----------------------------- MODULE RedisStore -----------------------------
(***************************************************************************)
(* The part of the Redis server the listener writes to: one list and one   *)
(* counter per key, each counter with or without a time to live.           *)
(*                                                                         *)
(* The server is outside the repository.  It is modelled from the three    *)
(* commands the handler sends: LPUSH, INCR and EXPIRE.  The server runs    *)
(* one command at a time, so each command is one action.                   *)
(***************************************************************************)
EXTENDS Sequences, Submissions

VARIABLES
  submissionQueue,  \* the list read from its right end: oldest entry first.
                    \* Nothing in the listener pops it, so it is kept whole.
  count,            \* value of a counter; 0 is the absent key
  ttl               \* whether the counter has a time to live

redisVars == <<submissionQueue, count, ttl>>

RedisInit ==
  /\ submissionQueue = <<>>
  /\ count = [k \in Keys |-> 0]
  /\ ttl = [k \in Keys |-> FALSE]

RedisTypeOK ==
  /\ submissionQueue \in Seq(Entry)
  /\ count \in [Keys -> Nat]
  /\ ttl \in [Keys -> BOOLEAN]

LPush(e) ==
  /\ submissionQueue' = Append(submissionQueue, e)
  /\ UNCHANGED <<count, ttl>>

Incr(k) ==
  /\ count' = [count EXCEPT ![k] = @ + 1]
  /\ UNCHANGED <<submissionQueue, ttl>>

(* EXPIRE of a key that is absent does nothing. *)
Expire(k) ==
  /\ ttl' = [ttl EXCEPT ![k] = @ \/ count[k] > 0]
  /\ UNCHANGED <<submissionQueue, count>>

(* Five minutes without another EXPIRE: the server removes the key. *)
TtlFires(k) ==
  /\ ttl[k]
  /\ count' = [count EXCEPT ![k] = 0]
  /\ ttl' = [ttl EXCEPT ![k] = FALSE]
  /\ UNCHANGED submissionQueue

=============================================================================
