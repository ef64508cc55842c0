--------------------------- MODULE SubmissionStore ---------------------------
(***************************************************************************)
(* The helpers of package redis with which goroutines keep submissions     *)
(* under keys of their own and list these keys in a set, and the alerts    *)
(* the helpers raise.  In this program nothing calls them yet: the calls   *)
(* here are any calls the signatures allow, under the one convention that  *)
(* the keys of submissions are written with SetSubmission only.            *)
(*                                                                         *)
(* The client repeats an attempt that was not answered in time, and an     *)
(* attempt it gave up on may be executed at any time later ("late").  All  *)
(* commands are such that a second execution at once changes nothing.      *)
(***************************************************************************)
EXTENDS Alerts

CONSTANTS
  Workers,  \* goroutines that call
  Keys,     \* keys of submissions
  Other,    \* any key that is not a submission's: nothing here depends on
            \* its value, which is left out
  TheSet,   \* the key of the set
  Idle,     \* no call
  MaxLate,  \* bound: commands on the wire that nobody waits for
  MaxAlerts \* bound: alerts raised in all

ASSUME StoreAssumption ==
  /\ TheSet # Other /\ TheSet \notin Keys /\ Other \notin Keys
  /\ MaxLate \in Nat /\ MaxAlerts \in Nat

VARIABLES
  listed,    \* members of the set
  stored,    \* keys that have a value
  call,      \* the call of each worker and the command it is at, or Idle;
             \* at 0, it has an error to tell of
  late,      \* commands on the wire that nobody waits for, each once or more
  acked,     \* history: keys SetSubmission returned no error for
  unlisted,  \* history: former members, taken out by SREM or DEL
  gone,      \* history: keys whose value expired or was deleted
  unpaired   \* history: keys AddToSet was called for, or a SetSubmission of
             \* which ended with an alert or with the process

serverVars == <<listed, stored, unlisted, gone>>
storeVars == <<serverVars, call, late, acked, unpaired>>
vars == <<wellFormed, running, alertVars, storeVars>>

Init ==
  /\ AlertsInit
  /\ listed = {}
  /\ stored = {}
  /\ call = [w \in Workers |-> Idle]
  /\ late = {}
  /\ acked = {}
  /\ unlisted = {}
  /\ gone = {}
  /\ unpaired = {}

Ops == {"SetSubmission", "AddToSet", "RemoveFromSet", "Delete", "Set", "Get",
        "GetSetKeys", "SetProcessLog"}

(* The commands of a helper, in the order it sends them. *)
CommandsOf_ValueFirst(op) ==
  CASE op = "SetSubmission"            -> <<"Set", "SAdd">>
    [] op = "AddToSet"                 -> <<"SAdd">>
    [] op \in {"Set", "SetProcessLog"} -> <<"Set">>
    [] op = "RemoveFromSet"            -> <<"SRem">>
    [] op = "Delete"                   -> <<"Del">>
    [] op = "Get"                      -> <<"Get">>
    [] op = "GetSetKeys"               -> <<"SMembers">>

CommandsOf(op) ==
  CASE op = "SetSubmission"            -> <<"SAdd", "Set">>
    [] op = "AddToSet"                 -> <<"SAdd">>
    [] op \in {"Set", "SetProcessLog"} -> <<"Set">>
    [] op = "RemoveFromSet"            -> <<"SRem">>
    [] op = "Delete"                   -> <<"Del">>
    [] op = "Get"                      -> <<"Get">>
    [] op = "GetSetKeys"               -> <<"SMembers">>

Writes == {"SAdd", "Set", "SRem", "Del"}

KeysOf(op) ==
  CASE op \in {"SetSubmission", "AddToSet", "RemoveFromSet"} -> Keys
    [] op \in {"Set", "Get", "SetProcessLog"} -> {Other}
    [] op = "Delete"                   -> Keys \cup {TheSet}
    [] op = "GetSetKeys"               -> {TheSet}

Calls == UNION {[op : {op}, step : 0..Len(CommandsOf(op)), key : KeysOf(op)] : op \in Ops}

ASSUME IdleAssumption == Idle \notin Calls

Command(w) == [cmd |-> CommandsOf(call[w].op)[call[w].step], key |-> call[w].key]

-----------------------------------------------------------------------------
(* The server. *)

Execute(c) ==
  CASE c.cmd = "SAdd" ->
         /\ listed' = listed \cup {c.key}
         /\ unlisted' = unlisted \ {c.key}
         /\ UNCHANGED <<stored, gone>>
    [] c.cmd = "SRem" ->
         /\ listed' = listed \ {c.key}
         /\ unlisted' = unlisted \cup (listed \cap {c.key})
         /\ UNCHANGED <<stored, gone>>
    [] c.cmd = "Set" /\ c.key \in Keys ->
         /\ stored' = stored \cup {c.key}
         /\ gone' = gone \ {c.key}
         /\ UNCHANGED <<listed, unlisted>>
    [] c.cmd = "Del" /\ c.key \in Keys ->
         /\ stored' = stored \ {c.key}
         /\ gone' = gone \cup (stored \cap {c.key})
         /\ UNCHANGED <<listed, unlisted>>
    [] c.cmd = "Del" /\ c.key = TheSet ->
         /\ listed' = {}
         /\ unlisted' = unlisted \cup listed
         /\ UNCHANGED <<stored, gone>>
    [] OTHER -> UNCHANGED serverVars  \* GET, SMEMBERS, or another key

(* An attempt nobody waits for is executed.  It may be one of several      *)
(* equal ones, of one call or of several, and the others are still to come.*)
LateArrival ==
  \E c \in late :
    /\ Execute(c)
    /\ late' \in {late, late \ {c}}
    /\ UNCHANGED <<wellFormed, running, alertVars, call, acked, unpaired>>

(* A value reaches the end of its time to live; its key stays in the set. *)
ValueExpires ==
  \E k \in stored :
    /\ stored' = stored \ {k}
    /\ gone' = gone \cup {k}
    /\ UNCHANGED <<wellFormed, running, alertVars, listed, unlisted, call, late, acked, unpaired>>

-----------------------------------------------------------------------------
(* The helpers. *)

(* SetSubmission, AddToSet, Get and SetProcessLog tell of their errors;    *)
(* the others only return them, or read them as no members.                *)
Alerting == {"SetSubmission", "AddToSet", "Get", "SetProcessLog"}

Calling(w) == running /\ call[w] # Idle /\ call[w].step > 0

Failing(w) == running /\ call[w] # Idle /\ call[w].step = 0

CanFail == raised + Cardinality({w \in Workers : Failing(w)}) < MaxAlerts

Start(w, op, key) ==
  /\ running
  /\ call[w] = Idle
  /\ call' = [call EXCEPT ![w] = [op |-> op, step |-> 1, key |-> key]]
  /\ unpaired' = IF op = "AddToSet" THEN unpaired \cup {key} ELSE unpaired
  /\ UNCHANGED <<wellFormed, running, alertVars, serverVars, late, acked>>

(* The log entry cannot be marshalled: no command is sent. *)
MarshalFails(w) ==
  /\ running
  /\ call[w] = Idle
  /\ CanFail
  /\ call' = [call EXCEPT ![w] = [op |-> "SetProcessLog", step |-> 0, key |-> Other]]
  /\ UNCHANGED <<wellFormed, running, alertVars, serverVars, late, acked, unpaired>>

(* The call returns no error, or goes on with its next command. *)
Succeed(w) ==
  IF call[w].step = Len(CommandsOf(call[w].op))
  THEN /\ call' = [call EXCEPT ![w] = Idle]
       /\ acked' = IF call[w].op = "SetSubmission" THEN acked \cup {call[w].key} ELSE acked
  ELSE /\ call' = [call EXCEPT ![w].step = @ + 1]
       /\ UNCHANGED acked

(* An attempt is executed and the reply arrives. *)
Answered_ErrorUnchecked(w) ==
  /\ Calling(w)
  /\ Execute(Command(w)) \/ UNCHANGED serverVars
  /\ Succeed(w)
  /\ UNCHANGED <<wellFormed, running, alertVars, late, unpaired>>

Answered(w) ==
  /\ Calling(w)
  /\ Execute(Command(w))
  /\ Succeed(w)
  /\ UNCHANGED <<wellFormed, running, alertVars, late, unpaired>>

(* An attempt is on the wire and gets no reply in time.  If it was not the *)
(* last one, the client makes another.                                     *)
Overdue(w) ==
  /\ Calling(w)
  /\ Command(w).cmd \in Writes /\ Command(w).key # Other
  /\ Cardinality(late) < MaxLate
  /\ late' = late \cup {Command(w)}
  /\ UNCHANGED <<wellFormed, running, alertVars, serverVars, call, acked, unpaired>>

(* The client has made its attempts, or met an error it does not retry. *)
GivesUp(w) ==
  /\ Calling(w)
  /\ IF call[w].op \in Alerting
     THEN CanFail /\ call' = [call EXCEPT ![w].step = 0]
     ELSE call' = [call EXCEPT ![w] = Idle]
  /\ UNCHANGED <<wellFormed, running, alertVars, serverVars, late, acked, unpaired>>

(* The alert, and the return of the error. *)
Fail_NotTold(w) ==
  /\ Failing(w)
  /\ call' = [call EXCEPT ![w] = Idle]
  /\ UNCHANGED <<wellFormed, running, alertVars, serverVars, late, acked, unpaired>>

Fail(w) ==
  /\ Failing(w)
  /\ SendFailureNotification
  /\ call' = [call EXCEPT ![w] = Idle]
  /\ unpaired' = IF call[w].op = "SetSubmission" THEN unpaired \cup {call[w].key} ELSE unpaired
  /\ UNCHANGED <<wellFormed, running, serverVars, late, acked>>

-----------------------------------------------------------------------------
(* The process. *)

(* It is killed, or the reporter panics: calls and alerts end with it. *)
End ==
  /\ running
  /\ EndAlerts
  /\ call' = [w \in Workers |-> Idle]
  /\ unpaired' = unpaired \cup {call[w].key :
                     w \in {v \in Workers : call[v] # Idle /\ call[v].op = "SetSubmission"}}
  /\ UNCHANGED <<serverVars, late, acked>>

Restart ==
  /\ ~running
  /\ running' = TRUE
  /\ UNCHANGED <<wellFormed, alertVars, storeVars>>

Return(w) == Answered(w) \/ GivesUp(w) \/ Fail(w)

Worker(w) ==
  \/ \E op \in Ops : \E key \in KeysOf(op) : Start(w, op, key)
  \/ MarshalFails(w)
  \/ Return(w)
  \/ Overdue(w)

Reporter ==
  \/ Report /\ UNCHANGED storeVars
  \/ RequestPanics /\ End

Next ==
  \/ \E w \in Workers : Worker(w)
  \/ Reporter
  \/ ArrivesLate /\ UNCHANGED storeVars
  \/ LateArrival
  \/ ValueExpires
  \/ End
  \/ Restart

(* The client bounds attempts and waits, so a call comes to its return.    *)
(* Nothing is assumed of the reporter, the server or the process.          *)
Spec == Init /\ [][Next]_vars

FairSpec == Spec /\ \A w \in Workers : WF_vars(Return(w))

-----------------------------------------------------------------------------
(* Properties. *)

(* Every variable has its type; the channel is never above its capacity. *)
TypeOK ==
  /\ AlertsTypeOK
  /\ listed \subseteq Keys
  /\ stored \subseteq Keys
  /\ call \in [Workers -> Calls \cup {Idle}]
  /\ late \subseteq [cmd : Writes, key : Keys \cup {Other, TheSet}]
  /\ acked \subseteq Keys
  /\ unlisted \subseteq Keys
  /\ gone \subseteq Keys
  /\ unpaired \subseteq Keys

(* Who reads the set finds every submission that has a value, but for what *)
(* RemoveFromSet or Delete took out: SADD comes before SET, whatever else  *)
(* the workers do, is lost, comes late or ends.                            *)
StoredIsListed == stored \subseteq listed \cup unlisted

(* What SetSubmission reported stored is listed and has its value, but for *)
(* what was removed since, or expired.                                     *)
AckedIsStored == acked \subseteq (listed \cup unlisted) \cap (stored \cup gone)

(* A member of the set got its value, or a SetSubmission is about to give  *)
(* it, unless one failed, which raised an alert, or ended with the process *)
(* (or AddToSet listed it).                                                *)
MemberHasValue ==
  \A k \in listed : \/ k \in stored \cup gone \cup unpaired
                    \/ \E w \in Workers : /\ call[w] # Idle
                                          /\ call[w].op = "SetSubmission"
                                          /\ call[w].key = k

(* What a call can still do: its commands, and telling of an error.        *)
StepsLeft(w) ==
  IF call[w] = Idle THEN 0
  ELSE IF call[w].step = 0 THEN 1
  ELSE 2 + Len(CommandsOf(call[w].op)) - call[w].step

(* Nothing sends a call back: whatever late commands, other workers, the   *)
(* reporter and the end of the process do, a call stays as it is or is     *)
(* left with less to do, for the same key, until it has returned.          *)
CallsRunDown ==
  [][\A w \in Workers : call[w] # Idle =>
       \/ call'[w] = call[w]
       \/ /\ StepsLeft(w)' \in 0..(StepsLeft(w) - 1)
          /\ \/ call'[w] = Idle
             \/ call'[w].op = call[w].op /\ call'[w].key = call[w].key]_vars

(* A call returns, even when the reporter hangs and the channel is full:   *)
(* to raise an alert never waits.                                          *)
CallsReturn == \A w \in Workers : call[w] # Idle ~> call[w] = Idle

(* If the reporter runs, with its 5 seconds for each post, the alerts in   *)
(* the channel get posted, time out, or end with the process.              *)
AlertsSettle ==
  WF_vars(Reporter) =>
    \A a \in 1..MaxAlerts : a \in Members(channel) ~> a \notin Members(channel) \cup InHand

=============================================================================
