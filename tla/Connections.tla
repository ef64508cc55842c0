----------------------------- MODULE Connections -----------------------------
(***************************************************************************)
(* The count of active connections.  The host calls one callback when a    *)
(* connection is up and one when it is down.  Those of one connection come *)
(* one after the other; those of different connections run in goroutines   *)
(* of their own, and activeConnections++ is a load and a store with        *)
(* nothing that keeps two of them apart.  ConnectToPeers reads the         *)
(* variable at the end of a round, to log it.                              *)
(*                                                                         *)
(* The host accepts connections from its creation on, and the callbacks    *)
(* are registered after it: a connection made in between gets only the     *)
(* second callback.                                                        *)
(***************************************************************************)
EXTENDS Integers, FiniteSets

CONSTANTS
  Conns,   \* connections, each made and closed at most once
  Nil

ASSUME ConnsAssumption == IsFiniteSet(Conns) /\ Nil \notin Int

VARIABLES
  notified,           \* whether the callbacks are registered
  state,              \* of each connection
  activeConnections,
  loaded,             \* what the callback of a connection read, Nil outside
  logged,             \* the number in the log
  missed,             \* connections of which only the end is notified
  overlapped          \* history: callbacks that ran together with another

vars == <<notified, state, activeConnections, loaded, logged, missed, overlapped>>

Init ==
  /\ notified = FALSE
  /\ state = [c \in Conns |-> "none"]
  /\ activeConnections = 0
  /\ loaded = [c \in Conns |-> Nil]
  /\ logged = 0
  /\ missed = {}
  /\ overlapped = {}

Callbacks == {"established", "closed"}

Running == {c \in Conns : state[c] \in Callbacks}

-----------------------------------------------------------------------------

Notify ==
  /\ ~notified
  /\ notified' = TRUE
  /\ UNCHANGED <<state, activeConnections, loaded, logged, missed, overlapped>>

Load(c) ==
  /\ loaded' = [loaded EXCEPT ![c] = activeConnections]
  /\ overlapped' =
       overlapped \cup (IF Running = {} THEN {}
                        ELSE {<<d, state'[d]>> : d \in Running \cup {c}})
  /\ UNCHANGED <<notified, activeConnections, logged>>

(* A connection is made; its callback is called if there is one. *)
Establish(c) ==
  /\ state[c] = "none"
  /\ \/ /\ notified
        /\ state' = [state EXCEPT ![c] = "established"]
        /\ Load(c)
        /\ UNCHANGED missed
     \/ /\ ~notified
        /\ state' = [state EXCEPT ![c] = "open"]
        /\ missed' = missed \cup {c}
        /\ UNCHANGED <<notified, activeConnections, loaded, logged, overlapped>>

Close_Unregistered(c) ==
  /\ state[c] = "open"
  /\ state' = [state EXCEPT ![c] = "gone"]
  /\ UNCHANGED <<notified, activeConnections, loaded, logged, missed, overlapped>>

Close(c) ==
  /\ state[c] = "open"
  /\ \/ /\ notified
        /\ state' = [state EXCEPT ![c] = "closed"]
        /\ Load(c)
        /\ UNCHANGED missed
     \/ /\ ~notified
        /\ state' = [state EXCEPT ![c] = "gone"]
        /\ missed' = missed \ {c}
        /\ UNCHANGED <<notified, activeConnections, loaded, logged, overlapped>>

(* The stores that end the two callbacks. *)
handleConnectionEstablished(c) ==
  /\ state[c] = "established"
  /\ state' = [state EXCEPT ![c] = "open"]
  /\ activeConnections' = loaded[c] + 1
  /\ loaded' = [loaded EXCEPT ![c] = Nil]
  /\ UNCHANGED <<notified, logged, missed, overlapped>>

handleConnectionClosed_Adds(c) ==
  /\ state[c] = "closed"
  /\ state' = [state EXCEPT ![c] = "gone"]
  /\ activeConnections' = loaded[c] + 1
  /\ loaded' = [loaded EXCEPT ![c] = Nil]
  /\ UNCHANGED <<notified, logged, missed, overlapped>>

handleConnectionClosed(c) ==
  /\ state[c] = "closed"
  /\ state' = [state EXCEPT ![c] = "gone"]
  /\ activeConnections' = loaded[c] - 1
  /\ loaded' = [loaded EXCEPT ![c] = Nil]
  /\ UNCHANGED <<notified, logged, missed, overlapped>>

(* The end of a round of discovery, which starts after Notify. *)
Log ==
  /\ notified
  /\ logged' = activeConnections
  /\ UNCHANGED <<notified, state, activeConnections, loaded, missed, overlapped>>

Next ==
  \/ Notify
  \/ \E c \in Conns :
       \/ Establish(c)
       \/ Close(c)
       \/ handleConnectionEstablished(c)
       \/ handleConnectionClosed(c)
  \/ Log

Spec == Init /\ [][Next]_vars

-----------------------------------------------------------------------------

(* No callback is called twice, so the count stays within the number of     *)
(* connections on either side.                                             *)
CountRange == -Cardinality(Conns)..Cardinality(Conns)

(* Every variable has its type; only a running callback holds a value.     *)
TypeOK ==
  /\ notified \in BOOLEAN
  /\ state \in [Conns -> {"none", "open", "gone"} \cup Callbacks]
  /\ activeConnections \in CountRange
  /\ loaded \in [Conns -> CountRange \cup {Nil}]
  /\ \A c \in Conns : loaded[c] = Nil <=> c \notin Running
  /\ logged \in CountRange
  /\ missed \subseteq Conns
  /\ overlapped \subseteq Conns \X Callbacks

(* Connections that are up and were, or should have been, counted. *)
Open == {c \in Conns : state[c] \in {"open", "closed"}}

(* How far the count is from the connections it should have. *)
Drift == activeConnections - (Cardinality(Open) - Cardinality(missed))

Abs(n) == IF n < 0 THEN -n ELSE n

(* Callbacks that overlapped another and have ended. *)
Ended == {o \in overlapped : state[o[1]] # o[2]}

(* Nothing but two callbacks running together, and a connection made       *)
(* before the callbacks were registered, takes activeConnections away from *)
(* the number of open connections, and each callback that overlapped       *)
(* another and has ended takes it away by one at most.                     *)
DriftExplained == Abs(Drift) <= Cardinality(Ended)

(* The number a round logs is that of the counted connections that are up, *)
(* but for one per callback that overlapped another: it is exact in a      *)
(* process whose callbacks never ran together, even while one runs.        *)
LogWithinDrift ==
  [][Log => Abs(logged' - (Cardinality(Open) - Cardinality(missed)))
              <= Cardinality(Ended)]_vars

(* "Active connections", says the log line of a round: when no callback     *)
(* runs and no connection was made too early to be seen, the number logged *)
(* is that of the open connections.                                        *)
LogShowsActive ==
  [][Log /\ Running = {} /\ missed = {} => logged' = Cardinality(Open)]_vars

=============================================================================
