------------------------------ MODULE Discovery ------------------------------
(***************************************************************************)
(* The search for relayers.  After the bootstrap nodes were dialled, two   *)
(* goroutines run rounds of ConnectToPeers: "initial" runs one at once,    *)
(* "interval" one for each tick it takes.  A round looks relayers up in    *)
(* the DHT and, one after the other, connects to each and reserves a slot  *)
(* with it, trying again a bounded number of times.  The goroutines share  *)
(* the host, so the rounds of both work on the same connections.           *)
(*                                                                         *)
(* The DHT, the remote peers and the backoff library are external; of the  *)
(* clock only the ticks are modelled.                                      *)
(***************************************************************************)
EXTENDS Naturals, FiniteSets

CONSTANTS
  Peers,        \* all that a lookup may return
  Undialable,   \* those of them that are the host itself or without address
  Reliable,     \* relayers always found, and always reached and reserved with
  Bootstrap,    \* the bootstrap nodes
  MaxRetries,   \* tries of a peer after the first (3 in the code)
  Nil

ASSUME PeersAssumption ==
  /\ Undialable \subseteq Peers
  /\ Reliable \subseteq Peers \ Undialable
  /\ Nil \notin Peers
  /\ MaxRetries \in Nat

Loops == {"initial", "interval"}

VARIABLES
  dialing,    \* bootstrap nodes whose dial has not ended
  routed,     \* whether the DHT knows a node to ask
  pc,         \* where each loop is
  tick,       \* whether the channel of the ticker holds a tick
  todo,       \* peers the lookup of a loop has still to deliver
  at,         \* the peer a loop works on
  attempt,    \* retries of that peer so far
  connected,  \* peers the host is connected to
  reserved    \* peers that hold a slot for the host

loopVars == <<pc, todo, at, attempt>>
vars == <<dialing, routed, tick, loopVars, connected, reserved>>

Init ==
  /\ dialing = Bootstrap
  /\ routed = FALSE
  /\ pc = [l \in Loops |-> "unborn"]
  /\ tick = FALSE
  /\ todo = [l \in Loops |-> {}]
  /\ at = [l \in Loops |-> Nil]
  /\ attempt = [l \in Loops |-> 0]
  /\ connected = {}
  /\ reserved = {}

-----------------------------------------------------------------------------
(* ConfigureDHT: the dials run side by side, and all have to end.  A dial  *)
(* that fails is only logged.                                              *)

DialBootstrap(b) ==
  /\ b \in dialing
  /\ dialing' = dialing \ {b}
  /\ routed' \in {routed, TRUE}
  /\ UNCHANGED <<tick, loopVars, connected, reserved>>

(* ConfigureRelayer starts both loops, and the ticker. *)
StartLoops ==
  /\ dialing = {}
  /\ pc["initial"] = "unborn"
  /\ pc' = [initial |-> "find", interval |-> "wait"]
  /\ UNCHANGED <<dialing, routed, tick, todo, at, attempt,
                 connected, reserved>>

-----------------------------------------------------------------------------
(* DiscoverAtInterval.  The channel of a ticker holds one tick; a tick     *)
(* that finds it full is dropped.  The context is never done.              *)

Tick ==
  /\ pc["interval"] # "unborn"
  /\ tick' = TRUE
  /\ UNCHANGED <<dialing, routed, loopVars, connected, reserved>>

TakeTick ==
  /\ pc["interval"] = "wait"
  /\ tick
  /\ tick' = FALSE
  /\ pc' = [pc EXCEPT !["interval"] = "find"]
  /\ UNCHANGED <<dialing, routed, todo, at, attempt, connected, reserved>>

Rest(l) == IF l = "initial" THEN "done" ELSE "wait"

-----------------------------------------------------------------------------
(* ConnectToPeers. *)

envVars == <<dialing, routed, tick>>

(* With nobody to ask, the lookup finds nobody. *)
FindPeers(l) ==
  /\ pc[l] = "find"
  /\ pc' = [pc EXCEPT ![l] = "range"]
  /\ \E found \in SUBSET Peers :
       /\ IF routed THEN Reliable \subseteq found ELSE found = {}
       /\ todo' = [todo EXCEPT ![l] = found]
  /\ UNCHANGED <<envVars, at, attempt, connected, reserved>>

FindPeersFails(l) ==
  /\ pc[l] = "find"
  /\ pc' = [pc EXCEPT ![l] = Rest(l)]
  /\ UNCHANGED <<envVars, todo, at, attempt, connected, reserved>>

NextPeer_NoneSkipped(l) ==
  /\ pc[l] = "range"
  /\ \E p \in todo[l] :
       /\ todo' = [todo EXCEPT ![l] = @ \ {p}]
       /\ pc' = [pc EXCEPT ![l] = "check"]
       /\ at' = [at EXCEPT ![l] = p]
  /\ UNCHANGED <<envVars, attempt, connected, reserved>>

NextPeer(l) ==
  /\ pc[l] = "range"
  /\ \E p \in todo[l] :
       /\ todo' = [todo EXCEPT ![l] = @ \ {p}]
       /\ \/ p \in Undialable /\ UNCHANGED <<pc, at>>
          \/ /\ p \notin Undialable
             /\ pc' = [pc EXCEPT ![l] = "check"]
             /\ at' = [at EXCEPT ![l] = p]
  /\ UNCHANGED <<envVars, attempt, connected, reserved>>

EndRound(l) ==
  /\ pc[l] = "range"
  /\ todo[l] = {}
  /\ pc' = [pc EXCEPT ![l] = Rest(l)]
  /\ UNCHANGED <<envVars, todo, at, attempt, connected, reserved>>

(* The end of the work on a peer, done or given up. *)
Leave(l) ==
  /\ pc' = [pc EXCEPT ![l] = "range"]
  /\ at' = [at EXCEPT ![l] = Nil]
  /\ attempt' = [attempt EXCEPT ![l] = 0]

(* A failed operation starts again from the beginning; after the retries,  *)
(* or before, when the time the backoff allows is over, it is given up.    *)
Fail_NoLimit(l) ==
  \/ /\ pc' = [pc EXCEPT ![l] = "check"]
     /\ UNCHANGED <<at, attempt>>
  \/ Leave(l)

Fail(l) ==
  \/ /\ attempt[l] < MaxRetries
     /\ pc' = [pc EXCEPT ![l] = "check"]
     /\ attempt' = [attempt EXCEPT ![l] = @ + 1]
     /\ UNCHANGED at
  \/ Leave(l)

Check_DoneIfConnected(l) ==
  /\ pc[l] = "check"
  /\ \/ at[l] \in connected /\ Leave(l)
     \/ /\ at[l] \notin connected
        /\ pc' = [pc EXCEPT ![l] = "connect"]
        /\ UNCHANGED <<at, attempt>>
  /\ UNCHANGED <<envVars, todo, connected, reserved>>

Check(l) ==
  /\ pc[l] = "check"
  /\ pc' = [pc EXCEPT ![l] = IF at[l] \in connected THEN "reserve" ELSE "connect"]
  /\ UNCHANGED <<envVars, todo, at, attempt, connected, reserved>>

Connect(l) ==
  /\ pc[l] = "connect"
  /\ connected' = connected \cup {at[l]}
  /\ pc' = [pc EXCEPT ![l] = "reserve"]
  /\ UNCHANGED <<envVars, todo, at, attempt, reserved>>

ConnectFails(l) ==
  /\ pc[l] = "connect"
  /\ at[l] \notin Reliable
  /\ Fail(l)
  /\ UNCHANGED <<envVars, todo, connected, reserved>>

(* Opening the stream to the relayer dials it again if the connection was  *)
(* lost after the check.                                                   *)
Reserve(l) ==
  /\ pc[l] = "reserve"
  /\ connected' = connected \cup {at[l]}
  /\ reserved' = reserved \cup {at[l]}
  /\ Leave(l)
  /\ UNCHANGED <<envVars, todo>>

ReserveFails(l) ==
  /\ pc[l] = "reserve"
  /\ at[l] \notin Reliable
  /\ Fail(l)
  /\ UNCHANGED <<envVars, todo, connected, reserved>>

Round(l) ==
  \/ FindPeers(l) \/ FindPeersFails(l)
  \/ NextPeer(l) \/ EndRound(l)
  \/ Check(l)
  \/ Connect(l) \/ ConnectFails(l)
  \/ Reserve(l) \/ ReserveFails(l)

-----------------------------------------------------------------------------
(* What happens to the host from outside. *)

(* A slot lasts an hour, and as long as the connection to the relayer. *)
SlotExpires(p) ==
  /\ p \in reserved
  /\ reserved' = reserved \ {p}
  /\ UNCHANGED <<envVars, loopVars, connected>>

Disconnect(p) ==
  /\ p \in connected
  /\ connected' = connected \ {p}
  /\ reserved' = reserved \ {p}
  /\ UNCHANGED <<envVars, loopVars>>

(* A DHT node connects to the host and so becomes known to it. *)
HeardOf ==
  /\ ~routed
  /\ routed' = TRUE
  /\ UNCHANGED <<dialing, tick, loopVars, connected, reserved>>

Next ==
  \/ \E b \in Bootstrap : DialBootstrap(b)
  \/ StartLoops
  \/ Tick
  \/ TakeTick
  \/ \E l \in Loops : Round(l)
  \/ \E p \in Peers : SlotExpires(p) \/ Disconnect(p)
  \/ HeardOf

Spec == Init /\ [][Next]_vars

(* Goroutines that are ready run.  What they wait for ends: dials and      *)
(* streams have timeouts in libp2p, a lookup closes its channel, waits of  *)
(* the backoff are finite, and the ticker ticks on.  Lookups do not fail   *)
(* for ever.                                                               *)
FairSpec ==
  /\ Spec
  /\ \A b \in Bootstrap : WF_vars(DialBootstrap(b))
  /\ WF_vars(StartLoops)
  /\ WF_vars(Tick)
  /\ WF_vars(TakeTick)
  /\ \A l \in Loops : WF_vars(Round(l)) /\ SF_vars(FindPeers(l))

-----------------------------------------------------------------------------
(* Properties. *)

(* Every variable has its type: the loops start together; a loop works on  *)
(* a peer exactly from the check to the reservation, never on the host     *)
(* itself or on a peer without an address, and counts the tries of each    *)
(* peer from zero.                                                         *)
TypeOK ==
  /\ dialing \subseteq Bootstrap
  /\ routed \in BOOLEAN
  /\ pc \in [Loops -> {"unborn", "wait", "find", "range", "check", "connect",
                       "reserve", "done"}]
  /\ \A k, l \in Loops : pc[k] = "unborn" <=> pc[l] = "unborn"
  /\ tick \in BOOLEAN
  /\ todo \in [Loops -> SUBSET Peers]
  /\ at \in [Loops -> (Peers \ Undialable) \cup {Nil}]
  /\ \A l \in Loops : at[l] # Nil <=> pc[l] \in {"check", "connect", "reserve"}
  /\ attempt \in [Loops -> 0..MaxRetries]
  /\ \A l \in Loops : at[l] = Nil => attempt[l] = 0
  /\ connected \subseteq Peers \ Undialable
  /\ reserved \subseteq connected

InRound(l) == pc[l] \notin {"unborn", "wait", "done"}

(* Steps a loop may still take for the peer it works on: a check, a        *)
(* connection and a reservation in each try that is left.                  *)
WorkLeft(l) ==
  LET ofThisTry == CASE pc[l] = "check"   -> 3
                     [] pc[l] = "connect" -> 2
                     [] pc[l] = "reserve" -> 1
                     [] OTHER             -> 0
  IN  3 * (MaxRetries - attempt[l]) + ofThisTry

StillIn(l) == pc'[l] = pc[l] /\ at'[l] = at[l] /\ attempt'[l] = attempt[l] /\ todo'[l] = todo[l]

(* A round that has its peers only runs down.  Whatever happens to the     *)
(* host and in the other loop's round, a loop takes up a peer and never    *)
(* gets it back, or has less to do for the peer it works on, or goes on to *)
(* the next one, and leaves the round only when no peer is left over.      *)
RoundsRunDown ==
  [][\A l \in Loops :
       /\ pc[l] = "range" =>
            \/ StillIn(l)
            \/ pc'[l] = Rest(l) /\ todo[l] = {}
            \/ \E p \in todo[l] :
                 todo'[l] = todo[l] \ {p} /\ pc'[l] \in {"range", "check"} /\ attempt'[l] = 0
       /\ pc[l] \in {"check", "connect", "reserve"} =>
            \/ StillIn(l)
            \/ todo'[l] = todo[l] /\ pc'[l] = "range"
            \/ /\ todo'[l] = todo[l]
               /\ at'[l] = at[l]
               /\ WorkLeft(l)' \in 1..(WorkLeft(l) - 1)]_vars

(* A round ends, however many peers fail and however often. *)
RoundsEnd == \A l \in Loops : InRound(l) ~> ~InRound(l)

(* Once the DHT knows a node to ask, the host gets the slot of a reliable  *)
(* relayer again whenever it lost it, with the connection or without it,   *)
(* although the other relayers of each round may fail all their tries.     *)
SlotsRegained ==
  \A p \in Reliable : (routed /\ p \notin reserved) ~> p \in reserved

=============================================================================
