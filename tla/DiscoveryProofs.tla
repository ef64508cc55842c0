--------------------------- MODULE DiscoveryProofs ---------------------------
(***************************************************************************)
(* The search for relayers, for all sets of peers and every number of      *)
(* retries: its types, and that its rounds run down.                       *)
(***************************************************************************)
EXTENDS Discovery, TLAPS

LEMMA InitTypeOK == Init => TypeOK
<1> SUFFICES ASSUME Init PROVE TypeOK
  OBVIOUS
<1> USE PeersAssumption DEF Init
<1>1. /\ dialing \subseteq Bootstrap
      /\ connected \subseteq Peers \ Undialable
      /\ reserved \subseteq connected
  OBVIOUS
<1>2. routed \in BOOLEAN
  OBVIOUS
<1>3. tick \in BOOLEAN
  OBVIOUS
<1>4. /\ pc \in [Loops -> {"unborn", "wait", "find", "range", "check", "connect",
                            "reserve", "done"}]
      /\ todo \in [Loops -> SUBSET Peers]
      /\ at \in [Loops -> (Peers \ Undialable) \cup {Nil}]
      /\ attempt \in [Loops -> 0..MaxRetries]
  OBVIOUS
<1>5. \A l \in Loops : at[l] = Nil /\ attempt[l] = 0 /\ pc[l] = "unborn"
  OBVIOUS
<1> QED
  BY <1>1, <1>2, <1>3, <1>4, <1>5 DEF TypeOK

(* What Fail and Leave do to the variables of a loop. *)
LEMMA LeaveType ==
  ASSUME TypeOK, NEW l \in Loops, pc[l] # "unborn", Leave(l)
  PROVE  /\ pc' \in [Loops -> {"unborn", "wait", "find", "range", "check", "connect",
                               "reserve", "done"}]
         /\ \A j, k \in Loops : pc'[j] = "unborn" <=> pc'[k] = "unborn"
         /\ at' \in [Loops -> (Peers \ Undialable) \cup {Nil}]
         /\ attempt' \in [Loops -> 0..MaxRetries]
         /\ \A k \in Loops : at'[k] # Nil <=> pc'[k] \in {"check", "connect", "reserve"}
         /\ \A k \in Loops : at'[k] = Nil => attempt'[k] = 0
BY PeersAssumption DEF TypeOK, Leave

LEMMA FailType ==
  ASSUME TypeOK, NEW l \in Loops, pc[l] \in {"connect", "reserve"}, Fail(l)
  PROVE  /\ pc' \in [Loops -> {"unborn", "wait", "find", "range", "check", "connect",
                               "reserve", "done"}]
         /\ \A j, k \in Loops : pc'[j] = "unborn" <=> pc'[k] = "unborn"
         /\ at' \in [Loops -> (Peers \ Undialable) \cup {Nil}]
         /\ attempt' \in [Loops -> 0..MaxRetries]
         /\ \A k \in Loops : at'[k] # Nil <=> pc'[k] \in {"check", "connect", "reserve"}
         /\ \A k \in Loops : at'[k] = Nil => attempt'[k] = 0
<1>1. CASE Leave(l)
  BY <1>1, LeaveType
<1>2. CASE /\ attempt[l] < MaxRetries
           /\ pc' = [pc EXCEPT ![l] = "check"]
           /\ attempt' = [attempt EXCEPT ![l] = @ + 1]
           /\ UNCHANGED at
  BY <1>2, PeersAssumption DEF TypeOK
<1> QED
  BY <1>1, <1>2 DEF Fail

LEMMA RoundTypeOK ==
  ASSUME TypeOK, NEW l \in Loops, Round(l)
  PROVE  TypeOK'
<1> USE PeersAssumption
<1>1. CASE FindPeers(l)
  BY <1>1 DEF TypeOK, FindPeers, envVars
<1>2. CASE FindPeersFails(l)
  BY <1>2 DEF TypeOK, FindPeersFails, Rest, envVars
<1>3. CASE NextPeer(l)
  BY <1>3 DEF TypeOK, NextPeer, envVars
<1>4. CASE EndRound(l)
  BY <1>4 DEF TypeOK, EndRound, Rest, envVars
<1>5. CASE Check(l)
  BY <1>5 DEF TypeOK, Check, envVars
<1>6. CASE Connect(l)
  BY <1>6 DEF TypeOK, Connect, envVars
<1>7. CASE ConnectFails(l)
  <2>1. Fail(l) /\ pc[l] \in {"connect", "reserve"}
    BY <1>7 DEF ConnectFails
  <2> QED
    BY <1>7, <2>1, FailType DEF TypeOK, ConnectFails, envVars
<1>8. CASE Reserve(l)
  <2>1. Leave(l) /\ pc[l] # "unborn" /\ at[l] \in Peers \ Undialable
    BY <1>8 DEF Reserve, TypeOK
  <2> QED
    BY <1>8, <2>1, LeaveType DEF TypeOK, Reserve, envVars
<1>9. CASE ReserveFails(l)
  <2>1. Fail(l) /\ pc[l] \in {"connect", "reserve"}
    BY <1>9 DEF ReserveFails
  <2> QED
    BY <1>9, <2>1, FailType DEF TypeOK, ReserveFails, envVars
<1> QED
  BY <1>1, <1>2, <1>3, <1>4, <1>5, <1>6, <1>7, <1>8, <1>9 DEF Round

LEMMA NextTypeOK == TypeOK /\ [Next]_vars => TypeOK'
<1> SUFFICES ASSUME TypeOK, [Next]_vars PROVE TypeOK'
  OBVIOUS
<1> USE PeersAssumption
<1>1. ASSUME NEW b \in Bootstrap, DialBootstrap(b) PROVE TypeOK'
  BY <1>1 DEF TypeOK, DialBootstrap, loopVars
<1>2. CASE StartLoops
  <2>1. /\ pc' \in [Loops -> {"unborn", "wait", "find", "range", "check", "connect",
                               "reserve", "done"}]
        /\ \A l \in Loops : pc'[l] \in {"find", "wait"}
    BY <1>2 DEF StartLoops, Loops
  <2>2. "initial" \in Loops /\ "interval" \in Loops
    BY DEF Loops
  <2>3. \A l \in Loops : at[l] = Nil
    BY <1>2, <2>2 DEF StartLoops, TypeOK, Loops
  <2> QED
    BY <1>2, <2>1, <2>3 DEF TypeOK, StartLoops
<1>3. CASE Tick
  <2>1. tick' \in BOOLEAN
    BY <1>3 DEF Tick
  <2> QED
    BY <1>3, <2>1 DEF TypeOK, Tick, loopVars
<1>4. CASE TakeTick
  <2>1. /\ "interval" \in Loops
        /\ pc["interval"] = "wait"
        /\ pc' = [pc EXCEPT !["interval"] = "find"]
    BY <1>4 DEF TakeTick, Loops
  <2>2. tick' \in BOOLEAN
    BY <1>4 DEF TakeTick
  <2> QED
    BY <1>4, <2>1, <2>2 DEF TypeOK, TakeTick
<1>5. ASSUME NEW l \in Loops, Round(l) PROVE TypeOK'
  BY <1>5, RoundTypeOK
<1>6. ASSUME NEW p \in Peers, SlotExpires(p) \/ Disconnect(p) PROVE TypeOK'
  BY <1>6 DEF TypeOK, SlotExpires, Disconnect, envVars, loopVars
<1>7. CASE HeardOf
  BY <1>7 DEF TypeOK, HeardOf, loopVars
<1>8. CASE UNCHANGED vars
  BY <1>8 DEF TypeOK, vars, loopVars
<1> QED
  BY <1>1, <1>2, <1>3, <1>4, <1>5, <1>6, <1>7, <1>8 DEF Next

(* A loop works on a peer exactly from the check to the reservation; never *)
(* on the host itself or on a peer without an address; with the tries of   *)
(* each peer counted from zero and bounded (discovery.go:41-62).           *)
THEOREM TypeCorrect == Spec => []TypeOK
<1> QED
  BY InitTypeOK, NextTypeOK, PTL DEF Spec

-----------------------------------------------------------------------------
(* Rounds run down. *)

(* What a step may do to a loop in a round: the body of RoundsRunDown. *)
RunsDown(l) ==
  /\ pc[l] = "range" =>
       \/ StillIn(l)
       \/ pc'[l] = Rest(l) /\ todo[l] = {}
       \/ \E p \in todo[l] :
            todo'[l] = todo[l] \ {p} /\ pc'[l] \in {"range", "check"} /\ attempt'[l] = 0
  /\ pc[l] \in {"check", "connect", "reserve"} =>
       \/ StillIn(l)
       \/ todo'[l] = todo[l] /\ pc'[l] = "range"
       \/ /\ todo'[l] = todo[l]
          /\ at'[l] = at[l]
          /\ WorkLeft(l)' \in 1..(WorkLeft(l) - 1)

(* Everybody else leaves a loop alone, in a round and out of one. *)
LEMMA OthersKeepOut ==
  ASSUME TypeOK, NEW l \in Loops, NEW k \in Loops \ {l}, Round(k)
  PROVE  StillIn(l)
  BY DEF TypeOK, StillIn, Round, FindPeers, FindPeersFails, NextPeer, EndRound, Check,
         Connect, ConnectFails, Reserve, ReserveFails, Fail, Leave

(* A failed try costs more than the steps of a new one. *)
LEMMA FailRunsDown ==
  ASSUME TypeOK, NEW l \in Loops, pc[l] \in {"connect", "reserve"}, Fail(l), todo' = todo
  PROVE  RunsDown(l)
<1>1. CASE Leave(l)
  BY <1>1 DEF TypeOK, Leave, RunsDown
<1>2. CASE /\ attempt[l] < MaxRetries
           /\ pc' = [pc EXCEPT ![l] = "check"]
           /\ attempt' = [attempt EXCEPT ![l] = @ + 1]
           /\ UNCHANGED at
  <2>1. /\ pc'[l] = "check" /\ attempt'[l] = attempt[l] + 1 /\ at'[l] = at[l]
        /\ attempt[l] \in 0..MaxRetries /\ MaxRetries \in Nat
    BY <1>2, PeersAssumption DEF TypeOK
  <2>2. WorkLeft(l)' = 3 * (MaxRetries - (attempt[l] + 1)) + 3
    BY <2>1 DEF WorkLeft
  <2>3. WorkLeft(l) \in {3 * (MaxRetries - attempt[l]) + 2, 3 * (MaxRetries - attempt[l]) + 1}
    BY DEF WorkLeft
  <2>4. WorkLeft(l)' \in 1..(WorkLeft(l) - 1)
    BY <1>2, <2>1, <2>2, <2>3
  <2> QED
    BY <2>1, <2>4 DEF RunsDown
<1> QED
  BY <1>1, <1>2 DEF Fail

LEMMA RoundRunsDown ==
  ASSUME TypeOK, NEW l \in Loops, Round(l)
  PROVE  RunsDown(l)
<1>0. /\ attempt[l] \in 0..MaxRetries /\ MaxRetries \in Nat
      /\ pc[l] = "range" => attempt[l] = 0
  BY PeersAssumption DEF TypeOK
<1>1. CASE FindPeers(l) \/ FindPeersFails(l)
  BY <1>1 DEF FindPeers, FindPeersFails, RunsDown
<1>2. CASE NextPeer(l)
  <2>1. pc[l] = "range" /\ attempt' = attempt
    BY <1>2 DEF NextPeer
  <2>2. PICK p \in todo[l] :
          /\ todo' = [todo EXCEPT ![l] = @ \ {p}]
          /\ pc' = pc \/ pc' = [pc EXCEPT ![l] = "check"]
    BY <1>2 DEF NextPeer
  <2>3. todo'[l] = todo[l] \ {p} /\ pc'[l] \in {"range", "check"}
    BY <2>1, <2>2 DEF TypeOK
  <2> QED
    BY <1>0, <2>1, <2>3 DEF RunsDown
<1>3. CASE EndRound(l)
  BY <1>3 DEF EndRound, TypeOK, RunsDown
<1>4. CASE Check(l)
  <2>1. /\ pc[l] = "check" /\ pc'[l] \in {"connect", "reserve"}
        /\ todo' = todo /\ at' = at /\ attempt' = attempt
    BY <1>4 DEF Check, TypeOK
  <2>2. WorkLeft(l)' \in 1..(WorkLeft(l) - 1)
    BY <1>0, <2>1 DEF WorkLeft
  <2> QED
    BY <2>1, <2>2 DEF RunsDown
<1>5. CASE Connect(l)
  <2>1. /\ pc[l] = "connect" /\ pc'[l] = "reserve"
        /\ todo' = todo /\ at' = at /\ attempt' = attempt
    BY <1>5 DEF Connect, TypeOK
  <2>2. WorkLeft(l)' \in 1..(WorkLeft(l) - 1)
    BY <1>0, <2>1 DEF WorkLeft
  <2> QED
    BY <2>1, <2>2 DEF RunsDown
<1>6. CASE ConnectFails(l)
  BY <1>6, FailRunsDown DEF ConnectFails
<1>7. CASE Reserve(l)
  BY <1>7 DEF Reserve, Leave, TypeOK, RunsDown
<1>8. CASE ReserveFails(l)
  BY <1>8, FailRunsDown DEF ReserveFails
<1> QED
  BY <1>1, <1>2, <1>3, <1>4, <1>5, <1>6, <1>7, <1>8 DEF Round

(* A round of ConnectToPeers is finite, for any number of peers found and  *)
(* of retries: it takes each peer at most once, works on it for at most    *)
(* 3 * (MaxRetries + 1) steps, and ends behind the last one, although the  *)
(* other goroutine and the remote peers change connections and slots under *)
(* it (discovery.go:32-70).                                                *)
THEOREM RunDown == Spec => RoundsRunDown
<1>1. TypeOK /\ [Next]_vars => [\A l \in Loops : RunsDown(l)]_vars
  <2> SUFFICES ASSUME TypeOK, Next, NEW l \in Loops
               PROVE  RunsDown(l)
    OBVIOUS
  <2>1. ASSUME NEW k \in Loops, Round(k)
        PROVE  RunsDown(l)
    <3>1. CASE k = l
      BY <2>1, <3>1, RoundRunsDown
    <3>2. CASE k # l
      BY <2>1, <3>2, OthersKeepOut DEF RunsDown
    <3> QED
      BY <3>1, <3>2
  <2>2. CASE UNCHANGED loopVars
    BY <2>2 DEF loopVars, StillIn, RunsDown
  <2>3. CASE StartLoops
    <3>1. pc[l] = "unborn"
      BY <2>3 DEF StartLoops, Loops, TypeOK
    <3> QED
      BY <3>1 DEF RunsDown
  <2>4. CASE TakeTick
    <3>1. pc'[l] = pc[l] \/ pc[l] = "wait"
      BY <2>4 DEF TakeTick, TypeOK
    <3> QED
      BY <2>4, <3>1 DEF TakeTick, StillIn, RunsDown
  <2>5. UNCHANGED loopVars \/ StartLoops \/ TakeTick \/ \E k \in Loops : Round(k)
    BY DEF Next, DialBootstrap, Tick, SlotExpires, Disconnect, HeardOf
  <2> QED
    BY <2>1, <2>2, <2>3, <2>4, <2>5
<1>2. Spec => [][\A l \in Loops : RunsDown(l)]_vars
  BY <1>1, TypeCorrect, PTL DEF Spec
<1> QED
  BY <1>2 DEF RunsDown, RoundsRunDown

=============================================================================
