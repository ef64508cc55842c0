-------------------------- MODULE ConnectionsProofs --------------------------
(***************************************************************************)
(* The bound on how far activeConnections is from the open connections,    *)
(* for every finite set of connections.                                    *)
(***************************************************************************)
EXTENDS Connections, FiniteSetTheorems, TLAPS

(* The number of connections the callbacks that ended should have left. *)
Expected == Cardinality(Open) - Cardinality(missed)

Made == {c \in Conns : state[c] \in {"open", "closed", "gone"}}

Gone == {c \in Conns : state[c] = "gone"}

Shape ==
  /\ notified \in BOOLEAN
  /\ state \in [Conns -> {"none", "open", "gone"} \cup Callbacks]
  /\ activeConnections \in Int
  /\ loaded \in [Conns -> Int \cup {Nil}]
  /\ \A c \in Conns : loaded[c] = Nil <=> c \notin Running
  /\ logged \in Int
  /\ missed \subseteq Conns
  /\ overlapped \subseteq Conns \X Callbacks

(* A value counts callbacks that have ended, and none twice. *)
Counts(n) == -Cardinality(Gone) <= n /\ n <= Cardinality(Made)

CountsInv ==
  /\ Counts(activeConnections)
  /\ Counts(logged)
  /\ \A c \in Running : Counts(loaded[c])

(* Before the callbacks are registered, the open connections are those     *)
(* that were missed.                                                       *)
MissedInv ==
  /\ missed \subseteq Made
  /\ ~notified => missed = Open /\ Running = {}

(* A callback is recorded once it runs; and all that run are, if two do. *)
OverlapInv ==
  /\ \A c \in Conns :
       /\ <<c, "established">> \in overlapped => state[c] # "none"
       /\ <<c, "closed">> \in overlapped => state[c] \in {"closed", "gone"}
  /\ \A c, d \in Running : c # d => <<c, state[c]>> \in overlapped

(* A running callback will store a value that is as close. *)
Near(n) == Abs(n - Expected) <= Cardinality(Ended)

DriftInv ==
  /\ Near(activeConnections)
  /\ \A c \in Running : Near(loaded[c])

IInv == Shape /\ CountsInv /\ MissedInv /\ OverlapInv /\ DriftInv

-----------------------------------------------------------------------------

(* The sets that are counted are finite. *)
LEMMA Finite ==
  ASSUME Shape
  PROVE  /\ IsFiniteSet(Open) /\ Cardinality(Open) \in Nat
         /\ IsFiniteSet(missed) /\ Cardinality(missed) \in Nat
         /\ IsFiniteSet(Made) /\ Cardinality(Made) \in Nat
         /\ IsFiniteSet(Gone) /\ Cardinality(Gone) \in Nat
         /\ IsFiniteSet(Ended) /\ Cardinality(Ended) \in Nat
<1>1. IsFiniteSet(Conns)
  BY ConnsAssumption
<1>2. IsFiniteSet(Callbacks)
  <2>1. IsFiniteSet({"established"})
    BY FS_Singleton
  <2>2. IsFiniteSet({"established"} \cup {"closed"})
    BY <2>1, FS_AddElement
  <2>3. Callbacks = {"established"} \cup {"closed"}
    BY DEF Callbacks
  <2> QED
    BY <2>2, <2>3
<1>3. IsFiniteSet(Conns \X Callbacks)
  BY <1>1, <1>2, FS_Product
<1>4. Ended \subseteq Conns \X Callbacks
  BY DEF Ended, Shape
<1>5. /\ Open \subseteq Conns
      /\ missed \subseteq Conns
      /\ Made \subseteq Conns
      /\ Gone \subseteq Conns
  BY DEF Open, Made, Gone, Shape
<1>6. /\ IsFiniteSet(Open)
      /\ IsFiniteSet(missed)
      /\ IsFiniteSet(Made)
      /\ IsFiniteSet(Gone)
      /\ IsFiniteSet(Ended)
  BY <1>1, <1>3, <1>4, <1>5, FS_Subset
<1> QED
  BY <1>6, FS_CardinalityType

(* A set that gains an element counts one more; that loses it, one less. *)
LEMMA OneMore ==
  ASSUME NEW S, NEW x, x \notin S, IsFiniteSet(S)
  PROVE  Cardinality(S \cup {x}) = Cardinality(S) + 1
BY FS_AddElement

LEMMA OneLess ==
  ASSUME NEW S, NEW x, x \in S, IsFiniteSet(S)
  PROVE  Cardinality(S \ {x}) = Cardinality(S) - 1
BY FS_RemoveElement

(* The bounds CountsInv gives are those of TypeOK. *)
LEMMA CountsInRange ==
  ASSUME Shape, NEW n \in Int, Counts(n)
  PROVE  n \in CountRange
<1>1. /\ Gone \subseteq Conns
      /\ Made \subseteq Conns
  BY DEF Gone, Made
<1>2. /\ Cardinality(Gone) <= Cardinality(Conns)
      /\ Cardinality(Made) <= Cardinality(Conns)
      /\ Cardinality(Conns) \in Nat
  BY <1>1, ConnsAssumption, FS_Subset, FS_CardinalityType
<1>3. /\ Cardinality(Gone) \in Nat
      /\ Cardinality(Made) \in Nat
  BY Finite
<1> QED
  BY <1>2, <1>3 DEF Counts, CountRange

LEMMA InitIInv == Init => IInv
<1> SUFFICES ASSUME Init PROVE IInv
  OBVIOUS
<1>1. /\ Open = {} /\ Made = {} /\ Gone = {} /\ Running = {} /\ Ended = {}
      /\ missed = {}
  BY DEF Init, Open, Made, Gone, Running, Callbacks, Ended
<1>2. Shape
  <2>1. /\ state \in [Conns -> {"none", "open", "gone"} \cup Callbacks]
        /\ loaded \in [Conns -> Int \cup {Nil}]
        /\ \A c \in Conns : loaded[c] = Nil
    BY DEF Init
  <2>2. /\ activeConnections \in Int
        /\ logged \in Int
    BY DEF Init
  <2>3. notified \in BOOLEAN
    BY DEF Init
  <2>4. overlapped \subseteq Conns \X Callbacks
    BY DEF Init
  <2> QED
    BY <1>1, <2>1, <2>2, <2>3, <2>4 DEF Shape
<1>3. Cardinality({}) = 0
  BY FS_EmptySet
<1>4. CountsInv
  BY <1>1, <1>3 DEF CountsInv, Counts, Init
<1>5. MissedInv
  BY <1>1 DEF MissedInv
<1>6. OverlapInv
  BY <1>1 DEF OverlapInv, Init
<1>7. DriftInv
  BY <1>1, <1>3 DEF DriftInv, Near, Expected, Abs, Init
<1> QED
  BY <1>2, <1>4, <1>5, <1>6, <1>7 DEF IInv

-----------------------------------------------------------------------------
(* Registering the callbacks, a log line and a stuttering step leave the   *)
(* connections and their callbacks alone.                                  *)
LEMMA QuietStep ==
  ASSUME IInv, Notify \/ Log \/ UNCHANGED vars
  PROVE  IInv'
<1> USE DEF IInv
<1>1. /\ UNCHANGED <<state, activeConnections, loaded, missed, overlapped>>
      /\ notified' \in BOOLEAN
      /\ notified => notified'
      /\ logged' \in {logged, activeConnections}
  BY DEF Notify, Log, vars, Shape
<1>2. /\ Open' = Open /\ Made' = Made /\ Gone' = Gone /\ Running' = Running
      /\ Ended' = Ended /\ missed' = missed
  BY <1>1 DEF Open, Made, Gone, Running, Ended
<1>3. Shape'
  BY <1>1, <1>2 DEF Shape
<1>4. CountsInv'
  BY <1>1, <1>2 DEF CountsInv, Counts
<1>5. MissedInv'
  BY <1>1, <1>2 DEF MissedInv
<1>6. OverlapInv'
  BY <1>1, <1>2 DEF OverlapInv
<1>7. DriftInv'
  BY <1>1, <1>2 DEF DriftInv, Near, Expected
<1> QED
  BY <1>3, <1>4, <1>5, <1>6, <1>7

(* The load that begins a callback: the callback has read a value that is  *)
(* near, and whatever it overlaps is recorded.                             *)
LEMMA LoadStep ==
  ASSUME IInv, NEW c \in Conns, NEW call \in Callbacks,
         state[c] = IF call = "established" THEN "none" ELSE "open",
         state' = [state EXCEPT ![c] = call],
         notified, Load(c), UNCHANGED missed
  PROVE  IInv'
<1> USE DEF IInv, Load
<1> DEFINE new == {<<d, state'[d]>> : d \in Running \cup {c}}
<1>1. /\ c \notin Running
      /\ state'[c] = call
      /\ \A d \in Conns : d # c => state'[d] = state[d]
      /\ state' \in [Conns -> {"none", "open", "gone"} \cup Callbacks]
  BY DEF Running, Callbacks, Shape
<1>2. Running' = Running \cup {c}
  BY <1>1 DEF Running
<1>3. Open' = Open /\ Gone' = Gone
  BY <1>1 DEF Open, Gone, Callbacks
<1>4. Made \subseteq Made' /\ Made' \subseteq Conns
  BY <1>1 DEF Made, Callbacks
<1>5. overlapped' \subseteq overlapped \cup new /\ overlapped \subseteq overlapped'
  OBVIOUS
<1>6. Running # {} => new \subseteq overlapped'
  OBVIOUS
<1>7. new \subseteq Conns \X Callbacks
  BY <1>1 DEF Running
<1>8. /\ loaded' = [loaded EXCEPT ![c] = activeConnections]
      /\ activeConnections' = activeConnections
      /\ logged' = logged
      /\ notified' = notified
      /\ missed' = missed
  OBVIOUS
<1>9. Shape'
  <2>1. overlapped' \subseteq Conns \X Callbacks
    BY <1>5, <1>7 DEF Shape
  <2>2. /\ loaded' \in [Conns -> Int \cup {Nil}]
        /\ \A d \in Conns : loaded'[d] = Nil <=> d \notin Running'
    BY <1>1, <1>2, <1>8, ConnsAssumption DEF Shape
  <2> QED
    BY <1>1, <1>8, <2>1, <2>2 DEF Shape
<1>10. Ended' = Ended
  <2>1. ASSUME NEW o \in overlapped PROVE state'[o[1]] # o[2] <=> state[o[1]] # o[2]
    <3>1. PICK d \in Conns, k \in Callbacks : o = <<d, k>>
      BY DEF Shape
    <3>2. o[1] = d /\ o[2] = k
      BY <3>1
    <3>3. d # c \/ k # call
      BY <3>1 DEF OverlapInv, Callbacks
    <3>4. CASE d # c
      BY <1>1, <3>2, <3>4
    <3>5. CASE d = c /\ k # call
      BY <1>1, <3>1, <3>2, <3>5 DEF OverlapInv, Callbacks
    <3> QED
      BY <3>3, <3>4, <3>5
  <2>2. ASSUME NEW o \in new PROVE state'[o[1]] = o[2]
    OBVIOUS
  <2> QED
    BY <1>5, <2>1, <2>2 DEF Ended
<1>11. Cardinality(Made) <= Cardinality(Made')
  BY <1>4, ConnsAssumption, FS_Subset
<1>12. CountsInv'
  <2>1. /\ Cardinality(Made) \in Nat
        /\ Cardinality(Made') \in Nat
    BY Finite, <1>4, ConnsAssumption, FS_Subset, FS_CardinalityType
  <2>2. ASSUME NEW n \in Int, Counts(n) PROVE -Cardinality(Gone') <= n /\ n <= Cardinality(Made')
    BY <1>3, <1>11, <2>1, <2>2 DEF Counts
  <2>3. \A d \in Running' : loaded'[d] \in Int /\ Counts(loaded'[d])
    <3>1. \A d \in Running : loaded[d] \in Int /\ Counts(loaded[d])
      BY DEF CountsInv, Shape, Running
    <3>2. \A d \in Running : loaded'[d] = loaded[d]
      BY <1>1, <1>8 DEF Shape, Running
    <3>3. loaded'[c] = activeConnections
      BY <1>8 DEF Shape
    <3> QED
      BY <1>2, <3>1, <3>2, <3>3 DEF CountsInv, Shape
  <2> QED
    BY <1>8, <2>2, <2>3 DEF CountsInv, Counts, Shape
<1>13. MissedInv'
  BY <1>4, <1>8 DEF MissedInv
<1>14. OverlapInv'
  <2>1. ASSUME NEW d \in Conns
        PROVE  /\ <<d, "established">> \in overlapped' => state'[d] # "none"
               /\ <<d, "closed">> \in overlapped' => state'[d] \in {"closed", "gone"}
    <3>1. CASE d = c
      BY <1>1, <1>5, <3>1 DEF OverlapInv, Callbacks, Running
    <3>2. CASE d # c
      BY <1>1, <1>5, <3>2 DEF OverlapInv, Callbacks, Running
    <3> QED
      BY <3>1, <3>2
  <2>2. ASSUME NEW d \in Running', NEW e \in Running', d # e
        PROVE  <<d, state'[d]>> \in overlapped'
    BY <1>1, <1>2, <1>6, <2>2
  <2> QED
    BY <2>1, <2>2 DEF OverlapInv
<1>15. DriftInv'
  <2>1. \A d \in Running' : Near(loaded'[d])
    BY <1>1, <1>2, <1>8 DEF DriftInv, Running, Shape
  <2> QED
    BY <1>3, <1>8, <1>10, <2>1 DEF DriftInv, Near, Expected
<1> QED
  BY <1>9, <1>12, <1>13, <1>14, <1>15

(* The store that ends a callback: the expected number changes by the one  *)
(* the store adds or takes away, and for the other running callbacks,      *)
(* which this one overlapped, the change is paid for by its being ended.   *)
LEMMA StoreStep ==
  ASSUME IInv, NEW c \in Running, NEW to \in {"open", "gone"},
         to = IF state[c] = "established" THEN "open" ELSE "gone",
         state' = [state EXCEPT ![c] = to],
         activeConnections' = IF to = "open" THEN loaded[c] + 1 ELSE loaded[c] - 1,
         loaded' = [loaded EXCEPT ![c] = Nil],
         UNCHANGED <<notified, logged, missed, overlapped>>
  PROVE  IInv'
<1> USE DEF IInv
<1> DEFINE one == IF to = "open" THEN 1 ELSE -1
<1>1. /\ c \in Conns
      /\ state[c] \in Callbacks
      /\ state'[c] = to
      /\ \A d \in Conns : d # c => state'[d] = state[d]
      /\ state' \in [Conns -> {"none", "open", "gone"} \cup Callbacks]
  BY DEF Running, Callbacks, Shape
<1>2. Running' = Running \ {c}
  BY <1>1 DEF Running, Callbacks
<1>3. loaded[c] \in Int /\ activeConnections' \in Int
  BY <1>1 DEF Shape
<1>4. /\ loaded'[c] = Nil
      /\ \A d \in Conns : d # c => loaded'[d] = loaded[d]
      /\ loaded' \in [Conns -> Int \cup {Nil}]
  BY <1>1 DEF Shape
<1>5. \A d \in Running' : loaded'[d] = loaded[d] /\ loaded[d] \in Int
  BY <1>1, <1>2, <1>4 DEF Shape, Running
<1>6. Shape'
  <2>1. \A d \in Conns : loaded'[d] = Nil <=> d \notin Running'
    BY <1>1, <1>2, <1>4 DEF Shape
  <2> QED
    BY <1>1, <1>3, <1>4, <2>1 DEF Shape
<1>7. /\ to = "open" => Open' = Open \cup {c} /\ c \notin Open
      /\ to = "gone" => Open' = Open \ {c} /\ c \in Open
  BY <1>1 DEF Open, Callbacks
<1>8. Made' = Made \cup {c} /\ (to = "open" => c \notin Made) /\ (to = "gone" => c \in Made)
  BY <1>1 DEF Made, Callbacks
<1>9. /\ to = "open" => Gone' = Gone
      /\ to = "gone" => Gone' = Gone \cup {c} /\ c \notin Gone
  BY <1>1 DEF Gone, Callbacks
<1>10. Expected' = Expected + one /\ Expected \in Int
  BY <1>7, Finite, OneMore, OneLess DEF Expected
<1>11. CountsInv'
  <2>1. /\ to = "open" => /\ Cardinality(Made') = Cardinality(Made) + 1
                          /\ Cardinality(Gone') = Cardinality(Gone)
        /\ to = "gone" => /\ Cardinality(Made') = Cardinality(Made)
                          /\ Cardinality(Gone') = Cardinality(Gone) + 1
        /\ Cardinality(Made) \in Nat /\ Cardinality(Gone) \in Nat
    <3>1. to = "gone" => Made' = Made
      BY <1>8
    <3> QED
      BY <1>8, <1>9, <3>1, Finite, OneMore
  <2>2. ASSUME NEW n \in Int, Counts(n)
        PROVE  -Cardinality(Gone') <= n /\ n <= Cardinality(Made')
    BY <2>1, <2>2 DEF Counts
  <2>3. Counts(loaded[c]) /\ Counts(logged) /\ logged \in Int
    BY DEF CountsInv, Shape
  <2>4. -Cardinality(Gone') <= activeConnections' /\ activeConnections' <= Cardinality(Made')
    BY <1>3, <2>1, <2>3 DEF Counts
  <2>5. \A d \in Running' : Counts(loaded[d])
    BY <1>2 DEF CountsInv
  <2> QED
    BY <1>5, <2>2, <2>3, <2>4, <2>5 DEF CountsInv, Counts
<1>12. MissedInv'
  BY <1>1, <1>8 DEF MissedInv
<1>13. OverlapInv'
  <2>1. ASSUME NEW d \in Conns
        PROVE  /\ <<d, "established">> \in overlapped' => state'[d] # "none"
               /\ <<d, "closed">> \in overlapped' => state'[d] \in {"closed", "gone"}
    <3>1. CASE d = c
      BY <1>1, <3>1 DEF OverlapInv, Callbacks
    <3>2. CASE d # c
      BY <1>1, <3>2 DEF OverlapInv
    <3> QED
      BY <3>1, <3>2
  <2>2. ASSUME NEW d \in Running', NEW e \in Running', d # e
        PROVE  <<d, state'[d]>> \in overlapped'
    BY <1>1, <1>2, <2>2 DEF OverlapInv, Running
  <2> QED
    BY <2>1, <2>2 DEF OverlapInv
<1>14. /\ Ended \subseteq Ended'
       /\ Ended' \subseteq Ended \cup {<<c, state[c]>>}
       /\ Running' # {} => Ended' = Ended \cup {<<c, state[c]>>} /\ <<c, state[c]>> \notin Ended
  <2>1. ASSUME NEW o \in overlapped PROVE state'[o[1]] # o[2] <=> state[o[1]] # o[2] \/ o = <<c, state[c]>>
    <3>1. PICK d \in Conns, k \in Callbacks : o = <<d, k>>
      BY DEF Shape
    <3>2. o[1] = d /\ o[2] = k
      BY <3>1
    <3>3. CASE d # c
      BY <1>1, <3>1, <3>2, <3>3
    <3>4. CASE d = c
      BY <1>1, <3>1, <3>2, <3>4 DEF Callbacks
    <3> QED
      BY <3>3, <3>4
  <2>2. Running' # {} => <<c, state[c]>> \in overlapped
    BY <1>2 DEF OverlapInv
  <2> QED
    BY <2>1, <2>2 DEF Ended
<1>15. DriftInv'
  <2>1. /\ Cardinality(Ended) \in Nat
        /\ Cardinality(Ended') \in Nat
        /\ Cardinality(Ended) <= Cardinality(Ended')
    <3>1. IsFiniteSet(Ended \cup {<<c, state[c]>>})
      BY Finite, FS_AddElement
    <3>2. IsFiniteSet(Ended')
      BY <1>14, <3>1, FS_Subset
    <3> QED
      BY <1>14, <3>2, Finite, FS_Subset, FS_CardinalityType
  <2>2. Near(loaded[c])
    BY DEF DriftInv
  <2>3. Near(activeConnections)'
    <3>1. activeConnections' = loaded[c] + one
      OBVIOUS
    <3>2. activeConnections' - Expected' = loaded[c] - Expected
      BY <1>3, <1>10, <3>1
    <3> QED
      BY <2>1, <2>2, <3>2, <1>3, <1>10 DEF Near, Abs
  <2>4. ASSUME NEW d \in Running' PROVE Near(loaded[d])'
    <3>1. Near(loaded[d])
      BY <1>2 DEF DriftInv
    <3>2. Cardinality(Ended') = Cardinality(Ended) + 1
      BY <1>14, Finite, OneMore
    <3> QED
      BY <1>5, <1>10, <2>1, <3>1, <3>2 DEF Near, Abs
  <2> QED
    BY <1>5, <2>3, <2>4 DEF DriftInv
<1> QED
  BY <1>6, <1>11, <1>12, <1>13, <1>15

-----------------------------------------------------------------------------
(* Connections made or closed before the callbacks are registered. *)

LEMMA EstablishStep ==
  ASSUME IInv, NEW c \in Conns, Establish(c)
  PROVE  IInv'
<1> USE DEF IInv
<1>1. CASE notified
  <2>1. /\ state[c] = "none"
        /\ state' = [state EXCEPT ![c] = "established"]
        /\ Load(c)
        /\ UNCHANGED missed
    BY <1>1 DEF Establish
  <2>2. "established" \in Callbacks
    BY DEF Callbacks
  <2> QED
    BY <1>1, <2>1, <2>2, LoadStep
<1>2. CASE ~notified
  <2> USE DEF Establish
  <2>1. /\ state[c] = "none"
        /\ state' = [state EXCEPT ![c] = "open"]
        /\ missed' = missed \cup {c}
        /\ UNCHANGED <<notified, activeConnections, loaded, logged, overlapped>>
    BY <1>2
  <2>2. /\ state'[c] = "open"
        /\ \A d \in Conns : d # c => state'[d] = state[d]
        /\ state' \in [Conns -> {"none", "open", "gone"} \cup Callbacks]
    BY <2>1 DEF Shape
  <2>3. Running = {} /\ Running' = {} /\ missed = Open
    BY <1>2, <2>1, <2>2 DEF MissedInv, Running, Callbacks
  <2>4. Open' = Open \cup {c} /\ c \notin Open
    BY <2>1, <2>2 DEF Open
  <2>5. Made' = Made \cup {c} /\ Gone' = Gone /\ c \notin Made
    BY <2>1, <2>2 DEF Made, Gone
  <2>6. Ended' = Ended
    <3>1. ASSUME NEW o \in overlapped PROVE o[1] # c /\ o[1] \in Conns
      <4>1. PICK d \in Conns, k \in Callbacks : o = <<d, k>>
        BY DEF Shape
      <4> QED
        BY <2>1, <4>1 DEF OverlapInv, Callbacks
    <3> QED
      BY <2>1, <2>2, <3>1 DEF Ended
  <2>7. Shape'
    BY <2>1, <2>2, <2>3 DEF Shape
  <2>8. CountsInv'
    <3>1. /\ Cardinality(Made') = Cardinality(Made) + 1
          /\ Cardinality(Gone') = Cardinality(Gone)
          /\ Cardinality(Made) \in Nat /\ Cardinality(Gone) \in Nat
      BY <2>5, Finite, OneMore
    <3>2. activeConnections \in Int /\ logged \in Int
      BY DEF Shape
    <3> QED
      BY <2>1, <2>3, <3>1, <3>2 DEF CountsInv, Counts
  <2>9. MissedInv'
    BY <2>1, <2>3, <2>4, <2>5 DEF MissedInv
  <2>10. OverlapInv'
    BY <2>1, <2>2, <2>3 DEF OverlapInv
  <2>11. DriftInv'
    <3>1. Expected' = Expected
      BY <2>1, <2>3, <2>4, Finite, OneMore DEF Expected
    <3> QED
      BY <2>1, <2>3, <2>6, <3>1 DEF DriftInv, Near
  <2> QED
    BY <2>7, <2>8, <2>9, <2>10, <2>11
<1> QED
  BY <1>1, <1>2

LEMMA CloseStep ==
  ASSUME IInv, NEW c \in Conns, Close(c)
  PROVE  IInv'
<1> USE DEF IInv
<1>1. CASE notified
  <2>1. /\ state[c] = "open"
        /\ state' = [state EXCEPT ![c] = "closed"]
        /\ Load(c)
        /\ UNCHANGED missed
    BY <1>1 DEF Close
  <2>2. "closed" \in Callbacks
    BY DEF Callbacks
  <2> QED
    BY <1>1, <2>1, <2>2, LoadStep
<1>2. CASE ~notified
  <2> USE DEF Close
  <2>1. /\ state[c] = "open"
        /\ state' = [state EXCEPT ![c] = "gone"]
        /\ missed' = missed \ {c}
        /\ UNCHANGED <<notified, activeConnections, loaded, logged, overlapped>>
    BY <1>2
  <2>2. /\ state'[c] = "gone"
        /\ \A d \in Conns : d # c => state'[d] = state[d]
        /\ state' \in [Conns -> {"none", "open", "gone"} \cup Callbacks]
    BY <2>1 DEF Shape
  <2>3. Running = {} /\ Running' = {} /\ missed = Open
    BY <1>2, <2>1, <2>2 DEF MissedInv, Running, Callbacks
  <2>4. Open' = Open \ {c} /\ c \in Open
    BY <2>1, <2>2 DEF Open
  <2>5. Made' = Made /\ Gone' = Gone \cup {c} /\ c \notin Gone
    BY <2>1, <2>2 DEF Made, Gone
  <2>6. Ended' = Ended
    <3>1. ASSUME NEW o \in overlapped PROVE state'[o[1]] # o[2] <=> state[o[1]] # o[2]
      <4>1. PICK d \in Conns, k \in Callbacks : o = <<d, k>>
        BY DEF Shape
      <4>2. o[1] = d /\ o[2] = k
        BY <4>1
      <4> QED
        BY <2>1, <2>2, <4>2 DEF Callbacks
    <3> QED
      BY <2>1, <3>1 DEF Ended
  <2>7. Shape'
    BY <2>1, <2>2, <2>3 DEF Shape
  <2>8. CountsInv'
    <3>1. /\ Cardinality(Made') = Cardinality(Made)
          /\ Cardinality(Gone') = Cardinality(Gone) + 1
          /\ Cardinality(Made) \in Nat /\ Cardinality(Gone) \in Nat
      BY <2>5, Finite, OneMore
    <3>2. activeConnections \in Int /\ logged \in Int
      BY DEF Shape
    <3> QED
      BY <2>1, <2>3, <3>1, <3>2 DEF CountsInv, Counts
  <2>9. MissedInv'
    BY <2>1, <2>3, <2>4, <2>5 DEF MissedInv
  <2>10. OverlapInv'
    BY <2>1, <2>2, <2>3 DEF OverlapInv
  <2>11. DriftInv'
    <3>1. Expected' = Expected
      BY <2>1, <2>3, <2>4, Finite, OneLess DEF Expected
    <3> QED
      BY <2>1, <2>3, <2>6, <3>1 DEF DriftInv, Near
  <2> QED
    BY <2>7, <2>8, <2>9, <2>10, <2>11
<1> QED
  BY <1>1, <1>2

LEMMA NextIInv == IInv /\ [Next]_vars => IInv'
<1> SUFFICES ASSUME IInv, [Next]_vars PROVE IInv'
  OBVIOUS
<1>1. CASE Notify \/ Log \/ UNCHANGED vars
  BY <1>1, QuietStep
<1>2. ASSUME NEW c \in Conns, Establish(c) PROVE IInv'
  BY <1>2, EstablishStep
<1>3. ASSUME NEW c \in Conns, Close(c) PROVE IInv'
  BY <1>3, CloseStep
<1>4. ASSUME NEW c \in Conns, handleConnectionEstablished(c) PROVE IInv'
  <2>1. c \in Running /\ "open" \in {"open", "gone"}
    BY <1>4 DEF handleConnectionEstablished, Running, Callbacks
  <2> QED
    BY <1>4, <2>1, StoreStep DEF handleConnectionEstablished
<1>5. ASSUME NEW c \in Conns, handleConnectionClosed(c) PROVE IInv'
  <2>1. c \in Running /\ "gone" \in {"open", "gone"}
    BY <1>5 DEF handleConnectionClosed, Running, Callbacks
  <2> QED
    BY <1>5, <2>1, StoreStep DEF handleConnectionClosed
<1> QED
  BY <1>1, <1>2, <1>3, <1>4, <1>5 DEF Next

-----------------------------------------------------------------------------

THEOREM Invariance == Spec => []IInv
<1> QED
  BY InitIInv, NextIInv, PTL DEF Spec

(* The variables keep their types; in particular neither the count nor a   *)
(* value on its way to it ever leaves the range that the number of         *)
(* connections sets (relayer.go:28-34).                                    *)
THEOREM TypeCorrect == Spec => []TypeOK
<1>1. IInv => TypeOK
  <2> SUFFICES ASSUME IInv PROVE TypeOK
    OBVIOUS
  <2> USE DEF IInv
  <2>1. activeConnections \in CountRange /\ logged \in CountRange
    BY CountsInRange DEF CountsInv, Shape
  <2>2. loaded \in [Conns -> CountRange \cup {Nil}]
    <3>1. ASSUME NEW c \in Conns PROVE loaded[c] \in CountRange \cup {Nil}
      BY CountsInRange DEF CountsInv, Shape
    <3> QED
      BY <3>1 DEF Shape
  <2> QED
    BY <2>1, <2>2 DEF TypeOK, Shape
<1> QED
  BY <1>1, Invariance, PTL

(* However many connections come and go, the count is away from the open   *)
(* ones by at most the callbacks that overlapped another and have ended,   *)
(* once the connections made before Notify are left out (relayer.go:28-34, *)
(* 145-148).  In particular it is exact if no two callbacks ever overlap.  *)
THEOREM DriftBounded == Spec => []DriftExplained
<1>1. IInv => DriftExplained
  <2> SUFFICES ASSUME IInv PROVE DriftExplained
    OBVIOUS
  <2>1. /\ Cardinality(Open) \in Nat
        /\ Cardinality(missed) \in Nat
    BY Finite DEF IInv
  <2> QED
    BY <2>1 DEF IInv, DriftInv, Near, Expected, DriftExplained, Drift
<1> QED
  BY <1>1, Invariance, PTL

(* The number in the log of a round is as close to the connections that    *)
(* are up as the count is, and exact if no two callbacks ever overlapped   *)
(* (relayer.go:145-148, discovery.go:69).                                  *)
THEOREM LogBounded == Spec => LogWithinDrift
<1>1. IInv /\ [Next]_vars
        => [Log => Abs(logged' - (Cardinality(Open) - Cardinality(missed)))
                     <= Cardinality(Ended)]_vars
  <2> SUFFICES ASSUME IInv, Log
               PROVE  Abs(logged' - (Cardinality(Open) - Cardinality(missed)))
                        <= Cardinality(Ended)
    OBVIOUS
  <2>1. DriftExplained
    <3>1. /\ Cardinality(Open) \in Nat
          /\ Cardinality(missed) \in Nat
      BY Finite DEF IInv
    <3> QED
      BY <3>1 DEF IInv, DriftInv, Near, Expected, DriftExplained, Drift
  <2> QED
    BY <2>1 DEF Log, DriftExplained, Drift
<1> QED
  BY <1>1, Invariance, PTL DEF Spec, LogWithinDrift

=============================================================================
