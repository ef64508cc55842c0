---------------------------- MODULE StartupProofs ----------------------------
(***************************************************************************)
(* Every goroutine finds the objects it uses, by the order of main: which  *)
(* objects are set, and which goroutines run, follows from the step main   *)
(* has reached.                                                            *)
(***************************************************************************)
EXTENDS Startup, TLAPS

(* What main has set and started at a step. *)
Progress ==
  /\ step > 5 => KeyFound
  /\ step <= 5 => pk = "nil"
  /\ "RelayerHost" \in objects => step > 6
  /\ step > 1 => "SettingsObj" \in objects
  /\ step > 2 => "ReportingInstance" \in objects
  /\ step > 4 => "RedisClient" \in objects
  /\ step > 6 => "RelayerHost" \in objects
  /\ "StartListening" \in goroutines => step > 2
  /\ "ConnectToPeers" \in goroutines => step > 8
  /\ "DiscoverAtInterval" \in goroutines => step > 8
  /\ "StartCollectorServer" \in goroutines => step > 9
  /\ "handleStream" \in goroutines => step > 9

IInv == TypeOK /\ Progress

LEMMA OrderIs ==
  /\ Len(Order) = 10
  /\ Order[1] = "LoadConfig" /\ Order[2] = "InitializeReportingService"
  /\ Order[3] = "ConfigureClient" /\ Order[4] = "NewRedisClient"
  /\ Order[5] = "privateKey" /\ Order[6] = "newHost"
  /\ Order[7] = "ConfigureDHT" /\ Order[8] = "discover"
  /\ Order[9] = "collect" /\ Order[10] = "Wait"
BY DEF Order

(* A step of main is at its own index. *)
LEMMA AtIndex ==
  ASSUME TypeOK
  PROVE  /\ At("LoadConfig") => step = 1
         /\ At("InitializeReportingService") => step = 2
         /\ At("ConfigureClient") => step = 3
         /\ At("NewRedisClient") => step = 4
         /\ At("privateKey") => step = 5
         /\ At("newHost") => step = 6
         /\ At("ConfigureDHT") => step = 7
         /\ At("discover") => step = 8
         /\ At("collect") => step = 9
<1>1. step \in {1, 2, 3, 4, 5, 6, 7, 8, 9, 10}
  BY OrderIs DEF TypeOK
<1> QED
  BY <1>1, OrderIs DEF At

LEMMA InitIInv == Init => IInv
<1> SUFFICES ASSUME Init PROVE IInv
  OBVIOUS
<1>1. env \subseteq Names /\ objects = {} /\ goroutines = {} /\ step = 1
  BY DEF Init
<1>2. wellFormed \in BOOLEAN /\ keyValid \in BOOLEAN
  BY DEF Init
<1>3. /\ status \in {"running", "exited", "panicked"}
      /\ pk = "nil" /\ keyFile \in {"none", "earlier"}
  BY DEF Init
<1> QED
  BY <1>1, <1>2, <1>3, OrderIs DEF IInv, TypeOK, Progress

LEMMA EndStep ==
  ASSUME IInv, NEW how \in {"exited", "panicked"}, NEW file \in {keyFile, "none"},
         EndWithFile(how, file)
  PROVE  IInv'
<1>1. /\ UNCHANGED <<env, wellFormed, keyValid>>
      /\ status' = how /\ step' = 1 /\ objects' = {} /\ goroutines' = {}
      /\ pk' = "nil" /\ keyFile' = IF file = "own" THEN "earlier" ELSE file
  BY DEF EndWithFile, deployment
<1>2. keyFile' \in {"none", "earlier", "own"}
  BY <1>1 DEF IInv, TypeOK
<1>3. TypeOK'
  BY <1>1, <1>2, OrderIs DEF IInv, TypeOK
<1> QED
  BY <1>1, <1>3 DEF IInv, Progress

(* A step of main keeps the invariant if it sets and starts what Progress  *)
(* says of the step after it.                                              *)
LEMMA ProceedStep ==
  ASSUME IInv, NEW os \in SUBSET Objects, NEW gs \in SUBSET Goroutines,
         NEW key \in {"nil", "configured", "generated"},
         NEW file \in {"none", "earlier", "own"},
         ProceedWithKey(os, gs, key, file), step < 10,
         step # 5 => key = pk /\ file = keyFile,
         step = 5 => KeyFound',
         step = 1 => "SettingsObj" \in os /\ Required \subseteq env,
         step = 2 => "ReportingInstance" \in os,
         step = 4 => "RedisClient" \in os,
         step = 6 => "RelayerHost" \in os,
         "RelayerHost" \in os => step = 6,
         "SettingsObj" \in os => step = 1,
         "StartListening" \in gs => step = 2,
         "ConnectToPeers" \in gs => step = 8,
         "DiscoverAtInterval" \in gs => step = 8,
         "StartCollectorServer" \in gs => step = 9,
         "handleStream" \notin gs
  PROVE  IInv'
<1>1. /\ step' = step + 1
      /\ objects' = objects \cup os
      /\ goroutines' = goroutines \cup gs
      /\ pk' = key /\ keyFile' = file
      /\ UNCHANGED <<env, wellFormed, keyValid, status>>
  BY DEF ProceedWithKey, deployment
<1>2. step \in Nat /\ step >= 1
  BY OrderIs DEF IInv, TypeOK
<1>3. TypeOK'
  BY <1>1, <1>2, OrderIs DEF IInv, TypeOK
<1>4. Progress'
  <2>1. /\ step' > 1 => "SettingsObj" \in objects'
        /\ step' > 2 => "ReportingInstance" \in objects'
        /\ step' > 4 => "RedisClient" \in objects'
        /\ step' > 6 => "RelayerHost" \in objects'
    BY <1>1, <1>2 DEF IInv, Progress
  <2>2. /\ "StartListening" \in goroutines' => step' > 2
        /\ "ConnectToPeers" \in goroutines' => step' > 8
        /\ "DiscoverAtInterval" \in goroutines' => step' > 8
        /\ "StartCollectorServer" \in goroutines' => step' > 9
        /\ "handleStream" \in goroutines' => step' > 9
    BY <1>1, <1>2 DEF IInv, Progress
  <2>3. step' > 5 => KeyFound'
    <3>1. CASE step # 5
      BY <1>1, <1>2, <3>1 DEF IInv, Progress, KeyFound, Configured
    <3> QED
      BY <3>1
  <2>4. "RelayerHost" \in objects' => step' > 6
    BY <1>1, <1>2 DEF IInv, Progress
  <2>5. step' <= 5 => pk' = "nil"
    BY <1>1, <1>2 DEF IInv, Progress
  <2> QED
    BY <2>1, <2>2, <2>3, <2>4, <2>5 DEF Progress
<1> QED
  BY <1>3, <1>4 DEF IInv

(* The same for the steps that leave the key alone. *)
LEMMA PlainStep ==
  ASSUME IInv, NEW os \in SUBSET Objects, NEW gs \in SUBSET Goroutines,
         Proceed(os, gs), step < 10, step # 5,
         step = 1 => "SettingsObj" \in os /\ Required \subseteq env,
         step = 2 => "ReportingInstance" \in os,
         step = 4 => "RedisClient" \in os,
         step = 6 => "RelayerHost" \in os,
         "RelayerHost" \in os => step = 6,
         "SettingsObj" \in os => step = 1,
         "StartListening" \in gs => step = 2,
         "ConnectToPeers" \in gs => step = 8,
         "DiscoverAtInterval" \in gs => step = 8,
         "StartCollectorServer" \in gs => step = 9,
         "handleStream" \notin gs
  PROVE  IInv'
<1>1. pk \in {"nil", "configured", "generated"} /\ keyFile \in {"none", "earlier", "own"}
  BY DEF IInv, TypeOK
<1> QED
  BY <1>1, ProceedStep DEF Proceed

LEMMA MainStep == IInv /\ Main => IInv'
<1> SUFFICES ASSUME IInv, Main PROVE IInv'
  OBVIOUS
<1>1. TypeOK
  BY DEF IInv
<1>2. CASE LoadConfig
  <2>1. step = 1
    BY <1>1, <1>2, AtIndex DEF LoadConfig
  <2>2. CASE Required \subseteq env /\ Proceed({"SettingsObj"}, {})
    BY <2>1, <2>2, PlainStep DEF Objects
  <2>3. CASE End("exited")
    BY <2>3, EndStep DEF End
  <2> QED
    BY <1>2, <2>2, <2>3 DEF LoadConfig
<1>3. CASE InitializeReportingService
  <2>1. step = 2
    BY <1>1, <1>3, AtIndex DEF InitializeReportingService
  <2> QED
    BY <1>3, <2>1, PlainStep DEF InitializeReportingService, Objects, Goroutines
<1>4. CASE ConfigureClient
  <2>1. step = 3
    BY <1>1, <1>4, AtIndex DEF ConfigureClient
  <2>2. CASE Proceed({"Client"}, {})
    BY <2>1, <2>2, PlainStep DEF Objects
  <2>3. CASE End("exited")
    BY <2>3, EndStep DEF End
  <2> QED
    BY <1>4, <2>2, <2>3 DEF ConfigureClient
<1>5. CASE NewRedisClient
  <2>1. step = 4
    BY <1>1, <1>5, AtIndex DEF NewRedisClient
  <2>2. CASE Proceed({"RedisClient"}, {})
    BY <2>1, <2>2, PlainStep DEF Objects
  <2>3. CASE End("exited")
    BY <2>3, EndStep DEF End
  <2> QED
    BY <1>5, <2>2, <2>3 DEF NewRedisClient
<1>6. CASE privateKey
  <2>1. step = 5
    BY <1>1, <1>6, AtIndex DEF privateKey
  <2>2. ASSUME NEW key \in {"nil", "configured", "generated"},
               NEW file \in {"none", "earlier", "own"},
               ProceedWithKey({}, {}, key, file), KeyFound'
        PROVE  IInv'
    <3>1. {} \in SUBSET Objects /\ {} \in SUBSET Goroutines
      OBVIOUS
    <3>2. \A name : name \notin {}
      OBVIOUS
    <3> QED
      BY <2>1, <2>2, <3>1, <3>2, ProceedStep, SMTT(60)
  <2>3. UNCHANGED <<env, keyValid>>
    BY <1>6 DEF privateKey, UseConfiguredKey, GenerateKey, Proceed, ProceedWithKey,
                EndWithFile, deployment
  <2>4. keyFile \in {"none", "earlier", "own"}
    BY <1>1 DEF TypeOK
  <2>5. CASE UseConfiguredKey
    <3>1. KeyFound'
      BY <2>3, <2>5 DEF UseConfiguredKey, ProceedWithKey, KeyFound, Configured
    <3> QED
      BY <2>2, <2>4, <2>5, <3>1 DEF UseConfiguredKey
  <2>6. CASE ~Configured /\ ProceedWithKey({}, {}, "generated", "own")
    <3>1. KeyFound'
      BY <2>3, <2>6 DEF ProceedWithKey, KeyFound, Configured
    <3> QED
      BY <2>2, <2>6, <3>1
  <2>7. CASE ~Configured /\ Proceed({}, {})
    <3>1. pk = "nil"
      BY <1>6, <2>1 DEF IInv, Progress
    <3>2. KeyFound'
      BY <2>3, <2>7, <3>1 DEF Proceed, ProceedWithKey, KeyFound, Configured
    <3> QED
      BY <2>2, <2>4, <2>7, <3>1, <3>2 DEF Proceed
  <2>8. ASSUME NEW file \in {keyFile, "none"}, NEW how \in {"exited", "panicked"},
               EndWithFile(how, file)
        PROVE  IInv'
    BY <2>8, EndStep
  <2> QED
    BY <1>6, <2>5, <2>6, <2>7, <2>8 DEF privateKey, GenerateKey
<1>7. CASE newHost
  <2>1. step = 6
    BY <1>1, <1>7, AtIndex DEF newHost
  <2>2. CASE Proceed({"RelayerHost"}, {})
    BY <2>1, <2>2, PlainStep DEF Objects
  <2>3. CASE End("panicked")
    BY <2>3, EndStep DEF End
  <2> QED
    BY <1>7, <2>2, <2>3 DEF newHost
<1>8. CASE ConfigureDHT
  <2>1. step = 7
    BY <1>1, <1>8, AtIndex DEF ConfigureDHT
  <2>2. CASE Proceed({}, {})
    BY <2>1, <2>2, PlainStep
  <2>3. CASE End("exited")
    BY <2>3, EndStep DEF End
  <2> QED
    BY <1>8, <2>2, <2>3 DEF ConfigureDHT
<1>9. CASE discover
  <2>1. step = 8
    BY <1>1, <1>9, AtIndex DEF discover
  <2> QED
    BY <1>9, <2>1, PlainStep DEF discover, Goroutines
<1>10. CASE collect
  <2>1. step = 9
    BY <1>1, <1>10, AtIndex DEF collect
  <2> QED
    BY <1>10, <2>1, PlainStep DEF collect, Goroutines
<1> QED
  BY <1>2, <1>3, <1>4, <1>5, <1>6, <1>7, <1>8, <1>9, <1>10 DEF Main

LEMMA NextIInv == IInv /\ [Next]_vars => IInv'
<1> SUFFICES ASSUME IInv, [Next]_vars PROVE IInv'
  OBVIOUS
<1>1. CASE Main
  BY <1>1, MainStep
<1>2. CASE StartCollectorServer
  <2>1. CASE End("exited")
    BY <2>1, EndStep DEF End
  <2>2. CASE /\ goroutines' = (goroutines \ {"StartCollectorServer"}) \cup {"handleStream"}
             /\ UNCHANGED <<env, wellFormed, keyValid, status, step, objects, pk, keyFile>>
    <3>1. "StartCollectorServer" \in goroutines
      BY <1>2 DEF StartCollectorServer
    <3>2. TypeOK'
      BY <2>2 DEF IInv, TypeOK, Goroutines
    <3>3. Progress'
      BY <2>2, <3>1 DEF IInv, Progress, KeyFound, Configured
    <3> QED
      BY <3>2, <3>3 DEF IInv
  <2> QED
    BY <1>2, <2>1, <2>2 DEF StartCollectorServer, deployment, keyVars
<1>3. CASE Crash
  BY <1>3, EndStep DEF End, Crash
<1>4. CASE Restart
  BY <1>4 DEF IInv, TypeOK, Progress, KeyFound, Configured, Restart, deployment, keyVars
<1>5. CASE UNCHANGED vars
  BY <1>5 DEF IInv, TypeOK, Progress, KeyFound, Configured, vars, deployment, keyVars
<1> QED
  BY <1>1, <1>2, <1>3, <1>4, <1>5 DEF Next

THEOREM Invariance == Spec => []IInv
<1> QED
  BY InitIInv, NextIInv, PTL DEF Spec

(* Types, and settings that are complete once they are set                 *)
(* (settings.go:36-63).                                                    *)
THEOREM TypeCorrect == Spec => []TypeOK
<1>1. IInv => TypeOK
  BY DEF IInv
<1> QED
  BY <1>1, Invariance, PTL

(* With every environment, every failure and every restart, no goroutine   *)
(* runs before the global objects it uses are set (main.go:13-30,          *)
(* relayer.go:131-162, collector.go:81-86).                                *)
THEOREM ObjectsSet == Spec => []SetBeforeUse
<1>1. IInv => SetBeforeUse
  <2> SUFFICES ASSUME IInv, NEW g \in goroutines PROVE Uses[g] \subseteq objects
    BY DEF SetBeforeUse
  <2>1. g \in Goroutines /\ step \in Nat
    BY OrderIs DEF IInv, TypeOK
  <2>2. CASE g = "StartListening"
    BY <2>1, <2>2 DEF IInv, Progress, Uses
  <2>3. CASE g \in {"ConnectToPeers", "DiscoverAtInterval"}
    BY <2>1, <2>3 DEF IInv, Progress, Uses
  <2>4. CASE g = "StartCollectorServer"
    BY <2>1, <2>4 DEF Uses
  <2>5. CASE g = "handleStream"
    BY <2>1, <2>5 DEF IInv, Progress, Uses
  <2> QED
    BY <2>1, <2>2, <2>3, <2>4, <2>5 DEF Goroutines
<1> QED
  BY <1>1, Invariance, PTL

(* The host's identity is the configured one, or the generated one that    *)
(* the file holds, or random for want of a key (relayer.go:109-133).       *)
THEOREM IdentityIsKept == Spec => []IdentityKept
<1>1. IInv => IdentityKept
  <2> SUFFICES ASSUME IInv, "RelayerHost" \in objects PROVE IdentityKept
    BY DEF IdentityKept
  <2>1. step \in Nat /\ step > 6
    BY OrderIs DEF IInv, TypeOK, Progress
  <2> QED
    BY <2>1 DEF IInv, Progress, KeyFound, IdentityKept
<1> QED
  BY <1>1, Invariance, PTL

=============================================================================
