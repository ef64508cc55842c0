------------------------------- MODULE Startup -------------------------------
(***************************************************************************)
(* From the environment variables to a listener that serves: what main     *)
(* does in which order, where it ends the process, and which of the global *)
(* objects the goroutines it starts find set.  A deployment starts the     *)
(* process again, with the same environment, after it ended.               *)
(***************************************************************************)
EXTENDS Naturals, Sequences, FiniteSets

(* Variables that are required, by the name under which LoadConfig reads   *)
(* them, the key, which is optional, and a name that only the README has.  *)
Required == {"PROST_RPC_URL", "PROTOCOL_STATE_CONTRACT",
             "RELAYER_RENDEZVOUS_POINT", "DATA_MARKET_ADDRESS", "REDIS_DB"}

Names == Required \cup {"RELAYER_PRIVATE_KEY", "RENDEZVOUS_POINT"}

Objects == {"SettingsObj", "ReportingInstance", "Client", "RedisClient", "RelayerHost"}

Goroutines == {"StartListening", "ConnectToPeers", "DiscoverAtInterval",
               "StartCollectorServer", "handleStream"}

VARIABLES
  env,         \* the variables that have a value
  wellFormed,  \* whether the value of REDIS_DB is a number
  keyValid,    \* whether the value of RELAYER_PRIVATE_KEY decodes to a key
  status,      \* of the process
  step,        \* of main, an index of Order
  objects,     \* the global objects that are set
  goroutines,  \* what may run beside main
  pk,          \* the key ConfigureRelayer has for the host
  keyFile      \* what /keys/key.txt holds: the key this process generated,
               \* that of an earlier one, or no key

deployment == <<env, wellFormed, keyValid>>
keyVars == <<pk, keyFile>>
vars == <<deployment, status, step, objects, goroutines, keyVars>>

Init ==
  /\ env \in SUBSET Names
  /\ wellFormed \in BOOLEAN
  /\ keyValid \in BOOLEAN
  /\ status = "running"
  /\ step = 1
  /\ objects = {}
  /\ goroutines = {}
  /\ pk = "nil"
  /\ keyFile \in {"none", "earlier"}

(* main, with the parts of ConfigureRelayer that can end the process.  The *)
(* last step waits for ever: nothing calls Done.                           *)
Order_CollectorFirst ==
  <<"LoadConfig", "InitializeReportingService", "ConfigureClient", "privateKey",
    "newHost", "ConfigureDHT", "discover", "collect", "NewRedisClient", "Wait">>

Order_CollectorLast ==
  <<"LoadConfig", "InitializeReportingService", "ConfigureClient", "NewRedisClient",
    "privateKey", "newHost", "ConfigureDHT", "discover", "Wait", "collect">>

Order ==
  <<"LoadConfig", "InitializeReportingService", "ConfigureClient", "NewRedisClient",
    "privateKey", "newHost", "ConfigureDHT", "discover", "collect", "Wait">>

-----------------------------------------------------------------------------

At(name) == status = "running" /\ Order[step] = name

ProceedWithKey(os, gs, key, file) ==
  /\ step' = step + 1
  /\ objects' = objects \cup os
  /\ goroutines' = goroutines \cup gs
  /\ pk' = key
  /\ keyFile' = file
  /\ UNCHANGED <<deployment, status>>

Proceed(os, gs) == ProceedWithKey(os, gs, pk, keyFile)

(* The file outlives the process, and is then one of an earlier process. *)
EndWithFile(how, file) ==
  /\ status' = how
  /\ step' = 1
  /\ objects' = {}
  /\ goroutines' = {}
  /\ pk' = "nil"
  /\ keyFile' = IF file = "own" THEN "earlier" ELSE file
  /\ UNCHANGED deployment

End(how) == EndWithFile(how, keyFile)

LoadConfig_NoRedisDB ==
  /\ At("LoadConfig")
  /\ IF Required \ {"REDIS_DB"} \subseteq env THEN Proceed({"SettingsObj"}, {}) ELSE End("exited")

LoadConfig ==
  /\ At("LoadConfig")
  /\ IF Required \subseteq env THEN Proceed({"SettingsObj"}, {}) ELSE End("exited")

InitializeReportingService ==
  /\ At("InitializeReportingService")
  /\ Proceed({"ReportingInstance"}, {"StartListening"})

(* The RPC client cannot be made of the URL. *)
ConfigureClient ==
  /\ At("ConfigureClient")
  /\ Proceed({"Client"}, {}) \/ End("exited")

NewRedisClient ==
  /\ At("NewRedisClient")
  /\ IF wellFormed THEN Proceed({"RedisClient"}, {}) ELSE End("exited")

(* A configured key that does not decode, and one that could not be        *)
(* generated, are only logged: there is no key then.  A generated key is   *)
(* written to a file that nothing reads; that it could not be written ends *)
(* the process.  Writing truncates the file first.                         *)
Configured == "RELAYER_PRIVATE_KEY" \in env

UseConfiguredKey ==
  Configured /\ ProceedWithKey({}, {}, IF keyValid THEN "configured" ELSE "nil", keyFile)

GenerateKey ==
  ~Configured /\ ( \/ ProceedWithKey({}, {}, "generated", "own")
                   \/ Proceed({}, {})
                   \/ \E file \in {keyFile, "none"}, how \in {"exited", "panicked"} :
                        EndWithFile(how, file) )

privateKey_NotSavedOnlyLogged ==
  /\ At("privateKey")
  /\ \/ UseConfiguredKey
     \/ GenerateKey
     \/ ~Configured /\ ProceedWithKey({}, {}, "generated", keyFile)

privateKey == At("privateKey") /\ (UseConfiguredKey \/ GenerateKey)

(* The error of libp2p.New is not looked at: without a host, the next      *)
(* statement panics.                                                       *)
newHost ==
  /\ At("newHost")
  /\ Proceed({"RelayerHost"}, {}) \/ End("panicked")

ConfigureDHT ==
  /\ At("ConfigureDHT")
  /\ Proceed({}, {}) \/ End("exited")

discover ==
  /\ At("discover")
  /\ Proceed({}, {"ConnectToPeers", "DiscoverAtInterval"})

collect ==
  /\ At("collect")
  /\ Proceed({}, {"StartCollectorServer"})

(* The goroutine that registers the handler, and from then on a handler    *)
(* for each stream.                                                        *)
StartCollectorServer ==
  /\ "StartCollectorServer" \in goroutines
  /\ IF "RelayerHost" \in objects
     THEN /\ goroutines' =
               (goroutines \ {"StartCollectorServer"}) \cup {"handleStream"}
          /\ UNCHANGED <<deployment, status, step, objects, keyVars>>
     ELSE End("exited")

(* handleStream panics, or the process is killed. *)
Crash == status = "running" /\ End("panicked")

Restart ==
  /\ status # "running"
  /\ status' = "running"
  /\ UNCHANGED <<deployment, step, objects, goroutines, keyVars>>

Main ==
  \/ LoadConfig \/ InitializeReportingService \/ ConfigureClient
  \/ NewRedisClient \/ privateKey \/ newHost \/ ConfigureDHT
  \/ discover \/ collect

Next == Main \/ StartCollectorServer \/ Crash \/ Restart

Spec == Init /\ [][Next]_vars

(* main and the goroutine it started run when they can; dials of bootstrap *)
(* nodes, the one thing main waits for on its way, end.                    *)
FairSpec == Spec /\ WF_vars(Main) /\ WF_vars(StartCollectorServer)

-----------------------------------------------------------------------------
(* Properties. *)

(* Every variable has its type, and settings are never set without a value *)
(* for all that is required.                                               *)
TypeOK ==
  /\ env \subseteq Names
  /\ wellFormed \in BOOLEAN /\ keyValid \in BOOLEAN
  /\ status \in {"running", "exited", "panicked"}
  /\ step \in 1..Len(Order)
  /\ objects \subseteq Objects
  /\ goroutines \subseteq Goroutines
  /\ pk \in {"nil", "configured", "generated"}
  /\ keyFile \in {"none", "earlier", "own"}
  /\ "SettingsObj" \in objects => Required \subseteq env

(* The global objects that the code of a goroutine uses unchecked. *)
Uses ==
  [g \in Goroutines |->
     CASE g = "StartListening"       -> {"ReportingInstance"}
       [] g = "ConnectToPeers"       -> {"SettingsObj", "RelayerHost"}
       [] g = "DiscoverAtInterval"   -> {"SettingsObj", "RelayerHost"}
       [] g = "StartCollectorServer" -> {}
       [] g = "handleStream"         -> {"RedisClient"}]

(* No goroutine runs before the objects it uses are set, although streams  *)
(* and callbacks come as soon as a relayer finds the host: a handler finds *)
(* the Redis client, a round of discovery the host.                        *)
SetBeforeUse == \A g \in goroutines : Uses[g] \subseteq objects

(* The key that main goes on with once it has looked for one. *)
KeyFound ==
  IF Configured THEN pk = (IF keyValid THEN "configured" ELSE "nil")
                ELSE pk = "nil" \/ (pk = "generated" /\ keyFile = "own")

(* The identity of a host that relayers can reach is the configured one,   *)
(* in every life of the process, or can be had from the key file; without  *)
(* a key libp2p takes a random identity, which is lost with the process,   *)
(* and that happens only when the configured key does not decode or none   *)
(* could be generated.                                                     *)
IdentityKept == "RelayerHost" \in objects => KeyFound

(* A host that relayers can reach gets its "/collect" handler, or the      *)
(* process ends: it does not go on refusing streams.                       *)
ReachableGetsHandler ==
  "RelayerHost" \in objects ~> ("handleStream" \in goroutines \/ status # "running")

(* "Ensure the following required variables are filled", says README.md,   *)
(* and names four: with these, LoadConfig does not end the process.        *)
Documented == {"RENDEZVOUS_POINT", "PROTOCOL_STATE_CONTRACT", "PROST_RPC_URL",
               "DATA_MARKET_ADDRESS"}

DocumentedVariablesSuffice ==
  [][Documented \subseteq env /\ LoadConfig => status' = "running"]_vars

=============================================================================
