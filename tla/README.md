# Verification of the submission sequencer listener

TLA+ models of the listener: a libp2p node that takes snapshot submissions from
`/collect` streams, puts them on the Redis list `submissionQueue` and counts
them per data market, slot and epoch.  TLC checks the models on small instances;
TLAPS proves the theorems for every value of the constants.

## 1. The system

| Part | Code | State | Operations |
|---|---|---|---|
| Submission collector | `pkgs/service/collector.go` | one goroutine per open `/collect` stream: its buffer and the submission it works on | `handleStream`, `parseSubmissionBytes`, `StartCollectorServer` |
| Redis access | `pkgs/redis/client.go`, `keys.go` | the client (pool, timeouts, retries); the server's list, counters, sets and values | `NewRedisClient`, `Incr`, `SetSubmission`, `SetProcessLog`, `Get`, `Set`, the set helpers |
| Libp2p host | `pkgs/service/relayer.go` | `RelayerHost`, `activeConnections`, the identity key | `ConfigureRelayer`, `handleConnectionEstablished`, `handleConnectionClosed`, `generateAndSaveKey` |
| Relayer discovery | `pkgs/service/discovery.go` | goroutines, a ticker, connections and circuit reservations | `ConfigureDHT`, `ConnectToPeers`, `DiscoverAtInterval` |
| Alerts | `pkgs/common/alerts.go`, `pkgs/service/reporting.go` | a channel of 10000 alerts, one reader | `SendFailureNotification` (twice), `StartListening`, `InitializeReportingService` |
| Settings and start-up | `config/settings.go`, `cmd/main.go` | `SettingsObj`; the global objects the other parts use | `LoadConfig`, `main` |
| Protocol-state access | `pkgs/prost/contract.go` | client and contract instance | `ConfigureClient`, `ConfigureContractInstance`, `MustQuery` |
| Helpers | `pkgs/utils` | none | `InitLogger`, `ExtractField` |
| Contract binding | `pkgs/contract/contract.go` (generated) | an iterator or a watch per use: channel of logs, goroutine, subscription | `FilterX`, `WatchX`, `Next`, `Close`, `Unsubscribe` for 22 events; view and transaction wrappers |
| Submission message | `pkgs/submission.pb.go` (generated) | none | accessors |

How they interact: `main` runs the parts in a fixed order, then blocks.  The
host calls `handleStream` in a new goroutine for each stream and the two
connection callbacks for each connection, all of them concurrently.  Handlers
share nothing in the process; they share the Redis list and the counters.
`ConnectToPeers` runs at once in a goroutine and again at each tick in another,
and reads `activeConnections` that the callbacks write without a lock.  Alerts go
from the Redis helpers through the channel to the reporting goroutine.  `main`
connects the client and the bound contract and goes no further: nothing calls
`MustQuery`, the binding, or a Redis helper other than `Incr`.  These parts are
modelled with every call their signatures allow.

What is hard here:

- **Framing.**  A stream has no message boundaries; `handleStream` takes what one
  `Read` gives it for one message.
- **Three Redis calls per submission** that are neither atomic together nor, with
  timeouts of 200 ms and the client's three retries, executed exactly once
  each.  An attempt whose reply is lost may have been executed or may still be.
- **Stopping anywhere.**  A panic in one handler ends the process between any two
  calls of all the others.
- **Unsynchronised state**: `activeConnections`, and the globals set by `main`.
- **A bounded lossy channel** with a reader that makes an HTTP call per alert,
  and panics when the reporting URL does not parse.
- **Helpers of two commands** (`SetSubmission`) that fail or end between them, beside
  others that remove what they add.
- **Goroutines that end each other**: the forwarder of a watch delivers into a
  sink that nobody may read, while the caller or the node ends it.

What makes each part correct:

- *Collector*: what `LPUSH` accepted is on the queue, in the order in which each
  stream carried it; copies and counts are off only by what retries explain; a
  counter does not live for ever; no handler is stuck in a call.
- *Framing*: no byte is decoded twice; a message that fits the buffer is decoded
  with its own ID, and only a panic in a longer one keeps it from that.
- *Host*: `activeConnections` is the number of open connections (it is not, and
  the model says by how much it can be off).
- *Discovery*: every round ends; a reliable relayer's slot is regained.
- *Start-up*: nobody uses a global object before it is set; a host that can be
  reached gets its stream handler; its identity is the configured one or is saved.
- *Alerts*: raising one never waits; an alert is in exactly one place; what is shown
  is shown once, and in order if in time.
- *Redis helpers*: who reads the set finds every stored submission, and a member
  without a value is explained.
- *Protocol state*: a query ends, soon after its context was cancelled.
- *Contract binding*: the caller gets the events asked for, all of them, in the
  order of the chain; no goroutine or subscription stays behind.

## 2. Modules

| Module | Models | Kind |
|---|---|---|
| `Submissions` | submissions, queue entries, counter keys | data |
| `RedisStore` | the list and the counters in the server (external) | component |
| `Collector` | `handleStream` on all streams, with the client's attempts | composed with `RedisStore` |
| `SubmissionLedger` | what a reader of queue and counters may rely on | abstract specification of `Collector` |
| `FrameReader` | bytes of one stream to submissions | component |
| `Connections` | connection callbacks and `activeConnections` | component |
| `Discovery` | `ConfigureDHT`'s dials, both discovery loops, ticker, relayers | component |
| `Startup` | environment, `main`, identity key, goroutines and the globals they use | component |
| `Alerts` | alert channel and reporter | component |
| `AlertFeed` | what a reader of the reporting channel may rely on | abstract specification of `Alerts` |
| `SubmissionStore` | the Redis helpers, called by any number of goroutines | composed with `Alerts` |
| `ContractEvents` | the 22 events and their indexed fields | data |
| `ContractBinding` | filter iterators and watches of the generated binding | component |
| `EventStream` | what a filter or a watch promises its caller | abstract specification of `ContractBinding` |
| `ProtocolState` | `MustQuery` | component |
| `ContractUse` | a goroutine that queries, filters or watches | composes `ProtocolState` and `ContractBinding` |
| `MCCollector`, `MCFrameReader`, `MCConnections`, `MCDiscovery`, `MCSubmissionStore`, `MCContractUse` | small instances (`Startup` has no constants) | model checking |
| `SubmissionLedgerProofs`, `CollectorProofs`, `FrameReaderProofs`, `ConnectionsProofs`, `DiscoveryProofs`, `StartupProofs`, `SubmissionStoreProofs`, `ContractUseProofs` | theorems | proofs |

`Collector` extends `RedisStore`, which extends `Submissions`; `SubmissionLedger` extends
`Submissions` and is instantiated in `Collector`, whose variables of the same names
implement its own.  `SubmissionStore` extends `Alerts`, which instantiates `AlertFeed`.
`ContractUse` extends `ProtocolState` and `ContractBinding`, which extends
`ContractEvents` and instantiates `EventStream`.  A definition with an underscore in its
name (`AfterCall_PushErrorIgnored`) is a faulty variant of the operator behind it; no
specification uses it.  It documents which bug a property would catch, and `PROJECT.json`
pairs each property with one.

### 2.1 Collector, RedisStore, Submissions

One handler per stream.  `pc[s]` is `closed`, `read`, or the Redis call the
handler is in; `hand[s]` is the entry it works on; `attempt[s]` the attempts
already made of that call.  `handleStream` (collector.go:28-79) corresponds so:

| Action | Code |
|---|---|
| `Open` | the host calls the handler for a new stream |
| `ReadEnd` | `io.EOF` or another read error, lines 33-40 |
| `ReadShort` | `data[36:]` on a shorter chunk panics, line 23 |
| `ReadGarbage` | `Unmarshal` fails, `continue`, lines 49-52 |
| `ReadSubmission` | lines 30-63 up to the call of `LPush` |
| `Answered`, `ReplyLost`, `Overtaken`, `Failed` | one attempt of `LPush`, `Incr` or `Expire` (lines 65, 72, 77); `AfterCall` holds the error paths: a failed `LPush` continues, a failed `Incr` does not keep `Expire` from being called, the result of `Expire` is not looked at |
| `DerefNilRequest` | `Request.SlotId` of a nil request panics, line 72, after the entry was queued |
| `Kill`, `Restart` | the process; `Stop` is what any panic does to all handlers |
| `LateArrival`, `CounterExpires` | the Redis server on its own |

The client is built with read and write timeouts of 200 ms and no `MaxRetries`,
so go-redis' default of three retries is in force (client.go:20-35).  `Retry`
models them.  After an attempt without a reply the command may have been executed
(`ReplyLost`), may still be executed later (`Overtaken`, then `LateArrival`), or
may never arrive (`Failed`, also the errors that are not retried).
What the environment of a behaviour may do is the variable `allowed`, chosen in
`Init` from the constant `Environments`: which calls may lose replies or fail,
whether attempts come late, whether streams carry what the handler panics on,
whether the process is killed, whether counters expire.  One run can so ask
what holds in each of several environments, and the theorems hold for every set of
them.

`accepted` and `executed` are history variables: the entries whose `LPush`
returned without an error, and the attempts the server executed.  An entry
carries the stream and chunk number it came from, so that a copy can be told
from a second, equal submission; the program has no such field.  `MaxReads` bounds
the chunks of all streams together.

### 2.2 SubmissionLedger

The abstract specification has no handlers and no failures.  `Queue` appends an
entry; `Accept` appends one and marks it accepted, only while nothing newer of its
stream is queued; `Tally` adds one to the counter of an accepted entry; `Forget`
drops a counter.  `Collector` refines it (`LedgerSpec`) with `submissionQueue`,
`accepted` and `count` mapped to themselves: an executed `LPush` with a reply is an
`Accept`, one without is a `Queue`, an executed `Incr` a `Tally`, an expiry a
`Forget`, everything else a stutter.  The order property `InOrder` is proved of the
ledger and inherited.

### 2.3 FrameReader

Bytes are positions of the stream; `ends` says where messages end, `pos` how many
bytes were read.  A `Read` returns `n` bytes.  With `segmented` (chosen once,
in `Init`) a read ends where a write of the sender ended or where the buffer is full,
as yamux over TCP does when a sender writes each message at once; without, `n` is
anything from one byte to a buffer, as QUIC or a sender that writes in pieces may
give.  The results of a read are those of `Collector`: `ReadShort` panics,
`ReadSubmission` and `ReadNested` decode, `ReadGarbage` drops, `ReadEnd` leaves, with the
bytes that came with `io.EOF`.

JSON is abstracted to where a chunk lies: a chunk that is a whole message
decodes, and has a request; one strictly inside a message may decode too, because a
nested object or a `null` does; a chunk that crosses an end never does.  What a
nested value decodes to has as a rule no request: it is pushed (collector.go:65), and
`Request.SlotId` panics (line 72).  When the push fails the handler goes on to the next
read (line 68), and so it does when the nested object has a request of its own, so
`ReadNested` leaves `state` at either.  `decoded` is what was decoded and handed to
`LPUSH`.  A panic ends the process: nothing sent behind it on the stream is read.

### 2.4 Connections

`activeConnections++` is a load (`Establish`, or the registered case of `Close`)
and a store (`handleConnectionEstablished`, `handleConnectionClosed`).  libp2p
serialises the two callbacks of one connection and no others.  `Notify` is
relayer.go:145; connections made before it are `missed`.  `Log` is
discovery.go:69.  `overlapped` is history: the callbacks that ran while another did.

### 2.5 Discovery

`pc[l]` is the place of each of the two loops in `ConnectToPeers`: `find`, `range`
(for the next peer of the channel), `check` (`Connectedness`), `connect`,
`reserve`; between rounds `wait` or `done`.  `Fail` is the error path of
`backoff.Retry`: again from `check` while retries are left, or `Leave`.  The ticker's
channel is the Boolean `tick`.  `SlotExpires`, `Disconnect` and `HeardOf`
are the world outside and may happen at any time.  Peers are of three kinds: `Reliable`
ones, `Undialable` ones (the host itself, or without address), and the others,
which may fail or not in each attempt.

### 2.6 Startup

`step` is the place of `main` in `Order`, `objects` the globals set, `goroutines`
what may run beside it.  `End` is `log.Fatal` or a panic; `Restart` starts over
with the same environment, which `Init` takes from all sets of variable names.  The steps
that may end the process do so nondeterministically, except that `LoadConfig` and
`NewRedisClient` decide from the environment.  `ConfigureContractInstance`, whose
error is ignored, is part of the step `ConfigureClient`.  `Uses` lists, for each goroutine,
the objects its code dereferences without a check.

The identity of the host (relayer.go:111-133) is `pk`, and `keyFile` what
`/keys/key.txt` holds.  `UseConfiguredKey` takes `RELAYER_PRIVATE_KEY`; one that
does not decode is logged and leaves `pk` at `nil`, for which libp2p takes a random
key.  `GenerateKey` is `generateAndSaveKey`: no key, a key saved, or the end of the
process at the file, which may have been truncated by then.  That a key cannot be
marshalled (relayer.go:51) is left out: a generated RSA key always can.  The program
writes the file and never reads it.

### 2.7 Alerts, AlertFeed, SubmissionStore

| State or action | Code |
|---|---|
| `channel`, `SendFailureNotification` | `SequencerAlertsChannel` and the `select` with a default, alerts.go |
| `posting`, `Receive` | the loop of `StartListening`; one alert at a time |
| `Posted`, `PostFails`, `PostTimesOut`, `ArrivesLate` | the HTTP call with its timeout of 5 s, reporting.go; every outcome is only logged |
| `RequestPanics` | a URL that does not parse: the error of `http.NewRequest` is logged and the nil request used (reporting.go:40) |
| `call[w]`, `Start` | the helper a goroutine is in, and the command it is at |
| `Answered`, `Overdue`, `GivesUp` | one attempt of that command: executed and answered, left on the wire, or the client's last |
| `Fail` | the alert and the return of the error (`step = 0`) |
| `MarshalFails` | `SetProcessLog`, whose entry does not marshal: an alert, no command |
| `LateArrival`, `ValueExpires` | the Redis server on its own |
| `End`, `Restart` | the process: channel, posts and calls end with it |

An alert is kept down to its number.  `SetSubmission` is `SADD`, then `SET`
(client.go:66-79); each error raises an alert and returns.  `RemoveFromSet`, `Delete` and
`Set` return their errors without one; `GetSetKeys` reads an error as no members.  A
repeated attempt changes nothing that its first execution did not, so attempts are not
counted; what is kept of retries is the wire: `late`, a set, in which a command stands for
one or several equal ones (`LateArrival` may leave it there).  A submission's keys are written
with `SetSubmission` only (`Set` is called for another key, `Other`), which is what the
helpers' names and the set are for.

`AlertFeed` is what whoever reads the alerts is promised: an alert is shown at most
once, after it was raised, and those shown in time are in the order raised.
`Alerts` refines it (`FeedSpec`) with `feed` mapped to `posted` and the late ones
to those that arrived after the reporter gave up.

### 2.8 ContractEvents, ContractBinding, EventStream, ProtocolState, ContractUse

The generated binding repeats, for every event, the same code with other names
and indexed fields: iterator (`Next`, `Error`, `Close`), `FilterX`, `WatchX`,
`ParseX`.  `ContractBinding` translates it once, read on the block of
`EpochReleased` (contract.go:4082-4236); `ContractEvents` has the table of the
22 events.  The other 21 blocks were compared with that one and differ only in name and
indexed fields, so they are mapped to the same definitions through the table.
`EventType` lists the fields of a filter in the order in which the code builds the rules;
`Topics` has them in the order of the ABI (contract.go:51).  That the two agree is what
`DeliveredExact` needs.

A filter is an iterator and the goroutine go-ethereum starts for it, which sends the
logs found into a channel; a watch is the node, which sends, and the binding's goroutine,
which takes a log and delivers it to the caller's sink, or ends (`ForwarderEnds`)
when it is told to quit or the node's subscription failed.  Where several cases of a
`select` are ready any of them is taken, as in Go.  `NextSeesEnd` is the case
of `it.sub.Err()`: the sender has ended, so `Next` goes on with what is left in the channel.
`FilterLogs`, `WatchLogs` and the subscription are go-ethereum's and external.
A refused `FilterX` or `WatchX` only returns an error and is no step.  A log removed
by a reorganisation is told like any other.  A behaviour has one filter or
watch, or queries.

`EventStream` is what the caller sees of it, without channel, goroutine or
subscription: one request, then each event that matches, one by one, always the first
on the chain that was not given yet (`Give`); a filter may be `complete` when none is
left; a stream may end `early` at any time; nothing is given after an end.
`ContractBinding` refines it (`StreamSpec`) with `over` computed from the state
(`Over`): early after an error, the end of the forwarder, or a `Next` that returned false
after a `Close`; complete when `Next` returned false otherwise.

`ProtocolState` is `MustQuery` (prost/contract.go): `backoff.Retry` with growing
waits, the caller's context and a maximum of one minute.  The call of the
contract itself gets empty `CallOpts`, so cancelling the context does not cut it
short; it is looked at between calls only.

## 3. What the runs show

| Run | Checks | Instance | Distinct states |
|---|---|---|---|
| `collector_faults` | `TypeOK`, `CopiesBounded`, `CountBounded`, `AcceptedInOrder`, `LedgerSpec` | two streams, one key, two chunks in all, one retry, every fault but expiring counters | 891697 |
| `collector_environments` | `CountMatchesQueue`, `CountersMortal`, `EverySubmissionCounted`, `EveryTurnEnds` | the same with two epochs; no faults, or lost replies and failures of `LPUSH` and `INCR` and expiring counters | 92428 |
| `collector_market` | `QueueIsOfDataMarket` (violated) | two markets, no faults | - |
| `frames_any` | `TypeOK`, `InOrder`, `FittingDecoded`, `ForeignIdNeedsLongMessage`, `PanicsInLongMessages` | up to three messages of seven lengths, both kinds of reads | 204025 |
| `connections_any` | `TypeOK`, `DriftExplained` | three connections | 3536 |
| `connections_log` | `LogShowsActive` (violated) | three connections | - |
| `discovery_rounds` | `TypeOK`, `RoundsEnd`, `SlotsRegained`, `RoundsRunDown` | a good, a bad and an undialable peer, one bootstrap node, one retry | 33774 |
| `startup_any` | `TypeOK`, `SetBeforeUse`, `IdentityKept`, `ReachableGetsHandler` | all 128 environments, `REDIS_DB` a number or not, the key valid or not, a key file or none | 3304 |
| `startup_documented` | `DocumentedVariablesSuffice` (violated) | the same | - |
| `store_any` | `TypeOK`, `AlertsAccounted`, `StoredIsListed`, `AckedIsStored`, `MemberHasValue`, `FeedSpec` | two goroutines, one key, all eight helpers, a channel for one alert, two alerts, one kind of late command | 670628 |
| `store_live` | `CallsReturn`, `AlertsSettle` | the same without late commands, which no call waits for | 79445 |
| `contract_use` | `TypeOK`, `DeliveredExact`, `FilterComplete`, `OneCallAfterCancel`, `QueriesEnd`, `BindingReturns`, `WatchEnds`, `StreamSpec` | all 22 events, two values per field, every rule or none, up to two logs, a channel for one log | 421795 |

In words:

- A submission is queued at most once per attempt of its `LPUSH` (four times in the
  program), and a counter is at most the accepted submissions of its key times
  the attempts of `INCR`: nothing is counted that is not queued, nothing under a
  wrong key, also when late attempts of a dead process arrive.
- Without faults, a counter is exactly the queued submissions of its key, but
  for handlers between the two calls, and everything that is read is counted.  With
  lost replies too, a handler in a call returns to its stream.
- A reader of the queue meets the accepted submissions of one stream in the order of the
  stream: before any copy of a newer entry stands a copy of each older accepted one.
- A failed `INCR` must not skip `EXPIRE`, or a counter whose reply was lost would
  stay for ever.  The property excludes what does leave one behind: a failing `EXPIRE`, a
  late `INCR`, and a process that dies between the two calls.
- When reads stop where writes ended, a message of up to 1024 bytes is decoded with
  its own ID, or it came with or after the end of the stream, or an earlier, longer
  message has ended the process.  There are two ways it can (`PanicsInLongMessages`): its
  tail is shorter than an ID, or it has over 2048 bytes and a full buffer from its middle
  decodes to a submission without a request, which is queued under a wrong ID first.
  Any other long message is lost without harm to the next one.  When reads stop
  anywhere, order is all that is left.
- Two overlapping callbacks can leave `activeConnections` wrong for good, by one
  for each callback that overlapped.
- A relayer that never answers keeps neither loop from ending its round and no
  other relayer from getting its slot back; a connected relayer is asked for a slot
  again each round.  Within a round a loop only runs down the relayers it found and
  their retries: nothing the other loop or the network does sends it back.
- The host's identity is the configured one in every life of the process, or that
  of the key file; it is random only when the configured key does not decode or none
  could be generated.  It is not kept *over* restarts without a configured
  key: nothing reads the file.
- Whatever the helpers, their retries and crashes do, every submission with a
  value is in the set or was removed, because `SADD` comes first; a member without a
  value is one whose `SetSubmission` is under way, failed with an alert, or ended
  with the process, or one that `AddToSet` listed, or whose value expired or was deleted.
- Every alert raised is in exactly one of: channel, reporter, wire, shown, dropped,
  lost.  A helper returns although the channel is full and the reporter hangs.
- For each of the 22 events, whatever logs and rules, the caller gets exactly the
  events that match field by field, in order and without gaps; when `Next` returns
  false with no error and no `Close` in between, it has got them all.  To the caller a
  filter or a watch is a plain stream of events with at most one end: a later `Close`,
  `Next` or error does not reopen it or change a complete end into an early one.
- `Next`, `Close` and `Unsubscribe` return, and a watch that is told to quit, or whose
  subscription failed, ends in the middle of a delivery that nobody takes.
- After its context is cancelled, a query begins at most one more call, and it
  ends within a minute and a call.

Where a run disagrees with what the repository says:

- `collector_market`: README.md:23 says that `DATA_MARKET_ADDRESS` is the data
  market "this listener is for"; submissions of every market are queued and counted.
- `connections_log`: discovery.go:69 logs "Active connections"; after a lost
  update the number is wrong even when no callback runs.
- `startup_documented`: README.md:19 lists the required variables, and so does
  `env.example`; `LoadConfig` also requires `REDIS_DB` and reads
  `RELAYER_RENDEZVOUS_POINT`, and the missing one is reported as
  `RENDEZVOUS_POINT` (settings.go:45).

Two smaller ones need no run: the comment at discovery.go:24 speaks of ten
minutes and the ticker of relayer.go:162 has five; and collector.go:22 calls the
rest of a chunk "the submission JSON", which section 2.3 shows it need not be.

### Bounds

| Bound | In the code | In the runs | Why it is enough |
|---|---|---|---|
| `MaxChunks` | none | 2 per stream | order, reuse of a handler and a counter used twice need two |
| `MaxReads` | none | 2 | two chunks of one stream, or one of each: every interleaving of two turns, and every order within a stream |
| `MaxRetries` of the collector | 3 | 1 | a first and a last attempt: each branch of `TimeOut`; more retries repeat the step from a first attempt |
| `MaxRetries` of discovery | 3 | 1 | as above |
| `IdLen`, `BufLen` | 36, 1024 | 2, 5 | lengths 3, 5, 6, 7, 9, 11, 13 are below, at and above one buffer and two, with tails shorter than, equal to and longer than an ID |
| `MaxMessages` | none | 3 | a message before and one behind a lost one |
| `Capacity` | 10000 | 1 | empty and full are both reached with one alert; a second is dropped |
| `MaxAlerts` | none | 2 | one in the channel or with the reporter while another is dropped, posted, timed out or lost; order needs two |
| `MaxLate` | none | 1 or 0 | one command, any number of times, that arrives after the call, the process or another goroutine's `DEL` |
| `Workers`, `Keys` | none | 2, 1 | two goroutines on the same key; keys do not touch each other |
| `Buffer` | 128 | 1 | a sender that waits, a channel with a log left in it when the sender ends |
| `MaxLogs` | none | 2 | order and gaps need two, with logs of other events among them |
| `Values`, `Filters` | any | {1, 2}; any value, or 1 | a field that matches, one that does not, one nobody asked about; with two values in each field exchanged positions show |
| `Conns` | none | 3 | two that overlap and one more before, between or after |

The theorems of section 4 hold for every value of these constants.
`collector_faults` and `connections_any` use the symmetry of streams and of
connections; no liveness is checked with symmetry.  Deadlock is checked everywhere but in
`frames_any`, where a stream ends.

### Fairness

- `Collector`: `WF(Call(s))` for each handler.  A ready goroutine is
  scheduled, and a call returns after its timeouts.  Nothing is assumed of
  streams, restarts, late attempts or expiry.  `EverySubmissionCounted` says
  nothing of environments with faults: there it is false, and the ledger says what
  remains.
- `Discovery`: weak fairness of the loops, the dials, the ticker; strong
  fairness of a successful `FindPeers`.  Dials and streams time out in libp2p, a
  lookup closes its channel, `backoff.Retry` stops after the retries.  That
  lookups do not fail for ever and do find a reliable relayer is an assumption about
  the network.  `SlotsRegained` also assumes that the DHT knows a node (`routed`).
- `Startup`: weak fairness of `main` and of the goroutine that registers
  the handler; `ConfigureDHT` ends because its dials do.
- `SubmissionStore`: `WF(Return(w))`, since the client bounds attempts and waits.
  `AlertsSettle` assumes `WF(Reporter)` itself, since posts have a timeout;
  `CallsReturn` must hold without it.  Nothing is assumed of server or process.
- `ContractUse`: weak fairness of the end of a contract call, of the timer and the
  passing of the minute, of the sender, of the forwarder *without* its delivery, and of a
  caller's waiting `Next`, `Close` or `Unsubscribe`.  The node, the reader of the
  sink and what the caller does next are not fair.  That a contract call ends is an
  assumption about the RPC node: `MustQuery` gives it no timeout of its own.

## 4. What is proved

All theorems are of the safety part `Spec` and hold for all values of the
constants that satisfy the named `ASSUME`s: `NilAssumption`, `MaxChunksAssumption`,
`RetriesAssumption`, `EnvironmentsAssumption`; `LengthsAssumption`,
`LayoutsAssumption`; `ConnsAssumption`; `PeersAssumption`; `CapacityAssumption`,
`StoreAssumption`, `IdleAssumption`; `BindingAssumption`.  The sets of streams,
markets, slots, epochs, peers, goroutines, keys and values may be of any size.

**Collector** (`CollectorProofs`).  `TypeOK` and `CountBounded` are not inductive:
a late `INCR` may raise a counter at any time, so the invariant has to say what may be
on the wire.  `IInv` adds: what a handler holds is the chunk read last, accepted if it is
past `LPush` (`HandOK`); everything queued, accepted, executed or on the wire was
read (`PastOK`); the wire carries only calls that may fail, of accepted entries
(`LateOK`); an attempt is executed at most once, because one that was executed is not
on the wire and a handler is past all attempts it made (`OnceEach`); a counter
is at most the executed increments of its key (`CountOK`), and an entry has at most as many
copies as its pushes were executed (`QueueOK`).  Each call has at most `Tries` attempts, so
there are at most `Tries("Incr")` increments and `Tries("LPush")` pushes of an
entry: `CountersBounded` and `FewCopies`.

`MortalCounters` and `MatchingCounts` are about environments that stop no handler in
the middle of a turn; for them the wire stays empty and nobody panics
(`UndisturbedOK`).  A counter that has no time to live was incremented by a handler that is
still to call `EXPIRE`; without faults, each step moves one submission between
"queued", "queued and in `INCR`" and "counted" and keeps the balance (`AllBalanced`),
with only finitely many handlers in `INCR` at any time (`FewUncounted`).

**Refinement.**  `Implementation` proves `Spec => LedgerSpec` from the same
invariant: the entry in a handler's hand is newer than anything of its stream, which
is the guard of `Accept` (`HandIsNewest`), and it is accepted before it is counted,
which is the guard of `Tally`.  Of the ledger, `LedgerInOrder` proves the order,
`LedgerKeepsAccepted` that what is accepted is queued, and `LedgerOnlyGrows` that no step
takes an entry or an acceptance back; `Ordered`, `NothingMissing` and `NothingLost`
transport them to the collector, whose `accepted` and `submissionQueue` are the ledger's.

`PushedOnce` says that the queue holds of every stream exactly the accepted submissions,
each once and in the order read, in an environment whose `LPUSH` neither fails nor loses
a reply (`ExactlyOnce`); `INCR` and `EXPIRE` may fail in any way, and the process may
panic or be killed between calls.  A process killed between the execution of an `LPUSH`
and its reply is a lost reply, which the hypothesis excludes: there a submission is queued
and not accepted.  By `LateOK` no push is then on the wire; the strengthening `InStep`
adds that a handler about to push holds an entry newer than all of its stream on the queue.
`RunDown` is the safety core of `EveryTurnEnds`: each step leaves a handler in a call
where it is, or takes from the attempts its turn has left (`AttemptsLeft`, at most
3 * (`MaxRetries` + 1)) with the same entry in hand (`TurnsRunDown`).

**FrameReader** (`FrameReaderProofs`).  `OrderInv` adds to `InOrder` that what was
decoded lies behind `pos`.  For segmented reads, `SegmentInv` adds that the next byte
lies a whole number of buffers behind the start of its message (`OnBufferEdge`): so the
handler is in step with every message that fits, and a nested decoding or a
short chunk can only be in a long one, and a panic that keeps later messages from being
read is in a long one too.  `DecodedInOrder`,
`FittingMessagesDecoded`, `ForeignIdsAreOfLongMessages` and `PanicsAreInLongMessages`
follow, and `TypeCorrect` beside them.  `FittingStreamsDecoded` is about streams of
fitting messages only: `OneByOne` needs that a read from the start of such a message takes
all of it and nothing more (`NextMessageWhole`), so that what is decoded is message 1, 2,
3 and so on, with nothing skipped and no panic.

**Connections** (`ConnectionsProofs`).  `DriftBounded`: each running callback will
store a value that is as close to the right one as the callbacks that have
overlapped and ended allow (`Near`).  A callback that ran alone stores a right value; one that
overlapped may be off by one more, and is then in `Ended` itself.  The type of the
count needs its own argument (`CountsInv`: a value counts callbacks that have
ended, none twice).  `LogBounded` carries the bound to the number a round logs
(`LogWithinDrift`): it is a value the counter had, so a process whose callbacks never ran
together logs the right one.

**Discovery** (`DiscoveryProofs`): `TypeOK` is inductive.  It says that a loop works
only on dialable peers and counts the tries of each from zero.  `RunDown`
(`Spec => RoundsRunDown`) is the safety core of `RoundsEnd`.  A loop in a round takes a
peer out of `todo` and never gets one back; for the peer in hand, each step leaves less to
do (`WorkLeft`: a check, a connection and a reservation for each try that is left, so
3 * (`MaxRetries` + 1) steps at most); and the round is left only when no peer is left over.
The other loop, the ticker and the network change none of this.

**Startup** (`StartupProofs`).  `SetBeforeUse` and `IdentityKept` need `Progress`: which
objects are set, which goroutines run and whether a key was found at each step of
`main`.

**SubmissionStore** (`SubmissionStoreProofs`).  For the alerts, `AlertInv` says
where each is (`AtOnePlace`, which `AccountedIsOnePlace` shows to be
`AlertsAccounted`) and in which order they pass (`OrderOK`: shown in time before being
posted before in the channel); that makes every step of the reporter a step of the
feed, so `FeedImplemented` (`Spec => FeedSpec`) and `FeedIsInOrder`.  For the
store, `StoreInv` says of calls and commands on the wire that a `SET` is only sent
for a key that was listed (`CallOK`, `LateOK`) and that whatever is listed, or is about
to be by a late `SADD`, is `Covered`; `StoredAreListed`, `AckedAreStored` and
`MembersHaveValues` are its parts.  `RunDown` is the safety core of `CallsReturn`: each
step leaves a call as it is, or with fewer commands to send (`StepsLeft`) for the same key.

**ContractUse** (`ContractUseProofs`).  `RulesFollowTopics` shows, event by event,
that rules are in the order of the topics, so what is found is what is wanted
(`FoundIsWanted`).  `ControlInv` says who is at what; `LineInv` that delivered, in
hand and in the channel lie in this order on the chain; `CoverInv` that a log once sent is
in one of these places, or the iterator or watch has stopped behind it; `EndInv`
that a sender left alone ended behind the last log, and that `Next` says "no
more" on an empty channel.  `DeliveriesAreExact` and `FiltersAreComplete` follow, and
from `QueryInv` `CancelledSoon`.  `StreamImplemented` (`Spec => StreamSpec`) maps each
step to the stream: the head of the channel, or the log in hand, is the first event left
(`HeadIsFirstLeft`, by `LineInv` and `CoverInv`); "no more" is `Complete` or
`EndEarly` by whether the sender was told to quit (`NoneStream`); and once a stream
is complete the sender has ended, so `Close` tells nobody to quit and the end
stays what it was (`HiddenStream`).  `NothingIsLeft` is the safety core of `WatchEnds` and
`BindingReturns`: an ended watch has no subscription and nothing in hand, and who waits in
`Close` or `Unsubscribe` waits for a goroutine that is told to quit or has ended.

Only model-checked: the liveness properties (`EverySubmissionCounted`, `EveryTurnEnds`,
`RoundsEnd`, `SlotsRegained`, `ReachableGetsHandler`, `CallsReturn`, `AlertsSettle`,
`QueriesEnd`, `BindingReturns`, `WatchEnds`), whose proofs need `ENABLED`, which the
prover does not handle.  Every invariant that a passing run checks is proved, and so are
the action property `RoundsRunDown` and all three refinements.  That a measure cannot grow
is proved (the three `RunDown`s); that it does fall, which takes fairness, is TLC's part.
`AcceptedAreQueued`, `NothingTakenBack`, `ExactlyOnce`, `TurnsRunDown`, `OneByOne`,
`LogWithinDrift`, `CallsRunDown` and `NothingLeft` are stated for the theorems; they can
be added to the configuration of their component's run, whose instance satisfies them.
Violated properties have counterexamples from TLC and no proof.

## 5. What is not modelled

- **View and transaction wrappers of the binding** (contract.go:203-2843): each
  hands its arguments to go-ethereum and converts the result; no state, no order,
  no decision.  Their one use here, a query, is a call that gives a value or an error.
- **Protobuf accessors** (`submission.pb.go`): no decision but the nil check that
  `Submissions` takes over.
- **`ExtractField`** (utils): a pure function on a string, without a caller and without
  state; it slices past the end of a string that stops right behind the colon.
- **`InitLogger`**: sets up log output only.  Its message says that INFO is the default
  level, and it sets DEBUG.
- **Limits of the host** (resource and connection manager, relayer.go): values handed
  to libp2p, which enforces them.
- **`GetSetKeys` reading an error as an empty set**: the helper is a call of
  `SubmissionStore`, but who would use its answer is not in the code.
- **A DHT that knows nobody**: `ConfigureDHT`'s dials are not repeated; whether a node
  ever becomes known is up to the network, and `SlotsRegained` starts from there.
- The pool of 1000 Redis connections is not a state of its own: running out of it is one
  of the errors of `Failed`.
- Reader of the queue: another program; nothing here pops the list.

## 6. What is left

In this order:

1. `FrameReader` composed with `Collector`: end-to-end order from bytes to
   queue, with the reads of `Collector` refined by those of `FrameReader`.
2. `ExtractField` as an operator checked against a reference definition, should it
   get a caller.
3. Several filters and watches at once on one node.
